CONSTANTS
  MaxProcs = 4
  WaitKinds = {"any"}
  Sigs = {}
  Timeouts = {}
  MaxWaiters = 0
SPECIFICATION Spec
INVARIANT
  KernelKeepsRunning
