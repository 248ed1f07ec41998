CONSTANTS
  MaxProcs = 3
  WaitKinds = {}
  Sigs = {}
  Timeouts = {0, 1}
  MaxWaiters = 2
SPECIFICATION Spec
INVARIANT
  SleeperHasWaiter
