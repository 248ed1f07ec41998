CONSTANTS
  MaxProcs = 3
  WaitKinds = {"child", "any"}
  Sigs = {}
  Timeouts = {0, 1}
  MaxWaiters = 1
SPECIFICATION Spec
INVARIANTS
  SleeperHasWaiter
  
