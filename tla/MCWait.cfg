CONSTANTS
  MaxProcs = 4
  WaitKinds = {"child"}
  Sigs = {}
  Timeouts = {}
  MaxWaiters = 0
SPECIFICATION Spec
INVARIANTS
  TypeOK
  ListIntact
  CurrentKeepsItsStack
  KernelKeepsRunning
  NoLostWakeup
  
PROPERTY
  WaitReturns
