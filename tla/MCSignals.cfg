CONSTANTS
  MaxProcs = 3
  WaitKinds = {"child"}
  Sigs = {2, 9}
  Timeouts = {}
  MaxWaiters = 0
SPECIFICATION Spec
PROPERTIES
  
  SignalDelivered
  RunnableRuns
  EndedLeaves
