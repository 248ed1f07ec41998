CONSTANTS
  Procs = {p1, p2}
  NSlots = 2
  NPages = 2
  Blocks = {b1}
  Data = {d1, d2}
  Nothing = Nothing
  MaxFaults = 1
SPECIFICATION Spec
INVARIANTS
  TypeOK
  SleeperHasTask
  ReadGetsBlock
  
PROPERTIES
  RequestsEnd
CHECK_DEADLOCK FALSE
