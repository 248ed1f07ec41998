CONSTANTS
  MaxProcs = 2
  Pipes = {0}
  FdSize = 2
  BufferSize = 3
  Bytes = {0, 1}
  MaxChunk = 2
  MaxSignals = 1
  OverreadAtWrap = FALSE
  MaxCommands = 5
  Capacity = 2
  MaxFds = 6
SPECIFICATION PartsSpec
VIEW View
INVARIANTS
  OpenCountExact
  AsleepIsListed
  EndIsEnd
  JobHandedOver
PROPERTIES
  PutWakesReaders
  
  
CHECK_DEADLOCK FALSE
