CONSTANTS
  Zones <- BootZones
  PageSize = 8
  EntrySize = 3
  MemoryCap = 12
SPECIFICATION PagesSpec
INVARIANT TableReserved
CHECK_DEADLOCK FALSE
