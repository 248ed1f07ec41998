CONSTANTS
  Procs = {p1, p2}
  Names = {a, b}
  NoName = NoName
  Bytes = {0, 1}
  NList = 2
  BlockSize = 2
  MaxWrite = 1
  MaxWrites = 2
  MaxCrashes = 1
  Serial = TRUE
  LineLength = 3
  Capacity = 4
  MaxKeys = 6
  Zones <- MemoryZones
  PageSize = 16
  EntrySize = 4
  MemoryCap = 12
  Columns = 2
  Lines = 3
  Drain = 3
  Room = 4
  Letters = {"x"}
  Blank = Blank
  MaxText = 8
  Symbols <- Characters
  Arguments <- ExportArguments
  InitialEnvs <- ShellEnvs
  Files <- Directories
  InWorkdir = TRUE
  Program <- ProgramName
  MaxEnv = 3
SPECIFICATION PartsSpec
SYMMETRY Symmetry
INVARIANTS
  FilesOnDisk
  HeapIntact
  PagesHandedOut
  
  ScreenShowsText
  ArchiveReadsBack
  WorkdirIsWalk
  JobIsLine
  RunsFirstOnPath
  NumbersReadBack
PROPERTIES
  FilesChangeByWriters
CHECK_DEADLOCK FALSE
