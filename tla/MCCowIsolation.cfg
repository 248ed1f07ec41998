CONSTANTS
  MaxProcs = 2
  Pages = {1, 2, 3, 4, 5, 6, 7}
  HeapStart = 0
  StackBase = 1
  StackTop = 1
  StackWindow = 1
  Words = {0, 1}
  SharedCopyOut = FALSE
SPECIFICATION Spec
PROPERTIES
  OnlyOwnStores
  PrivateMemory
CHECK_DEADLOCK FALSE
