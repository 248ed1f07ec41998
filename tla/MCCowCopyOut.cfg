CONSTANTS
  MaxProcs = 2
  Pages = {1, 2, 3, 4, 5, 6, 7, 8}
  HeapStart = 0
  StackBase = 0
  StackTop = 0
  StackWindow = 1
  Words = {0, 1}
  SharedCopyOut = TRUE
SPECIFICATION Spec
PROPERTY
  OnlyOwnStores
CHECK_DEADLOCK FALSE
