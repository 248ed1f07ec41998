CONSTANTS
  MaxProcs = 2
  Pages = {1, 2, 3, 4, 5, 6, 7, 8, 9}
  HeapStart = 0
  StackBase = 1
  StackTop = 2
  StackWindow = 2
  Words = {0}
  SharedCopyOut = TRUE
SPECIFICATION Spec
INVARIANTS
  OwnersAgree
  WritableIsPrivate
CHECK_DEADLOCK FALSE
