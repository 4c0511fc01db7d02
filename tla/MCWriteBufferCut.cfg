SPECIFICATION Spec
CONSTANTS
  Byte <- MCByte
  Words <- MCWords
  Strs <- MCStrs
  Kinds = {"Heap"}
  Sizes = {0, 1, 2}
  Cuts <- CutHeap
  IntBits = 4
  LongBits = 4
  Null = Null
PROPERTY BehavesAsLog
