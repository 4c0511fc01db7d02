SPECIFICATION BuffersSpec
CONSTANTS
  Byte <- MCAllBytes
  Words <- MCWords
  Strs <- MCStrs
  Kinds = {"Heap", "Fixed", "Default", "Reserved"}
  Sizes = {0, 1, 2}
  Cuts <- SpareHeap
  Datas <- MCDatas
  Seps <- MCSeps
  IntBits = 3
  LongBits = 4
  Null = Null
VIEW AllButCalls
INVARIANTS IndicesOK ArenasOwned RoundTrip
PROPERTIES BehavesAsLog ReadsInOrder FirstSeparator
