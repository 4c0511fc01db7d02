SPECIFICATION Spec
CONSTANTS
  Thread = {t1, t2}
  Regions = 3
  MapCount = 5
  HeapBatch = 2
  CacheLimit = 2
  Transfer = 1
  GlobalLimit = 1
  Requests <- MCRequests
  MaxAllocs = 3
  MaxInits = 3
  None = None
SYMMETRY MCSymmetry
INVARIANTS HeapsKept Conservation
PROPERTY LeakFree
CHECK_DEADLOCK FALSE
