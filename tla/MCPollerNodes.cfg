SPECIFICATION Spec
CONSTANTS
  Fd = {f1, f2}
  PNode = {p1, p2, p3}
  Null = Null
INVARIANTS EntryOwnsSocket PutIsFresh ClosedOnce
PROPERTY CallbackComes
CHECK_DEADLOCK FALSE
