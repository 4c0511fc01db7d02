SPECIFICATION Spec
CONSTANTS
  Thread = {t1, t2, t3}
  Port = {p1, p2}
  Handle = {h1, h2}
  MaxCalls = 2
  Null = Null
  TreeSize = 9
INVARIANTS RefsExact NoUseAfterFree TreeLive NeverHappens
PROPERTIES CloseReturns TreeOps
CHECK_DEADLOCK FALSE
