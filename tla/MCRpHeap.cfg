SPECIFICATION Spec
CONSTANTS
  Thread = {t1, t2}
  Heap = {h1, h2}
  Spans = 2
  BlockCount = 3
  PageBlocks = 2
  MaxMallocs = 4
  MaxInits = 3
  None = None
INVARIANTS BlocksOK NoLateTouch SpansFound Reclaimed
PROPERTY CallsEnd
CHECK_DEADLOCK FALSE
