SPECIFICATION Spec
CONSTANTS
  Sock = {s1, s2}
  Obj = {o1, o2}
  Thread = {t1}
  Masks <- TwoMasks
  Conditions <- Failure
  GroupSize = 1
  MaxEvents = 1
  MaxCtls = 2
  MaxErrors = 0
  None = None
INVARIANT PollsExact
PROPERTY EventsReported
CHECK_DEADLOCK FALSE
