SPECIFICATION Spec
CONSTANTS
  Sock = {s1, s2}
  Obj = {o1, o2, o3}
  Thread = {t1, t2}
  Masks <- JustIn
  Conditions <- Receive
  GroupSize = 1
  MaxEvents = 2
  MaxCtls = 3
  MaxErrors = 1
  None = None
SYMMETRY MCSymmetry
INVARIANTS QueuesOK PollsOK NoLostInterest GroupsOK DeleteAsserts
PROPERTY OnlyWanted
CHECK_DEADLOCK FALSE
