SPECIFICATION NetSpec
CONSTANTS
  Thread = {t1, t2, t3}
  MaxCalls = 2
  Nobody = Nobody
INVARIANT RacesSafe
PROPERTY CallsReturn
CHECK_DEADLOCK FALSE
