SPECIFICATION Spec
CONSTANTS
  Thread = {t1, t2}
  Port = {p1}
  Handle = {h1}
  MaxCalls = 2
  Null = Null
INVARIANT IocpAssertion
CHECK_DEADLOCK FALSE
