\* The supply of tokens is finite here, so a behaviour may end.
CHECK_DEADLOCK FALSE
SPECIFICATION Spec
CONSTANTS
  Tokens = {t1, t2, t3, t4}
  Families = {f1}
  Requests = {r1, r2}
  Calls = {c1, c2}
  Failures = {}
  Retries = 2
  None = None
SYMMETRY Symmetry
INVARIANT
  KeepsSession
