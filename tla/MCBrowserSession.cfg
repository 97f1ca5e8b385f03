\* Every failure; a call that was cut off leaves a handler behind that overlaps
\* the next, and a refresh and a logout overlap.  The supply of tokens is finite
\* here, so a behaviour may end, and it keeps two refreshes from overlapping.
CHECK_DEADLOCK FALSE
SPECIFICATION FairSpec
CONSTANTS
  Tokens = {t1, t2, t3, t4}
  Families = {f1}
  Requests = {r1, r2}
  Calls = {c1, c2}
  Failures = {"unreachable", "cut", "db", "crash"}
  Retries = 1
  None = None
INVARIANTS
  BrowserInv
  OneLiveToken
  LogoutEnds
PROPERTY
  CallsReturn
