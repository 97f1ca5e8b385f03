\* Windows open, fill, overflow and end, and the call that opens one may die.
\* Counts are bounded, so a key without expiry ends the behaviour.
CHECK_DEADLOCK FALSE
SPECIFICATION FairSpec
CONSTANTS
  ip = ip
  email = email
  Keys = {ip, email}
  Hits = {c1, c2}
  Max <- TwoRules
  MaxCount = 4
  Failures = {"crash"}
  None = None
INVARIANTS
  IInv
  Budget
PROPERTIES
  Renewed
  ImplementsWindow
