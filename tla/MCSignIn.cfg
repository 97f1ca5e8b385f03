SPECIFICATION Spec
CONSTANTS
  Emails = {ann}
  Before = {}
  t1 = t1
  Tabs = {t1, t2}
  Links = {l1, l2}
  Clicks = {c1, c2}
  MaxOf <- Limits
  MaxEnds = 1
  Addresses = {ann, bob}
  Known = {ann}
  Accounts = {g1}
  Flows = {f1, f2}
  None = None
  Nobody = Nobody
INVARIANTS
  MagicInv
  GoogleInv
  ReuseNeedsRace
PROPERTY
  PageAnswers
