SPECIFICATION SessionsSpec
CONSTANTS
  Tokens = {t1, t2, t3, t4}
  Families = {f1, f2}
  Requests = {r1, r2}
  Failures = {"db", "crash"}
  None = None
SYMMETRY Symmetry
INVARIANTS
  TypeOK
  AnswerAfterRotation
PROPERTIES
  EndedStaysEnded
