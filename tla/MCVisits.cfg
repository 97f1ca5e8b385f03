SPECIFICATION FairSpec
CONSTANTS
    f = f
    g = g
    plain = plain
    year = year
    m1 = m1
    m2 = m2
    None = None
    Absent = Absent
    Codes <- MCCodes
    Details <- MCDetails
    Plain <- plain
    Slots <- MCSlots
    Starts <- MCStarts
    MaxToasts = 2
    MaxMade = 3
CHECK_DEADLOCK FALSE
INVARIANTS
  VisitsInv
  Reconciled
PROPERTIES
  EventuallyReconciled
