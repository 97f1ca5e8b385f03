\* Three users, one of them private, and two groups of two.
\* The supply of codes and group ids is finite here, so a behaviour may end.
CHECK_DEADLOCK FALSE
SPECIFICATION Spec
CONSTANTS
  Users = {u1, u2, u3}
  Public = {u1, u2}
  Handles = {h1, h2, h3}
  GroupIds = {g1, g2}
  Codes = {c1, c2}
  Names = {n1, n2}
  Requests = {r1, r2}
  None = None
  MemberLimit = 2
  OwnedLimit = 1
SYMMETRY Symmetry
INVARIANTS
  IInv
  RetiredInviteNeverAdmits
  OvershootBounded
PROPERTIES
  OnlyOwnerOrSelfRemoves
  OnlyOwnerManages
