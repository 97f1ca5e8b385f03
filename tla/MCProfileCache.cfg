\* Mutations overlap, calls to Redis fail and processes die. An unfollow takes the
\* steps of a follow; that it may also find oneself changes nothing.
SPECIFICATION Spec
CONSTANTS
  Users = {u1, u2}
  Public = {u1, u2}
  Handles = {h1, h2}
  Readers = {r1}
  Writers = {w1, w2}
  Ops = {"visit", "follow", "update"}
  Failures = {"redis", "crash"}
  MaxVersion = 2
  None = None
SYMMETRY Symmetry
INVARIANT
  CacheInv
