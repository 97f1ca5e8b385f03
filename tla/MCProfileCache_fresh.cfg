\* Overlapping mutations, lost invalidations.
SPECIFICATION FairSpec
CONSTANTS
  Users = {u1}
  Public = {u1}
  Handles = {h1, h2}
  Readers = {r1}
  Writers = {w1, w2}
  Ops = {"visit", "update"}
  Failures = {"redis", "crash"}
  MaxVersion = 2
  None = None
PROPERTY
  StaleGoes
