----------------------------- MODULE MCSessions -----------------------------
(* Instances of Sessions for TLC; every set is a symmetry set. *)
EXTENDS Sessions, TLC

Symmetry == Permutations(Tokens) \cup Permutations(Families) \cup Permutations(Requests)
=============================================================================
