--------------------------- MODULE MCProfileCache ---------------------------
(* Instances of ProfileCache for TLC; the symmetry is for safety runs only. *)
EXTENDS ProfileCache, TLC

Symmetry ==
    Permutations(Public) \cup Permutations(Users \ Public)
        \cup Permutations(Handles) \cup Permutations(Readers)
        \cup Permutations(Writers)
=============================================================================
