------------------------------ MODULE MCGroups ------------------------------
(***************************************************************************)
(* Instances of Groups for TLC; the .cfg files give the sets as model      *)
(* values.  No action and no property singles out a member of these sets,  *)
(* so permuting them, among public and among private users, is a symmetry. *)
(***************************************************************************)
EXTENDS Groups, TLC

Symmetry ==
    Permutations(Public) \cup Permutations(Users \ Public)
        \cup Permutations(Handles) \cup Permutations(GroupIds)
        \cup Permutations(Codes) \cup Permutations(Names) \cup Permutations(Requests)
=============================================================================
