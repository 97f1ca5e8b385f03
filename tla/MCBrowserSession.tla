-------------------------- MODULE MCBrowserSession --------------------------
(* Instances of BrowserSession for TLC; the symmetry is for safety runs only. *)
EXTENDS BrowserSession, TLC

Symmetry ==
    Permutations(Tokens) \cup Permutations(Families) \cup Permutations(Requests)
        \cup Permutations(Calls)
=============================================================================
