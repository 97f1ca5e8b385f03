----------------------------- MODULE MCRateLimit -----------------------------
(* Instances of RateLimit for TLC: two budgets of different size. *)
EXTENDS RateLimit, TLC

CONSTANTS ip, email

TwoRules == (ip :> 2) @@ (email :> 1)
=============================================================================
