------------------------------- MODULE Window -------------------------------
(***************************************************************************)
(* What a rate limit promises, whatever counts it: within a window a       *)
(* budget is taken at most Max times and lets through at most as many      *)
(* requests as have taken it; a new window starts from nothing.            *)
(* RateLimit implements this with INCR and EXPIRE; MagicLink builds on it. *)
(***************************************************************************)
EXTENDS Naturals

CONSTANTS
    Keys,  \* budgets
    Max    \* rule.max of each

VARIABLES
    used,     \* how often a budget was taken in its window
    through   \* requests it let through in its window

Init == used = [k \in Keys |-> 0] /\ through = [k \in Keys |-> 0]

Within(k) == used[k] < Max[k]

\* A request takes its share first and is let through after it.
Take(k) ==
    /\ Within(k)
    /\ used' = [used EXCEPT ![k] = @ + 1]
    /\ UNCHANGED through
Admit(k) ==
    /\ through[k] < used[k]
    /\ through' = [through EXCEPT ![k] = @ + 1]
    /\ UNCHANGED used

\* Or both at once.
Consume(k) ==
    /\ Within(k)
    /\ used' = [used EXCEPT ![k] = @ + 1]
    /\ through' = [through EXCEPT ![k] = @ + 1]

Renew(k) ==
    /\ used' = [used EXCEPT ![k] = 0]
    /\ through' = [through EXCEPT ![k] = 0]

Next == \E k \in Keys : Take(k) \/ Admit(k) \/ Consume(k) \/ Renew(k)

Spec == Init /\ [][Next]_<<used, through>>
=============================================================================
