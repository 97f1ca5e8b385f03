----------------------------- MODULE RateLimit -----------------------------
(***************************************************************************)
(* The fixed-window counters of the API (apps/api/src/rate-limit): one     *)
(* Redis key per budget, INCR on every request, EXPIRE by the request that *)
(* found no key.  INCR and EXPIRE are two awaited calls, so other requests *)
(* count in between, and the second may never be made.                     *)
(*                                                                         *)
(* A request that is not the first of its window decides on the number its *)
(* INCR returned and touches nothing shared afterwards: one step.          *)
(***************************************************************************)
EXTENDS Naturals, FiniteSets

CONSTANTS
    Keys,      \* budgets: an address, a user, an email, the service
    Hits,      \* slots for calls of hit() in flight
    Max,       \* rule.max of each key
    MaxCount,  \* bounds the model: the largest count of a key
    Failures,  \* what may go wrong, by name
    None

ASSUME RateNone == None \notin Keys
ASSUME RateMax == Max \in [Keys -> Nat \ {0}]
ASSUME RateMaxCount == MaxCount \in Nat \ {0}
ASSUME RateFailures == Failures \subseteq {"crash", "redis"}

VARIABLES
    count,     \* the counter in Redis, 0 while there is no key
    ttl,       \* keys with an expiry
    hit,       \* the key whose expiry a call has yet to set, None when idle
    admitted,  \* history: requests of this window let through
    warned,    \* history: warnings logged in this window
    orphaned   \* history: keys whose expiry a failure left unset

vars == <<count, ttl, hit, admitted, warned, orphaned>>

TypeOK ==
    /\ count \in [Keys -> 0..MaxCount]
    /\ ttl \subseteq {k \in Keys : count[k] > 0}
    /\ hit \in [Hits -> Keys \cup {None}]
    /\ admitted \in [Keys -> 0..MaxCount]
    /\ warned \in [Keys -> 0..MaxCount]
    /\ orphaned \subseteq Keys \ ttl

Init ==
    /\ count = [k \in Keys |-> 0]
    /\ ttl = {}
    /\ hit = [c \in Hits |-> None]
    /\ admitted = [k \in Keys |-> 0]
    /\ warned = [k \in Keys |-> 0]
    /\ orphaned = {}

-----------------------------------------------------------------------------

\* Mutants: off by one; every refusal is logged.
Decide_OffByOne(k, n) ==
    /\ admitted' = IF n <= Max[k] + 1 THEN [admitted EXCEPT ![k] = @ + 1] ELSE admitted
    /\ UNCHANGED warned
Decide_AlwaysWarns(k, n) ==
    /\ admitted' = IF n <= Max[k] THEN [admitted EXCEPT ![k] = @ + 1] ELSE admitted
    /\ warned' = IF n > Max[k] THEN [warned EXCEPT ![k] = @ + 1] ELSE warned

\* consume, tryConsume: within budget up to max; the refusal that is the first
\* over it is logged.
Decide(k, n) ==
    /\ admitted' = IF n <= Max[k] THEN [admitted EXCEPT ![k] = @ + 1] ELSE admitted
    /\ warned' = IF n = Max[k] + 1 THEN [warned EXCEPT ![k] = @ + 1] ELSE warned

\* hit, for the request that opens the window: INCR returns 1.
OpenWindow(c, k) ==
    /\ hit[c] = None
    /\ count[k] = 0
    /\ count' = [count EXCEPT ![k] = 1]
    /\ hit' = [hit EXCEPT ![c] = k]
    /\ UNCHANGED <<ttl, admitted, warned, orphaned>>

\* hit, for any other: INCR keeps the expiry the key has.
Count(k) ==
    /\ count[k] \in 1..(MaxCount - 1)
    /\ count' = [count EXCEPT ![k] = @ + 1]
    /\ Decide(k, count[k] + 1)
    /\ UNCHANGED <<ttl, hit, orphaned>>

\* Mutant: the expiry is set when the budget is spent.
SetExpiry_Late(c) ==
    /\ hit[c] # None
    /\ ttl' = IF count[hit[c]] > Max[hit[c]] THEN ttl \cup {hit[c]} ELSE ttl
    /\ Decide(hit[c], 1)
    /\ hit' = [hit EXCEPT ![c] = None]
    /\ UNCHANGED <<count, orphaned>>

\* hit: EXPIRE, which does nothing to a key that is gone.
SetExpiry(c) ==
    /\ hit[c] # None
    /\ ttl' = IF count[hit[c]] > 0 THEN ttl \cup {hit[c]} ELSE ttl
    /\ Decide(hit[c], 1)
    /\ hit' = [hit EXCEPT ![c] = None]
    /\ UNCHANGED <<count, orphaned>>

\* The window is over: Redis drops the key.
Expire(k) ==
    /\ k \in ttl
    /\ count' = [count EXCEPT ![k] = 0]
    /\ ttl' = ttl \ {k}
    /\ admitted' = [admitted EXCEPT ![k] = 0]
    /\ warned' = [warned EXCEPT ![k] = 0]
    /\ UNCHANGED <<hit, orphaned>>

\* The process dies, or Redis refuses the call, before the expiry is set.
Fail(c) ==
    /\ Failures # {}
    /\ hit[c] # None
    /\ hit' = [hit EXCEPT ![c] = None]
    /\ orphaned' = orphaned \cup {hit[c]}
    /\ UNCHANGED <<count, ttl, admitted, warned>>

Next ==
    \/ \E k \in Keys : Count(k) \/ Expire(k)
    \/ \E c \in Hits, k \in Keys : OpenWindow(c, k)
    \/ \E c \in Hits : SetExpiry(c) \/ Fail(c)

Spec == Init /\ [][Next]_vars

\* Redis expires what has an expiry and a call in flight goes on, unless it
\* fails; whether requests come is up to the clients.
FairSpec ==
    /\ Spec
    /\ \A k \in Keys : WF_vars(Expire(k))
    /\ \A c \in Hits : WF_vars(SetExpiry(c) \/ Fail(c))

-----------------------------------------------------------------------------
\* Correctness.

\* The calls that will set the expiry of k.
Opening(k) == {c \in Hits : hit[c] = k}

\* However requests interleave, a window lets at most max of them through,
\* and it has at most one request that sets the expiry.
Budget ==
    \A k \in Keys : /\ admitted[k] + Cardinality(Opening(k)) <= Max[k]
                    /\ Cardinality(Opening(k)) <= 1

\* "The first refusal of each window is logged as a warning - once per window"
\* (rate-limit.service.ts:44-45): a window that refused anybody has warned
\* exactly once, in whatever order its requests were answered.
OneWarning ==
    \A k \in Keys : warned[k] = IF count[k] > Max[k] THEN 1 ELSE 0

\* A counter without an expiry is about to get one, unless the one call that
\* would have set it failed.
ExpiryComes ==
    \A k \in Keys : count[k] > 0 => k \in ttl \/ Opening(k) # {} \/ k \in orphaned

\* Nobody is refused for ever: a spent budget is renewed, unless that failure
\* came first.
Renewed == \A k \in Keys : (count[k] > Max[k]) ~> (count[k] = 0 \/ k \in orphaned)

-----------------------------------------------------------------------------
\* The counters implement the abstract budgets.

Taken == [k \in Keys |-> IF count[k] > Max[k] THEN Max[k] ELSE count[k]]
W == INSTANCE Window WITH used <- Taken, through <- admitted

\* Read as what they promise, INCR and EXPIRE in two calls that fail and
\* interleave are a budget: taken at most max times a window, and letting
\* through no request that did not take it.
ImplementsWindow == W!Spec

-----------------------------------------------------------------------------
\* The inductive invariant.

\* A call is about to set the expiry of k.
Pending(k) == \E c \in Hits : hit[c] = k

\* An opening call is alone, and its key counts and
\* has no expiry; so has a key whose opening failed, which no call opens again.
Openings ==
    /\ \A c, d \in Hits : hit[c] # None /\ hit[c] = hit[d] => c = d
    /\ \A c \in Hits : hit[c] # None =>
           count[hit[c]] > 0 /\ hit[c] \notin ttl /\ hit[c] \notin orphaned
    /\ \A k \in orphaned : count[k] > 0

\* What was let through, and what the opening call will be, took its share.
Shares ==
    \A k \in Keys : admitted[k] + (IF Pending(k) THEN 1 ELSE 0) <= Taken[k]

\* All of it: the types, the windows, the budget that is left and the warnings.
IInv == TypeOK /\ Openings /\ Shares /\ OneWarning /\ ExpiryComes

-----------------------------------------------------------------------------
\* What the repository says of the counters and a failure breaks.

\* rate-limit.service.ts:14-15, "INCR the key, set the expiry when the window
\* opens": once no call is in flight every counter has its expiry.
ExpirySet ==
    (\A c \in Hits : hit[c] = None) => \A k \in Keys : count[k] > 0 => k \in ttl
=============================================================================
