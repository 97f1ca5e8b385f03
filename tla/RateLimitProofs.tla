-------------------------- MODULE RateLimitProofs --------------------------
(***************************************************************************)
(* Theorems about RateLimit, for any budgets and any number of calls in    *)
(* flight.  A window has at most one call that opens it, and the share of  *)
(* that call is set aside until it decides.                                *)
(***************************************************************************)
EXTENDS RateLimit, FiniteSetTheorems, TLAPS

USE RateNone, RateMax, RateMaxCount

\* Nothing is counted at first.
LEMMA InitIInv == Init => IInv
BY DEF Init, IInv, TypeOK, Openings, Shares, Pending, OneWarning, ExpiryComes, Opening, Taken

\* Deciding about the n-th request of k.
LEMMA DecideFacts ==
    ASSUME TypeOK, NEW k \in Keys, NEW n \in Nat \ {0}, Decide(k, n)
    PROVE  /\ admitted' \in [Keys -> Nat] /\ warned' \in [Keys -> Nat]
           /\ \A j \in Keys \ {k} : admitted'[j] = admitted[j] /\ warned'[j] = warned[j]
           /\ admitted'[k] = admitted[k] + (IF n <= Max[k] THEN 1 ELSE 0)
           /\ warned'[k] = warned[k] + (IF n = Max[k] + 1 THEN 1 ELSE 0)
<1>1. CASE n <= Max[k]
  BY <1>1 DEF Decide, TypeOK
<1>2. CASE n = Max[k] + 1
  BY <1>2 DEF Decide, TypeOK
<1>3. CASE n > Max[k] + 1
  BY <1>3 DEF Decide, TypeOK
<1> QED
  BY <1>1, <1>2, <1>3

\* INCR that opens a window, by a call that will set the expiry.
LEMMA StepOpenWindow ==
    ASSUME IInv, NEW c \in Hits, NEW k \in Keys, OpenWindow(c, k)
    PROVE  IInv'
<1> USE DEF OpenWindow, IInv, TypeOK
<1>1. k \notin ttl /\ k \notin orphaned /\ admitted[k] = 0 /\ ~Pending(k)
  BY DEF Openings, Shares, Taken, Pending
<1>2. TypeOK'
  BY <1>1
<1>3. Openings'
  BY <1>1 DEF Openings, Pending
<1>4. ASSUME NEW j \in Keys
      PROVE  admitted'[j] + (IF Pending(j)' THEN 1 ELSE 0) <= Taken'[j]
  <2>1. CASE j = k
    BY <1>1, <2>1 DEF Taken, Pending
  <2>2. CASE j # k
    <3>1. Pending(j)' <=> Pending(j)
      BY <2>2 DEF Pending
    <3> QED
      BY <2>2, <3>1 DEF Shares, Taken
  <2> QED
    BY <2>1, <2>2
<1>5. Shares'
  BY <1>4 DEF Shares
<1>6. OneWarning' /\ ExpiryComes'
  BY DEF OneWarning, ExpiryComes, Opening
<1> QED
  BY <1>2, <1>3, <1>5, <1>6

\* INCR in a window that is open.
LEMMA StepCount ==
    ASSUME IInv, NEW k \in Keys, Count(k)
    PROVE  IInv'
<1>1. /\ count[k] \in 1..(MaxCount - 1)
      /\ count' = [count EXCEPT ![k] = @ + 1]
      /\ UNCHANGED <<ttl, hit, orphaned>>
      /\ count \in [Keys -> 0..MaxCount]
      /\ count' \in [Keys -> 0..MaxCount]
  BY DEF Count, IInv, TypeOK
<1>2. /\ admitted' \in [Keys -> Nat] /\ warned' \in [Keys -> Nat]
      /\ \A j \in Keys \ {k} : admitted'[j] = admitted[j] /\ warned'[j] = warned[j]
      /\ admitted'[k] = admitted[k] + (IF count[k] + 1 <= Max[k] THEN 1 ELSE 0)
      /\ warned'[k] = warned[k] + (IF count[k] + 1 = Max[k] + 1 THEN 1 ELSE 0)
  BY <1>1, DecideFacts DEF Count, IInv
<1>3. \A j \in Keys : Pending(j)' <=> Pending(j)
  BY <1>1 DEF Pending
<1>4. ASSUME NEW j \in Keys
      PROVE  admitted'[j] + (IF Pending(j)' THEN 1 ELSE 0) <= Taken'[j]
  BY <1>1, <1>2, <1>3 DEF IInv, TypeOK, Shares, Taken
<1>5. ASSUME NEW j \in Keys
      PROVE  warned'[j] = IF count'[j] > Max[j] THEN 1 ELSE 0
  BY <1>1, <1>2 DEF IInv, TypeOK, OneWarning
<1>6. Shares' /\ OneWarning'
  BY <1>4, <1>5 DEF Shares, OneWarning
<1>7. TypeOK'
  <2>1. ASSUME NEW j \in Keys
        PROVE  admitted'[j] \in 0..MaxCount /\ warned'[j] \in 0..MaxCount
    <3>1. Taken'[j] <= count'[j] /\ count'[j] \in 0..MaxCount /\ Taken'[j] \in Nat /\ Max[j] \in Nat \ {0}
      BY <1>1 DEF Taken, IInv, TypeOK
    <3>2. admitted'[j] \in Nat /\ admitted'[j] <= Taken'[j]
      <4>1. admitted'[j] \in Nat /\ admitted'[j] + (IF Pending(j)' THEN 1 ELSE 0) <= Taken'[j]
        BY <1>2, <1>4
      <4> QED
        BY <3>1, <4>1
    <3>3. warned'[j] \in 0..1
      BY <1>5
    <3>4. admitted'[j] \in 0..MaxCount
      BY <3>1, <3>2
    <3> QED
      BY <3>3, <3>4
  <2>2. ttl' \subseteq {j \in Keys : count'[j] > 0} /\ orphaned' \subseteq Keys \ ttl'
    BY <1>1 DEF IInv, TypeOK
  <2>3. admitted' \in [Keys -> 0..MaxCount] /\ warned' \in [Keys -> 0..MaxCount]
    BY <1>2, <2>1
  <2> QED
    BY <1>1, <2>2, <2>3 DEF IInv, TypeOK
<1>8. Openings' /\ ExpiryComes'
  BY <1>1 DEF IInv, TypeOK, Openings, ExpiryComes, Opening
<1> QED
  BY <1>6, <1>7, <1>8 DEF IInv

\* The call that opened the window sets its expiry.
LEMMA StepSetExpiry ==
    ASSUME IInv, NEW c \in Hits, SetExpiry(c)
    PROVE  IInv'
<1>0. PICK k \in Keys : k = hit[c]
  BY DEF SetExpiry, IInv, TypeOK
<1>1. /\ hit[c] = k /\ k # None
      /\ count[k] > 0 /\ k \notin ttl /\ k \notin orphaned
      /\ count' = count /\ orphaned' = orphaned
      /\ ttl' = ttl \cup {k}
      /\ hit' = [hit EXCEPT ![c] = None]
  BY <1>0 DEF SetExpiry, IInv, TypeOK, Openings
<1>2. /\ admitted' \in [Keys -> Nat] /\ warned' \in [Keys -> Nat]
      /\ \A j \in Keys \ {k} : admitted'[j] = admitted[j] /\ warned'[j] = warned[j]
      /\ admitted'[k] = admitted[k] + 1
      /\ warned'[k] = warned[k]
  <2>1. 1 <= Max[k] /\ 1 # Max[k] + 1
    BY <1>1
  <2>2. Decide(k, 1) /\ TypeOK
    BY <1>1 DEF SetExpiry, IInv
  <2> QED
    BY <1>1, <2>1, <2>2, DecideFacts DEF TypeOK
<1>3. Pending(k) /\ ~Pending(k)' /\ \A j \in Keys \ {k} : Pending(j)' <=> Pending(j)
  <2>1. \A d \in Hits : hit'[d] = IF d = c THEN None ELSE hit[d]
    BY <1>1 DEF IInv, TypeOK
  <2>2. \A d \in Hits : hit[d] = k => d = c
    BY <1>1 DEF IInv, Openings
  <2>3. Pending(k) /\ ~Pending(k)'
    BY <1>1, <2>1, <2>2 DEF Pending
  <2>4. ASSUME NEW j \in Keys \ {k}
        PROVE  Pending(j)' <=> Pending(j)
    BY <1>1, <2>1 DEF Pending
  <2> QED
    BY <2>3, <2>4
<1>4. ASSUME NEW j \in Keys
      PROVE  admitted'[j] + (IF Pending(j)' THEN 1 ELSE 0) <= Taken'[j]
  <2>1. /\ admitted[k] + 1 <= Taken[k] /\ admitted[k] \in Nat
        /\ Taken'[j] = Taken[j]
        /\ admitted[j] + (IF Pending(j) THEN 1 ELSE 0) <= Taken[j]
    BY <1>1, <1>3 DEF IInv, TypeOK, Shares, Taken
  <2>2. CASE j = k
    <3>1. admitted'[j] = admitted[k] + 1 /\ ~Pending(j)' /\ Taken'[j] = Taken[k]
      BY <1>2, <1>3, <2>1, <2>2
    <3> QED
      BY <2>1, <3>1
  <2>3. CASE j # k
    BY <1>2, <1>3, <2>1, <2>3
  <2> QED
    BY <2>2, <2>3
<1>5. ASSUME NEW j \in Keys
      PROVE  warned'[j] = IF count'[j] > Max[j] THEN 1 ELSE 0
  BY <1>1, <1>2 DEF IInv, TypeOK, OneWarning
<1>6. Shares' /\ OneWarning'
  BY <1>4, <1>5 DEF Shares, OneWarning
<1>7. TypeOK'
  <2>1. admitted' \in [Keys -> 0..MaxCount] /\ warned' \in [Keys -> 0..MaxCount]
    BY <1>1, <1>2, <1>4, <1>5 DEF Taken, IInv, TypeOK
  <2> QED
    BY <1>1, <2>1 DEF IInv, TypeOK
<1>8. Openings' /\ ExpiryComes'
  BY <1>1 DEF IInv, TypeOK, Openings, ExpiryComes, Opening
<1> QED
  BY <1>6, <1>7, <1>8 DEF IInv

\* Redis drops the key.
LEMMA StepExpire ==
    ASSUME IInv, NEW k \in Keys, Expire(k)
    PROVE  IInv'
<1> USE DEF Expire, IInv, TypeOK
<1>1. ~Pending(k) /\ k \notin orphaned
  BY DEF Openings, Pending
<1>2. \A j \in Keys : Pending(j)' <=> Pending(j)
  BY DEF Pending
<1>3. ASSUME NEW j \in Keys
      PROVE  admitted'[j] + (IF Pending(j)' THEN 1 ELSE 0) <= Taken'[j]
  BY <1>1, <1>2 DEF Shares, Taken
<1>4. Shares' /\ OneWarning'
  BY <1>3 DEF Shares, OneWarning
<1>5. TypeOK'
  OBVIOUS
<1>6. Openings' /\ ExpiryComes'
  BY <1>1 DEF Openings, ExpiryComes, Opening, Pending
<1> QED
  BY <1>4, <1>5, <1>6

\* The call that opened the window dies before it sets the expiry.
LEMMA StepFail ==
    ASSUME IInv, NEW c \in Hits, Fail(c)
    PROVE  IInv'
<1> USE DEF Fail, IInv, TypeOK
<1>1. hit[c] \in Keys /\ hit[c] \notin ttl
  BY DEF Openings
<1>2. \A j \in Keys : Pending(j)' => Pending(j)
  BY DEF Pending
<1>3. ASSUME NEW j \in Keys
      PROVE  admitted'[j] + (IF Pending(j)' THEN 1 ELSE 0) <= Taken'[j]
  BY <1>2 DEF Shares, Taken
<1>4. Shares' /\ OneWarning'
  BY <1>3 DEF Shares, OneWarning
<1>5. TypeOK'
  BY <1>1
<1>6. Openings' /\ ExpiryComes'
  BY <1>1 DEF Openings, ExpiryComes, Opening
<1> QED
  BY <1>4, <1>5, <1>6

\* Every step keeps the invariant.
LEMMA NextIInv ==
    ASSUME IInv, [Next]_vars
    PROVE  IInv'
<1>1. CASE UNCHANGED vars
  BY <1>1 DEF vars, IInv, TypeOK, Openings, Shares, Pending, OneWarning, ExpiryComes,
             Opening, Taken
<1>2. CASE Next
  BY <1>2, StepOpenWindow, StepCount, StepSetExpiry, StepExpire, StepFail DEF Next
<1> QED
  BY <1>1, <1>2

\* The counters of every budget, whatever interleaves: the invariant of the
\* calls of hit() in flight (rate-limit.service.ts).
THEOREM Invariance == Spec => []IInv
BY InitIInv, NextIInv, PTL DEF Spec

\* Counts, expiries and calls in flight keep their types.
COROLLARY TypeCorrect == Spec => []TypeOK
BY Invariance, PTL DEF IInv

\* A window that refused anybody has logged one warning (consume).
COROLLARY Warnings == Spec => []OneWarning
BY Invariance, PTL DEF IInv

\* A counter without an expiry is about to get one, unless its call died (hit).
COROLLARY Expiries == Spec => []ExpiryComes
BY Invariance, PTL DEF IInv

\* A window lets at most max requests through (consume, tryConsume).
LEMMA BudgetHeld == IInv => Budget
<1> SUFFICES ASSUME IInv, NEW k \in Keys
             PROVE  /\ admitted[k] + Cardinality(Opening(k)) <= Max[k]
                    /\ Cardinality(Opening(k)) <= 1
  BY DEF Budget
<1>1. /\ admitted[k] + (IF Pending(k) THEN 1 ELSE 0) <= Taken[k]
      /\ Taken[k] <= Max[k] /\ admitted[k] \in Nat /\ Max[k] \in Nat /\ Taken[k] \in Nat
  BY DEF IInv, TypeOK, Shares, Taken
<1>2. CASE Pending(k)
  <2>1. PICK c \in Hits : hit[c] = k
    BY <1>2 DEF Pending
  <2>2. Opening(k) = {c}
    BY <2>1 DEF Opening, IInv, Openings
  <2>3. Cardinality(Opening(k)) = 1
    BY <2>2, FS_Singleton
  <2> QED
    BY <1>1, <1>2, <2>3
<1>3. CASE ~Pending(k)
  <2>1. Opening(k) = {}
    BY <1>3 DEF Opening, Pending
  <2>2. Cardinality(Opening(k)) = 0
    BY <2>1, FS_EmptySet
  <2> QED
    BY <1>1, <1>3, <2>2
<1> QED
  BY <1>2, <1>3

\* However calls interleave and die, a window lets through no more than its
\* budget and has one call that sets the expiry (hit, consume).
THEOREM BudgetsHold == Spec => []Budget
BY Invariance, BudgetHeld, PTL

-----------------------------------------------------------------------------

\* A budget is taken as its counter says, and no other with it.
LEMMA TakenAt ==
    ASSUME NEW k \in Keys, NEW v \in Nat, count \in [Keys -> 0..MaxCount],
           count' = [count EXCEPT ![k] = v]
    PROVE  Taken' = [Taken EXCEPT ![k] = IF v > Max[k] THEN Max[k] ELSE v]
<1> DEFINE E == [Taken EXCEPT ![k] = IF v > Max[k] THEN Max[k] ELSE v]
<1>1. Taken' = [j \in Keys |-> Taken'[j]] /\ E = [j \in Keys |-> E[j]]
  BY DEF Taken
<1>2. ASSUME NEW j \in Keys PROVE Taken'[j] = E[j]
  <2>1. Taken'[j] = IF count'[j] > Max[j] THEN Max[j] ELSE count'[j]
    BY DEF Taken
  <2>2. CASE j = k
    BY <2>1, <2>2 DEF Taken
  <2>3. CASE j # k
    BY <2>1, <2>3 DEF Taken
  <2> QED
    BY <2>2, <2>3
<1> HIDE DEF E
<1>3. Taken' = E
  BY <1>1, <1>2
<1> QED
  BY <1>3 DEF E

\* Every step of the counters is a step of the budgets, or none.
LEMMA StepMaps ==
    ASSUME IInv, IInv', [Next]_vars
    PROVE  [W!Next]_<<Taken, admitted>>
<1> USE DEF IInv, TypeOK
<1>1. CASE UNCHANGED vars
  BY <1>1 DEF vars, Taken
<1>2. ASSUME NEW k \in Keys, Count(k)
      PROVE  W!Consume(k) \/ UNCHANGED <<Taken, admitted>>
  <2>1. CASE count[k] < Max[k]
    <3>1. W!Within(k)
      BY <1>2, <2>1 DEF W!Within, Taken
    <3>2. Taken' = [Taken EXCEPT ![k] = @ + 1]
      <4>1. /\ count[k] \in Nat /\ Max[k] \in Nat /\ Taken[k] = count[k]
            /\ count' = [count EXCEPT ![k] = count[k] + 1]
        BY <1>2, <2>1 DEF Count, Taken
      <4>2. count[k] + 1 \in Nat /\ ~(count[k] + 1 > Max[k]) /\ count \in [Keys -> 0..MaxCount]
        BY <2>1, <4>1
      <4>3. Taken' = [Taken EXCEPT ![k] = IF count[k] + 1 > Max[k] THEN Max[k] ELSE count[k] + 1]
        BY <4>1, <4>2, TakenAt
      <4>4. Taken' = [Taken EXCEPT ![k] = count[k] + 1]
        BY <4>2, <4>3
      <4> QED
        BY <4>1, <4>4
    <3>3. admitted' = [admitted EXCEPT ![k] = @ + 1]
      BY <1>2, <2>1 DEF Count, Decide
    <3> QED
      BY <3>1, <3>2, <3>3 DEF W!Consume
  <2>2. CASE count[k] >= Max[k]
    <3>1. Taken' = Taken
      <4>1. /\ count[k] \in Nat /\ Max[k] \in Nat /\ Taken[k] = Max[k]
            /\ count' = [count EXCEPT ![k] = count[k] + 1]
            /\ Taken = [Taken EXCEPT ![k] = Max[k]]
        BY <1>2, <2>2 DEF Count, Taken
      <4>2. count[k] + 1 \in Nat /\ count[k] + 1 > Max[k] /\ count \in [Keys -> 0..MaxCount]
        BY <2>2, <4>1
      <4>3. Taken' = [Taken EXCEPT ![k] = IF count[k] + 1 > Max[k] THEN Max[k] ELSE count[k] + 1]
        BY <4>1, <4>2, TakenAt
      <4>4. Taken' = [Taken EXCEPT ![k] = Max[k]]
        BY <4>2, <4>3
      <4> QED
        BY <4>1, <4>4
    <3>2. admitted' = admitted
      BY <1>2, <2>2 DEF Count, Decide
    <3> QED
      BY <3>1, <3>2
  <2> QED
    BY <1>2, <2>1, <2>2 DEF Count
<1>3. ASSUME NEW c \in Hits, NEW k \in Keys, OpenWindow(c, k)
      PROVE  W!Take(k)
  <2>1. Taken[k] = 0 /\ Taken' = [Taken EXCEPT ![k] = @ + 1]
    <3>1. /\ Taken[k] = 0 /\ ~(1 > Max[k])
          /\ count' = [count EXCEPT ![k] = 1] /\ count \in [Keys -> 0..MaxCount]
      BY <1>3 DEF OpenWindow, Taken
    <3>2. Taken' = [Taken EXCEPT ![k] = IF 1 > Max[k] THEN Max[k] ELSE 1]
      BY <3>1, TakenAt
    <3>3. Taken' = [Taken EXCEPT ![k] = 1]
      BY <3>1, <3>2
    <3> QED
      BY <3>1, <3>3
  <2> QED
    BY <1>3, <2>1 DEF OpenWindow, W!Take, W!Within
<1>4. ASSUME NEW c \in Hits, SetExpiry(c)
      PROVE  W!Admit(hit[c])
  <2>1. hit[c] \in Keys /\ admitted[hit[c]] + 1 <= Taken[hit[c]] /\ Taken[hit[c]] \in Nat
    BY <1>4 DEF SetExpiry, Shares, Pending, Taken
  <2>2. Taken' = Taken
    BY <1>4 DEF SetExpiry, Taken
  <2>3. admitted' = [admitted EXCEPT ![hit[c]] = @ + 1]
    BY <1>4, <2>1 DEF SetExpiry, Decide
  <2> QED
    BY <2>1, <2>2, <2>3 DEF W!Admit
<1>5. ASSUME NEW k \in Keys, Expire(k)
      PROVE  W!Renew(k)
  <2>1. Taken' = [Taken EXCEPT ![k] = 0]
    <3>1. /\ ~(0 > Max[k])
          /\ count' = [count EXCEPT ![k] = 0] /\ count \in [Keys -> 0..MaxCount]
      BY <1>5 DEF Expire
    <3>2. Taken' = [Taken EXCEPT ![k] = IF 0 > Max[k] THEN Max[k] ELSE 0]
      BY <3>1, TakenAt
    <3> QED
      BY <3>1, <3>2
  <2> QED
    BY <1>5, <2>1 DEF Expire, W!Renew
<1>6. ASSUME NEW c \in Hits, Fail(c)
      PROVE  UNCHANGED <<Taken, admitted>>
  BY <1>6 DEF Fail, Taken
<1>7. ASSUME NEW c \in Hits, SetExpiry(c)
      PROVE  hit[c] \in Keys
  BY <1>7 DEF SetExpiry
<1> QED
  BY <1>1, <1>2, <1>3, <1>4, <1>5, <1>6, <1>7 DEF Next, W!Next

\* No budget is taken at first.
LEMMA InitMaps == Init => W!Init
BY DEF Init, W!Init, Taken

\* INCR and EXPIRE, interleaved and failing, implement the budgets.
THEOREM Implements == Spec => ImplementsWindow
<1> QED
  BY Invariance, InitMaps, StepMaps, PTL DEF Spec, ImplementsWindow, W!Spec
=============================================================================
