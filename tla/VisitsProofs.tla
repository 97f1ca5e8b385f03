---------------------------- MODULE VisitsProofs -----------------------------
(***************************************************************************)
(* Theorems about Visits, for any countries, details and number of         *)
(* mutations in flight.  No snapshot and no answer is compared with        *)
(* anything when it overwrites the list; that the page ends up right rests *)
(* on every settled mutation starting a fetch anew, so that a list read    *)
(* too early never lands once the last mutation is over.                   *)
(***************************************************************************)
EXTENDS Visits, SequenceTheorems, TLAPS

USE VisitsPlain, VisitsNone, VisitsStarts, VisitsToasts, VisitsMade

\* Whoever changes a list is logged in and has one.
Loaded == InFlight # {} => me = "in" /\ cache # Absent

\* A fetch under way may overwrite every mutation in flight.
FetchDisturbs == fetch # None => \A m \in InFlight : ~ops[m].clean

\* What a fetch has read is current, unless a mutation is in flight.
FetchCurrent == fetch # None /\ fetch.read # Absent /\ InFlight = {} => fetch.read = server

\* So is the list itself, once nothing is under way.
Settled == me = "in" /\ Quiet /\ ~stale => cache = server

IInv ==
    /\ TypeOK /\ CancelKeepsList /\ OptimisticShown
    /\ Loaded /\ FetchDisturbs /\ FetchCurrent /\ Settled

\* Nothing has been fetched.
LEMMA InitIInv == Init => IInv
<1> SUFFICES ASSUME Init
             PROVE  IInv
  OBVIOUS
<1>1. InFlight = {} /\ fetch = None /\ me = "loading"
  BY DEF Init, InFlight
<1>2. ToastsOK
  BY EmptySeq DEF Init, ToastsOK
<1>3. TypeOK
  <2>1. server \in Lists /\ me \in {"loading", "in", "out"} /\ stale \in BOOLEAN
    BY DEF Init, Lists
  <2>2. ops \in [Slots -> Mutations \cup {None}] /\ made \in 0..MaxMade
    BY DEF Init
  <2> QED
    BY <1>1, <1>2, <2>1, <2>2 DEF Init, TypeOK
<1> QED
  BY <1>1, <1>3 DEF IInv, CancelKeepsList, OptimisticShown, Loaded, FetchDisturbs,
     FetchCurrent, Settled

-----------------------------------------------------------------------------
\* Toasts.

\* Which toasts there are after a push, and that they are as few as before.
LEMMA PushFacts ==
    ASSUME NEW ts \in Seq(Toasts), Len(ts) <= MaxToasts,
           \A i, j \in DOMAIN ts : ts[i].msg = ts[j].msg => i = j,
           NEW t \in Toasts
    PROVE  LET us == PushToast(ts, t)
           IN /\ us \in Seq(Toasts) /\ Len(us) <= MaxToasts
              /\ \A i, j \in DOMAIN us : us[i].msg = us[j].msg => i = j
              /\ \A i \in DOMAIN us :
                     us[i] = t \/ \E j \in DOMAIN ts : us[i] = ts[j]
<1>9. Len(ts) \in Nat /\ MaxToasts \in Nat /\ Len(ts) <= MaxToasts
  BY LenProperties
<1> DEFINE us == PushToast(ts, t)
<1>0. Len(ts) \in Nat /\ DOMAIN ts = 1..Len(ts) /\ ts \in [1..Len(ts) -> Toasts]
  BY LenProperties
<1>1. CASE \E i \in DOMAIN ts : ts[i].msg = t.msg
  BY <1>0, <1>1 DEF PushToast
<1>2. CASE \A i \in DOMAIN ts : ts[i].msg # t.msg
  <2> DEFINE first == IF Len(ts) < MaxToasts THEN 1 ELSE Len(ts) - MaxToasts + 2
             kept == SubSeq(ts, first, Len(ts))
  <2>1. us = Append(kept, t)
    BY <1>2 DEF PushToast
  <2>2. first \in 1..(Len(ts) + 1) /\ Len(ts) - first + 1 < MaxToasts
    <3>1. CASE Len(ts) < MaxToasts
      <4>1. first = 1
        BY <3>1
      <4> QED
        BY <1>0, <3>1, <4>1
    <3>2. CASE Len(ts) = MaxToasts
      <4>1. first = 2
        BY <3>2
      <4> QED
        BY <1>0, <3>2, <4>1
    <3>3. Len(ts) < MaxToasts \/ Len(ts) = MaxToasts
      BY <1>9
    <3> QED
      BY <3>1, <3>2, <3>3
  <2> HIDE DEF first
  <2>3. /\ kept \in Seq(Toasts) /\ Len(kept) = Len(ts) - first + 1
        /\ \A i \in 1..(Len(ts) - first + 1) : kept[i] = ts[first + i - 1]
    <3>1. \A i \in first..Len(ts) : ts[i] \in Toasts
      BY <1>0, <2>2
    <3>2. first \in Int /\ Len(ts) \in Int
      BY <1>0, <2>2
    <3>3. /\ kept \in Seq(Toasts)
          /\ Len(kept) = IF first <= Len(ts) THEN Len(ts) - first + 1 ELSE 0
          /\ \A i \in 1..(Len(ts) - first + 1) : kept[i] = ts[first + i - 1]
      BY <3>1, <3>2, SubSeqProperties
    <3> QED
      BY <1>0, <2>2, <3>3
  <2> HIDE DEF kept
  <2>4. /\ us \in Seq(Toasts) /\ Len(us) = Len(kept) + 1
        /\ \A i \in 1..Len(kept) : us[i] = kept[i]
        /\ us[Len(kept) + 1] = t
    BY <2>1, <2>3, AppendProperties
  <2> HIDE DEF us
  <2>5. DOMAIN us = 1..(Len(kept) + 1) /\ Len(kept) \in Nat
    BY <2>3, <2>4, LenProperties
  <2>6. \A i \in 1..Len(kept) :
            first + i - 1 \in DOMAIN ts /\ us[i] = ts[first + i - 1]
    BY <1>0, <2>2, <2>3, <2>4
  <2>7. \A i \in DOMAIN us : i \in 1..Len(kept) \/ (i = Len(kept) + 1 /\ us[i] = t)
    BY <2>4, <2>5
  <2>8. \A i, j \in DOMAIN us : us[i].msg = us[j].msg => i = j
    <3> SUFFICES ASSUME NEW i \in DOMAIN us, NEW j \in DOMAIN us, us[i].msg = us[j].msg
                 PROVE  i = j
      OBVIOUS
    <3>1. CASE i \in 1..Len(kept) /\ j \in 1..Len(kept)
      <4>1. first + i - 1 = first + j - 1
        BY <2>6, <3>1
      <4> QED
        BY <2>2, <2>5, <3>1, <4>1
    <3>2. CASE i = Len(kept) + 1 /\ us[i] = t /\ j \in 1..Len(kept)
      BY <1>2, <2>6, <3>2
    <3>3. CASE j = Len(kept) + 1 /\ us[j] = t /\ i \in 1..Len(kept)
      BY <1>2, <2>6, <3>3
    <3> QED
      BY <2>7, <3>1, <3>2, <3>3
  <2>9. Len(us) <= MaxToasts
    BY <1>0, <2>2, <2>3, <2>4
  <2> QED
    BY <2>4, <2>6, <2>7, <2>8, <2>9 DEF us
<1> QED
  BY <1>1, <1>2

\* The toasts after one of them went.
LEMMA WithoutFacts ==
    ASSUME NEW ts \in Seq(Toasts), Len(ts) <= MaxToasts,
           \A i, j \in DOMAIN ts : ts[i].msg = ts[j].msg => i = j,
           NEW k \in DOMAIN ts
    PROVE  LET us == Without(ts, k)
           IN /\ us \in Seq(Toasts) /\ Len(us) <= MaxToasts
              /\ \A i, j \in DOMAIN us : us[i].msg = us[j].msg => i = j
              /\ \A i \in DOMAIN us : \E j \in DOMAIN ts : us[i] = ts[j]
<1> DEFINE us == Without(ts, k)
           front == SubSeq(ts, 1, k - 1)
           back == SubSeq(ts, k + 1, Len(ts))
           pos(i) == IF i < k THEN i ELSE i + 1
<1>0. Len(ts) \in Nat /\ DOMAIN ts = 1..Len(ts) /\ \A i \in 1..Len(ts) : ts[i] \in Toasts
  BY LenProperties
<1>1. k \in 1..Len(ts)
  BY <1>0
<1>2. /\ front \in Seq(Toasts) /\ Len(front) = k - 1
      /\ \A i \in 1..(k - 1) : front[i] = ts[i]
  <2>1. \A i \in 1..(k - 1) : ts[i] \in Toasts
    BY <1>0, <1>1
  <2>2. /\ front \in Seq(Toasts) /\ Len(front) = IF 1 <= k - 1 THEN (k - 1) - 1 + 1 ELSE 0
        /\ \A i \in 1..((k - 1) - 1 + 1) : front[i] = ts[1 + i - 1]
    BY <1>1, <2>1, SubSeqProperties
  <2> HIDE DEF front
  <2>3. (k - 1) - 1 + 1 = k - 1 /\ \A i \in 1..(k - 1) : 1 + i - 1 = i
    BY <1>1
  <2> QED
    BY <1>1, <2>2, <2>3
<1>3. /\ back \in Seq(Toasts) /\ Len(back) = Len(ts) - k
      /\ \A i \in 1..(Len(ts) - k) : back[i] = ts[k + i]
  <2>1. \A i \in (k + 1)..Len(ts) : ts[i] \in Toasts
    BY <1>0, <1>1
  <2>2. /\ back \in Seq(Toasts)
        /\ Len(back) = IF k + 1 <= Len(ts) THEN Len(ts) - (k + 1) + 1 ELSE 0
        /\ \A i \in 1..(Len(ts) - (k + 1) + 1) : back[i] = ts[(k + 1) + i - 1]
    BY <1>0, <1>1, <2>1, SubSeqProperties
  <2> HIDE DEF back
  <2>3. /\ Len(ts) - (k + 1) + 1 = Len(ts) - k
        /\ \A i \in 1..(Len(ts) - k) : (k + 1) + i - 1 = k + i
    BY <1>0, <1>1
  <2> QED
    BY <1>0, <1>1, <2>2, <2>3
<1>4. us = front \o back
  BY DEF Without
<1> HIDE DEF front, back
<1>5. /\ us \in Seq(Toasts) /\ Len(us) = Len(front) + Len(back)
      /\ \A i \in 1..(Len(front) + Len(back)) :
             us[i] = IF i <= Len(front) THEN front[i] ELSE back[i - Len(front)]
  <2>1. front \in Seq(Toasts) /\ back \in Seq(Toasts)
    BY <1>2, <1>3
  <2>2. /\ front \o back \in Seq(Toasts) /\ Len(front \o back) = Len(front) + Len(back)
        /\ \A i \in 1..(Len(front) + Len(back)) :
               (front \o back)[i] = IF i <= Len(front) THEN front[i] ELSE back[i - Len(front)]
    BY <2>1, ConcatProperties
  <2> QED
    BY <1>4, <2>2
<1> HIDE DEF us
<1>6. Len(us) = Len(ts) - 1 /\ DOMAIN us = 1..(Len(ts) - 1)
  BY <1>0, <1>1, <1>2, <1>3, <1>5, LenProperties
<1>7. \A i \in DOMAIN us : pos(i) \in DOMAIN ts /\ us[i] = ts[pos(i)]
  <2> SUFFICES ASSUME NEW i \in 1..(Len(ts) - 1)
               PROVE  pos(i) \in 1..Len(ts) /\ us[i] = ts[pos(i)]
    BY <1>0, <1>6
  <2>1. CASE i < k
    BY <1>0, <1>1, <1>2, <1>3, <1>5, <2>1
  <2>2. CASE ~(i < k)
    <3>1. i - (k - 1) \in 1..(Len(ts) - k) /\ k + (i - (k - 1)) = i + 1
      BY <1>0, <1>1, <2>2
    <3>2. us[i] = back[i - (k - 1)]
      BY <1>0, <1>1, <1>2, <1>3, <1>5, <2>2
    <3> QED
      BY <1>0, <1>1, <1>3, <2>2, <3>1, <3>2
  <2> QED
    BY <2>1, <2>2
<1>8. \A i, j \in DOMAIN us : us[i].msg = us[j].msg => i = j
  <2> SUFFICES ASSUME NEW i \in DOMAIN us, NEW j \in DOMAIN us, us[i].msg = us[j].msg
               PROVE  i = j
    OBVIOUS
  <2>1. pos(i) = pos(j)
    <3> HIDE DEF pos
    <3> QED
      BY <1>7
  <2>2. i \in Nat /\ j \in Nat
    BY <1>0, <1>6
  <2> QED
    BY <1>1, <2>1, <2>2
<1> HIDE DEF pos
<1> QED
  BY <1>0, <1>5, <1>6, <1>7, <1>8 DEF us
-----------------------------------------------------------------------------
\* The list.

\* Mutations that are disturbed stay in flight, and are no longer clean.
LEMMA DisturbFacts ==
    ASSUME NEW o \in [Slots -> Mutations \cup {None}], NEW which
    PROVE  LET p == Disturb(o, which)
           IN /\ p \in [Slots -> Mutations \cup {None}]
              /\ \A m \in Slots :
                     /\ p[m] = None <=> o[m] = None
                     /\ o[m] # None =>
                            /\ p[m].code = o[m].code /\ p[m].details = o[m].details
                            /\ p[m].clean => o[m].clean /\ ~which[m]
<1> DEFINE q(m) == IF o[m] # None /\ which[m] THEN [o[m] EXCEPT !.clean = FALSE] ELSE o[m]
<1>1. Disturb(o, which) = [m \in Slots |-> q(m)]
  BY DEF Disturb
<1>2. ASSUME NEW m \in Slots
      PROVE  /\ q(m) \in Mutations \cup {None}
             /\ q(m) = None <=> o[m] = None
             /\ o[m] # None =>
                    /\ q(m).code = o[m].code /\ q(m).details = o[m].details
                    /\ q(m).clean => o[m].clean /\ ~which[m]
  <2>1. CASE o[m] = None
    BY <2>1
  <2>2. CASE o[m] # None
    <3>1. o[m] \in Mutations
      BY <2>2
    <3>2. [o[m] EXCEPT !.clean = FALSE] \in Mutations
      BY <3>1 DEF Mutations
    <3> QED
      BY <2>2, <3>1, <3>2 DEF Mutations
  <2> QED
    BY <2>1, <2>2
<1> HIDE DEF q
<1> QED
  BY <1>1, <1>2

\* Steps that leave the list, the fetch and the mutations alone.
LEMMA ToastsOnly ==
    ASSUME IInv, ToastsOK', UNCHANGED <<me, server, cache, fetch, stale, ops, made>>
    PROVE  IInv'
<1>1. TypeOK'
  BY DEF IInv, TypeOK
<1> QED
  BY <1>1 DEF IInv, CancelKeepsList, OptimisticShown, FindVisit, Base, Loaded,
     FetchDisturbs, FetchCurrent, Settled, Quiet, InFlight

\* A fetch that starts, or goes on.
LEMMA StartIsFetch ==
    ASSUME NEW data \in Lists \cup {Absent}
    PROVE  /\ StartFetch(data) \in Fetches /\ StartFetch(data) # None
           /\ StartFetch(data).read = Absent /\ StartFetch(data).revert = data
BY DEF StartFetch, Fetches

LEMMA StepMeAnswers ==
    ASSUME IInv, MeAnswers
    PROVE  IInv'
<1>1. /\ me = "loading" /\ cache = Absent /\ fetch = None /\ InFlight = {} /\ InFlight' = {}
      /\ UNCHANGED <<server, cache, stale, ops, toasts, made>>
  BY DEF MeAnswers, IInv, TypeOK, Loaded, InFlight
<1>2. ToastsOK'
  BY <1>1 DEF IInv, TypeOK, ToastsOK
<1>3. CASE me' = "in" /\ fetch' = StartFetch(cache)
  <2>1. /\ fetch' \in Fetches /\ fetch' # None /\ fetch'.read = Absent
        /\ fetch'.revert = cache'
    BY <1>1, <1>3, StartIsFetch
  <2>2. TypeOK'
    BY <1>1, <1>2, <1>3, <2>1 DEF IInv, TypeOK
  <2> QED
    BY <1>1, <2>1, <2>2 DEF IInv, CancelKeepsList, OptimisticShown, Loaded,
       FetchDisturbs, FetchCurrent, Settled, Quiet
<1>4. CASE me' = "out" /\ fetch' = fetch
  <2>1. TypeOK'
    BY <1>1, <1>2, <1>4 DEF IInv, TypeOK
  <2> QED
    BY <1>1, <1>4, <2>1 DEF IInv, CancelKeepsList, OptimisticShown, Loaded,
       FetchDisturbs, FetchCurrent, Settled, Quiet
<1> QED
  BY <1>3, <1>4 DEF MeAnswers

LEMMA StepFetchReads ==
    ASSUME IInv, FetchReads
    PROVE  IInv'
<1>1. /\ fetch # None /\ fetch \in Fetches /\ fetch' = [fetch EXCEPT !.read = server]
      /\ server \in Lists
      /\ UNCHANGED <<me, server, cache, stale, ops, toasts, made>>
  BY DEF FetchReads, IInv, TypeOK
<1>2. /\ fetch' \in Fetches /\ fetch' # None /\ fetch'.read = server
      /\ fetch'.revert = fetch.revert
  BY <1>1 DEF Fetches
<1>3. TypeOK'
  BY <1>1, <1>2 DEF IInv, TypeOK, ToastsOK
<1>4. InFlight' = InFlight
  BY <1>1 DEF InFlight
<1> QED
  BY <1>1, <1>2, <1>3, <1>4 DEF IInv, CancelKeepsList, OptimisticShown, FindVisit, Base,
     Loaded, FetchDisturbs, FetchCurrent, Settled, Quiet

\* What was read lands; nothing in flight is clean.
LEMMA StepFetchLands ==
    ASSUME IInv, FetchLands
    PROVE  IInv'
<1>1. /\ fetch # None /\ fetch \in Fetches /\ fetch.read # Absent
      /\ cache' = fetch.read /\ fetch' = None /\ stale' = FALSE
      /\ UNCHANGED <<me, server, ops, toasts, made>>
  BY DEF FetchLands, IInv, TypeOK
<1>2. cache' \in Lists /\ me = "in"
  BY <1>1 DEF Fetches, IInv, TypeOK
<1>3. TypeOK'
  BY <1>1, <1>2 DEF IInv, TypeOK, ToastsOK
<1>4. InFlight' = InFlight
  BY <1>1 DEF InFlight
<1>5. OptimisticShown'
  BY <1>1, <1>4 DEF IInv, OptimisticShown, FetchDisturbs
<1>6. Settled'
  BY <1>1, <1>4 DEF IInv, FetchCurrent, Settled, Quiet
<1> QED
  BY <1>1, <1>2, <1>3, <1>4, <1>5, <1>6 DEF IInv, CancelKeepsList, Loaded,
     FetchDisturbs, FetchCurrent

LEMMA StepFetchFails ==
    ASSUME IInv, FetchFails
    PROVE  IInv'
<1>1. /\ fetch' = None /\ stale' = TRUE
      /\ UNCHANGED <<me, server, cache, ops, toasts, made>>
  BY DEF FetchFails
<1>2. TypeOK'
  BY <1>1 DEF IInv, TypeOK, ToastsOK
<1>3. InFlight' = InFlight
  BY <1>1 DEF InFlight
<1> QED
  BY <1>1, <1>2, <1>3 DEF IInv, CancelKeepsList, OptimisticShown, FindVisit, Base, Loaded,
     FetchDisturbs, FetchCurrent, Settled

LEMMA StepRefetch ==
    ASSUME IInv, Refetch
    PROVE  IInv'
<1>1. /\ me = "in" /\ fetch' = StartFetch(cache)
      /\ ops' = Disturb(ops, [n \in Slots |-> TRUE])
      /\ UNCHANGED <<me, server, cache, stale, toasts, made>>
  BY DEF Refetch
<1>2. cache \in Lists \cup {Absent} /\ ops \in [Slots -> Mutations \cup {None}]
  BY DEF IInv, TypeOK
<1>3. /\ fetch' \in Fetches /\ fetch' # None /\ fetch'.read = Absent
      /\ fetch'.revert = cache
  BY <1>1, <1>2, StartIsFetch
<1>4. /\ ops' \in [Slots -> Mutations \cup {None}]
      /\ \A m \in Slots : /\ ops'[m] = None <=> ops[m] = None
                          /\ ops[m] # None => ~ops'[m].clean
  BY <1>1, <1>2, DisturbFacts
<1>5. InFlight' = InFlight /\ \A m \in InFlight' : ~ops'[m].clean
  BY <1>4 DEF InFlight
<1>6. TypeOK'
  BY <1>1, <1>3, <1>4 DEF IInv, TypeOK, ToastsOK
<1> QED
  BY <1>1, <1>3, <1>5, <1>6 DEF IInv, CancelKeepsList, OptimisticShown, Loaded,
     FetchDisturbs, FetchCurrent, Settled, Quiet

-----------------------------------------------------------------------------
\* Mutations.

LEMMA StepServerWrites ==
    ASSUME IInv, NEW m \in Slots, ServerWrites(m)
    PROVE  IInv'
<1>1. /\ ops \in [Slots -> Mutations \cup {None}] /\ ops[m] # None /\ ops[m] \in Mutations
      /\ server' = [server EXCEPT ![ops[m].code] = ops[m].details]
      /\ ops' = [ops EXCEPT ![m].applied = TRUE]
      /\ UNCHANGED <<me, cache, fetch, stale, toasts, made>>
  BY DEF ServerWrites, IInv, TypeOK
<1>2. server' \in Lists
  BY <1>1 DEF IInv, TypeOK, Lists, Mutations
<1> DEFINE o == [ops[m] EXCEPT !.applied = TRUE]
<1>3. /\ o \in Mutations /\ o # None
      /\ o.code = ops[m].code /\ o.details = ops[m].details /\ o.clean = ops[m].clean
  BY <1>1 DEF Mutations
<1>4. ops' = [ops EXCEPT ![m] = o]
  BY <1>1
<1> HIDE DEF o
<1>5. /\ ops' \in [Slots -> Mutations \cup {None}]
      /\ ops'[m] = o /\ \A n \in Slots \ {m} : ops'[n] = ops[n]
  BY <1>1, <1>3, <1>4
<1>6. InFlight' = InFlight /\ m \in InFlight
  BY <1>1, <1>3, <1>5 DEF InFlight
<1>7. TypeOK'
  BY <1>1, <1>2, <1>5 DEF IInv, TypeOK, ToastsOK
<1>8. \A n \in InFlight : /\ ops'[n].code = ops[n].code /\ ops'[n].details = ops[n].details
                          /\ ops'[n].clean = ops[n].clean
  BY <1>3, <1>5 DEF InFlight
<1> QED
  BY <1>1, <1>6, <1>7, <1>8 DEF IInv, CancelKeepsList, OptimisticShown, FindVisit, Base,
     Loaded, FetchDisturbs, FetchCurrent, Settled, Quiet

\* A mutation that settles starts the fetch that will reconcile.
LEMMA SettleKeeps ==
    ASSUME IInv, NEW m \in Slots, ops[m] # None, NEW data \in Lists, NEW failed,
           Settle(m, data, failed), ToastsOK'
    PROVE  IInv'
<1>1. /\ cache' = data /\ fetch' = InvalidateQueries(data)
      /\ ops' = Disturb([ops EXCEPT ![m] = None], [n \in Slots |-> TRUE])
      /\ UNCHANGED <<me, server, stale, made>>
  BY DEF Settle
<1>2. /\ fetch' \in Fetches /\ fetch' # None /\ fetch'.read = Absent
      /\ fetch'.revert = data
  BY <1>1, StartIsFetch DEF InvalidateQueries
<1> DEFINE o == [ops EXCEPT ![m] = None]
<1>3. o \in [Slots -> Mutations \cup {None}] /\ \A n \in Slots : o[n] # None => ops[n] # None
  BY DEF IInv, TypeOK
<1>4. /\ ops' \in [Slots -> Mutations \cup {None}]
      /\ \A n \in Slots : /\ ops'[n] = None <=> o[n] = None
                          /\ o[n] # None => ~ops'[n].clean
  <2>1. ops' = Disturb(o, [n \in Slots |-> TRUE])
    BY <1>1
  <2> HIDE DEF o
  <2> QED
    BY <1>3, <2>1, DisturbFacts
<1> HIDE DEF o
<1>5. InFlight' \subseteq InFlight /\ \A n \in InFlight' : ~ops'[n].clean
  BY <1>3, <1>4 DEF InFlight
<1>6. me = "in" /\ m \in InFlight
  BY DEF IInv, Loaded, InFlight
<1>7. TypeOK'
  BY <1>1, <1>2, <1>4, <1>6 DEF IInv, TypeOK
<1> QED
  BY <1>1, <1>2, <1>5, <1>6, <1>7 DEF IInv, CancelKeepsList, OptimisticShown, Loaded,
     FetchDisturbs, FetchCurrent, Settled, Quiet

\* A list there is once a mutation is in flight.
LEMMA ListIsThere ==
    ASSUME IInv, NEW m \in Slots, ops[m] # None
    PROVE  cache \in Lists /\ ops[m] \in Mutations
BY DEF IInv, TypeOK, Loaded, InFlight

\* Toasts after a push, in the next state.
LEMMA PushKeeps ==
    ASSUME ToastsOK, NEW t \in Toasts, toasts' = PushToast(toasts, t)
    PROVE  ToastsOK'
BY PushFacts DEF ToastsOK

LEMMA StepSucceed ==
    ASSUME IInv, NEW m \in Slots, Succeed(m)
    PROVE  IInv'
<1>1. ops[m] # None /\ Settle(m, cache, FALSE) /\ UNCHANGED toasts
  BY DEF Succeed
<1>2. ToastsOK'
  BY <1>1 DEF IInv, TypeOK, ToastsOK
<1> QED
  BY <1>1, <1>2, ListIsThere, SettleKeeps

LEMMA StepFail ==
    ASSUME IInv, NEW m \in Slots, Fail(m)
    PROVE  IInv'
<1>1. /\ ops[m] # None /\ Settle(m, SetQueryData(ops[m].previous), TRUE)
      /\ toasts' = PushToast(toasts, ErrorToast)
  BY DEF Fail
<1>2. SetQueryData(ops[m].previous) \in Lists
  BY <1>1, ListIsThere DEF SetQueryData, Mutations
<1>3. ErrorToast \in Toasts /\ ToastsOK
  BY DEF ErrorToast, Toasts, IInv, TypeOK
<1>4. ToastsOK'
  BY <1>1, <1>3, PushKeeps
<1> QED
  BY <1>1, <1>2, <1>4, SettleKeeps

\* The optimistic change: the list shows it, and what it covers is disturbed.
LEMMA MutateKeeps ==
    ASSUME IInv, NEW m \in Slots, NEW c \in Codes, NEW d \in Details \cup {None},
           Mutate(m, c, d), ToastsOK'
    PROVE  IInv'
<1> DEFINE which == [n \in Slots |-> n \in InFlight /\ ops[n].code = c]
           new == [code |-> c, details |-> d, applied |-> FALSE, previous |-> cache,
                   clean |-> TRUE]
           p == Disturb(ops, which)
<1>1. CancelQueries = cache
  BY DEF CancelQueries, IInv, CancelKeepsList
<1>2. /\ me = "in" /\ ops[m] = None /\ made < MaxMade /\ made' = made + 1
      /\ fetch' = None /\ ops' = [p EXCEPT ![m] = new]
      /\ UNCHANGED <<me, server, stale>>
  BY <1>1 DEF Mutate
<1>3. cache' = [Base(cache) EXCEPT ![c] = d]
  BY <1>1 DEF Mutate, ApplyDelete, ApplyUpsert
<1>4. cache \in Lists \cup {Absent} /\ ops \in [Slots -> Mutations \cup {None}]
  BY DEF IInv, TypeOK
<1>5. Base(cache) \in Lists
  BY <1>4 DEF Base, Lists, Empty
<1>6. /\ cache' \in Lists /\ cache'[c] = d
      /\ \A e \in Codes \ {c} : cache'[e] = Base(cache)[e]
  BY <1>3, <1>5 DEF Lists
<1>7. new \in Mutations /\ new # None
  <2>1. new \in Mutations
    BY <1>4 DEF Mutations
  <2> HIDE DEF new
  <2> QED
    BY <2>1
<1>8. /\ p \in [Slots -> Mutations \cup {None}]
      /\ \A n \in Slots :
             /\ p[n] = None <=> ops[n] = None
             /\ ops[n] # None =>
                    /\ p[n].code = ops[n].code /\ p[n].details = ops[n].details
                    /\ p[n].clean => ops[n].clean /\ ~which[n]
  BY <1>4, DisturbFacts
<1>9. \A n \in Slots : ~which[n] /\ ops[n] # None => ops[n].code # c
  BY DEF InFlight
<1> HIDE DEF which, p
<1>10. /\ ops' \in [Slots -> Mutations \cup {None}] /\ ops'[m] = new
       /\ \A n \in Slots \ {m} : ops'[n] = p[n]
  BY <1>2, <1>7, <1>8
<1>11. new.code = c /\ new.details = d
  OBVIOUS
<1> HIDE DEF new
<1>12. InFlight' = InFlight \cup {m}
  BY <1>2, <1>7, <1>8, <1>10 DEF InFlight
<1>13. OptimisticShown'
  <2> SUFFICES ASSUME NEW n \in InFlight', ops'[n].clean
               PROVE  FindVisit(cache, ops[n].code)' = ops'[n].details
    BY DEF OptimisticShown
  <2>1. Base(cache)' = cache'
    BY <1>6 DEF Base
  <2>2. CASE n = m
    BY <1>6, <1>10, <1>11, <2>1, <2>2 DEF FindVisit
  <2>3. CASE n # m
    <3>1. n \in InFlight /\ n \in Slots /\ ops[n] # None /\ ops'[n] = p[n]
      BY <1>10, <1>12, <2>3 DEF InFlight
    <3>2. /\ p[n].code = ops[n].code /\ p[n].details = ops[n].details
          /\ ops[n].clean /\ ops[n].code # c
      BY <1>8, <1>9, <3>1
    <3>3. Base(cache)[ops[n].code] = ops[n].details /\ ops[n].code \in Codes
      BY <1>4, <3>1, <3>2 DEF IInv, OptimisticShown, FindVisit, Mutations
    <3>4. cache'[ops[n].code] = ops[n].details
      BY <1>6, <3>2, <3>3
    <3> QED
      BY <2>1, <3>1, <3>2, <3>4 DEF FindVisit
  <2> QED
    BY <2>2, <2>3
<1>14. TypeOK'
  <2>1. made' \in 0..MaxMade
    BY <1>2 DEF IInv, TypeOK
  <2> QED
    BY <1>2, <1>6, <1>10, <2>1 DEF IInv, TypeOK
<1> QED
  BY <1>2, <1>6, <1>12, <1>13, <1>14 DEF IInv, CancelKeepsList, Loaded, FetchDisturbs,
     FetchCurrent, Settled, Quiet

-----------------------------------------------------------------------------
\* Clicks.

\* What a row shows.
LEMMA VisibleType ==
    ASSUME IInv, NEW c \in Codes
    PROVE  Visible(c) \in Details \cup {None}
<1>1. cache \in Lists \cup {Absent}
  BY DEF IInv, TypeOK
<1>2. Base(cache) \in Lists
  BY <1>1 DEF Base, Lists, Empty
<1> QED
  BY <1>2 DEF Visible, FindVisit, Lists

\* Toasts after one is gone, in the next state.
LEMMA WithoutKeeps ==
    ASSUME ToastsOK, NEW i \in DOMAIN toasts, toasts' = Without(toasts, i)
    PROVE  ToastsOK'
BY WithoutFacts DEF ToastsOK

LEMMA StepDismissToast ==
    ASSUME IInv, NEW i \in DOMAIN toasts, DismissToast(i)
    PROVE  IInv'
<1>1. ToastsOK'
  BY WithoutKeeps DEF DismissToast, IInv, TypeOK
<1> QED
  BY <1>1, ToastsOnly DEF DismissToast

\* Ticking a row, or unticking it.
LEMMA ToggleIs ==
    ASSUME NEW m \in Slots, NEW c \in Codes, Toggle(m, c)
    PROVE  \E d \in Details \cup {None} : Mutate(m, c, d)
BY DEF Toggle, UpsertVisit, DeleteVisit

LEMMA StepRowToggle ==
    ASSUME IInv, NEW m \in Slots, NEW c \in Codes, RowToggle(m, c)
    PROVE  IInv'
<1>1. PICK d \in Details \cup {None} : Mutate(m, c, d)
  BY ToggleIs DEF RowToggle
<1>2. ToastsOK
  BY DEF IInv, TypeOK
<1>3. ToastsOK'
  <2> DEFINE t == [msg |-> c, undo |-> Visible(c)]
  <2>1. CASE Visible(c) = None
    BY <1>2, <2>1 DEF RowToggle, ToastsOK
  <2>2. CASE Visible(c) # None
    <3>1. t \in Toasts
      BY VisibleType DEF Toasts
    <3>2. toasts' = PushToast(toasts, t)
      BY <2>2 DEF RowToggle
    <3> QED
      BY <1>2, <3>1, <3>2, PushKeeps
  <2> QED
    BY <2>1, <2>2
<1> QED
  BY <1>1, <1>3, MutateKeeps

LEMMA StepSheet ==
    ASSUME IInv, NEW m \in Slots, NEW c \in Codes,
           SheetUnmark(m, c) \/ \E d \in Details : SheetSave(m, c, d)
    PROVE  IInv'
<1>1. PICK d \in Details \cup {None} : Mutate(m, c, d)
  BY DEF SheetUnmark, SheetSave, UpsertVisit, DeleteVisit
<1>2. UNCHANGED toasts /\ ToastsOK
  BY DEF SheetUnmark, SheetSave, IInv, TypeOK
<1>3. ToastsOK'
  BY <1>2 DEF ToastsOK
<1> QED
  BY <1>1, <1>3, MutateKeeps

LEMMA StepUndo ==
    ASSUME IInv, NEW m \in Slots, NEW i \in DOMAIN toasts, Undo(m, i)
    PROVE  IInv'
<1>1. /\ toasts[i].undo # None /\ Mutate(m, toasts[i].msg, toasts[i].undo)
      /\ toasts' = Without(toasts, i)
  BY DEF Undo, UpsertVisit
<1>2. ToastsOK /\ toasts[i] \in Toasts
  BY LenProperties DEF IInv, TypeOK, ToastsOK
<1>3. toasts[i].msg \in Codes /\ toasts[i].undo \in Details \cup {None}
  BY <1>1, <1>2 DEF Toasts
<1>4. ToastsOK'
  BY <1>1, <1>2, WithoutKeeps
<1> QED
  BY <1>1, <1>3, <1>4, MutateKeeps

-----------------------------------------------------------------------------
\* The theorems.

\* Nothing happens.
LEMMA Stutter ==
    ASSUME IInv, UNCHANGED vars
    PROVE  IInv'
<1>1. ToastsOK'
  BY DEF IInv, TypeOK, ToastsOK, vars
<1> QED
  BY <1>1, ToastsOnly DEF vars

\* IInv is inductive.
LEMMA NextIInv == IInv /\ [Next]_vars => IInv'
<1> SUFFICES ASSUME IInv, [Next]_vars
             PROVE  IInv'
  OBVIOUS
<1>1. CASE MeAnswers
  BY <1>1, StepMeAnswers
<1>2. CASE FetchReads
  BY <1>2, StepFetchReads
<1>3. CASE FetchLands
  BY <1>3, StepFetchLands
<1>4. CASE FetchFails
  BY <1>4, StepFetchFails
<1>5. CASE Refetch
  BY <1>5, StepRefetch
<1>6. CASE \E i \in DOMAIN toasts : DismissToast(i)
  BY <1>6, StepDismissToast
<1>7. ASSUME NEW m \in Slots,
             \/ ServerWrites(m) \/ Succeed(m) \/ Fail(m)
             \/ \E c \in Codes : RowToggle(m, c) \/ SheetUnmark(m, c)
             \/ \E c \in Codes, d \in Details : SheetSave(m, c, d)
             \/ \E i \in DOMAIN toasts : Undo(m, i)
      PROVE  IInv'
  BY <1>7, StepServerWrites, StepSucceed, StepFail, StepRowToggle, StepSheet, StepUndo
<1>8. CASE UNCHANGED vars
  BY <1>8, Stutter
<1> QED
  BY <1>1, <1>2, <1>3, <1>4, <1>5, <1>6, <1>7, <1>8 DEF Next

\* Types, what the page shows of mutations in flight, and what a fetch under
\* way has read, for any number of mutations.
THEOREM Invariance == Spec => []IInv
<1> QED
  BY InitIInv, NextIInv, PTL DEF Spec

\* A cancelled fetch changes nothing on the screen, and an optimistic change
\* (use-visits.ts, onMutate) is seen until something newer covers it.
THEOREM ChangesShown == Spec => []VisitsInv
<1>1. IInv => VisitsInv
  BY DEF IInv, VisitsInv
<1> QED
  BY <1>1, Invariance, PTL

\* Once no mutation and no fetch is under way the page shows the rows of the
\* server, or its last refetch failed.
THEOREM PageReconciled == Spec => []Reconciled
<1>1. IInv => Reconciled
  BY DEF IInv, TypeOK, Settled, Reconciled, Quiet
<1> QED
  BY <1>1, Invariance, PTL
=============================================================================
