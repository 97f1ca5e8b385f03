-------------------------- MODULE ProfileCacheProofs --------------------------
(***************************************************************************)
(* That what is stale in the profile cache is explained, for any users,    *)
(* usernames, readers and writers, whatever overlaps and whatever fails: a *)
(* mutation deletes, when it comes to that, the usernames it looked up and *)
(* those that its users have by then.                                      *)
(***************************************************************************)
EXTENDS ProfileCache, TLAPS

USE CacheNone, CachePublic, CacheMaxVersion

\* What one mutation needs of its own record: before it writes, it will delete
\* the username it looked up, if there was one.
WriterOK(q) ==
    /\ q.pc = "idle" <=> q = IdleWriter
    /\ q.pc # "idle" => q.op \in Ops /\ q.user \in Users
    /\ q.pc = "findBefore" => q.op = "update"
    /\ q.pc = "findTarget" => q.op \in {"follow", "unfollow"} /\ q.arg \in Handles
    /\ q.pc = "write" /\ q.op # "visit" => q.keys = Claimed(q.saw)
    /\ q.pc = "write" /\ q.op \in {"follow", "unfollow"} => q.target \in Users
    /\ q.pc = "findName" => q.op # "update"

WritersOK == \A w \in Writers : WriterOK(writer[w])

ReadersOK ==
    \A r \in Readers :
        /\ reader[r].pc # "idle" => reader[r].key \in Handles
        /\ reader[r].pc = "set" => reader[r].found \in Snapshot

IInv == TypeOK /\ WritersOK /\ ReadersOK /\ StaleExplained

\* Nothing is cached and nobody is under way.
LEMMA InitIInv == Init => IInv
<1> SUFFICES ASSUME Init
             PROVE  IInv
  OBVIOUS
<1>1. TypeOK
  BY DEF Init, TypeOK, IdleReader, IdleWriter, ReaderStates, WriterStates
<1>2. WritersOK /\ ReadersOK
  BY DEF Init, WritersOK, WriterOK, ReadersOK, IdleReader, IdleWriter
<1>3. StaleExplained
  BY DEF Init, StaleExplained, Stale
<1> QED
  BY <1>1, <1>2, <1>3 DEF IInv

-----------------------------------------------------------------------------
\* Readers, and the clock of Redis.

\* A step that changes no row and no mutation, and stores only what it says.
LEMMA CacheStep ==
    ASSUME IInv, UNCHANGED <<username, version, writer>>,
           cache' \in [Handles -> Entry \cup {None}],
           reader' \in [Readers -> ReaderStates], ReadersOK',
           \A h \in Handles :
               \/ cache'[h] \in {cache[h], None}
               \/ cache'[h].raced = Outdated(h, cache'[h].shows)
    PROVE  IInv'
<1>1. TypeOK' /\ WritersOK'
  BY DEF IInv, TypeOK, WritersOK
<1>2. StaleExplained'
  <2> SUFFICES ASSUME NEW h \in Handles, Stale(h)'
               PROVE  Excused(h)' \/ \E w \in Writers : Deletes(w, h)'
    BY DEF StaleExplained
  <2>1. \A w \in Writers : Deletes(w, h) => Deletes(w, h)'
    BY DEF Deletes, At
  <2>2. CASE cache'[h] \in {cache[h], None}
    BY <2>1, <2>2 DEF IInv, StaleExplained, Stale, Outdated, Excused
  <2>3. CASE cache'[h].raced = Outdated(h, cache'[h].shows)
    BY <2>3 DEF Stale, Outdated, Excused
  <2> QED
    BY <2>2, <2>3
<1> QED
  BY <1>1, <1>2 DEF IInv

\* A reader that becomes q.
LEMMA ReaderMoves ==
    ASSUME IInv, NEW r \in Readers, NEW q \in ReaderStates, reader' = [reader EXCEPT ![r] = q],
           q.pc # "idle" => q.key \in Handles,
           q.pc = "set" => q.found \in Snapshot
    PROVE  reader' \in [Readers -> ReaderStates] /\ ReadersOK'
<1>1. reader \in [Readers -> ReaderStates]
  BY DEF IInv, TypeOK
<1>2. reader'[r] = q /\ \A s \in Readers \ {r} : reader'[s] = reader[s]
  BY <1>1
<1> QED
  BY <1>1, <1>2 DEF IInv, ReadersOK

\* An idle reader is a reader.
LEMMA IdleReaderOK == IdleReader \in ReaderStates /\ IdleReader.pc = "idle"
BY DEF IdleReader, ReaderStates

\* A miss.
LEMMA StepMiss ==
    ASSUME IInv, NEW r \in Readers, NEW h \in Handles, Miss(r, h)
    PROVE  IInv'
<1> DEFINE q == [reader[r] EXCEPT !.pc = "findFirst", !.key = h]
<1>1. reader' = [reader EXCEPT ![r] = q] /\ UNCHANGED <<username, version, cache, writer>>
  BY DEF Miss, dbVars
<1>2. q \in ReaderStates /\ q.pc = "findFirst" /\ q.key = h
  BY DEF IInv, TypeOK, ReaderStates
<1> HIDE DEF q
<1>3. reader' \in [Readers -> ReaderStates] /\ ReadersOK'
  BY <1>1, <1>2, ReaderMoves
<1> QED
  BY <1>1, <1>3, CacheStep DEF IInv, TypeOK

\* The row, or 404.
LEMMA StepFindFirst ==
    ASSUME IInv, NEW r \in Readers, FindFirst(r)
    PROVE  IInv'
<1>1. /\ reader[r].pc = "findFirst" /\ reader[r] \in ReaderStates /\ reader[r].key \in Handles
      /\ UNCHANGED <<username, version, cache, writer>>
  BY DEF FindFirst, dbVars, IInv, TypeOK, ReadersOK
<1>2. ASSUME NEW u \in Public,
             reader' = [reader EXCEPT ![r].pc = "set",
                            ![r].found = [user |-> u, version |-> version[u]]]
      PROVE  reader' \in [Readers -> ReaderStates] /\ ReadersOK'
  <2> DEFINE s == [user |-> u, version |-> version[u]]
             q == [reader[r] EXCEPT !.pc = "set", !.found = s]
  <2>1. s \in Snapshot
    BY DEF Snapshot, IInv, TypeOK
  <2>2. q \in ReaderStates /\ q.pc = "set" /\ q.found = s /\ q.key = reader[r].key
    BY <1>1, <2>1 DEF ReaderStates
  <2>3. reader' = [reader EXCEPT ![r] = q]
    BY <1>2
  <2> HIDE DEF q
  <2> QED
    BY <1>1, <2>1, <2>2, <2>3, ReaderMoves
<1>3. ASSUME reader' = [reader EXCEPT ![r] = IdleReader]
      PROVE  reader' \in [Readers -> ReaderStates] /\ ReadersOK'
  BY <1>3, IdleReaderOK, ReaderMoves
<1>4. reader' \in [Readers -> ReaderStates] /\ ReadersOK'
  BY <1>2, <1>3 DEF FindFirst
<1> QED
  BY <1>1, <1>4, CacheStep DEF IInv, TypeOK

\* A snapshot is stored, and says whether it is out of date.
LEMMA StepSetEntry ==
    ASSUME IInv, NEW r \in Readers, SetEntry(r)
    PROVE  IInv'
<1> DEFINE h == reader[r].key
           e == Stored(r, TRUE)
<1>1. /\ h \in Handles /\ reader[r].found \in Snapshot
      /\ cache' = [cache EXCEPT ![h] = e] /\ reader' = [reader EXCEPT ![r] = IdleReader]
      /\ UNCHANGED <<username, version, writer>>
  BY DEF SetEntry, dbVars, IInv, ReadersOK
<1>2. e.raced = Outdated(h, e.shows) /\ e \in Entry
  BY <1>1 DEF Stored, Entry, Outdated
<1> HIDE DEF e
<1>3. reader' \in [Readers -> ReaderStates] /\ ReadersOK'
  BY <1>1, IdleReaderOK, ReaderMoves
<1>4. /\ cache' \in [Handles -> Entry \cup {None}]
      /\ \A k \in Handles : k # h => cache'[k] = cache[k]
      /\ cache'[h] = e
  BY <1>1, <1>2 DEF IInv, TypeOK
<1> QED
  BY <1>1, <1>2, <1>3, <1>4, CacheStep

\* An entry is gone.
LEMMA StepExpire ==
    ASSUME IInv, NEW h \in Handles, Expire(h)
    PROVE  IInv'
<1>1. /\ cache' = [cache EXCEPT ![h] = None]
      /\ UNCHANGED <<username, version, reader, writer>>
  BY DEF Expire, dbVars
<1>2. /\ cache' \in [Handles -> Entry \cup {None}]
      /\ \A k \in Handles : cache'[k] \in {cache[k], None}
  BY <1>1 DEF IInv, TypeOK
<1>3. reader' \in [Readers -> ReaderStates] /\ ReadersOK'
  BY <1>1 DEF IInv, TypeOK, ReadersOK
<1> QED
  BY <1>1, <1>2, <1>3, CacheStep

-----------------------------------------------------------------------------
\* Writers.

\* An idle writer is a writer.
LEMMA IdleWriterOK ==
    IdleWriter \in WriterStates /\ WriterOK(IdleWriter) /\ IdleWriter.pc = "idle"
BY DEF IdleWriter, WriterStates, WriterOK

\* A mutation that becomes q: what is left to show is that every entry it leaves
\* out of date is explained.
LEMMA WriterMoves ==
    ASSUME IInv, NEW w \in Writers, NEW q \in WriterStates, WriterOK(q),
           writer' = [writer EXCEPT ![w] = q], UNCHANGED reader,
           username' \in [Users -> Handles \cup {None}],
           version' \in [Users -> 0..MaxVersion],
           cache' \in [Handles -> Entry \cup {None}]
    PROVE  /\ writer'[w] = q /\ \A v \in Writers \ {w} : writer'[v] = writer[v]
           /\ StaleExplained' => IInv'
<1>1. writer \in [Writers -> WriterStates]
  BY DEF IInv, TypeOK
<1>2. /\ writer'[w] = q /\ \A v \in Writers \ {w} : writer'[v] = writer[v]
      /\ writer' \in [Writers -> WriterStates]
  BY <1>1
<1>3. TypeOK' /\ ReadersOK'
  BY <1>2 DEF IInv, TypeOK, ReadersOK
<1>4. WritersOK'
  BY <1>2 DEF IInv, WritersOK
<1> QED
  BY <1>2, <1>3, <1>4 DEF IInv

\* A mutation goes on without a change of rows or entries, and forgets nothing
\* it was to delete.
LEMMA WriterGoesOn ==
    ASSUME IInv, NEW w \in Writers, NEW q \in WriterStates, WriterOK(q),
           writer' = [writer EXCEPT ![w] = q],
           UNCHANGED <<username, version, cache, reader>>,
           \/ writer[w].pc \notin {"findName", "del"}
           \/ /\ writer[w].pc = "findName" /\ q.pc = "del"
              /\ q.keys = writer[w].keys \cup Claimed(username[writer[w].user])
    PROVE  IInv'
<1>1. /\ writer'[w] = q /\ \A v \in Writers \ {w} : writer'[v] = writer[v]
      /\ StaleExplained' => IInv'
  BY WriterMoves DEF IInv, TypeOK
<1>2. ASSUME NEW h \in Handles, NEW v \in Writers, Deletes(v, h)
      PROVE  Deletes(v, h)'
  <2>1. CASE v # w
    BY <1>1, <1>2, <2>1 DEF Deletes, At
  <2>2. CASE v = w
    BY <1>1, <1>2, <2>2, CacheNone DEF Deletes, At, Claimed
  <2> QED
    BY <2>1, <2>2
<1>3. StaleExplained'
  BY <1>2 DEF IInv, StaleExplained, Stale, Outdated, Excused
<1> QED
  BY <1>1, <1>3

\* A request arrives.
LEMMA ArriveOK ==
    ASSUME IInv, NEW w \in Writers, NEW q \in WriterStates, Arrive(w, q), WriterOK(q)
    PROVE  IInv'
<1>1. /\ writer[w] = IdleWriter /\ writer' = [writer EXCEPT ![w] = q]
      /\ UNCHANGED <<username, version, cache, reader>>
  BY DEF Arrive, dbVars
<1> QED
  BY <1>1, IdleWriterOK, WriterGoesOn

\* PUT and DELETE of a visit.
LEMMA StepStartVisit ==
    ASSUME IInv, NEW w \in Writers, NEW u \in Users, StartVisit(w, u)
    PROVE  IInv'
<1> DEFINE q == [IdleWriter EXCEPT !.op = "visit", !.pc = "write", !.user = u]
<1>1. Arrive(w, q)
  BY DEF StartVisit
<1>2. q.op = "visit" /\ q.pc = "write" /\ q.user = u /\ q # IdleWriter
  BY DEF IdleWriter
<1>3. q.op \in Ops
  BY <1>1 DEF Arrive
<1>4. q \in WriterStates
  BY <1>3 DEF IdleWriter, WriterStates
<1>5. WriterOK(q)
  BY <1>2, <1>3 DEF WriterOK
<1> HIDE DEF q
<1> QED
  BY <1>1, <1>4, <1>5, ArriveOK

\* PUT and DELETE of a follow.
LEMMA StepStartFollow ==
    ASSUME IInv, NEW w \in Writers, NEW u \in Users, NEW h \in Handles, StartFollow(w, u, h)
    PROVE  IInv'
<1>0. PICK op \in {"follow", "unfollow"} :
          Arrive(w, [IdleWriter EXCEPT !.op = op, !.pc = "findTarget", !.user = u, !.arg = h])
  BY DEF StartFollow
<1> DEFINE q == [IdleWriter EXCEPT !.op = op, !.pc = "findTarget", !.user = u, !.arg = h]
<1>1. Arrive(w, q)
  BY <1>0
<1>2. q.op = op /\ q.pc = "findTarget" /\ q.user = u /\ q.arg = h /\ q # IdleWriter
  BY DEF IdleWriter
<1>3. q.op \in Ops
  BY <1>1 DEF Arrive
<1>4. q \in WriterStates
  BY <1>2, <1>3 DEF IdleWriter, WriterStates
<1>5. WriterOK(q)
  BY <1>2, <1>3 DEF WriterOK
<1> HIDE DEF q
<1> QED
  BY <1>1, <1>4, <1>5, ArriveOK

\* PATCH /me.
LEMMA StepStartUpdate ==
    ASSUME IInv, NEW w \in Writers, NEW u \in Users, NEW h \in Handles \cup {None},
           StartUpdate(w, u, h)
    PROVE  IInv'
<1> DEFINE q == [IdleWriter EXCEPT !.op = "update", !.pc = "findBefore", !.user = u, !.arg = h]
<1>1. Arrive(w, q)
  BY DEF StartUpdate
<1>2. q.op = "update" /\ q.pc = "findBefore" /\ q.user = u /\ q # IdleWriter
  BY DEF IdleWriter
<1>3. q.op \in Ops
  BY <1>1 DEF Arrive
<1>4. q \in WriterStates
  BY <1>3 DEF IdleWriter, WriterStates
<1>5. WriterOK(q)
  BY <1>2, <1>3 DEF WriterOK
<1> HIDE DEF q
<1> QED
  BY <1>1, <1>4, <1>5, ArriveOK

\* The username before the update.
LEMMA StepFindBefore ==
    ASSUME IInv, NEW w \in Writers, FindBefore(w)
    PROVE  IInv'
<1> DEFINE n == username[writer[w].user]
           q == [writer[w] EXCEPT !.pc = "write", !.keys = Claimed(n), !.saw = n]
<1>1. /\ writer[w].pc = "findBefore" /\ writer[w].op = "update" /\ writer[w].user \in Users
      /\ writer[w].op \in Ops
      /\ writer[w] \in WriterStates /\ writer' = [writer EXCEPT ![w] = q]
      /\ UNCHANGED <<username, version, cache, reader>>
  BY DEF FindBefore, At, dbVars, IInv, TypeOK, WritersOK, WriterOK
<1>2. n \in Handles \cup {None} /\ Claimed(n) \in SUBSET Handles
  BY <1>1 DEF Claimed, IInv, TypeOK
<1> HIDE DEF n
<1>3. /\ q \in WriterStates /\ q.pc = "write" /\ q.op = "update" /\ q.user = writer[w].user
      /\ q.keys = Claimed(q.saw) /\ q # IdleWriter
  BY <1>1, <1>2 DEF WriterStates, IdleWriter
<1> HIDE DEF q
<1>4. WriterOK(q)
  BY <1>1, <1>3 DEF WriterOK
<1> QED
  BY <1>1, <1>3, <1>4, WriterGoesOn

\* The target of a follow, or 404.
LEMMA StepFindTarget ==
    ASSUME IInv, NEW w \in Writers, FindTarget(w)
    PROVE  IInv'
<1>1. /\ writer[w].pc = "findTarget" /\ writer[w].op \in {"follow", "unfollow"}
      /\ writer[w].arg \in Handles /\ writer[w].user \in Users /\ writer[w].op \in Ops
      /\ writer[w] \in WriterStates
      /\ UNCHANGED <<username, version, cache, reader>>
  BY DEF FindTarget, At, dbVars, IInv, TypeOK, WritersOK, WriterOK
<1>2. CASE writer' = [writer EXCEPT ![w] = IdleWriter]
  BY <1>1, <1>2, IdleWriterOK, WriterGoesOn
<1>3. ASSUME NEW t \in Users,
             writer' = [writer EXCEPT ![w].pc = "write", ![w].target = t,
                                      ![w].keys = {writer[w].arg}, ![w].saw = writer[w].arg]
      PROVE  IInv'
  <2> DEFINE q == [writer[w] EXCEPT !.pc = "write", !.target = t,
                                    !.keys = {writer[w].arg}, !.saw = writer[w].arg]
  <2>1. writer' = [writer EXCEPT ![w] = q]
    BY <1>3
  <2>2. /\ q \in WriterStates /\ q.pc = "write" /\ q.op = writer[w].op
        /\ q.user = writer[w].user /\ q.target = t /\ q.keys = {writer[w].arg}
        /\ q.saw = writer[w].arg /\ q # IdleWriter
    BY <1>1 DEF WriterStates, IdleWriter
  <2> HIDE DEF q
  <2>3. WriterOK(q)
    BY <1>1, <2>2 DEF WriterOK, Claimed
  <2> QED
    BY <1>1, <2>1, <2>2, <2>3, WriterGoesOn
<1> QED
  BY <1>2, <1>3 DEF FindTarget

\* The writer's own username.
LEMMA StepFindName ==
    ASSUME IInv, NEW w \in Writers, FindName(w)
    PROVE  IInv'
<1> DEFINE c == Claimed(username[writer[w].user])
           q == [writer[w] EXCEPT !.pc = "del", !.keys = @ \cup c]
<1>1. /\ writer[w].pc = "findName" /\ writer[w].user \in Users /\ writer[w].op \in Ops
      /\ writer[w] \in WriterStates /\ writer' = [writer EXCEPT ![w] = q]
      /\ UNCHANGED <<username, version, cache, reader>>
  BY DEF FindName, At, dbVars, IInv, TypeOK, WritersOK, WriterOK
<1>2. c \in SUBSET Handles
  BY <1>1 DEF Claimed, IInv, TypeOK
<1> HIDE DEF c
<1>3. /\ q \in WriterStates /\ q.pc = "del" /\ q.op = writer[w].op
      /\ q.user = writer[w].user /\ q.keys = writer[w].keys \cup c /\ q # IdleWriter
  BY <1>1, <1>2 DEF WriterStates, IdleWriter
<1> HIDE DEF q
<1>4. WriterOK(q)
  BY <1>1, <1>3 DEF WriterOK
<1> QED
  BY <1>1, <1>3, <1>4, WriterGoesOn DEF c

\* The DEL.
LEMMA StepInvalidate ==
    ASSUME IInv, NEW w \in Writers, Invalidate(w)
    PROVE  IInv'
<1>1. /\ writer[w].pc = "del" /\ writer' = [writer EXCEPT ![w] = IdleWriter]
      /\ cache' = [h \in Handles |-> IF h \in writer[w].keys THEN None ELSE cache[h]]
      /\ UNCHANGED <<username, version, reader>>
  BY DEF Invalidate, At, dbVars
<1>2. /\ \A v \in Writers \ {w} : writer'[v] = writer[v]
      /\ StaleExplained' => IInv'
  BY <1>1, IdleWriterOK, WriterMoves DEF IInv, TypeOK
<1>3. StaleExplained'
  <2> SUFFICES ASSUME NEW h \in Handles, Stale(h)'
               PROVE  Excused(h)' \/ \E v \in Writers : Deletes(v, h)'
    BY DEF StaleExplained
  <2>1. h \notin writer[w].keys /\ cache'[h] = cache[h]
    BY <1>1 DEF Stale
  <2>2. Excused(h) \/ \E v \in Writers : Deletes(v, h)
    BY <1>1, <2>1 DEF IInv, StaleExplained, Stale, Outdated
  <2>3. ~Deletes(w, h)
    BY <1>1, <2>1 DEF Deletes, At
  <2>4. \A v \in Writers \ {w} : Deletes(v, h) => Deletes(v, h)'
    BY <1>1, <1>2 DEF Deletes, At
  <2> QED
    BY <2>1, <2>2, <2>3, <2>4 DEF Excused
<1> QED
  BY <1>2, <1>3

-----------------------------------------------------------------------------
\* What is written into the history of an entry.

\* Entries go or keep what they show and what excuses them.
Kept ==
    \A h \in Handles :
        /\ cache[h] = None => cache'[h] = None
        /\ cache[h] # None => cache'[h].shows = cache[h].shows
        /\ cache[h] # None /\ Excused(h) => Excused(h)'

\* An entry with one more event in its history.
Flagged(e, what) == [e EXCEPT ![what] = TRUE]

\* Only flags are set, and what was excused stays so.
LEMMA MarkedEntries ==
    ASSUME IInv, NEW hs, NEW what \in {"lost", "renamed"}, cache' = Marked(hs, what)
    PROVE  /\ cache' \in [Handles -> Entry \cup {None}]
           /\ Kept
           /\ \A h \in hs \cap Handles : cache[h] # None => Excused(h)'
<1>1. \A e \in Entry :
          /\ Flagged(e, what) \in Entry
          /\ Flagged(e, what).shows = e.shows
          /\ e.raced => Flagged(e, what).raced
          /\ e.lost => Flagged(e, what).lost
          /\ e.renamed => Flagged(e, what).renamed
          /\ Flagged(e, what).lost \/ Flagged(e, what).renamed
  BY DEF Entry, Flagged
<1>2. cache' = [h \in Handles |-> IF h \in hs /\ cache[h] # None THEN Flagged(cache[h], what) ELSE cache[h]]
  BY DEF Marked, Flagged
<1>3. \A h \in Handles : cache[h] \in Entry \cup {None}
  BY DEF IInv, TypeOK
<1>4. ASSUME NEW h \in Handles
      PROVE  cache'[h] = IF h \in hs /\ cache[h] # None THEN Flagged(cache[h], what) ELSE cache[h]
  BY <1>2
<1>5. ASSUME NEW h \in Handles
      PROVE  cache'[h] \in Entry \cup {None}
  BY <1>1, <1>3, <1>4
<1>6. cache' \in [Handles -> Entry \cup {None}]
  <2>1. cache' = [h \in Handles |-> cache'[h]]
    BY <1>2
  <2> QED
    BY <1>5, <2>1
<1>7. ASSUME NEW h \in Handles, cache[h] # None
      PROVE  /\ cache'[h].shows = cache[h].shows
             /\ Excused(h) => Excused(h)'
             /\ h \in hs => Excused(h)'
  <2>1. cache[h] \in Entry
    BY <1>3, <1>7
  <2>2. CASE h \in hs
    <3>1. cache'[h] = Flagged(cache[h], what)
      BY <1>4, <1>7, <2>2
    <3> QED
      BY <1>1, <2>1, <3>1 DEF Excused
  <2>3. CASE h \notin hs
    <3>1. cache'[h] = cache[h]
      BY <1>4, <2>3
    <3> QED
      BY <2>3, <3>1 DEF Excused
  <2> QED
    BY <2>2, <2>3
<1>8. ASSUME NEW h \in Handles, cache[h] = None
      PROVE  cache'[h] = None
  BY <1>4, <1>8
<1> QED
  BY <1>6, <1>7, <1>8 DEF Kept

\* A mutation dies or cannot reach Redis: what it would have deleted says so.
LEMMA StepWriterFails ==
    ASSUME IInv, NEW w \in Writers, WriterFails(w)
    PROVE  IInv'
<1> DEFINE hs == {h \in Handles : Stale(h) /\ Deletes(w, h)}
<1>1. /\ cache' = Marked(hs, "lost") /\ writer' = [writer EXCEPT ![w] = IdleWriter]
      /\ UNCHANGED <<username, version, reader>>
  BY DEF WriterFails, dbVars
<1>2. \A h \in Handles : Stale(h) /\ Deletes(w, h) => h \in hs
  OBVIOUS
<1> HIDE DEF hs
<1>3. /\ cache' \in [Handles -> Entry \cup {None}]
      /\ Kept
      /\ \A h \in hs \cap Handles : cache[h] # None => Excused(h)'
  BY <1>1, MarkedEntries
<1>4. /\ \A v \in Writers \ {w} : writer'[v] = writer[v]
      /\ StaleExplained' => IInv'
  BY <1>1, <1>3, IdleWriterOK, WriterMoves DEF IInv, TypeOK
<1>5. StaleExplained'
  <2> SUFFICES ASSUME NEW h \in Handles, Stale(h)'
               PROVE  Excused(h)' \/ \E v \in Writers : Deletes(v, h)'
    BY DEF StaleExplained
  <2>1. cache[h] # None
    BY <1>3 DEF Stale, Kept
  <2>2. Stale(h)
    BY <1>1, <1>3, <2>1 DEF Stale, Outdated, Kept
  <2>3. Excused(h) \/ \E v \in Writers : Deletes(v, h)
    BY <2>2 DEF IInv, StaleExplained
  <2>4. \A v \in Writers \ {w} : Deletes(v, h) => Deletes(v, h)'
    BY <1>1, <1>4 DEF Deletes, At
  <2>5. Excused(h) => Excused(h)'
    BY <1>3, <2>1 DEF Kept
  <2>6. Deletes(w, h) => Excused(h)'
    BY <1>2, <1>3, <2>1, <2>2
  <2> QED
    BY <2>3, <2>4, <2>5, <2>6
<1> QED
  BY <1>4, <1>5

-----------------------------------------------------------------------------
\* The statements that change what profiles show.

\* Versions grow by one, and only for these users.
LEMMA Changed ==
    ASSUME IInv, NEW us, Change(us) \/ UNCHANGED version
    PROVE  /\ version' \in [Users -> 0..MaxVersion]
           /\ \A u \in Users : u \notin us => version'[u] = version[u]
<1>1. CASE UNCHANGED version
  BY <1>1 DEF IInv, TypeOK
<1>2. CASE Change(us)
  <2>1. /\ \A u \in us : version[u] < MaxVersion
        /\ version' = [u \in Users |-> IF u \in us THEN version[u] + 1 ELSE version[u]]
    BY <1>2 DEF Change
  <2>2. \A u \in Users : version[u] \in 0..MaxVersion
    BY DEF IInv, TypeOK
  <2>3. \A u \in Users : u \in us => version[u] + 1 \in 0..MaxVersion
    BY <2>1, <2>2
  <2> QED
    BY <2>1, <2>2, <2>3
<1> QED
  BY <1>1, <1>2

\* What an entry shows is some version of a user.
LEMMA EntryShows ==
    ASSUME IInv, NEW h \in Handles, cache[h] # None
    PROVE  cache[h].shows.user \in Users
BY DEF IInv, TypeOK, Entry, Snapshot

\* Only the rows of us change.
OnlyRows(us) == \A u \in Users \ us : username'[u] = username[u] /\ version'[u] = version[u]

\* Mutation w, which becomes q, will delete the entries of the users it changed,
\* or says why not.
Accounted(w, q, us) ==
    \A u \in us, h \in Handles :
        username[u] = h /\ cache[h] # None =>
            \/ h \in q.keys /\ q.pc \in {"findName", "del"}
            \/ q.pc = "findName" /\ q.user = u /\ username'[u] = h
            \/ Excused(h)'

\* A mutation w writes: the entries it makes stale, or of which it makes another
\* mutation forget the username, are to be deleted or have been given a reason.
LEMMA WriteStep ==
    ASSUME IInv, NEW w \in Writers, NEW q \in WriterStates, WriterOK(q),
           writer[w].pc = "write", writer' = [writer EXCEPT ![w] = q], UNCHANGED reader,
           username' \in [Users -> Handles \cup {None}],
           version' \in [Users -> 0..MaxVersion],
           cache' \in [Handles -> Entry \cup {None}],
           NEW us \in SUBSET Users, OnlyRows(us), Kept, Accounted(w, q, us)
    PROVE  IInv'
<1>1. /\ writer'[w] = q /\ \A v \in Writers \ {w} : writer'[v] = writer[v]
      /\ StaleExplained' => IInv'
  BY WriterMoves
<1>2. StaleExplained'
  <2> SUFFICES ASSUME NEW h \in Handles, Stale(h)'
               PROVE  Excused(h)' \/ \E v \in Writers : Deletes(v, h)'
    BY DEF StaleExplained
  <2> DEFINE x == cache[h].shows.user
  <2>1. cache[h] # None
    BY DEF Stale, Kept
  <2>2. cache'[h].shows = cache[h].shows /\ (Excused(h) => Excused(h)') /\ x \in Users
    BY <2>1, EntryShows DEF Kept
  <2>3. ASSUME NEW u \in us, username[u] = h
        PROVE  Excused(h)' \/ \E v \in Writers : Deletes(v, h)'
    <3>1. \/ h \in q.keys /\ q.pc \in {"findName", "del"}
          \/ q.pc = "findName" /\ q.user = u /\ username'[u] = h
          \/ Excused(h)'
      BY <2>1, <2>3 DEF Accounted
    <3>2. Excused(h)' \/ Deletes(w, h)'
      BY <1>1, <3>1 DEF Deletes, At
    <3> QED
      BY <3>2
  <2>4. CASE Stale(h)
    <3>1. Excused(h) \/ \E v \in Writers : Deletes(v, h)
      BY <2>4 DEF IInv, StaleExplained
    <3>2. ASSUME NEW v \in Writers, Deletes(v, h)
          PROVE  Excused(h)' \/ \E y \in Writers : Deletes(y, h)'
      <4>1. v # w /\ writer'[v] = writer[v]
        BY <1>1, <3>2 DEF Deletes, At
      <4>2. CASE writer[v].pc \in {"findName", "del"} /\ h \in writer[v].keys
        <5>1. Deletes(v, h)'
          BY <4>1, <4>2 DEF Deletes
        <5> QED
          BY <5>1
      <4>3. CASE writer[v].pc = "findName" /\ username[writer[v].user] = h
        <5> DEFINE u == writer[v].user
        <5>1. u \in Users
          BY <4>3 DEF IInv, WritersOK, WriterOK
        <5>2. CASE u \in us
          BY <2>3, <4>3, <5>2
        <5>3. CASE u \notin us
          <6>1. username'[u] = username[u]
            BY <5>1, <5>3 DEF OnlyRows
          <6>2. Deletes(v, h)'
            BY <4>1, <4>3, <6>1 DEF Deletes, At
          <6> QED
            BY <6>2
        <5> QED
          BY <5>2, <5>3
      <4> QED
        BY <3>2, <4>2, <4>3 DEF Deletes, At
    <3> QED
      BY <2>2, <3>1, <3>2
  <2>5. CASE ~Stale(h)
    <3>1. username[x] = h /\ version[x] = cache[h].shows.version
      BY <2>1, <2>5 DEF Stale, Outdated
    <3>2. username'[x] # h \/ version'[x] # cache[h].shows.version
      BY <2>2 DEF Stale, Outdated
    <3>3. x \in us
      BY <2>2, <3>1, <3>2 DEF OnlyRows
    <3> HIDE DEF x
    <3> QED
      BY <2>3, <3>1, <3>3
  <2> QED
    BY <2>4, <2>5
<1> QED
  BY <1>1, <1>2

\* A visit.
LEMMA StepWriteVisit ==
    ASSUME IInv, NEW w \in Writers, WriteVisit(w)
    PROVE  IInv'
<1> DEFINE q == [writer[w] EXCEPT !.pc = "findName"]
           us == {writer[w].user}
<1>1. /\ writer[w].pc = "write" /\ writer[w].op = "visit" /\ writer' = [writer EXCEPT ![w] = q]
      /\ Change(us) \/ UNCHANGED version
      /\ UNCHANGED <<username, cache, reader>>
  BY DEF WriteVisit, At
<1>2. writer[w] \in WriterStates /\ WriterOK(writer[w])
  BY DEF IInv, TypeOK, WritersOK
<1>3. /\ q \in WriterStates /\ q.pc = "findName" /\ q.op = "visit"
      /\ q.user = writer[w].user /\ q # IdleWriter
  BY <1>1, <1>2 DEF WriterStates, IdleWriter
<1> HIDE DEF q
<1>4. WriterOK(q)
  BY <1>1, <1>2, <1>3 DEF WriterOK
<1>5. /\ username' \in [Users -> Handles \cup {None}]
      /\ cache' \in [Handles -> Entry \cup {None}]
  BY <1>1 DEF IInv, TypeOK
<1>6. us \in SUBSET Users
  BY <1>1, <1>2 DEF WriterOK
<1>7. version' \in [Users -> 0..MaxVersion] /\ OnlyRows(us)
  BY <1>1, Changed DEF OnlyRows
<1>8. Kept
  BY <1>1 DEF Kept, Excused
<1>9. Accounted(w, q, us)
  BY <1>1, <1>3 DEF Accounted
<1> HIDE DEF us
<1> QED
  BY <1>1, <1>3, <1>4, <1>5, <1>6, <1>7, <1>8, <1>9, WriteStep

\* A follow: the rows of both users count.
LEMMA StepWriteFollow ==
    ASSUME IInv, NEW w \in Writers, WriteFollow(w)
    PROVE  IInv'
<1> DEFINE q == [writer[w] EXCEPT !.pc = "findName"]
           t == writer[w].target
           us == {writer[w].user, t}
<1>1. /\ writer[w].pc = "write" /\ writer[w].op \in {"follow", "unfollow"}
      /\ writer' = [writer EXCEPT ![w] = q]
      /\ \/ Change(us) /\ cache' = Marked(Moved(w, t), "renamed")
         \/ UNCHANGED <<version, cache>>
      /\ UNCHANGED <<username, reader>>
  BY DEF WriteFollow, At
<1>2. writer[w] \in WriterStates /\ WriterOK(writer[w])
  BY DEF IInv, TypeOK, WritersOK
<1>3. /\ q \in WriterStates /\ q.pc = "findName" /\ q.op = writer[w].op
      /\ q.user = writer[w].user /\ q.keys = writer[w].keys /\ q # IdleWriter
  BY <1>1, <1>2 DEF WriterStates, IdleWriter
<1> HIDE DEF q
<1>4. /\ WriterOK(q) /\ q.keys = Claimed(writer[w].saw)
  BY <1>1, <1>2, <1>3 DEF WriterOK
<1>5. us \in SUBSET Users /\ username' \in [Users -> Handles \cup {None}]
  BY <1>1, <1>2 DEF WriterOK, IInv, TypeOK
<1>6. CASE Change(us) /\ cache' = Marked(Moved(w, t), "renamed")
  <2>1. /\ cache' \in [Handles -> Entry \cup {None}]
        /\ Kept
        /\ \A h \in Moved(w, t) \cap Handles : cache[h] # None => Excused(h)'
    BY <1>6, MarkedEntries
  <2>2. version' \in [Users -> 0..MaxVersion] /\ OnlyRows(us)
    BY <1>1, <1>6, Changed DEF OnlyRows
  <2>3. ASSUME NEW h \in Handles, NEW u \in us, username[u] = h, cache[h] # None
        PROVE  \/ h \in q.keys /\ q.pc \in {"findName", "del"}
               \/ q.pc = "findName" /\ q.user = u /\ username'[u] = h
               \/ Excused(h)'
    <3>1. CASE u = writer[w].user
      BY <1>1, <1>3, <2>3, <3>1
    <3>2. CASE u = t
      <4>1. h \in q.keys \/ h \in Moved(w, t)
        BY <1>4, <2>3, <3>2, CacheNone DEF Moved, Claimed
      <4> QED
        BY <1>3, <2>1, <2>3, <4>1
    <3> QED
      BY <3>1, <3>2
  <2>4. Accounted(w, q, us)
    BY <2>3 DEF Accounted
  <2> HIDE DEF us
  <2> QED
    BY <1>1, <1>3, <1>4, <1>5, <2>1, <2>2, <2>4, WriteStep
<1>7. CASE UNCHANGED <<version, cache>>
  <2>1. version' \in [Users -> 0..MaxVersion] /\ cache' \in [Handles -> Entry \cup {None}]
    BY <1>7 DEF IInv, TypeOK
  <2>2. OnlyRows({}) /\ Accounted(w, q, {})
    BY <1>1, <1>7 DEF OnlyRows, Accounted
  <2>3. Kept
    BY <1>7 DEF Kept, Excused
  <2> QED
    BY <1>1, <1>3, <1>4, <1>5, <2>1, <2>2, <2>3, WriteStep
<1> QED
  BY <1>1, <1>6, <1>7

\* PATCH /me: the usernames it looked up and wrote will be deleted, and one that
\* came in between is noted.
LEMMA StepWriteUser ==
    ASSUME IInv, NEW w \in Writers, WriteUser(w)
    PROVE  IInv'
<1> DEFINE u == writer[w].user
           h0 == writer[w].arg
<1>1. /\ writer[w].pc = "write" /\ writer[w].op = "update" /\ writer[w] \in WriterStates
      /\ WriterOK(writer[w]) /\ u \in Users /\ writer[w].op \in Ops
      /\ writer[w].keys = Claimed(writer[w].saw) /\ UNCHANGED reader
  BY DEF WriteUser, At, IInv, TypeOK, WritersOK, WriterOK
<1>2. CASE /\ writer' = [writer EXCEPT ![w] = IdleWriter]
           /\ UNCHANGED <<username, version, cache>>
  BY <1>1, <1>2, IdleWriterOK, WriterGoesOn
<1>3. CASE /\ username' = IF h0 = None THEN username ELSE [username EXCEPT ![u] = h0]
           /\ Change({u}) \/ UNCHANGED version
           /\ cache' = IF h0 = None THEN cache ELSE Marked(Moved(w, u), "renamed")
           /\ writer' = [writer EXCEPT ![w].pc = "del",
                                       ![w].keys = @ \cup Claimed(username'[u])]
  <2> DEFINE c == Claimed(username'[u])
             q == [writer[w] EXCEPT !.pc = "del", !.keys = @ \cup c]
             us == {u}
  <2>1. /\ username' \in [Users -> Handles \cup {None}]
        /\ \A v \in Users \ {u} : username'[v] = username[v]
    BY <1>1, <1>3 DEF IInv, TypeOK, WriterStates
  <2>2. c \in SUBSET Handles
    BY <1>1, <2>1 DEF Claimed
  <2>3. writer' = [writer EXCEPT ![w] = q]
    BY <1>3
  <2>4. /\ q \in WriterStates /\ q.pc = "del" /\ q.op = writer[w].op /\ q.user = u
        /\ q.keys = writer[w].keys \cup c /\ q # IdleWriter
    <3> HIDE DEF c
    <3> QED
      BY <1>1, <2>2 DEF WriterStates, IdleWriter
  <2> HIDE DEF q
  <2>5. WriterOK(q)
    BY <1>1, <2>4 DEF WriterOK
  <2>6. /\ cache' \in [Handles -> Entry \cup {None}]
        /\ Kept
        /\ h0 # None => \A h \in Moved(w, u) \cap Handles : cache[h] # None => Excused(h)'
    <3>1. CASE h0 = None
      BY <1>3, <3>1 DEF IInv, TypeOK, Kept, Excused
    <3>2. CASE h0 # None
      <4>1. cache' = Marked(Moved(w, u), "renamed")
        BY <1>3, <3>2
      <4> QED
        BY <4>1, MarkedEntries
    <3> QED
      BY <3>1, <3>2
  <2>7. version' \in [Users -> 0..MaxVersion] /\ OnlyRows(us)
    BY <1>3, <2>1, Changed DEF OnlyRows
  <2>8. ASSUME NEW h \in Handles, username[u] = h, cache[h] # None
        PROVE  h \in q.keys \/ Excused(h)'
    <3>1. CASE h0 = None
      BY <1>3, <2>4, <2>8, <3>1, CacheNone DEF Claimed
    <3>2. CASE h0 # None
      <4>1. h \in writer[w].keys \/ h \in Moved(w, u)
        BY <1>1, <2>8, CacheNone DEF Claimed, Moved
      <4> QED
        BY <2>4, <2>6, <2>8, <3>2, <4>1
    <3> QED
      BY <3>1, <3>2
  <2>9. us \in SUBSET Users /\ Accounted(w, q, us)
    BY <1>1, <2>4, <2>8 DEF Accounted
  <2> HIDE DEF us
  <2> QED
    BY <1>1, <2>1, <2>3, <2>4, <2>5, <2>6, <2>7, <2>9, WriteStep
<1> QED
  BY <1>2, <1>3 DEF WriteUser

-----------------------------------------------------------------------------

\* A reader cannot reach Redis.
LEMMA StepReaderFails ==
    ASSUME IInv, NEW r \in Readers, ReaderFails(r)
    PROVE  IInv'
<1>1. /\ reader' = [reader EXCEPT ![r] = IdleReader]
      /\ UNCHANGED <<username, version, cache, writer>>
  BY DEF ReaderFails, dbVars
<1>2. reader' \in [Readers -> ReaderStates] /\ ReadersOK'
  BY <1>1, IdleReaderOK, ReaderMoves
<1> QED
  BY <1>1, <1>2, CacheStep DEF IInv, TypeOK

\* Every step preserves IInv.
LEMMA NextIInv ==
    ASSUME IInv, [Next]_vars
    PROVE  IInv'
<1>1. CASE UNCHANGED vars
  <2>1. UNCHANGED <<username, version, cache, reader, writer>>
    BY <1>1 DEF vars
  <2> QED
    BY <2>1, CacheStep DEF IInv, TypeOK, ReadersOK
<1>2. ASSUME NEW w \in Writers, Write(w)
      PROVE  IInv'
  BY <1>2, StepFindBefore, StepFindTarget, StepWriteVisit, StepWriteFollow, StepWriteUser,
     StepFindName, StepInvalidate DEF Write
<1>3. ASSUME NEW r \in Readers, Read(r)
      PROVE  IInv'
  BY <1>3, StepFindFirst, StepSetEntry DEF Read
<1> QED
  BY <1>1, <1>2, <1>3, StepExpire, StepMiss, StepStartVisit, StepStartFollow, StepStartUpdate,
     StepReaderFails, StepWriterFails DEF Next

\* Whatever overlaps, whatever fails and whoever dies, an entry that is out of
\* date is about to be deleted, was stored by a reader that overlapped the
\* write, lost the DEL that was meant for it, or was missed by a mutation whose
\* user changed names between its lookup and its write.
THEOREM StaleIsExplained == Spec => []CacheInv
<1>1. Init => IInv
  BY InitIInv
<1>2. IInv /\ [Next]_vars => IInv'
  BY NextIInv
<1>3. IInv => CacheInv
  BY DEF IInv, CacheInv
<1> QED
  BY <1>1, <1>2, <1>3, PTL DEF Spec
=============================================================================
