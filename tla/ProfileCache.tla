---------------------------- MODULE ProfileCache ----------------------------
(***************************************************************************)
(* The cache-aside store of public profiles (apps/api/src/modules/         *)
(* profile-cache) with everything that reads or invalidates it: the two    *)
(* public reads, PATCH /me, visit writes and follow changes.               *)
(*                                                                         *)
(* Readers fill the cache, writers change Postgres and then delete the     *)
(* keys, and each awaited call is a step of its own: nothing orders a      *)
(* reader's SET after the DEL of a write it missed.  profile:{username}    *)
(* and stats:{username} are read, filled and deleted by the same protocol  *)
(* (one DEL drops both), so one entry per username stands for either.      *)
(* What a profile shows is a version number that a change increments.      *)
(***************************************************************************)
EXTENDS Naturals

CONSTANTS
    Users,
    Public,      \* users with isPublic; no endpoint changes it
    Handles,     \* usernames
    Readers,     \* slots for GET /users/:username(/stats) in flight
    Writers,     \* slots for the mutations in flight
    Ops,         \* the mutations that occur
    Failures,    \* what may go wrong, by name
    MaxVersion,  \* bounds the model: the number of changes to a profile
    None

ASSUME CacheNone == None \notin Users \cup Handles
ASSUME CachePublic == Public \subseteq Users
ASSUME CacheOps == Ops \subseteq {"visit", "follow", "unfollow", "update"}
ASSUME CacheFailures == Failures \subseteq {"redis", "crash"}
ASSUME CacheMaxVersion == MaxVersion \in Nat

VARIABLES
    username,  \* User.username
    version,   \* what the rest of a user's public profile shows
    cache,     \* the Redis entries by username, None without one
    reader,    \* the reads in flight
    writer     \* the mutations in flight

dbVars == <<username, version>>
vars == <<username, version, cache, reader, writer>>

-----------------------------------------------------------------------------

\* What a read found: whose profile, and in which version.
Snapshot == [user: Users, version: 0..MaxVersion]

\* A snapshot in Redis; ttl says that it will expire.  The rest is history:
\* raced, it was out of date when it was stored; lost, a mutation that made it
\* so ended before its DEL; renamed, the user took another username between the
\* lookup and the write of the mutation that made it so.
Entry == [shows: Snapshot, ttl: BOOLEAN, raced: BOOLEAN, lost: BOOLEAN, renamed: BOOLEAN]

IdleReader == [pc |-> "idle", key |-> None, found |-> None]
IdleWriter == [op |-> None, pc |-> "idle", user |-> None, arg |-> None,
               target |-> None, keys |-> {}, saw |-> None]

ReaderStates == [pc: {"idle", "findFirst", "set"}, key: Handles \cup {None},
                 found: Snapshot \cup {None}]
WriterStates == [op: Ops \cup {None},
                 pc: {"idle", "findBefore", "findTarget", "write", "findName", "del"},
                 user: Users \cup {None}, arg: Handles \cup {None},
                 target: Users \cup {None}, keys: SUBSET Handles,
                 saw: Handles \cup {None}]  \* history: the username it looked up

TypeOK ==
    /\ username \in [Users -> Handles \cup {None}]
    /\ version \in [Users -> 0..MaxVersion]
    /\ cache \in [Handles -> Entry \cup {None}]
    /\ reader \in [Readers -> ReaderStates]
    /\ writer \in [Writers -> WriterStates]

\* Some users have claimed their unique usernames; nothing is cached yet.
Init ==
    /\ username \in [Users -> Handles \cup {None}]
    /\ \A u, v \in Users : username[u] = username[v] => u = v \/ username[u] = None
    /\ version = [u \in Users |-> 0]
    /\ cache = [h \in Handles |-> None]
    /\ reader = [r \in Readers |-> IdleReader]
    /\ writer = [w \in Writers |-> IdleWriter]

\* Postgres would no longer answer with s to a query for h.
Outdated(h, s) == username[s.user] # h \/ version[s.user] # s.version

-----------------------------------------------------------------------------
\* cachedProfile, statsFor.

\* GET: a hit is the answer, a miss goes on to the database.
Miss(r, h) ==
    /\ reader[r] = IdleReader
    /\ cache[h] = None
    /\ reader' = [reader EXCEPT ![r].pc = "findFirst", ![r].key = h]
    /\ UNCHANGED <<dbVars, cache, writer>>

\* findFirst: unknown, unclaimed and private usernames are 404, not cached.
FindFirst(r) ==
    /\ reader[r].pc = "findFirst"
    /\ \/ \E u \in Public :
             /\ username[u] = reader[r].key
             /\ reader' = [reader EXCEPT ![r].pc = "set",
                              ![r].found = [user |-> u, version |-> version[u]]]
       \/ /\ \A u \in Public : username[u] # reader[r].key
          /\ reader' = [reader EXCEPT ![r] = IdleReader]
    /\ UNCHANGED <<dbVars, cache, writer>>

Stored(r, ttl) ==
    [shows |-> reader[r].found, ttl |-> ttl,
     raced |-> Outdated(reader[r].key, reader[r].found), lost |-> FALSE, renamed |-> FALSE]

\* Mutant: SET without EX.
SetEntry_NoExpiry(r) ==
    /\ reader[r].pc = "set"
    /\ cache' = [cache EXCEPT ![reader[r].key] = Stored(r, FALSE)]
    /\ reader' = [reader EXCEPT ![r] = IdleReader]
    /\ UNCHANGED <<dbVars, writer>>

\* write: SET EX 60 replaces whatever is there.
SetEntry(r) ==
    /\ reader[r].pc = "set"
    /\ cache' = [cache EXCEPT ![reader[r].key] = Stored(r, TRUE)]
    /\ reader' = [reader EXCEPT ![r] = IdleReader]
    /\ UNCHANGED <<dbVars, writer>>

\* Redis drops the entry when its sixty seconds are over.
Expire(h) ==
    /\ cache[h] # None
    /\ cache[h].ttl
    /\ cache' = [cache EXCEPT ![h] = None]
    /\ UNCHANGED <<dbVars, reader, writer>>

-----------------------------------------------------------------------------
\* Mutations arrive.

Arrive(w, request) ==
    /\ writer[w] = IdleWriter
    /\ request.op \in Ops
    /\ writer' = [writer EXCEPT ![w] = request]
    /\ UNCHANGED <<dbVars, cache, reader>>

\* PUT and DELETE of a visit.
StartVisit(w, u) ==
    Arrive(w, [IdleWriter EXCEPT !.op = "visit", !.pc = "write", !.user = u])

\* PUT and DELETE of a follow.
StartFollow(w, u, h) ==
    \E op \in {"follow", "unfollow"} :
        Arrive(w, [IdleWriter EXCEPT !.op = op, !.pc = "findTarget",
                                     !.user = u, !.arg = h])

\* PATCH /me: a username, or only the display name.
StartUpdate(w, u, h) ==
    Arrive(w, [IdleWriter EXCEPT !.op = "update", !.pc = "findBefore",
                                 !.user = u, !.arg = h])

At(w, s) == writer[w].pc = s

\* invalidate skips users without a username.
Claimed(h) == {h} \ {None}

\* updateMe: the username before the update.
FindBefore(w) ==
    /\ At(w, "findBefore")
    /\ writer' = [writer EXCEPT ![w].pc = "write",
                     ![w].keys = Claimed(username[writer[w].user]),
                     ![w].saw = username[writer[w].user]]
    /\ UNCHANGED <<dbVars, cache, reader>>

\* Mutant: only the follower's entries are dropped.
FindTarget_FollowerOnly(w) ==
    /\ At(w, "findTarget")
    /\ LET q == writer[w]
           allowed == IF q.op = "follow" THEN Public \ {q.user} ELSE Users
       IN \/ \E t \in allowed :
                /\ username[t] = q.arg
                /\ writer' = [writer EXCEPT ![w].pc = "write", ![w].target = t,
                                            ![w].saw = q.arg]
          \/ /\ \A t \in allowed : username[t] # q.arg
             /\ writer' = [writer EXCEPT ![w] = IdleWriter]
    /\ UNCHANGED <<dbVars, cache, reader>>

\* findTarget: 404 for unknown usernames; follow also refuses private users
\* (404) and oneself (400).
FindTarget(w) ==
    /\ At(w, "findTarget")
    /\ LET q == writer[w]
           allowed == IF q.op = "follow" THEN Public \ {q.user} ELSE Users
       IN \/ \E t \in allowed :
                /\ username[t] = q.arg
                /\ writer' = [writer EXCEPT ![w].pc = "write", ![w].target = t,
                                            ![w].keys = {q.arg}, ![w].saw = q.arg]
          \/ /\ \A t \in allowed : username[t] # q.arg
             /\ writer' = [writer EXCEPT ![w] = IdleWriter]
    /\ UNCHANGED <<dbVars, cache, reader>>

\* A statement changes what the profiles of these users show.
Change(us) ==
    /\ \A u \in us : version[u] < MaxVersion
    /\ version' = [u \in Users |-> IF u \in us THEN version[u] + 1 ELSE version[u]]

\* The history of the entries under hs: what happened to a mutation of theirs.
Marked(hs, what) ==
    [h \in Handles |-> IF h \in hs /\ cache[h] # None
                       THEN [cache[h] EXCEPT ![what] = TRUE] ELSE cache[h]]

\* The username of u now, if it is not the one that w looked up.
Moved(w, u) == Claimed(username[u]) \ {writer[w].saw}

\* upsert or deleteMany of a visit: a note edited changes nothing public.
WriteVisit(w) ==
    /\ At(w, "write")
    /\ writer[w].op = "visit"
    /\ Change({writer[w].user}) \/ UNCHANGED version
    /\ writer' = [writer EXCEPT ![w].pc = "findName"]
    /\ UNCHANGED <<username, cache, reader>>

\* createMany skips a duplicate, deleteMany may find nothing; a row more or
\* less moves the counts of both users.
WriteFollow(w) ==
    /\ At(w, "write")
    /\ writer[w].op \in {"follow", "unfollow"}
    /\ \/ /\ writer[w].user # writer[w].target
          /\ Change({writer[w].user, writer[w].target})
          /\ cache' = Marked(Moved(w, writer[w].target), "renamed")
       \/ UNCHANGED <<version, cache>>
    /\ writer' = [writer EXCEPT ![w].pc = "findName"]
    /\ UNCHANGED <<username, reader>>

\* updateMe: the update returns the row as it now is; a username that another
\* user holds is 409 (P2002) and nothing is invalidated.
WriteUser(w) ==
    /\ At(w, "write")
    /\ writer[w].op = "update"
    /\ LET u == writer[w].user
           h == writer[w].arg
           taken == h # None /\ \E v \in Users \ {u} : username[v] = h
       IN \/ /\ ~taken
             /\ username' = IF h = None THEN username ELSE [username EXCEPT ![u] = h]
             /\ Change({u}) \/ UNCHANGED version
             /\ cache' = IF h = None THEN cache ELSE Marked(Moved(w, u), "renamed")
             /\ writer' = [writer EXCEPT ![w].pc = "del",
                                         ![w].keys = @ \cup Claimed(username'[u])]
          \/ /\ taken
             /\ writer' = [writer EXCEPT ![w] = IdleWriter]
             /\ UNCHANGED <<username, version, cache>>
    /\ UNCHANGED reader

\* invalidateProfileCache, invalidateBoth: the writer's own username, read
\* after the write.
FindName(w) ==
    /\ At(w, "findName")
    /\ writer' = [writer EXCEPT ![w].pc = "del",
                     ![w].keys = @ \cup Claimed(username[writer[w].user])]
    /\ UNCHANGED <<dbVars, cache, reader>>

\* invalidate: one DEL.
Invalidate(w) ==
    /\ At(w, "del")
    /\ cache' = [h \in Handles |-> IF h \in writer[w].keys THEN None ELSE cache[h]]
    /\ writer' = [writer EXCEPT ![w] = IdleWriter]
    /\ UNCHANGED <<dbVars, reader>>

\* The entry under h is not what Postgres would answer.
Stale(h) == cache[h] # None /\ Outdated(h, cache[h].shows)

\* Mutation w has written and, as things are, will delete the entry under h.
Deletes(w, h) ==
    \/ writer[w].pc \in {"findName", "del"} /\ h \in writer[w].keys
    \/ At(w, "findName") /\ username[writer[w].user] = h

\* A call to Redis is refused or the process dies: what the write committed
\* stays, nothing else is done.  Failures before the write change nothing.
ReaderFails(r) ==
    /\ Failures # {}
    /\ reader[r].pc = "set"
    /\ reader' = [reader EXCEPT ![r] = IdleReader]
    /\ UNCHANGED <<dbVars, cache, writer>>

WriterFails(w) ==
    /\ Failures # {}
    /\ At(w, "del") \/ ("crash" \in Failures /\ At(w, "findName"))
    /\ cache' = Marked({h \in Handles : Stale(h) /\ Deletes(w, h)}, "lost")
    /\ writer' = [writer EXCEPT ![w] = IdleWriter]
    /\ UNCHANGED <<dbVars, reader>>

-----------------------------------------------------------------------------

Read(r) == FindFirst(r) \/ SetEntry(r)

Write(w) ==
    \/ FindBefore(w) \/ FindTarget(w) \/ WriteVisit(w) \/ WriteFollow(w)
    \/ WriteUser(w) \/ FindName(w) \/ Invalidate(w)

Next ==
    \/ \E h \in Handles : Expire(h)
    \/ \E r \in Readers :
          \/ \E h \in Handles : Miss(r, h)
          \/ Read(r)
          \/ ReaderFails(r)
    \/ \E w \in Writers, u \in Users :
          \/ StartVisit(w, u)
          \/ \E h \in Handles : StartFollow(w, u, h)
          \/ \E h \in Handles \cup {None} : StartUpdate(w, u, h)
    \/ \E w \in Writers : Write(w) \/ WriterFails(w)

Spec == Init /\ [][Next]_vars

\* Redis expires what has a time to live; readers and writers owe nothing.
FairSpec == Spec /\ \A h \in Handles : WF_vars(Expire(h))

-----------------------------------------------------------------------------
\* Correctness.

Excused(h) == cache[h].raced \/ cache[h].lost \/ cache[h].renamed

\* However reads, writes, renames and failures overlap, an entry is out of date
\* only until a mutation that has written deletes it, or because a reader that
\* overlapped the write stored it, or that DEL was lost, or the username moved
\* between the lookup and the write of one mutation; a rename that comes before
\* or after these two does no harm.
StaleExplained ==
    \A h \in Handles : Stale(h) =>
        \/ Excused(h)
        \/ \E w \in Writers : Deletes(w, h)

\* The types, and that every stale entry has an explanation.
CacheInv == TypeOK /\ StaleExplained

\* However an entry came to be out of date, lost invalidations included, it
\* does not stay.
StaleGoes == \A h \in Handles : Stale(h) ~> ~Stale(h)

-----------------------------------------------------------------------------
\* What the repository says of the cache and these runs break.

NoWrites == \A w \in Writers : writer[w] = IdleWriter

\* profile-cache.service.ts:14-16, mutations "call `invalidate` explicitly so
\* readers see changes immediately".
ReadersSeeChanges == NoWrites => \A h \in Handles : ~Stale(h)
=============================================================================
