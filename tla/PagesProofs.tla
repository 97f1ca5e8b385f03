----------------------------- MODULE PagesProofs -----------------------------
(***************************************************************************)
(* Theorems about the pages that talk to the API: the friends, the groups, *)
(* the profiles; and first about the query all of them are built on.       *)
(***************************************************************************)
EXTENDS Follows, GroupPages, ProfilePages, FiniteSetTheorems, TLAPS

-----------------------------------------------------------------------------
\* QueryCache, whatever the query is for.

\* The states of a query for the values V; a fetch under way remembers what
\* there was before it.
Fetches(V) ==
    [on: BOOLEAN, read: V, before: [data: V, outdated: BOOLEAN] \cup {Absent}, late: BOOLEAN]
Queries(V) ==
    {x \in [data: V, outdated: BOOLEAN, lapsed: BOOLEAN, fetch: Fetches(V)] :
        x.fetch.on => x.fetch.before \in [data: V, outdated: BOOLEAN]}

\* What x shows without a mark for a refetch is in A, the answer the server
\* would give among it, and so is what is on its way, unless it is late.
Faithful(x, A) ==
    /\ ~x.fetch.on /\ ~x.outdated /\ ~x.lapsed => x.data \in A
    /\ x.fetch.on /\ ~x.fetch.late => x.fetch.read \in A

\* A query that was never asked.
LEMMA NewQueries == ASSUME NEW V, Absent \in V
                    PROVE  NewQuery \in Queries(V) /\ ~NewQuery.fetch.on
BY DEF NewQuery, Queries, NoFetch, Fetches

\* Every call of the library keeps a query a query.
LEMMA QueriesClosed ==
    ASSUME NEW V, Absent \in V, NEW x \in Queries(V), NEW d \in V, NEW b \in BOOLEAN
    PROVE  /\ Begin(x) \in Queries(V)
           /\ CancelQuery(x) \in Queries(V)
           /\ SetQueryData(x, d) \in Queries(V)
           /\ Invalidate(x, b) \in Queries(V)
           /\ ServerReads(x, d) \in Queries(V)
           /\ Landed(x) \in Queries(V)
           /\ FetchFailed(x) \in Queries(V)
<1>1. NoFetch \in Fetches(V)
  BY DEF NoFetch, Fetches
<1>3. ASSUME NEW y \in Queries(V)
      PROVE  Begin(y) \in Queries(V)
  BY <1>3 DEF Begin, Queries, Fetches
<1>4. CancelQuery(x) \in Queries(V)
  BY <1>1 DEF CancelQuery, Queries, Fetches, NoFetch
<1>5. SetQueryData(x, d) \in Queries(V)
  BY DEF SetQueryData, Queries, Fetches
<1>6. Invalidate(x, b) \in Queries(V)
  <2>1. [x EXCEPT !.outdated = TRUE, !.fetch = NoFetch] \in Queries(V)
    BY <1>1 DEF Queries, NoFetch
  <2>2. [x EXCEPT !.outdated = TRUE, !.fetch.late = x.fetch.on] \in Queries(V)
    BY DEF Queries, Fetches
  <2> QED
    BY <1>3, <2>1, <2>2 DEF Invalidate
<1>7. ServerReads(x, d) \in Queries(V)
  BY DEF ServerReads, Queries, Fetches
<1>8. Landed(x) \in Queries(V)
  BY <1>1 DEF Landed, Queries, Fetches, NoFetch
<1>9. FetchFailed(x) \in Queries(V)
  BY <1>1 DEF FetchFailed, Queries, NoFetch
<1> QED
  BY <1>3, <1>4, <1>5, <1>6, <1>7, <1>8, <1>9

\* What keeps a query faithful, and what makes it so whatever it was.
LEMMA FaithfulKept ==
    ASSUME NEW V, NEW x \in Queries(V), NEW A, Absent \in A, NEW b \in BOOLEAN
    PROVE  /\ Faithful(NewQuery, A)
           /\ Faithful(Invalidate(x, b), A)
           /\ Faithful(FetchFailed(x), A)
           /\ Faithful(x, A) => /\ Faithful(Begin(x), A)
                                /\ \A a \in A : Faithful(ServerReads(x, a), A)
                                /\ CanLand(x) => Faithful(Landed(x), A)
<1>1. Faithful(NewQuery, A)
  BY DEF Faithful, NewQuery, NoFetch
<1>2. Faithful(Invalidate(x, b), A)
  <2>1. CASE b /\ ~(x.fetch.on /\ x.data = Absent)
    BY <2>1 DEF Faithful, Invalidate, Begin, Queries, NoFetch
  <2>2. CASE ~(b /\ ~(x.fetch.on /\ x.data = Absent))
    BY <2>2 DEF Faithful, Invalidate, Queries, Fetches
  <2> QED
    BY <2>1, <2>2
<1>3. Faithful(FetchFailed(x), A)
  BY DEF Faithful, FetchFailed, Queries, NoFetch
<1>4. ASSUME Faithful(x, A)
      PROVE  /\ Faithful(Begin(x), A)
             /\ \A a \in A : Faithful(ServerReads(x, a), A)
             /\ CanLand(x) => Faithful(Landed(x), A)
  <2>1. Faithful(Begin(x), A)
    BY <1>4 DEF Faithful, Begin, Queries, Fetches
  <2>2. \A a \in A : Faithful(ServerReads(x, a), A)
    BY <1>4 DEF Faithful, ServerReads, Queries, Fetches
  <2>3. CanLand(x) => Faithful(Landed(x), A)
    BY <1>4 DEF Faithful, Landed, CanLand, Queries, Fetches, NoFetch
  <2> QED
    BY <2>1, <2>2, <2>3
<1> QED
  BY <1>1, <1>2, <1>3, <1>4

-----------------------------------------------------------------------------
\* Follows.  A request about a traveller makes the profile and the lists wrong
\* until it settles and marks them all; the views nobody is changing stay
\* faithful to the server.

USE FollowsFollowers, FollowsFans, FollowsBefores, FollowsBounds, FollowsNames, FollowsNone

Lists == {"following", "search", "map"}

\* Queries that a request in flight has yet to settle.
Unsettled(k) == \E s \in Following : k \in {follows[s].user} \cup Lists

\* Types, and that only who is signed in searches, fetches or follows.
FollowsTypes ==
    /\ viewer \in {"loading", "in", "out"}
    /\ followed \in SUBSET Users
    /\ page \in {"friends", "map"} \cup Users
    /\ typed \in BOOLEAN /\ debounced \in BOOLEAN
    /\ tab \in {"following", "followers"}
    /\ DOMAIN q = Keys /\ q = [k \in Keys |-> q[k]]
    /\ \A k \in Keys : q[k] \in Queries(Values(k))
    /\ follows \in [FollowSlots -> FollowOp \cup {NoFollow}]
    /\ clicked \in 0..MaxFollows /\ moves \in 0..MaxMoves
SignedIn ==
    viewer # "in" => /\ typed = debounced /\ Following = {}
                     /\ \A k \in Keys : ~q[k].fetch.on

\* Nothing undisturbed has a fetch in the way.
CleanQuiet ==
    \A s \in Following : follows[s].clean =>
        \A k \in {follows[s].user, "following", "search"} : ~q[k].fetch.on

ViewsFaithful == \A k \in Keys : ~Unsettled(k) => Faithful(q[k], {Absent, Answer(k)})

FollowsIInv == FollowsTypes /\ SignedIn /\ CleanQuiet /\ ViewsFaithful /\ ViewsAgree

\* Nothing is fetched, nobody is followed.
LEMMA FollowsIInit == FollowsInit => FollowsIInv
<1> SUFFICES ASSUME FollowsInit
             PROVE  FollowsIInv
  OBVIOUS
<1>1. \A k \in Keys : NewQuery \in Queries(Values(k)) /\ ~NewQuery.fetch.on
  BY NewQueries DEF Values
<1>2. FollowsTypes
  <2>1. DOMAIN q = Keys /\ q = [k \in Keys |-> q[k]] /\ \A k \in Keys : q[k] = NewQuery
    BY DEF FollowsInit
  <2>2. followed \in SUBSET Users /\ follows \in [FollowSlots -> FollowOp \cup {NoFollow}]
    BY DEF FollowsInit
  <2>3. clicked \in 0..MaxFollows /\ moves \in 0..MaxMoves
    BY DEF FollowsInit
  <2> QED
    BY <1>1, <2>1, <2>2, <2>3 DEF FollowsInit, FollowsTypes
<1>3. Following = {}
  BY DEF FollowsInit, Following
<1>4. SignedIn /\ CleanQuiet /\ ViewsAgree
  BY <1>1, <1>3 DEF FollowsInit, SignedIn, CleanQuiet, ViewsAgree
<1>5. ViewsFaithful
  BY DEF FollowsInit, ViewsFaithful, Faithful, NewQuery, NoFetch
<1> QED
  BY <1>2, <1>4, <1>5 DEF FollowsIInv

\* What the parts of the invariant say together.
LEMMA FollowsIImplies == FollowsIInv => FollowsInv
<1> SUFFICES ASSUME FollowsIInv
             PROVE  FollowsInv
  OBVIOUS
<1>1. ASSUME NEW k \in Keys
      PROVE  /\ q[k].data \in Values(k) /\ q[k].fetch.read \in Values(k)
             /\ q[k].outdated \in BOOLEAN /\ q[k].lapsed \in BOOLEAN /\ q[k].fetch.on \in BOOLEAN
             /\ ~(q[k].fetch.on /\ viewer # "in")
  BY DEF FollowsIInv, FollowsTypes, SignedIn, Queries, Fetches
<1>2. FollowsTypeOK
  BY <1>1 DEF FollowsIInv, FollowsTypes, FollowsTypeOK, Following
<1>3. ViewsReconciled
  <2> SUFFICES ASSUME Following = {}, NEW k \in Keys, q[k].data # Absent, ~q[k].fetch.on,
                      ~q[k].outdated, ~q[k].lapsed
               PROVE  q[k].data = Answer(k)
    BY DEF ViewsReconciled
  <2>1. ~Unsettled(k)
    BY DEF Unsettled
  <2> QED
    BY <2>1 DEF FollowsIInv, ViewsFaithful, Faithful
<1> QED
  BY <1>2, <1>3 DEF FollowsInv, FollowsIInv

\* The requests in flight, one by one.
LEMMA FollowingFields ==
    ASSUME FollowsTypes, NEW s \in Following
    PROVE  /\ s \in FollowSlots /\ follows[s] \in FollowOp
           /\ follows[s].user \in Users /\ follows[s].user \in Keys
           /\ follows[s].user \notin Lists
BY DEF FollowsTypes, Following, FollowOp, Keys, Lists

\* Screens that are opened start fetches, which end what was undisturbed.
LEMMA FollowsMount ==
    ASSUME FollowsIInv, NEW p, NEW searching, Mounts(p, searching), followed' = followed
    PROVE  /\ DOMAIN q' = Keys /\ q' = [k \in Keys |-> q'[k]]
           /\ \A k \in Keys : q'[k] \in Queries(Values(k))
           /\ follows' \in [FollowSlots -> FollowOp \cup {NoFollow}]
           /\ Following' = Following
           /\ CleanQuiet' /\ ViewsFaithful' /\ ViewsAgree'
<1>0. FollowsTypes
  BY DEF FollowsIInv
<1>1. /\ DOMAIN q' = Keys /\ q' = [k \in Keys |-> q'[k]]
      /\ \A k \in Keys : q'[k] \in {q[k], Begin(q[k])}
  BY DEF Mounts
<1>2. \A k \in Keys : q'[k] \in Queries(Values(k))
  BY <1>0, <1>1, QueriesClosed DEF FollowsTypes, Values
<1>3. ASSUME NEW s \in FollowSlots
      PROVE  /\ s \notin Following => follows'[s] = NoFollow
             /\ s \in Following => /\ follows'[s] \in FollowOp
                                   /\ follows'[s].user = follows[s].user
                                   /\ follows'[s].follow = follows[s].follow
                                   /\ follows'[s].clean => q' = q /\ follows[s].clean
  <2>1. follows'[s] = IF s \in Following /\ q' # q THEN [follows[s] EXCEPT !.clean = FALSE]
                      ELSE follows[s]
    BY DEF Mounts
  <2>2. s \in Following => follows[s] \in FollowOp
    BY <1>0, FollowingFields
  <2>3. s \in Following => [follows[s] EXCEPT !.clean = FALSE] \in FollowOp
    BY <2>2 DEF FollowOp
  <2>4. s \notin Following => follows'[s] = NoFollow
    BY <2>1 DEF Following
  <2>5. ASSUME s \in Following, q' # q
        PROVE  /\ follows'[s].user = follows[s].user
               /\ follows'[s].follow = follows[s].follow
               /\ ~follows'[s].clean
    BY <2>1, <2>2, <2>5 DEF FollowOp
  <2> QED
    BY <2>1, <2>2, <2>3, <2>4, <2>5
<1>4. follows' \in [FollowSlots -> FollowOp \cup {NoFollow}]
  BY <1>3 DEF Mounts
<1>5. Following' = Following
  BY <1>3 DEF Following
<1>6. CleanQuiet'
  BY <1>0, <1>3, <1>5, FollowingFields DEF CleanQuiet, FollowsIInv
<1>7. ViewsAgree'
  BY <1>0, <1>3, <1>5, FollowingFields DEF ViewsAgree, FollowsIInv
<1>8. ASSUME NEW k \in Keys, ~Unsettled(k)'
      PROVE  Faithful(q'[k], {Absent, Answer(k)'})
  <2>1. ~Unsettled(k)
    BY <1>0, <1>3, <1>5, <1>8, FollowingFields DEF Unsettled
  <2>2. Faithful(q[k], {Absent, Answer(k)}) /\ q[k] \in Queries(Values(k))
    BY <1>0, <2>1 DEF FollowsIInv, ViewsFaithful, FollowsTypes
  <2>3. Faithful(Begin(q[k]), {Absent, Answer(k)})
    BY <2>2, FaithfulKept
  <2> QED
    BY <1>1, <2>2, <2>3 DEF Answer
<1> QED
  BY <1>1, <1>2, <1>4, <1>5, <1>6, <1>7, <1>8 DEF ViewsFaithful

\* What is on screen leaves alone what the server and the requests have.
LEMMA FollowsStay ==
    ASSUME FollowsIInv, UNCHANGED <<q, follows, followed>>
    PROVE  Following' = Following /\ CleanQuiet' /\ ViewsFaithful' /\ ViewsAgree'
<1>1. Following' = Following
  BY DEF Following
<1>2. CleanQuiet' /\ ViewsAgree'
  BY <1>1 DEF FollowsIInv, CleanQuiet, ViewsAgree
<1>3. ViewsFaithful'
  BY <1>1 DEF FollowsIInv, ViewsFaithful, Unsettled, Answer
<1> QED
  BY <1>1, <1>2, <1>3

\* The answer to who is looking, and what the page then asks.
LEMMA StepMeArrives ==
    ASSUME FollowsIInv, MeArrives
    PROVE  FollowsIInv'
<1>1. /\ viewer = "loading" /\ UNCHANGED <<followed, page, typed, debounced, tab, clicked, moves>>
      /\ \/ viewer' = "out" /\ UNCHANGED <<q, follows>>
         \/ viewer' = "in" /\ Mounts(page, debounced)
  BY DEF MeArrives
<1>2. CASE viewer' = "out" /\ UNCHANGED <<q, follows>>
  BY <1>1, <1>2, FollowsStay DEF FollowsIInv, FollowsTypes, SignedIn
<1>3. CASE viewer' = "in" /\ Mounts(page, debounced)
  BY <1>1, <1>3, FollowsMount DEF FollowsIInv, FollowsTypes, SignedIn
<1> QED
  BY <1>1, <1>2, <1>3

\* Another page.
LEMMA StepVisit ==
    ASSUME FollowsIInv, NEW p \in {"friends", "map"} \cup Users, Visit(p)
    PROVE  FollowsIInv'
<1>1. /\ page' = p /\ moves < MaxMoves /\ moves' = moves + 1
      /\ IF viewer = "in" THEN Mounts(p, FALSE) ELSE UNCHANGED <<q, follows>>
      /\ typed' = FALSE /\ debounced' = FALSE /\ tab' = "following"
      /\ UNCHANGED <<viewer, followed, clicked>>
  BY DEF Visit
<1>2. moves' \in 0..MaxMoves
  BY <1>1 DEF FollowsIInv, FollowsTypes
<1>3. CASE viewer = "in"
  BY <1>1, <1>2, <1>3, FollowsMount DEF FollowsIInv, FollowsTypes, SignedIn
<1>4. CASE viewer # "in"
  <2>1. UNCHANGED <<q, follows, followed, viewer, clicked>>
    BY <1>1, <1>4
  <2>2. FollowsTypes'
    <3>1. /\ DOMAIN q' = Keys /\ q' = [k \in Keys |-> q'[k]]
          /\ \A k \in Keys : q'[k] \in Queries(Values(k))
          /\ follows' \in [FollowSlots -> FollowOp \cup {NoFollow}]
      BY <2>1 DEF FollowsIInv, FollowsTypes
    <3> QED
      BY <1>1, <1>2, <2>1, <3>1 DEF FollowsIInv, FollowsTypes
  <2>3. Following' = Following /\ CleanQuiet' /\ ViewsFaithful' /\ ViewsAgree'
    BY <2>1, FollowsStay
  <2>4. SignedIn'
    BY <1>1, <1>4, <2>1, <2>3 DEF FollowsIInv, SignedIn
  <2> QED
    BY <2>2, <2>3, <2>4 DEF FollowsIInv
<1> QED
  BY <1>3, <1>4

\* Typing, the debounced copy of it, and the tabs.
LEMMA StepFriendsScreen ==
    ASSUME FollowsIInv, Type \/ Debounce \/ SelectTab
    PROVE  FollowsIInv'
<1>1. CASE Type
  <2>1. /\ viewer = "in" /\ moves' = moves + 1 /\ moves < MaxMoves /\ typed' = ~typed
        /\ UNCHANGED <<viewer, followed, page, debounced, tab, q, follows, clicked>>
    BY <1>1 DEF Type
  <2> QED
    BY <2>1, FollowsStay DEF FollowsIInv, FollowsTypes, SignedIn
<1>2. CASE Debounce
  <2>1. /\ debounced # typed /\ debounced' = typed /\ Mounts(page, typed)
        /\ UNCHANGED <<viewer, followed, page, typed, tab, clicked, moves>>
    BY <1>2 DEF Debounce
  <2>2. viewer = "in"
    BY <2>1 DEF FollowsIInv, SignedIn
  <2> QED
    BY <2>1, <2>2, FollowsMount DEF FollowsIInv, FollowsTypes, SignedIn
<1>3. CASE SelectTab
  <2>1. /\ viewer = "in" /\ moves' = moves + 1 /\ moves < MaxMoves
        /\ tab' \in {"following", "followers"}
        /\ UNCHANGED <<viewer, followed, page, typed, debounced, q, follows, clicked>>
    BY <1>3 DEF SelectTab
  <2> QED
    BY <2>1, FollowsStay DEF FollowsIInv, FollowsTypes, SignedIn
<1> QED
  BY <1>1, <1>2, <1>3

\* What is written into a query with no fetch, for a list and for a profile.
LEMMA CancelQuiet ==
    ASSUME NEW V, Absent \in V, NEW x \in Queries(V), NEW d \in V
    PROVE  /\ CancelQuery(x).data \in V
           /\ SetQueryData(CancelQuery(x), d) \in Queries(V)
           /\ ~SetQueryData(CancelQuery(x), d).fetch.on
           /\ d # Absent => SetQueryData(CancelQuery(x), d).data = d
           /\ d = Absent => SetQueryData(CancelQuery(x), d).data = CancelQuery(x).data
<1>1. CancelQuery(x) \in Queries(V)
  BY QueriesClosed
<1>2. SetQueryData(CancelQuery(x), d) \in Queries(V)
  BY <1>1, QueriesClosed
<1>3. ~CancelQuery(x).fetch.on
  BY DEF CancelQuery, NoFetch, Queries, Fetches
<1> QED
  BY <1>1, <1>2, <1>3 DEF SetQueryData, Queries, Fetches

\* follow-cache.ts returns what the queries may hold.
LEMMA AppliedData ==
    ASSUME NEW u \in Users, NEW f \in BOOLEAN
    PROVE  /\ \A d \in Profile \cup {Absent} :
                /\ ApplyFollowToProfile(d, f) \in Profile \cup {Absent}
                /\ d # Absent => ApplyFollowToProfile(d, f).isFollowing = f
                /\ d = Absent => ApplyFollowToProfile(d, f) = Absent
           /\ \A d \in (SUBSET Users) \cup {Absent} :
                /\ ApplyFollowToSearchResults(d, u, f) \in (SUBSET Users) \cup {Absent}
                /\ ApplyFollowToFollowingList(d, u, f) \in (SUBSET Users) \cup {Absent}
BY DEF ApplyFollowToProfile, ApplyFollowToSearchResults, ApplyFollowToFollowingList, Profile

\* A click on a button: the profile and the lists are changed at once.
LEMMA StepClickFollow ==
    ASSUME FollowsIInv, NEW s \in FollowSlots, NEW u \in Users, ClickFollow(s, u)
    PROVE  FollowsIInv'
<1> DEFINE f == ~ButtonFollows(u)
           data(k) == CASE k = u -> ApplyFollowToProfile(CancelQuery(q[k]).data, f)
                        [] k = "following" ->
                             ApplyFollowToFollowingList(CancelQuery(q[k]).data, u, f)
                        [] OTHER -> ApplyFollowToSearchResults(CancelQuery(q[k]).data, u, f)
           op == [user |-> u, follow |-> f, applied |-> FALSE, clean |-> TRUE,
                  profile |-> CancelQuery(q[u]).data,
                  following |-> CancelQuery(q["following"]).data,
                  search |-> CancelQuery(q["search"]).data]
<1>0. FollowsTypes /\ f \in BOOLEAN /\ viewer = "in"
  BY DEF FollowsIInv, ClickFollow, ButtonShows
<1>1. /\ follows[s] = NoFollow /\ clicked < MaxFollows /\ clicked' = clicked + 1
      /\ q' = [k \in Keys |-> IF k \in {u, "following", "search"}
                              THEN SetQueryData(CancelQuery(q[k]), data(k)) ELSE q[k]]
      /\ follows' = [r \in FollowSlots |-> IF r = s THEN op
            ELSE IF r \in Following /\ follows[r].user = u
                 THEN [follows[r] EXCEPT !.clean = FALSE] ELSE follows[r]]
      /\ UNCHANGED <<viewer, followed, page, typed, debounced, tab, moves>>
  BY DEF ClickFollow, FollowMutation
<1> HIDE DEF f
<1>2. /\ u \in Keys /\ "following" \in Keys /\ "search" \in Keys /\ u \notin Lists
      /\ Values(u) = Profile \cup {Absent}
      /\ \A k \in {"following", "search"} : Values(k) = (SUBSET Users) \cup {Absent}
  <2>1. u \notin Lists /\ "following" \notin Users /\ "search" \notin Users
    BY FollowsNames DEF Lists
  <2> QED
    BY <2>1 DEF Keys, Values, DataOf
<1>a. /\ data(u) = ApplyFollowToProfile(CancelQuery(q[u]).data, f)
      /\ data("following") =
             ApplyFollowToFollowingList(CancelQuery(q["following"]).data, u, f)
      /\ data("search") = ApplyFollowToSearchResults(CancelQuery(q["search"]).data, u, f)
  BY <1>2 DEF Lists
<1> HIDE DEF data
<1>3. ASSUME NEW k \in {u, "following", "search"}
      PROVE  /\ CancelQuery(q[k]).data \in Values(k)
             /\ data(k) \in Values(k)
             /\ q'[k] \in Queries(Values(k)) /\ ~q'[k].fetch.on
             /\ q'[k].data = IF CancelQuery(q[k]).data = Absent THEN Absent ELSE data(k)
             /\ CancelQuery(q[k]).data # Absent => data(k) # Absent
  <2>1. q[k] \in Queries(Values(k)) /\ Absent \in Values(k) /\ k \in Keys
    BY <1>0, <1>2 DEF FollowsTypes, Values
  <2>2. CancelQuery(q[k]).data \in Values(k)
    BY <2>1, CancelQuiet
  <2>3. data(k) \in Values(k)
    BY <1>0, <1>2, <1>a, <2>2, AppliedData
  <2>4. CancelQuery(q[k]).data = Absent => data(k) = Absent
    BY <1>a DEF ApplyFollowToProfile, ApplyFollowToSearchResults, ApplyFollowToFollowingList
  <2>5. CancelQuery(q[k]).data # Absent => data(k) # Absent
    BY <1>0, <1>2, <1>a, <2>2, FollowsNone
       DEF ApplyFollowToProfile, ApplyFollowToSearchResults, ApplyFollowToFollowingList,
           Profile
  <2>6. q'[k] = SetQueryData(CancelQuery(q[k]), data(k))
    BY <1>1, <2>1
  <2> QED
    BY <2>1, <2>2, <2>3, <2>4, <2>5, <2>6, CancelQuiet
<1>4. /\ DOMAIN q' = Keys /\ q' = [k \in Keys |-> q'[k]]
      /\ \A k \in Keys \ {u, "following", "search"} : q'[k] = q[k]
  BY <1>1
<1>5. \A k \in Keys : q'[k] \in Queries(Values(k))
  BY <1>0, <1>3, <1>4 DEF FollowsTypes
<1>6. op \in FollowOp
  BY <1>0, <1>2, <1>3 DEF FollowOp
<1>7. ASSUME NEW r \in Following
      PROVE  /\ r \in FollowSlots /\ r # s /\ follows'[r] \in FollowOp
             /\ follows'[r].user = follows[r].user /\ follows'[r].follow = follows[r].follow
             /\ follows'[r].clean => follows[r].clean /\ follows[r].user # u
  <2>1. r \in FollowSlots /\ r # s /\ follows[r] \in FollowOp
    BY <1>0, <1>1, FollowingFields DEF Following
  <2> QED
    BY <1>1, <2>1 DEF FollowOp
<1>8. /\ follows' \in [FollowSlots -> FollowOp \cup {NoFollow}]
      /\ follows'[s] = op /\ Following' = Following \cup {s}
  <2>1. follows'[s] = op
    BY <1>1
  <2>2. \A r \in FollowSlots \ (Following \cup {s}) : follows'[r] = NoFollow
    BY <1>1 DEF Following
  <2>3. op # NoFollow /\ \A r \in Following : follows'[r] # NoFollow
    BY <1>6, <1>7, FollowsNone
  <2>4. Following' = Following \cup {s}
    BY <2>1, <2>2, <2>3 DEF Following
  <2>5. follows' = [r \in FollowSlots |-> follows'[r]]
    BY <1>1
  <2>6. \A r \in FollowSlots : follows'[r] \in FollowOp \cup {NoFollow}
    BY <1>6, <1>7, <2>1, <2>2
  <2> QED
    BY <2>1, <2>4, <2>5, <2>6
<1> HIDE DEF op
<1>9. FollowsTypes' /\ SignedIn'
  BY <1>0, <1>1, <1>4, <1>5, <1>8 DEF FollowsTypes, SignedIn
<1>10. CleanQuiet'
  <2>1. ASSUME NEW r \in Following, follows'[r].clean,
               NEW k \in {follows[r].user, "following", "search"}
        PROVE  ~q'[k].fetch.on
    BY <1>0, <1>3, <1>4, <1>7, <2>1, FollowingFields DEF FollowsIInv, CleanQuiet
  <2> QED
    BY <1>3, <1>7, <1>8, <2>1 DEF CleanQuiet, op
<1>11. ViewsFaithful'
  <2> SUFFICES ASSUME NEW k \in Keys, ~Unsettled(k)'
               PROVE  Faithful(q'[k], {Absent, Answer(k)'})
    BY DEF ViewsFaithful
  <2>1. k \notin {u, "following", "search"} /\ ~Unsettled(k)
    BY <1>7, <1>8 DEF Unsettled, Lists, op
  <2> QED
    BY <1>1, <1>4, <2>1 DEF FollowsIInv, ViewsFaithful, Answer
<1>12. ViewsAgree'
  <2>1. /\ q'[u].data # Absent => q'[u].data.isFollowing = f
        /\ \A k \in {"following", "search"} : q'[k].data # Absent => (u \in q'[k].data <=> f)
    <3>1. q'[u].data # Absent => q'[u].data.isFollowing = f
      BY <1>0, <1>2, <1>3, <1>a, AppliedData
    <3>2. ASSUME NEW k \in {"following", "search"}, q'[k].data # Absent
          PROVE  u \in q'[k].data <=> f
      BY <1>0, <1>2, <1>3, <1>a, <3>2
         DEF ApplyFollowToSearchResults, ApplyFollowToFollowingList
    <3> QED
      BY <3>1, <3>2
  <2>2. ASSUME NEW r \in Following, follows'[r].clean
        PROVE  LET w == follows[r].user IN
               /\ q'[w].data # Absent => q'[w].data.isFollowing = follows[r].follow
               /\ \A k \in {"following", "search"} :
                     q'[k].data # Absent => (w \in q'[k].data <=> follows[r].follow)
    <3> DEFINE w == follows[r].user
    <3>1. /\ follows[r].clean /\ w # u /\ w \in Users /\ w \in Keys /\ w \notin Lists
          /\ \A k \in {w, "following", "search"} : ~q[k].fetch.on
      BY <1>0, <1>7, <2>2, FollowingFields DEF FollowsIInv, CleanQuiet
    <3>2. q'[w] = q[w]
      BY <1>4, <3>1 DEF Lists
    <3>3. ASSUME NEW k \in {"following", "search"}, q'[k].data # Absent
          PROVE  w \in q'[k].data <=> w \in q[k].data
      <4>1. CancelQuery(q[k]) = q[k]
        BY <3>1 DEF CancelQuery
      <4>2. q[k].data # Absent /\ q'[k].data = data(k)
        BY <1>3, <3>3, <4>1
      <4>3. q[k].data \in SUBSET Users
        BY <1>2, <1>3, <4>1, <4>2
      <4> QED
        BY <1>2, <1>a, <3>1, <4>1, <4>2, <4>3
           DEF ApplyFollowToSearchResults, ApplyFollowToFollowingList
    <3>4. \A k \in {"following", "search"} : q'[k].data # Absent => q[k].data # Absent
      <4> TAKE k \in {"following", "search"}
      <4>1. CancelQuery(q[k]) = q[k]
        BY <3>1 DEF CancelQuery
      <4> QED
        BY <1>3, <4>1
    <3> QED
      BY <3>1, <3>2, <3>3, <3>4 DEF FollowsIInv, ViewsAgree
  <2> QED
    BY <1>7, <1>8, <2>1, <2>2 DEF ViewsAgree, op
<1> QED
  BY <1>9, <1>10, <1>11, <1>12 DEF FollowsIInv

\* The API follows or unfollows: its views are unsettled until the answer.
LEMMA StepServerFollows ==
    ASSUME FollowsIInv, NEW s \in FollowSlots, ServerFollows(s)
    PROVE  FollowsIInv'
<1>0. FollowsTypes /\ s \in Following
  BY DEF FollowsIInv, ServerFollows
<1>1. /\ follows[s] \in FollowOp /\ follows[s].user \in Users
      /\ follows' = [follows EXCEPT ![s] = [@ EXCEPT !.applied = TRUE]]
      /\ followed' = IF follows[s].follow THEN followed \cup {follows[s].user}
                     ELSE followed \ {follows[s].user}
      /\ UNCHANGED <<viewer, page, typed, debounced, tab, q, clicked, moves>>
  BY <1>0, FollowingFields DEF ServerFollows
<1>2. [follows[s] EXCEPT !.applied = TRUE] \in FollowOp
  BY <1>1 DEF FollowOp
<1>3. /\ follows' \in [FollowSlots -> FollowOp \cup {NoFollow}]
      /\ followed' \in SUBSET Users
  BY <1>0, <1>1, <1>2 DEF FollowsTypes
<1>4. Following' = Following
  BY <1>0, <1>1, <1>2, FollowsNone DEF Following, FollowsTypes
<1>5. ASSUME NEW r \in Following
      PROVE  /\ follows'[r].user = follows[r].user /\ follows'[r].follow = follows[r].follow
             /\ follows'[r].clean = follows[r].clean
  BY <1>0, <1>1 DEF FollowsTypes, FollowOp, Following
<1>6. FollowsTypes' /\ SignedIn'
  BY <1>0, <1>1, <1>3, <1>4 DEF FollowsIInv, FollowsTypes, SignedIn
<1>7. CleanQuiet' /\ ViewsAgree'
  BY <1>1, <1>4, <1>5 DEF FollowsIInv, CleanQuiet, ViewsAgree
<1>8. ASSUME NEW k \in Keys, ~Unsettled(k)'
      PROVE  Faithful(q'[k], {Absent, Answer(k)'})
  <2>1. ~Unsettled(k) /\ k \notin {follows[s].user} \cup Lists
    BY <1>0, <1>4, <1>5, <1>8 DEF Unsettled
  <2>2. k \in Users /\ (k \in followed' <=> k \in followed)
    BY <1>1, <2>1 DEF Keys, Lists
  <2>3. Answer(k)' = Answer(k)
    BY <2>2 DEF Answer
  <2> QED
    BY <1>1, <2>1, <2>3 DEF FollowsIInv, ViewsFaithful
<1> QED
  BY <1>6, <1>7, <1>8 DEF FollowsIInv, ViewsFaithful

\* A request settles, over queries r that differ from q only where it is about
\* to mark them.
LEMMA FollowsSettle ==
    ASSUME FollowsIInv, NEW s \in Following, NEW r,
           \A k \in Keys : r[k] \in Queries(Values(k)),
           \A k \in Keys \ ({follows[s].user} \cup Lists) : r[k] = q[k],
           SettleFollow(s, r)
    PROVE  FollowsIInv'
<1>0. FollowsTypes /\ viewer = "in" /\ s \in FollowSlots /\ follows[s].user \in Users
  BY FollowingFields DEF FollowsIInv, SignedIn
<1>1. /\ q' = [k \in Keys |-> IF k \in {follows[s].user} \cup Lists
                              THEN Invalidate(r[k], OnScreen(k)) ELSE r[k]]
      /\ follows' = [t \in FollowSlots |->
            IF t = s THEN NoFollow
            ELSE IF t \in Following THEN [follows[t] EXCEPT !.clean = FALSE] ELSE follows[t]]
      /\ UNCHANGED <<viewer, followed, page, typed, debounced, tab, clicked, moves>>
  BY DEF SettleFollow, Lists
<1>2. ASSUME NEW k \in Keys
      PROVE  /\ q'[k] \in Queries(Values(k))
             /\ k \in {follows[s].user} \cup Lists => Faithful(q'[k], {Absent, Answer(k)})
             /\ k \notin {follows[s].user} \cup Lists => q'[k] = q[k]
  <2>1. OnScreen(k) \in BOOLEAN /\ Absent \in Values(k)
    BY DEF OnScreen, Enabled, Values
  <2>2. /\ Invalidate(r[k], OnScreen(k)) \in Queries(Values(k))
        /\ Faithful(Invalidate(r[k], OnScreen(k)), {Absent, Answer(k)})
    BY <2>1, QueriesClosed, FaithfulKept
  <2> QED
    BY <1>1, <2>2
<1>3. /\ DOMAIN q' = Keys /\ q' = [k \in Keys |-> q'[k]]
      /\ follows' = [t \in FollowSlots |-> follows'[t]]
  BY <1>1
<1>4. ASSUME NEW t \in Following, t # s
      PROVE  /\ follows'[t] \in FollowOp /\ ~follows'[t].clean
             /\ follows'[t].user = follows[t].user
  <2>1. t \in FollowSlots /\ follows[t] \in FollowOp
    BY <1>0, FollowingFields
  <2> QED
    BY <1>1, <1>4, <2>1 DEF FollowOp
<1>5. follows'[s] = NoFollow
      /\ \A t \in FollowSlots \ Following : follows'[t] = NoFollow
  BY <1>0, <1>1 DEF Following
<1>6. Following' = Following \ {s}
  BY <1>4, <1>5, FollowsNone DEF Following
<1>7. \A t \in FollowSlots : follows'[t] \in FollowOp \cup {NoFollow}
  BY <1>4, <1>5
<1>8. FollowsTypes' /\ SignedIn'
  BY <1>0, <1>1, <1>2, <1>3, <1>7 DEF FollowsTypes, SignedIn
<1>9. CleanQuiet' /\ ViewsAgree'
  BY <1>4, <1>6 DEF CleanQuiet, ViewsAgree
<1>10. ASSUME NEW k \in Keys, ~Unsettled(k)'
       PROVE  Faithful(q'[k], {Absent, Answer(k)'})
  <2>1. k \notin {follows[s].user} \cup Lists => ~Unsettled(k)
    BY <1>4, <1>6, <1>10 DEF Unsettled
  <2> QED
    BY <1>1, <1>2, <2>1 DEF FollowsIInv, ViewsFaithful, Answer
<1> QED
  BY <1>8, <1>9, <1>10 DEF FollowsIInv, ViewsFaithful

\* It settles with an answer, or with the snapshots put back.
LEMMA StepFollowSettles ==
    ASSUME FollowsIInv, NEW s \in FollowSlots, FollowSucceeds(s) \/ FollowFails(s)
    PROVE  FollowsIInv'
<1>0. FollowsTypes /\ s \in Following
  BY DEF FollowsIInv, FollowSucceeds, FollowFails
<1>1. \A k \in Keys : q[k] \in Queries(Values(k))
  BY <1>0 DEF FollowsTypes
<1>2. CASE FollowSucceeds(s)
  BY <1>0, <1>1, <1>2, FollowsSettle DEF FollowSucceeds
<1>3. CASE FollowFails(s)
  <2> DEFINE r == [k \in Keys |->
            CASE k = follows[s].user -> SetQueryData(q[k], follows[s].profile)
              [] k = "following" -> SetQueryData(q[k], follows[s].following)
              [] k = "search" -> SetQueryData(q[k], follows[s].search)
              [] OTHER -> q[k]]
  <2>1. SettleFollow(s, r)
    BY <1>3 DEF FollowFails
  <2>2. /\ follows[s].user \in Users /\ follows[s].user \notin Lists
        /\ follows[s].profile \in Profile \cup {Absent}
        /\ follows[s].following \in (SUBSET Users) \cup {Absent}
        /\ follows[s].search \in (SUBSET Users) \cup {Absent}
    BY <1>0, FollowingFields DEF FollowOp
  <2>3. ASSUME NEW k \in Keys
        PROVE  r[k] \in Queries(Values(k))
    <3>1. Absent \in Values(k) /\ q[k] \in Queries(Values(k))
      BY <1>1 DEF Values
    <3>2. k = follows[s].user => follows[s].profile \in Values(k)
      BY <2>2 DEF Values, DataOf
    <3>3. k = "following" => follows[s].following \in Values(k)
      BY <2>2, FollowsNames DEF Values, DataOf
    <3>4. k = "search" => follows[s].search \in Values(k)
      BY <2>2, FollowsNames DEF Values, DataOf
    <3>5. CASE k = follows[s].user
      BY <2>2, <3>1, <3>2, <3>5, QueriesClosed DEF Lists
    <3>6. CASE k = "following"
      BY <2>2, <3>1, <3>3, <3>6, QueriesClosed DEF Lists
    <3>7. CASE k = "search"
      BY <2>2, <3>1, <3>4, <3>7, QueriesClosed DEF Lists
    <3> QED
      BY <3>1, <3>5, <3>6, <3>7
  <2>4. \A k \in Keys \ ({follows[s].user} \cup Lists) : r[k] = q[k]
    BY DEF Lists
  <2> HIDE DEF r
  <2> QED
    BY <1>0, <2>1, <2>3, <2>4, FollowsSettle
<1> QED
  BY <1>2, <1>3

\* The server reads an answer; it arrives, or never does.
LEMMA StepFollowsFetch ==
    ASSUME FollowsIInv, NEW k \in Keys, AnswerRead(k) \/ AnswerLands(k) \/ AnswerLost(k)
    PROVE  FollowsIInv'
<1>0. FollowsTypes
  BY DEF FollowsIInv
<1> DEFINE x == IF AnswerRead(k) THEN ServerReads(q[k], Answer(k))
                ELSE IF AnswerLands(k) THEN Landed(q[k]) ELSE FetchFailed(q[k])
<1>1. /\ q[k].fetch.on /\ q' = [q EXCEPT ![k] = x]
      /\ AnswerLands(k) => CanLand(q[k])
      /\ UNCHANGED <<viewer, followed, page, typed, debounced, tab, follows, clicked, moves>>
  BY DEF AnswerRead, AnswerLands, AnswerLost, CanLand
<1>2. q[k] \in Queries(Values(k)) /\ Absent \in Values(k) /\ Answer(k) \in Values(k)
  <2>1. k \in Users => Answer(k) \in Profile
    BY FollowsFans DEF Answer, Profile
  <2>2. k \notin Users => Answer(k) \in SUBSET Users
    BY <1>0 DEF FollowsTypes, Answer
  <2> QED
    BY <1>0, <2>1, <2>2 DEF FollowsTypes, Values, DataOf
<1>3. x \in Queries(Values(k))
  BY <1>2, QueriesClosed
<1>4. Faithful(q[k], {Absent, Answer(k)}) => Faithful(x, {Absent, Answer(k)})
  <2> DEFINE A == {Absent, Answer(k)}
  <2>1. Absent \in A /\ Answer(k) \in A
    OBVIOUS
  <2> HIDE DEF A
  <2>2. Faithful(q[k], A) => Faithful(x, A)
    BY <1>1, <1>2, <2>1, FaithfulKept
  <2> QED
    BY <2>2 DEF A
<1> HIDE DEF x
<1>5. /\ DOMAIN q' = Keys /\ q' = [j \in Keys |-> q'[j]]
      /\ q'[k] = x /\ \A j \in Keys \ {k} : q'[j] = q[j]
  BY <1>0, <1>1 DEF FollowsTypes
<1>6. Following' = Following /\ viewer = "in"
  BY <1>1 DEF Following, FollowsIInv, SignedIn
<1>7. FollowsTypes' /\ SignedIn'
  BY <1>0, <1>1, <1>3, <1>5, <1>6 DEF FollowsTypes, SignedIn
<1>8. ASSUME NEW s \in Following, follows[s].clean
      PROVE  \A j \in {follows[s].user, "following", "search"} :
                ~q'[j].fetch.on /\ q'[j] = q[j]
  <2>1. \A j \in {follows[s].user, "following", "search"} : j \in Keys /\ ~q[j].fetch.on
    BY <1>0, <1>8, FollowingFields DEF FollowsIInv, CleanQuiet, Keys
  <2> QED
    BY <1>1, <1>5, <2>1
<1>9. CleanQuiet' /\ ViewsAgree'
  BY <1>1, <1>6, <1>8 DEF FollowsIInv, CleanQuiet, ViewsAgree
<1>10. ViewsFaithful'
  <2>1. \A j \in Keys : Answer(j)' = Answer(j) /\ (Unsettled(j)' <=> Unsettled(j))
    BY <1>1, <1>6 DEF Answer, Unsettled
  <2> QED
    BY <1>4, <1>5, <2>1 DEF FollowsIInv, ViewsFaithful
<1> QED
  BY <1>7, <1>9, <1>10 DEF FollowsIInv

\* Every step preserves the invariant.
LEMMA FollowsINext ==
    ASSUME FollowsIInv, [FollowsNext]_followVars
    PROVE  FollowsIInv'
<1>1. ASSUME NEW u \in Users, ViewOnMap(u)
      PROVE  FollowsIInv'
  BY <1>1, StepVisit DEF ViewOnMap
<1>2. CASE UNCHANGED followVars
  BY <1>2, FollowsStay DEF followVars, FollowsIInv, FollowsTypes, SignedIn
<1> QED
  BY <1>1, <1>2, StepMeArrives, StepFriendsScreen, StepVisit, StepServerFollows,
     StepFollowSettles, StepClickFollow, StepFollowsFetch DEF FollowsNext

\* Whom the user follows is shown the same in every view until a change
\* settles, and as the server has it once all have, for any travellers and any
\* number of overlapping requests, rollbacks and refetches.
THEOREM FollowsSound == FollowsSpec => []FollowsInv
<1>1. FollowsSpec => []FollowsIInv
  BY FollowsIInit, FollowsINext, PTL DEF FollowsSpec
<1> QED
  BY <1>1, FollowsIImplies, PTL

-----------------------------------------------------------------------------
\* GroupPages.  While why is FALSE at most one request or fetch is about the
\* group, so what it has read or was answered is the group as it is.

\* What the queries may hold.  A page never shows a 404 as data.
Row == [name: GroupNames, memberCount: {Cardinality(S) : S \in SUBSET Travellers}]
Served(v) ==
    CASE v = "mine" -> {{}} \cup {{r} : r \in Row}
      [] v = "group" -> Details \cup {Missing}
      [] v = "invite" -> [name: GroupNames, isMember: BOOLEAN] \cup {Missing}
Held(v) == Served(v) \cup {Absent}

\* The arguments and answers that go with each kind of request.
MutationOK(r) ==
    /\ r.kind = "leave" => r.arg = Me
    /\ r.kind \in {"remove", "add"} => r.arg \in Travellers
    /\ r.kind \in {"create", "rename"} => r.arg \in GroupNames
    /\ IF AnswersDetail(r) THEN r.answer # Done ELSE r.answer \notin Details

\* A button is disabled while its own request is pending.
QueriesOK(r) ==
    /\ r = [v \in Views |-> r[v]]
    /\ \A v \in Views : r[v] \in Queries(Held(v)) /\ r[v].data # Missing
RequestsOK(w) ==
    /\ w \in [ReqSlots -> Mutations \cup {NoRequest}]
    /\ \A s \in ReqSlots : w[s] # NoRequest => MutationOK(w[s])
    /\ \A s, t \in ReqSlots :
          (w[s] # NoRequest /\ w[t] # NoRequest /\ w[s].kind = w[t].kind
             /\ w[s].here /\ w[t].here /\ w[s].kind # "remove")
          => s = t

EditorOK(ed) ==
    ed \in [open: BOOLEAN, name: GroupNames \cup {""}, typed: BOOLEAN, drifted: BOOLEAN]

\* The owner is a member; only who is signed in has queries and requests.
PagesTypes ==
    /\ my \in {"loading", "out", "nameless", "in"}
    /\ group \in Details \cup {Missing} /\ (group # Missing => group.owner \in group.members)
    /\ screen \in {"groups", "group", "join"}
    /\ QueriesOK(query) /\ RequestsOK(requests)
    /\ EditorOK(editor)
    /\ my # "in" => Pending = {} /\ \A v \in Views : query[v] = NewQuery
WhyTyped == why \in [group: BOOLEAN, mine: BOOLEAN]

\* What a query may show or be about to show when nothing disturbed it.
Fresh(v) == {Absent, Missing, Serve(v)}

\* Two requests or fetches about the group are in flight.
Overlap ==
    \/ \E s, t \in AboutGroup : s # t
    \/ AboutGroup # {} /\ query["group"].fetch.on

\* A request that was not answered, or refused, has changed nothing; one that
\* was answered with the group was answered with the group as it is.
GroupFaithful ==
    /\ AboutGroup = {} => Faithful(query["group"], Fresh("group"))
    /\ \A s \in AboutGroup :
        /\ requests[s].answer \in {Absent, Missing} => Faithful(query["group"], Fresh("group"))
        /\ requests[s].answer \in Details =>
               requests[s].answer = group /\ Me \in group.members
GroupKnown == ~why.group => ~Overlap /\ GroupFaithful

\* The list is only out of step with a change that was answered and not heard.
Told == {s \in Pending : requests[s].answer \notin {Absent, Missing}}
MineFaithful == Told = {} => Faithful(query["mine"], Fresh("mine"))
MineKnown == ~why.mine => MineFaithful

\* The form is mounted with the name; it has another one only after the user
\* typed or the group's name changed.
EditorKnown ==
    /\ editor.open => screen = "group" /\ my = "in" /\ query["group"].data # Absent
    /\ (screen = "group" /\ query["group"].data # Absent /\ ~editor.drifted
          /\ (~editor.typed \/ ~editor.open))
           => editor.name \in {"", query["group"].data.name}

PagesIInv ==
    PagesTypes /\ WhyTyped /\ GroupKnown /\ MineKnown /\ EditorKnown

USE PagesMe, GroupsGiven, GroupsBounds, GroupsNone

\* Requests and the fetch, counted.
LEMMA Counting ==
    ASSUME NEW A, IsFiniteSet(A), NEW b \in BOOLEAN, NEW n,
           n = Cardinality(A) + IF b THEN 1 ELSE 0
    PROVE  /\ n = 0 => A = {} /\ ~b
           /\ A = {} /\ ~b => n = 0
           /\ ~(n >= 2) => (\A s, t \in A : s = t) /\ ~(A # {} /\ b)
<1>1. Cardinality(A) \in Nat /\ (Cardinality(A) = 0 <=> A = {})
  BY FS_CardinalityType, FS_EmptySet
<1>2. ASSUME NEW s \in A, NEW t \in A, s # t
      PROVE  Cardinality(A) >= 2
  <2>1. IsFiniteSet(A \ {s}) /\ Cardinality(A \ {s}) = Cardinality(A) - 1
    BY FS_RemoveElement
  <2>2. Cardinality(A \ {s}) \in Nat /\ Cardinality(A \ {s}) # 0
    BY <1>2, <2>1, FS_CardinalityType, FS_EmptySet
  <2> QED
    BY <1>1, <2>1, <2>2
<1> QED
  BY <1>1, <1>2

\* What the server answers, and whom it has it from.
LEMMA ServeTyped ==
    ASSUME group \in Details \cup {Missing}, NEW v \in Views
    PROVE  /\ Serve(v) \in Held(v)
           /\ Absent \in Held(v)
<1>1. Serve("mine") \in Held("mine")
  <2>1. CASE Serve("mine") = {}
    BY <2>1 DEF Held, Served
  <2>2. CASE Serve("mine") # {}
    <3>1. group \in Details
      BY <2>2 DEF Serve
    <3>2. /\ group.name \in GroupNames /\ group.members \in SUBSET Travellers
          /\ Serve("mine") = {[name |-> group.name, memberCount |-> Cardinality(group.members)]}
      BY <2>2, <3>1 DEF Serve, Details
    <3>3. [name |-> group.name, memberCount |-> Cardinality(group.members)] \in Row
      BY <3>2 DEF Row
    <3> QED
      BY <3>2, <3>3 DEF Held, Served
  <2> QED
    BY <2>1, <2>2
<1>2. Serve("group") \in Held("group")
  BY DEF Serve, Held, Served
<1>3. Serve("invite") \in Held("invite")
  <2>1. CASE Serve("invite") = Missing
    BY <2>1 DEF Held, Served
  <2>2. CASE Serve("invite") # Missing
    <3>1. group \in Details
      BY <2>2 DEF Serve
    <3> DEFINE b == Me \in group.members
    <3>2. b \in BOOLEAN /\ group.name \in GroupNames
      BY <3>1 DEF Details
    <3>3. Serve("invite") = [name |-> group.name, isMember |-> b]
      BY <2>2 DEF Serve
    <3> HIDE DEF b
    <3>4. [name |-> group.name, isMember |-> b] \in [name: GroupNames, isMember: BOOLEAN]
      BY <3>2
    <3> QED
      BY <3>3, <3>4 DEF Held, Served
  <2> QED
    BY <2>1, <2>2
<1> QED
  BY <1>1, <1>2, <1>3 DEF Views, Held

\* What becomes of the history is proved once, whatever the step: a view is
\* explained after it if it was right, or if the step keeps it faithful.
LEMMA PagesStep ==
    ASSUME PagesIInv, NEW astray \in BOOLEAN, Explain(astray), PagesTypes',
           GroupKnown /\ ~why.group /\ ~astray /\ ~Overlap' => GroupFaithful',
           MineKnown /\ ~why.mine /\ ~astray => MineFaithful',
           EditorKnown'
    PROVE  PagesIInv'
<1> DEFINE on == query'["group"].fetch.on
<1>1. on \in BOOLEAN /\ query'["mine"].fetch.on \in BOOLEAN
  BY DEF PagesTypes, QueriesOK, Queries, Fetches, Views
<1>2. IsFiniteSet(AboutGroup') /\ AboutGroup' \subseteq ReqSlots
  <2>1. AboutGroup' \subseteq ReqSlots
    BY DEF AboutGroup, Pending
  <2> QED
    BY <2>1, FS_Subset
<1>3. InFlightNow' = Cardinality(AboutGroup') + IF on THEN 1 ELSE 0
  BY DEF InFlightNow
<1>4. /\ InFlightNow' = 0 => AboutGroup' = {} /\ ~on
      /\ ~(InFlightNow' >= 2) => (\A s, t \in AboutGroup' : s = t) /\ ~(AboutGroup' # {} /\ on)
  <2> HIDE DEF on
  <2> QED
    BY <1>1, <1>2, <1>3, Counting
<1>5. /\ why'.group <=> ~(Right("group")' /\ InFlightNow' = 0)
                       /\ (why.group \/ astray \/ InFlightNow' >= 2)
      /\ why'.mine <=> ~(Right("mine")' /\ ~query'["mine"].fetch.on) /\ (why.mine \/ astray)
      /\ why' = [group |-> why'.group, mine |-> why'.mine]
  BY DEF Explain
<1>6. WhyTyped'
  <2>1. why \in [group: BOOLEAN, mine: BOOLEAN]
    BY DEF PagesIInv, WhyTyped
  <2> QED
    BY <2>1, <1>5 DEF WhyTyped, Explain
<1>7. GroupKnown'
  <2> SUFFICES ASSUME ~why'.group
               PROVE  ~Overlap' /\ GroupFaithful'
    BY DEF GroupKnown
  <2>1. CASE Right("group")' /\ InFlightNow' = 0
    <3>1. AboutGroup' = {} /\ ~on
      BY <1>4, <2>1
    <3>2. ~Overlap'
      BY <3>1 DEF Overlap
    <3>3. Faithful(query'["group"], Fresh("group")')
      BY <2>1, <3>1 DEF Faithful, Right, Fresh
    <3> QED
      BY <3>1, <3>2, <3>3 DEF GroupFaithful
  <2>2. CASE ~why.group /\ ~astray /\ ~(InFlightNow' >= 2)
    <3>1. ~Overlap'
      BY <1>4, <2>2 DEF Overlap
    <3> QED
      BY <2>2, <3>1 DEF PagesIInv
  <2> QED
    BY <1>5, <2>1, <2>2
<1>8. MineKnown'
  <2> SUFFICES ASSUME ~why'.mine
               PROVE  MineFaithful'
    BY DEF MineKnown
  <2>1. CASE Right("mine")' /\ ~query'["mine"].fetch.on
    <3>1. Faithful(query'["mine"], Fresh("mine")')
      BY <2>1 DEF Faithful, Right, Fresh
    <3> QED
      BY <3>1 DEF MineFaithful
  <2>2. CASE ~why.mine /\ ~astray
    BY <2>2 DEF PagesIInv
  <2> QED
    BY <1>5, <2>1, <2>2
<1> QED
  BY <1>6, <1>7, <1>8 DEF PagesIInv

\* What a form is mounted with.
LEMMA MountedTyped ==
    ASSUME EditorOK(editor), NEW old \in Details \cup {Absent}, NEW new \in Details \cup {Absent}
    PROVE  /\ EditorOK(Mounted(editor, old, new))
           /\ EditorOK(NoEditor(""))
           /\ Mounted(editor, old, new).open => old # Absent /\ new # Absent /\ editor.open
           /\ new # Absent /\ old = Absent => Mounted(editor, old, new).name = new.name
           /\ new # Absent /\ old # Absent =>
                 /\ Mounted(editor, old, new).name = editor.name
                 /\ Mounted(editor, old, new).typed = editor.typed
                 /\ Mounted(editor, old, new).open = editor.open
                 /\ ~Mounted(editor, old, new).drifted => ~editor.drifted /\ new.name = old.name
<1>1. \A n \in GroupNames \cup {""} : EditorOK(NoEditor(n)) /\ ~NoEditor(n).open /\ NoEditor(n).name = n
  BY DEF NoEditor, EditorOK
<1>2. new # Absent => new.name \in GroupNames
  BY DEF Details
<1>3. CASE new = Absent
  BY <1>1, <1>3 DEF Mounted
<1>4. CASE new # Absent /\ old = Absent
  BY <1>1, <1>2, <1>4 DEF Mounted
<1>5. CASE new # Absent /\ old # Absent
  <2> DEFINE ed == [editor EXCEPT !.drifted = @ \/ new.name # old.name]
             b == editor.drifted \/ new.name # old.name
  <2>1. ed = [editor EXCEPT !.drifted = b] /\ b \in BOOLEAN
    BY DEF EditorOK
  <2>2. Mounted(editor, old, new) = ed
    BY <1>5 DEF Mounted
  <2>3. ~b => ~editor.drifted /\ new.name = old.name
    OBVIOUS
  <2> HIDE DEF b, ed
  <2>4. /\ EditorOK(ed) /\ ed.name = editor.name /\ ed.typed = editor.typed
        /\ ed.open = editor.open /\ ed.drifted = b
    BY <2>1 DEF EditorOK
  <2>5. EditorOK(NoEditor(""))
    BY <1>1
  <2> QED
    BY <1>5, <2>2, <2>3, <2>4, <2>5
<1> QED
  BY <1>1, <1>3, <1>4, <1>5

\* The group a page shows.
LEMMA GroupHeld ==
    ASSUME NEW r, QueriesOK(r)
    PROVE  r["group"].data \in Details \cup {Absent}
<1>1. r["group"] \in Queries(Held("group")) /\ r["group"].data # Missing
  BY DEF QueriesOK, Views
<1>2. r["group"].data \in Held("group")
  BY <1>1 DEF Queries
<1> QED
  BY <1>1, <1>2 DEF Held, Served

\* A page that is opened fetches what it shows; its forms are new.
LEMMA PageOpens ==
    ASSUME NEW p \in {"groups", "group", "join"}, NEW r, NEW w, QueriesOK(r), RequestsOK(w),
           EditorOK(editor), Open(p, r, w), my' = "in"
    PROVE  /\ screen' = p /\ QueriesOK(query') /\ RequestsOK(requests') /\ EditorOK(editor')
           /\ EditorKnown'
           /\ \A v \in Views : /\ r[v].fetch.on => query'[v].fetch.on
                               /\ \A A : Absent \in A /\ Faithful(r[v], A)
                                             => Faithful(query'[v], A)
           /\ \A s \in ReqSlots :
                 /\ requests'[s] = NoRequest <=> w[s] = NoRequest
                 /\ w[s] # NoRequest =>
                      requests'[s].kind = w[s].kind /\ requests'[s].answer = w[s].answer
<1>1. /\ query' = [v \in Views |-> query'[v]]
      /\ \A v \in Views : query'[v] \in {r[v], Begin(r[v])}
  BY DEF Open
<1>2. ASSUME NEW v \in Views
      PROVE  /\ query'[v] \in Queries(Held(v)) /\ query'[v].data = r[v].data
             /\ r[v].data # Missing
             /\ r[v].fetch.on => query'[v].fetch.on
             /\ \A A : Absent \in A /\ Faithful(r[v], A) => Faithful(query'[v], A)
  <2>1. r[v] \in Queries(Held(v)) /\ Absent \in Held(v) /\ r[v].data # Missing
    BY DEF QueriesOK, Held
  <2>2. Begin(r[v]) \in Queries(Held(v))
    BY <2>1, QueriesClosed
  <2>3. Begin(r[v]).data = r[v].data /\ (r[v].fetch.on => Begin(r[v]).fetch.on)
    BY <2>1 DEF Begin, Queries
  <2>4. ASSUME NEW A, Absent \in A, Faithful(r[v], A)
        PROVE  Faithful(Begin(r[v]), A)
    BY <2>1, <2>4, FaithfulKept
  <2> QED
    BY <1>1, <2>1, <2>2, <2>3, <2>4
<1>3. QueriesOK(query')
  BY <1>1, <1>2 DEF QueriesOK
<1>4. ASSUME NEW s \in ReqSlots
      PROVE  /\ requests'[s] = NoRequest <=> w[s] = NoRequest
             /\ requests'[s] \in Mutations \cup {NoRequest}
             /\ w[s] # NoRequest =>
                   /\ requests'[s].kind = w[s].kind /\ requests'[s].answer = w[s].answer
                   /\ requests'[s].arg = w[s].arg /\ ~requests'[s].here
  <2>1. requests'[s] = IF w[s] = NoRequest THEN NoRequest ELSE [w[s] EXCEPT !.here = FALSE]
    BY DEF Open
  <2>2. w[s] \in Mutations \cup {NoRequest}
    BY DEF RequestsOK
  <2> DEFINE x == [w[s] EXCEPT !.here = FALSE]
  <2>3. w[s] # NoRequest => /\ x \in Mutations /\ x.kind = w[s].kind /\ x.answer = w[s].answer
                            /\ x.arg = w[s].arg /\ ~x.here
    BY <2>2 DEF Mutations
  <2>4. w[s] # NoRequest => x # NoRequest
    BY <2>3
  <2> HIDE DEF x
  <2> QED
    BY <2>1, <2>3, <2>4 DEF x
<1>5. requests' = [s \in ReqSlots |-> requests'[s]]
  BY DEF Open
<1>6. RequestsOK(requests')
  <2>1. requests' \in [ReqSlots -> Mutations \cup {NoRequest}]
    BY <1>4, <1>5
  <2>2. \A s \in ReqSlots : requests'[s] # NoRequest => MutationOK(requests'[s])
    BY <1>4 DEF RequestsOK, MutationOK, AnswersDetail
  <2> QED
    BY <1>4, <2>1, <2>2 DEF RequestsOK
<1>7. EditorOK(editor') /\ EditorKnown' /\ screen' = p
  <2> DEFINE new == r["group"].data
  <2>1. new \in Details \cup {Absent} /\ query'["group"].data = new
    BY <1>2, GroupHeld DEF Views
  <2>2. /\ screen' = p
        /\ editor' = IF p = "group" THEN Mounted(editor, Absent, new) ELSE NoEditor("")
    BY DEF Open
  <2>3. /\ EditorOK(Mounted(editor, Absent, new)) /\ EditorOK(NoEditor(""))
        /\ ~Mounted(editor, Absent, new).open
        /\ new # Absent => Mounted(editor, Absent, new).name = new.name
    BY <2>1, MountedTyped
  <2>4. ~NoEditor("").open
    BY DEF NoEditor
  <2> HIDE DEF new
  <2> QED
    BY <2>1, <2>2, <2>3, <2>4 DEF EditorKnown
<1> QED
  BY <1>2, <1>3, <1>4, <1>6, <1>7

\* A page that stays keeps its form, and remembers that the name has changed.
LEMMA PageStays ==
    ASSUME NEW r, QueriesOK(r), QueriesOK(query), EditorOK(editor), EditorKnown,
           Stay(r), my' = my
    PROVE  query' = r /\ screen' = screen /\ EditorOK(editor') /\ EditorKnown'
<1> DEFINE old == query["group"].data
           new == r["group"].data
<1>1. old \in Details \cup {Absent} /\ new \in Details \cup {Absent}
  BY GroupHeld
<1>2. /\ query' = r /\ screen' = screen /\ query'["group"].data = new
      /\ editor' = IF screen = "group" THEN Mounted(editor, old, new) ELSE editor
  BY DEF Stay
<1>3. /\ editor.open => screen = "group" /\ my = "in" /\ old # Absent
      /\ (screen = "group" /\ old # Absent /\ ~editor.drifted /\ (~editor.typed \/ ~editor.open))
             => editor.name \in {"", old.name}
  BY DEF EditorKnown
<1> HIDE DEF old, new
<1>4. CASE screen = "group"
  <2>1. editor' = Mounted(editor, old, new) /\ EditorOK(editor')
    BY <1>1, <1>2, <1>4, MountedTyped
  <2>2. editor'.open => old # Absent /\ new # Absent /\ editor.open
    BY <1>1, <2>1, MountedTyped
  <2>3. new # Absent /\ old = Absent => editor'.name = new.name
    BY <1>1, <2>1, MountedTyped
  <2>4. new # Absent /\ old # Absent =>
           /\ editor'.name = editor.name /\ editor'.typed = editor.typed
           /\ editor'.open = editor.open
           /\ ~editor'.drifted => ~editor.drifted /\ new.name = old.name
    BY <1>1, <2>1, MountedTyped
  <2> QED
    BY <1>2, <1>3, <1>4, <2>1, <2>2, <2>3, <2>4 DEF EditorKnown
<1>5. CASE screen # "group"
  BY <1>2, <1>3, <1>5 DEF EditorKnown
<1> QED
  BY <1>2, <1>4, <1>5

\* The same requests are in flight, or all but s.
LEMMA SameRequests ==
    ASSUME \A t \in ReqSlots :
              /\ requests'[t] = NoRequest <=> requests[t] = NoRequest
              /\ requests[t] # NoRequest =>
                   requests'[t].kind = requests[t].kind /\ requests'[t].answer = requests[t].answer
    PROVE  /\ Pending' = Pending /\ AboutGroup' = AboutGroup /\ Told' = Told
           /\ \A t \in AboutGroup : requests'[t].answer = requests[t].answer
<1>1. Pending' = Pending
  BY DEF Pending
<1>2. \A t \in Pending : /\ requests'[t].kind = requests[t].kind
                         /\ requests'[t].answer = requests[t].answer
  BY DEF Pending
<1> QED
  BY <1>1, <1>2 DEF AboutGroup, Told

\* A request that is over leaves the list of requests.
LEMMA Settled ==
    ASSUME NEW s \in Pending, RequestsOK(requests),
           \A t \in ReqSlots :
              /\ requests'[t] = NoRequest <=> Rest(s)[t] = NoRequest
              /\ Rest(s)[t] # NoRequest =>
                   requests'[t].kind = Rest(s)[t].kind /\ requests'[t].answer = Rest(s)[t].answer
    PROVE  /\ Pending' = Pending \ {s} /\ AboutGroup' = AboutGroup \ {s} /\ Told' = Told \ {s}
           /\ \A t \in AboutGroup \ {s} : requests'[t].answer = requests[t].answer
<1>1. \A t \in ReqSlots : Rest(s)[t] = IF t = s THEN NoRequest ELSE requests[t]
  BY DEF RequestsOK, Rest
<1>2. Pending' = Pending \ {s}
  BY <1>1 DEF Pending
<1>3. \A t \in Pending \ {s} : /\ requests'[t].kind = requests[t].kind
                               /\ requests'[t].answer = requests[t].answer
  BY <1>1 DEF Pending
<1> QED
  BY <1>2, <1>3 DEF AboutGroup, Told

\* What is left of the requests.
LEMMA RestTyped ==
    ASSUME NEW s \in Pending, RequestsOK(requests)
    PROVE  /\ RequestsOK(Rest(s))
           /\ \A t \in ReqSlots : Rest(s)[t] = IF t = s THEN NoRequest ELSE requests[t]
<1>1. \A t \in ReqSlots : Rest(s)[t] = IF t = s THEN NoRequest ELSE requests[t]
  BY DEF RequestsOK, Rest
<1>2. Rest(s) \in [ReqSlots -> Mutations \cup {NoRequest}]
  BY DEF RequestsOK, Rest
<1> QED
  BY <1>1, <1>2 DEF RequestsOK

\* The fields of a request.
LEMMA PendingFields ==
    ASSUME RequestsOK(requests), NEW s \in Pending
    PROVE  /\ s \in ReqSlots /\ requests[s] \in Mutations /\ MutationOK(requests[s])
           /\ requests[s].kind \in Kinds /\ requests[s].here \in BOOLEAN
           /\ requests[s].answer \in Details \cup {Done, Missing, Absent}
BY DEF RequestsOK, Pending, Mutations

\* The group is known while what was known is still so.
LEMMA GroupKept ==
    ASSUME GroupFaithful, group' = group, AboutGroup' = AboutGroup,
           \A t \in AboutGroup : requests'[t].answer = requests[t].answer,
           Faithful(query["group"], Fresh("group")) => Faithful(query'["group"], Fresh("group"))
    PROVE  GroupFaithful'
<1>1. Fresh("group")' = Fresh("group")
  BY DEF Fresh, Serve
<1> HIDE DEF Fresh
<1> QED
  BY <1>1 DEF GroupFaithful
LEMMA MineKept ==
    ASSUME MineFaithful, group' = group, Told' = Told,
           Faithful(query["mine"], Fresh("mine")) => Faithful(query'["mine"], Fresh("mine"))
    PROVE  MineFaithful'
<1>1. Fresh("mine")' = Fresh("mine")
  BY DEF Fresh, Serve
<1> QED
  BY <1>1 DEF MineFaithful

\* Requests and answers are only known to whom is in.
LEMMA PagesParts ==
    ASSUME PagesIInv
    PROVE  /\ PagesTypes /\ EditorKnown
           /\ QueriesOK(query) /\ RequestsOK(requests) /\ EditorOK(editor)
           /\ GroupKnown /\ MineKnown
           /\ ~why.group => ~Overlap /\ GroupFaithful
           /\ ~why.mine => MineFaithful
BY DEF PagesIInv, PagesTypes, GroupKnown, MineKnown

\* A page is opened with the queries and requests there are.
LEMMA StepGate == ASSUME PagesIInv, GateOpens PROVE PagesIInv'
<1>0. /\ PagesTypes /\ EditorKnown /\ QueriesOK(query) /\ RequestsOK(requests)
      /\ EditorOK(editor) /\ (~why.group => GroupFaithful) /\ (~why.mine => MineFaithful)
  BY PagesParts
<1>1. my = "loading" /\ Explain(FALSE) /\ group' = group /\ screen \in {"groups", "group", "join"}
  BY <1>0 DEF GateOpens, PagesTypes
<1>2. Pending = {} /\ ~editor.open
  BY <1>0, <1>1 DEF PagesTypes, EditorKnown
<1>3. CASE my' \in {"out", "nameless"} /\ UNCHANGED <<screen, query, editor, requests>>
  <2>1. Pending' = Pending /\ AboutGroup' = AboutGroup /\ Told' = Told
    BY <1>3 DEF Pending, AboutGroup, Told
  <2>2. PagesTypes'
    BY <1>0, <1>1, <1>3, <2>1 DEF PagesTypes
  <2>3. EditorKnown'
    BY <1>0, <1>2, <1>3 DEF EditorKnown
  <2>4. GroupFaithful => GroupFaithful'
    BY <1>1, <1>3, <2>1, GroupKept
  <2>5. MineFaithful => MineFaithful'
    BY <1>1, <1>3, <2>1, MineKept
  <2> QED
    BY <1>0, <1>1, <2>2, <2>3, <2>4, <2>5, PagesStep
<1>4. CASE my' = "in" /\ Open(screen, query, requests)
  <2>1. /\ screen' = screen /\ QueriesOK(query') /\ RequestsOK(requests') /\ EditorOK(editor')
        /\ EditorKnown'
        /\ \A v \in Views : \A A : Absent \in A /\ Faithful(query[v], A) => Faithful(query'[v], A)
        /\ \A s \in ReqSlots :
              /\ requests'[s] = NoRequest <=> requests[s] = NoRequest
              /\ requests[s] # NoRequest =>
                   requests'[s].kind = requests[s].kind /\ requests'[s].answer = requests[s].answer
    BY <1>0, <1>1, <1>4, PageOpens
  <2>2. /\ Pending' = Pending /\ AboutGroup' = AboutGroup /\ Told' = Told
        /\ \A t \in AboutGroup : requests'[t].answer = requests[t].answer
    BY <2>1, SameRequests
  <2>3. PagesTypes'
    BY <1>0, <1>1, <1>4, <2>1 DEF PagesTypes
  <2>4. \A v \in Views : Faithful(query[v], Fresh(v)) => Faithful(query'[v], Fresh(v))
    BY <2>1 DEF Fresh
  <2>5. GroupFaithful => GroupFaithful'
    BY <1>1, <2>2, <2>4, GroupKept DEF Views
  <2>6. MineFaithful => MineFaithful'
    BY <1>1, <2>2, <2>4, MineKept DEF Views
  <2> QED
    BY <1>0, <1>1, <2>1, <2>3, <2>5, <2>6, PagesStep
<1> QED
  BY <1>3, <1>4 DEF GateOpens

\* A link to another page of the groups.
LEMMA StepFollowLink ==
    ASSUME PagesIInv, NEW p \in {"groups", "group", "join"}, FollowLink(p)
    PROVE  PagesIInv'
<1>0. /\ PagesTypes /\ EditorKnown /\ QueriesOK(query) /\ RequestsOK(requests)
      /\ EditorOK(editor) /\ (~why.group => GroupFaithful) /\ (~why.mine => MineFaithful)
  BY PagesParts
<1>1. my = "in" /\ my' = my /\ Explain(FALSE) /\ group' = group /\ Open(p, query, requests)
  BY DEF FollowLink
<1>2. /\ screen' = p /\ QueriesOK(query') /\ RequestsOK(requests') /\ EditorOK(editor')
      /\ EditorKnown'
      /\ \A v \in Views : \A A : Absent \in A /\ Faithful(query[v], A) => Faithful(query'[v], A)
      /\ \A s \in ReqSlots :
            /\ requests'[s] = NoRequest <=> requests[s] = NoRequest
            /\ requests[s] # NoRequest =>
                 requests'[s].kind = requests[s].kind /\ requests'[s].answer = requests[s].answer
  BY <1>0, <1>1, PageOpens
<1>3. /\ Pending' = Pending /\ AboutGroup' = AboutGroup /\ Told' = Told
      /\ \A t \in AboutGroup : requests'[t].answer = requests[t].answer
  BY <1>2, SameRequests
<1>4. PagesTypes'
  BY <1>0, <1>1, <1>2 DEF PagesTypes
<1>5. \A v \in Views : Faithful(query[v], Fresh(v)) => Faithful(query'[v], Fresh(v))
  BY <1>2 DEF Fresh
<1>6. GroupFaithful => GroupFaithful'
  BY <1>1, <1>3, <1>5, GroupKept DEF Views
<1>7. MineFaithful => MineFaithful'
  BY <1>1, <1>3, <1>5, MineKept DEF Views
<1> QED
  BY <1>0, <1>1, <1>2, <1>4, <1>6, <1>7, PagesStep

\* GroupTitle's form alone.
LEMMA StepEditor ==
    ASSUME PagesIInv, OpenEditor \/ CancelEdit \/ \E n \in GroupNames \cup {""} : TypeName(n)
    PROVE  PagesIInv'
<1>0. PagesTypes /\ EditorKnown /\ QueriesOK(query) /\ EditorOK(editor)
  BY PagesParts
<1>1. UNCHANGED <<my, group, screen, query, requests, why>>
  BY DEF OpenEditor, CancelEdit, TypeName
<1>2. /\ editor.open => screen = "group" /\ my = "in" /\ Shown # Absent
      /\ (screen = "group" /\ Shown # Absent /\ ~editor.drifted /\ (~editor.typed \/ ~editor.open))
             => editor.name \in {"", Shown.name}
      /\ query'["group"].data = Shown
  BY <1>0, <1>1 DEF EditorKnown, Shown
<1>3. Shown \in Details \cup {Absent}
  BY <1>0, GroupHeld DEF Shown
<1> HIDE DEF Shown
<1>4. EditorOK(editor') /\ EditorKnown'
  <2>1. CASE OpenEditor
    <3>1. /\ my = "in" /\ screen = "group" /\ Shown # Absent /\ ~editor.open
          /\ editor' = [editor EXCEPT !.open = TRUE, !.typed = FALSE]
      BY <2>1 DEF OpenEditor, IsOwner, ViewOpen, Shown
    <3>2. EditorOK(editor') /\ editor'.name = editor.name /\ editor'.drifted = editor.drifted
      BY <1>0, <3>1 DEF EditorOK
    <3> QED
      BY <1>1, <1>2, <3>1, <3>2 DEF EditorKnown
  <2>2. CASE CancelEdit
    <3>1. editor.open /\ editor' = NoEditor(Shown.name)
      BY <2>2 DEF CancelEdit
    <3>2. Shown.name \in GroupNames
      BY <1>2, <1>3, <3>1 DEF Details
    <3>3. EditorOK(editor') /\ ~editor'.open /\ editor'.name = Shown.name
      BY <3>1, <3>2 DEF NoEditor, EditorOK
    <3> QED
      BY <1>1, <1>2, <3>3 DEF EditorKnown
  <2>3. ASSUME NEW n \in GroupNames \cup {""}, TypeName(n)
        PROVE  EditorOK(editor') /\ EditorKnown'
    <3>1. editor.open /\ editor' = [editor EXCEPT !.name = n, !.typed = TRUE]
      BY <2>3 DEF TypeName
    <3>2. EditorOK(editor') /\ editor'.open /\ editor'.typed
      BY <1>0, <3>1 DEF EditorOK
    <3> QED
      BY <1>1, <1>2, <3>1, <3>2 DEF EditorKnown
  <2> QED
    BY <2>1, <2>2, <2>3
<1>5. PagesTypes'
  BY <1>0, <1>1, <1>4 DEF PagesTypes, Pending
<1>6. WhyTyped' /\ GroupKnown' /\ MineKnown'
  <2>1. Pending' = Pending /\ AboutGroup' = AboutGroup /\ Told' = Told
    BY <1>1 DEF Pending, AboutGroup, Told
  <2>2. (GroupFaithful => GroupFaithful') /\ (MineFaithful => MineFaithful')
    BY <1>1, <2>1, GroupKept, MineKept
  <2>3. ~Overlap => ~Overlap'
    BY <1>1, <2>1 DEF Overlap
  <2>4. why' = why
    BY <1>1
  <2>5. WhyTyped'
    BY <2>4 DEF PagesIInv, WhyTyped
  <2> QED
    BY <2>2, <2>3, <2>4, <2>5 DEF PagesIInv, GroupKnown, MineKnown
<1> QED
  BY <1>4, <1>5, <1>6 DEF PagesIInv

\* A request that is sent has done nothing yet.
LEMMA Sent ==
    ASSUME PagesIInv, NEW s \in ReqSlots, NEW kind \in Kinds,
           NEW arg \in Travellers \cup GroupNames \cup {Nobody},
           Send(s, kind, arg), my = "in", UNCHANGED <<my, group, screen, query, editor>>,
           Explain(FALSE), Free(kind) \/ kind = "remove",
           /\ kind = "leave" => arg = Me
           /\ kind \in {"remove", "add"} => arg \in Travellers
           /\ kind \in {"create", "rename"} => arg \in GroupNames
    PROVE  PagesIInv'
<1>0. /\ PagesTypes /\ EditorKnown /\ QueriesOK(query) /\ RequestsOK(requests)
      /\ EditorOK(editor) /\ (~why.group => GroupFaithful) /\ (~why.mine => MineFaithful)
  BY PagesParts
<1> DEFINE new == [kind |-> kind, arg |-> arg, answer |-> Absent, here |-> TRUE]
<1>1. /\ new \in Mutations /\ new.kind = kind /\ new.answer = Absent /\ new.arg = arg
      /\ new # NoRequest /\ MutationOK(new)
  <2>1. new \in Mutations
    BY DEF Mutations
  <2> QED
    BY <2>1 DEF MutationOK
<1>2. requests[s] = NoRequest /\ requests' = [requests EXCEPT ![s] = new]
  BY DEF Send
<1> HIDE DEF new
<1>3. \A t \in ReqSlots : requests'[t] = IF t = s THEN new ELSE requests[t]
  BY <1>0, <1>2 DEF RequestsOK
<1>4. requests' \in [ReqSlots -> Mutations \cup {NoRequest}]
  BY <1>0, <1>1, <1>2 DEF RequestsOK
<1>5. RequestsOK(requests')
  <2>1. \A t \in ReqSlots : requests'[t] # NoRequest => MutationOK(requests'[t])
    BY <1>0, <1>1, <1>3 DEF RequestsOK
  <2>2. kind = "remove" \/ \A t \in ReqSlots :
            requests[t] # NoRequest /\ requests[t].kind = kind => ~requests[t].here
    BY DEF Free, Pending
  <2>3. ASSUME NEW t \in ReqSlots, NEW u \in ReqSlots, requests'[t] # NoRequest,
               requests'[u] # NoRequest, requests'[t].kind = requests'[u].kind,
               requests'[t].here, requests'[u].here, requests'[t].kind # "remove"
        PROVE  t = u
    <3>1. CASE t # s /\ u # s
      BY <1>0, <1>3, <2>3, <3>1 DEF RequestsOK
    <3>2. CASE t = s /\ u # s
      BY <1>1, <1>3, <2>2, <2>3, <3>2
    <3>3. CASE t # s /\ u = s
      BY <1>1, <1>3, <2>2, <2>3, <3>3
    <3> QED
      BY <3>1, <3>2, <3>3
  <2> QED
    BY <1>4, <2>1, <2>3 DEF RequestsOK
<1>6. Pending' = Pending \cup {s} /\ s \notin Pending
  BY <1>1, <1>2, <1>3 DEF Pending
<1>7. \A t \in Pending : t # s /\ requests'[t] = requests[t]
  BY <1>3, <1>6 DEF Pending
<1>8. requests'[s] = new
  BY <1>3
<1>9. Told' = Told
  BY <1>1, <1>6, <1>7, <1>8 DEF Told
<1>10. AboutGroup' = IF kind = "join" THEN AboutGroup ELSE AboutGroup \cup {s}
  BY <1>1, <1>6, <1>7, <1>8 DEF AboutGroup
<1>11. PagesTypes'
  BY <1>0, <1>5 DEF PagesTypes
<1>12. EditorKnown'
  BY <1>0 DEF EditorKnown
<1>13. MineFaithful => MineFaithful'
  BY <1>9, MineKept
<1>14. ASSUME GroupFaithful, ~Overlap'
       PROVE  GroupFaithful'
  <2>1. CASE kind = "join"
    <3>1. AboutGroup' = AboutGroup /\ \A t \in AboutGroup : requests'[t].answer = requests[t].answer
      BY <1>7, <1>10, <2>1 DEF AboutGroup
    <3> QED
      BY <1>14, <3>1, GroupKept
  <2>2. CASE kind # "join"
    <3>1. AboutGroup = {} /\ AboutGroup' = {s}
      BY <1>6, <1>10, <1>14, <2>2 DEF Overlap, AboutGroup
    <3>2. Faithful(query'["group"], Fresh("group")')
      BY <1>14, <3>1 DEF GroupFaithful, Fresh, Serve
    <3> QED
      BY <1>1, <1>8, <3>1, <3>2 DEF GroupFaithful
  <2> QED
    BY <2>1, <2>2
<1> QED
  BY <1>0, <1>11, <1>12, <1>13, <1>14, PagesStep

\* The buttons that start a request.
LEMMA StepClicks ==
    ASSUME PagesIInv, NEW s \in ReqSlots,
           Click(s) \/ ClickRename(s) \/ \E n \in GroupNames : ClickCreate(s, n)
    PROVE  PagesIInv'
<1>0. /\ PagesTypes /\ EditorKnown /\ QueriesOK(query) /\ RequestsOK(requests)
      /\ EditorOK(editor) /\ (~why.group => GroupFaithful) /\ (~why.mine => MineFaithful)
  BY PagesParts
<1>1. ASSUME NEW n \in GroupNames, ClickCreate(s, n)
      PROVE  PagesIInv'
  BY <1>1, Sent DEF ClickCreate, Kinds
<1>2. CASE Click(s)
  <2>1. UNCHANGED <<my, group, screen, query, editor>> /\ Explain(FALSE)
    BY <1>2 DEF Click
  <2>2. CASE ClickRotate(s)
    BY <2>1, <2>2, Sent DEF ClickRotate, IsOwner, ViewOpen, Kinds
  <2>3. CASE ClickDelete(s)
    BY <2>1, <2>3, Sent DEF ClickDelete, IsOwner, ViewOpen, Kinds
  <2>4. CASE ClickLeave(s)
    BY <2>1, <2>4, Sent DEF ClickLeave, ViewOpen, Kinds
  <2>5. CASE ClickJoin(s)
    BY <2>1, <2>5, Sent DEF ClickJoin, Kinds
  <2>6. ASSUME NEW u \in Travellers, ClickRemove(s, u)
        PROVE  PagesIInv'
    BY <2>1, <2>6, Sent DEF ClickRemove, ViewOpen, Kinds
  <2>7. ASSUME NEW u \in Travellers, ClickAdd(s, u)
        PROVE  PagesIInv'
    BY <2>1, <2>7, Sent DEF ClickAdd, IsOwner, ViewOpen, Kinds
  <2> QED
    BY <1>2, <2>2, <2>3, <2>4, <2>5, <2>6, <2>7 DEF Click
<1>3. CASE ClickRename(s)
  <2>1. /\ editor.open /\ Free("rename") /\ UNCHANGED <<my, group, screen, query>> /\ Explain(FALSE)
    BY <1>3 DEF ClickRename
  <2>2. my = "in" /\ screen = "group" /\ Shown # Absent
    BY <1>0, <2>1 DEF EditorKnown, Shown
  <2>3. CASE SubmitSends /\ Send(s, "rename", editor.name) /\ UNCHANGED editor
    <3>1. editor.name \in GroupNames
      BY <1>0, <2>3 DEF SubmitSends, EditorOK
    <3> QED
      BY <2>1, <2>2, <2>3, <3>1, Sent DEF Kinds
  <2>4. CASE ~SubmitSends /\ editor' = [editor EXCEPT !.open = FALSE] /\ UNCHANGED <<requests, spent>>
    <3>1. EditorOK(editor') /\ ~editor'.open /\ editor'.name = editor.name
      BY <1>0, <2>4 DEF EditorOK
    <3>2. editor.name \in {"", Shown.name}
      BY <2>4 DEF SubmitSends
    <3>3. EditorKnown'
      BY <2>1, <3>1, <3>2 DEF EditorKnown, Shown
    <3>4. Pending' = Pending /\ AboutGroup' = AboutGroup /\ Told' = Told
      BY <2>4 DEF Pending, AboutGroup, Told
    <3>5. PagesTypes'
      BY <1>0, <2>1, <2>4, <3>1, <3>4 DEF PagesTypes
    <3>6. (GroupFaithful => GroupFaithful') /\ (MineFaithful => MineFaithful')
      BY <2>1, <2>4, <3>4, GroupKept, MineKept
    <3> QED
      BY <1>0, <2>1, <3>3, <3>5, <3>6, PagesStep
  <2> QED
    BY <1>3, <2>3, <2>4 DEF ClickRename
<1> QED
  BY <1>1, <1>2, <1>3

\* The server does what it may do.
LEMMA ChangedTyped ==
    ASSUME group \in Details \cup {Missing}, group # Missing => group.owner \in group.members,
           NEW r \in Mutations, MutationOK(r), MayDo(r)
    PROVE  /\ Changed(r) \in Details \cup {Missing}
           /\ Changed(r) # Missing => Changed(r).owner \in Changed(r).members
           /\ AnswersDetail(r) => Changed(r) \in Details /\ Me \in Changed(r).members
           /\ r.kind = "join" =>
                 /\ group \in Details
                 /\ Me \in group.members => Changed(r) = group
<1>0. r.kind \in Kinds
  BY DEF Mutations
<1>1. CASE r.kind = "create"
  <2>1. Changed(r) = [name |-> r.arg, code |-> Link, members |-> {Me}, owner |-> Me]
    BY <1>1 DEF Changed
  <2>2. r.arg \in GroupNames /\ Link \in 0..MaxCode
    BY <1>1 DEF MutationOK, Link
  <2>3. Changed(r) \in Details
    BY <2>1, <2>2 DEF Details
  <2> QED
    BY <1>1, <2>1, <2>3
<1>2. CASE r.kind \in {"rename", "rotate", "add"}
  <2>1. group \in Details /\ group.owner = Me /\ Me \in group.members
    BY <1>2 DEF MayDo, Owned
  <2>2. CASE r.kind = "rename"
    <3>1. Changed(r) = [group EXCEPT !.name = r.arg] /\ r.arg \in GroupNames
      BY <2>2 DEF Changed, MutationOK
    <3> QED
      BY <2>1, <2>2, <3>1 DEF Details
  <2>3. CASE r.kind = "rotate"
    <3>1. Changed(r) = [group EXCEPT !.code = @ + 1] /\ group.code < MaxCode
      BY <2>3 DEF Changed, MayDo
    <3> QED
      BY <2>1, <2>3, <3>1 DEF Details
  <2>4. CASE r.kind = "add"
    <3>1. Changed(r) = [group EXCEPT !.members = @ \cup {r.arg}] /\ r.arg \in Travellers
      BY <2>4 DEF Changed, MutationOK
    <3> QED
      BY <2>1, <2>4, <3>1 DEF Details
  <2> QED
    BY <1>2, <2>2, <2>3, <2>4
<1>3. CASE r.kind = "join"
  <2>1. group \in Details /\ Changed(r) = [group EXCEPT !.members = @ \cup {Me}]
    BY <1>3 DEF MayDo, Changed
  <2>2. Changed(r) \in Details /\ Changed(r).owner \in Changed(r).members
    BY <2>1 DEF Details
  <2>3. ASSUME Me \in group.members
        PROVE  Changed(r) = group
    <3>1. group.members \cup {Me} = group.members
      BY <2>3
    <3> QED
      BY <2>1, <3>1 DEF Details
  <2> QED
    BY <1>3, <2>1, <2>2, <2>3 DEF AnswersDetail
<1>4. CASE r.kind \in {"leave", "remove"}
  <2>1. group \in Details /\ r.arg # group.owner
    BY <1>4 DEF MayDo, Owned, MutationOK
  <2>2. Changed(r) = [group EXCEPT !.members = @ \ {r.arg}]
    BY <1>4 DEF Changed
  <2>3. Changed(r) \in Details /\ Changed(r).owner \in Changed(r).members
    BY <2>1, <2>2 DEF Details
  <2> QED
    BY <1>4, <2>3 DEF AnswersDetail
<1>5. CASE r.kind = "delete"
  BY <1>5 DEF Changed, AnswersDetail
<1> QED
  BY <1>0, <1>1, <1>2, <1>3, <1>4, <1>5 DEF Kinds

\* The server handles a request.
LEMMA StepHandle == ASSUME PagesIInv, NEW s \in ReqSlots, Handle(s) PROVE PagesIInv'
<1>0. /\ PagesTypes /\ EditorKnown /\ QueriesOK(query) /\ RequestsOK(requests)
      /\ EditorOK(editor) /\ (~why.group => GroupFaithful) /\ (~why.mine => MineFaithful)
  BY PagesParts
<1> DEFINE r == requests[s]
<1>1. /\ s \in Pending /\ r.answer = Absent /\ UNCHANGED <<my, screen, query, editor>>
      /\ Explain(FALSE)
  BY DEF Handle
<1>2. /\ r \in Mutations /\ MutationOK(r) /\ r # NoRequest
      /\ group \in Details \cup {Missing} /\ (group # Missing => group.owner \in group.members)
  BY <1>0, <1>1, PendingFields DEF PagesTypes
<1>3. PICK a \in Details \cup {Done, Missing} :
         /\ requests' = [requests EXCEPT ![s] = [r EXCEPT !.answer = a]]
         /\ group' \in Details \cup {Missing} /\ (group' # Missing => group'.owner \in group'.members)
         /\ IF AnswersDetail(r) THEN a # Done ELSE a \notin Details
         /\ a \in Details => a = group' /\ Me \in group'.members
         /\ a = Missing => group' = group
         /\ r.kind = "join" /\ group' # group => group \in Details /\ Me \notin group.members
         /\ my # "in" => FALSE
  <2>0. my = "in"
    BY <1>0, <1>1 DEF PagesTypes
  <2>1. CASE MayDo(r)
    <3> DEFINE a == IF AnswersDetail(r) THEN group' ELSE Done
    <3>1. group' = Changed(r) /\ requests' = [requests EXCEPT ![s].answer = a]
      BY <2>1 DEF Handle
    <3>2. requests' = [requests EXCEPT ![s] = [r EXCEPT !.answer = a]]
      BY <3>1
    <3>3. /\ Changed(r) \in Details \cup {Missing}
          /\ Changed(r) # Missing => Changed(r).owner \in Changed(r).members
          /\ AnswersDetail(r) => Changed(r) \in Details /\ Me \in Changed(r).members
          /\ r.kind = "join" => group \in Details /\ (Me \in group.members => Changed(r) = group)
      BY <1>2, <2>1, ChangedTyped
    <3>4. AnswersDetail(r) => a = group'
      OBVIOUS
    <3>5. ~AnswersDetail(r) => a = Done
      OBVIOUS
    <3>6. Done \notin Details /\ Missing \notin Details /\ Done # Missing
      OBVIOUS
    <3> HIDE DEF a, r
    <3> QED
      BY <2>0, <3>1, <3>2, <3>3, <3>4, <3>5, <3>6
  <2>2. CASE ~MayDo(r)
    <3>1. group' = group /\ requests' = [requests EXCEPT ![s].answer = Missing]
      BY <2>2 DEF Handle
    <3>2. requests' = [requests EXCEPT ![s] = [r EXCEPT !.answer = Missing]]
      BY <3>1
    <3>3. Missing \notin Details /\ Done # Missing
      OBVIOUS
    <3> HIDE DEF r
    <3> QED
      BY <1>2, <2>0, <3>1, <3>2, <3>3
  <2> QED
    BY <2>1, <2>2
<1> DEFINE new == [r EXCEPT !.answer = a]
<1>4. /\ new \in Mutations /\ new.kind = r.kind /\ new.answer = a /\ new.here = r.here
      /\ new # NoRequest /\ MutationOK(new)
  <2>1. /\ new \in Mutations /\ new.kind = r.kind /\ new.answer = a /\ new.arg = r.arg
        /\ new.here = r.here
    BY <1>2 DEF Mutations
  <2> HIDE DEF new, r
  <2>2. MutationOK(new)
    BY <1>2, <1>3, <2>1 DEF MutationOK, AnswersDetail
  <2> QED
    BY <2>1, <2>2
<1> HIDE DEF new
<1>5. \A t \in ReqSlots : requests'[t] = IF t = s THEN new ELSE requests[t]
  BY <1>0, <1>3 DEF RequestsOK, new
<1>6. requests' \in [ReqSlots -> Mutations \cup {NoRequest}]
  BY <1>0, <1>3, <1>4 DEF RequestsOK, new
<1>7. RequestsOK(requests')
  <2>1. \A t \in ReqSlots : /\ requests'[t] # NoRequest <=> requests[t] # NoRequest
                            /\ requests[t] # NoRequest => /\ requests'[t].kind = requests[t].kind
                                                          /\ requests'[t].here = requests[t].here
    BY <1>2, <1>4, <1>5
  <2>2. \A t \in ReqSlots : requests'[t] # NoRequest => MutationOK(requests'[t])
    BY <1>0, <1>4, <1>5 DEF RequestsOK
  <2>3. ASSUME NEW t \in ReqSlots, NEW u \in ReqSlots,
               requests'[t] # NoRequest /\ requests'[u] # NoRequest
                 /\ requests'[t].kind = requests'[u].kind
                 /\ requests'[t].here /\ requests'[u].here /\ requests'[t].kind # "remove"
        PROVE  t = u
    BY <1>0, <2>1, <2>3 DEF RequestsOK
  <2> QED
    BY <1>6, <2>2, <2>3 DEF RequestsOK
<1>8. Pending' = Pending
  BY <1>2, <1>4, <1>5 DEF Pending
<1>9. \A t \in Pending : /\ requests'[t].kind = requests[t].kind
                         /\ t # s => requests'[t].answer = requests[t].answer
  BY <1>4, <1>5 DEF Pending
<1>10. AboutGroup' = AboutGroup
  BY <1>8, <1>9 DEF AboutGroup
<1>11. requests'[s].answer = a
  BY <1>1, <1>4, <1>5 DEF Pending
<1>12. PagesTypes'
  BY <1>0, <1>1, <1>3, <1>7 DEF PagesTypes
<1>13. EditorKnown'
  BY <1>0, <1>1 DEF EditorKnown
<1>14. MineFaithful => MineFaithful'
  <2>1. CASE a = Missing
    <3>1. Told' = Told
      BY <1>1, <1>8, <1>9, <1>11, <2>1 DEF Told
    <3> QED
      BY <1>1, <1>3, <2>1, <3>1, MineKept
  <2>2. CASE a # Missing
    <3>1. s \in Told'
      BY <1>1, <1>3, <1>8, <1>11, <2>2 DEF Told
    <3> QED
      BY <3>1 DEF MineFaithful
  <2> QED
    BY <2>1, <2>2
<1>15. ASSUME GroupFaithful, ~Overlap'
       PROVE  GroupFaithful'
  <2>0. query'["group"] = query["group"]
    BY <1>1
  <2>1. CASE s \in AboutGroup
    <3>1. AboutGroup' = {s}
      BY <1>10, <1>15, <2>1 DEF Overlap
    <3>2. Faithful(query["group"], Fresh("group"))
      BY <1>1, <1>15, <2>1 DEF GroupFaithful
    <3>3. a \in {Absent, Missing} => Faithful(query'["group"], Fresh("group")')
      BY <1>3, <2>0, <3>2 DEF Fresh, Serve
    <3> QED
      BY <1>3, <1>11, <3>1, <3>3 DEF GroupFaithful
  <2>2. CASE s \notin AboutGroup
    <3>1. \A t \in AboutGroup : requests'[t].answer = requests[t].answer
      BY <1>9, <2>2 DEF AboutGroup
    <3>2. r.kind = "join"
      BY <1>1, <2>2 DEF AboutGroup
    <3>3. CASE group' = group
      BY <1>10, <1>15, <2>0, <3>1, <3>3, GroupKept
    <3>4. CASE group' # group
      <4>1. Serve("group") = Missing
        BY <1>3, <3>2, <3>4 DEF Serve
      <4>2. \A x \in Fresh("group") : x \in Fresh("group")'
        BY <4>1 DEF Fresh
      <4>3. Faithful(query["group"], Fresh("group")) => Faithful(query'["group"], Fresh("group")')
        BY <2>0, <4>2 DEF Faithful
      <4>4. \A t \in AboutGroup : requests[t].answer \notin Details
        BY <1>3, <1>15, <3>2, <3>4 DEF GroupFaithful
      <4> HIDE DEF Fresh
      <4> QED
        BY <1>10, <1>15, <3>1, <4>3, <4>4 DEF GroupFaithful
    <3> QED
      BY <3>3, <3>4
  <2> QED
    BY <2>1, <2>2
<1> QED
  BY <1>0, <1>1, <1>12, <1>13, <1>14, <1>15, PagesStep

\* A change made elsewhere makes the views wrong, and keeps the group a group.
LEMMA StepElsewhere == ASSUME PagesIInv, Elsewhere PROVE PagesIInv'
<1>0. PagesTypes /\ EditorKnown
  BY PagesParts
<1>1. UNCHANGED <<my, screen, query, editor, requests>> /\ Explain(TRUE) /\ group # Missing
  BY DEF Elsewhere
<1>2. group \in Details /\ group.owner \in group.members
  BY <1>0, <1>1 DEF PagesTypes
<1>3. group' \in Details \cup {Missing} /\ (group' # Missing => group'.owner \in group'.members)
  <2>1. CASE group' = Missing
    BY <2>1
  <2>2. ASSUME NEW n \in GroupNames, group' = [group EXCEPT !.name = n]
        PROVE  group' \in Details /\ group'.owner \in group'.members
    BY <1>2, <2>2 DEF Details
  <2>3. CASE group.code < MaxCode /\ group' = [group EXCEPT !.code = @ + 1]
    <3>1. group' \in Details /\ group'.owner \in group'.members
      BY <1>2, <2>3 DEF Details
    <3> QED
      BY <3>1
  <2>4. ASSUME NEW u \in Travellers \ {group.owner}, group' = [group EXCEPT !.members = @ \ {u}]
        PROVE  group' \in Details /\ group'.owner \in group'.members
    BY <1>2, <2>4 DEF Details
  <2>5. ASSUME NEW u \in Travellers, group' = [group EXCEPT !.members = @ \cup {u}]
        PROVE  group' \in Details /\ group'.owner \in group'.members
    BY <1>2, <2>5 DEF Details
  <2> QED
    BY <2>1, <2>2, <2>3, <2>4, <2>5 DEF Elsewhere
<1>4. PagesTypes'
  BY <1>0, <1>1, <1>3 DEF PagesTypes, Pending
<1>5. EditorKnown'
  BY <1>0, <1>1 DEF EditorKnown
<1> QED
  BY <1>1, <1>4, <1>5, PagesStep

\* What the answers of the mutations do to the queries.
LEMMA AnswersTyped ==
    ASSUME QueriesOK(query), RequestsOK(requests), NEW s, Answered(s)
    PROVE  /\ AnswersDetail(requests[s]) =>
                 /\ requests[s].answer \in Details /\ QueriesOK(UseGroupDetailMutation(s))
                 /\ UseGroupDetailMutation(s)["group"]
                       = SetQueryData(query["group"], requests[s].answer)
                 /\ Faithful(UseGroupDetailMutation(s)["mine"], Fresh("mine"))
           /\ QueriesOK(UseRemoveGroupMember(s))
           /\ Faithful(UseRemoveGroupMember(s)["group"], Fresh("group"))
           /\ Faithful(UseRemoveGroupMember(s)["mine"], Fresh("mine"))
           /\ QueriesOK(UseDeleteGroup(s))
           /\ Faithful(UseDeleteGroup(s)["group"], Fresh("group"))
           /\ Faithful(UseDeleteGroup(s)["mine"], Fresh("mine"))
           /\ QueriesOK(UseJoinGroup(s))
           /\ UseJoinGroup(s)["group"] = query["group"]
           /\ Faithful(UseJoinGroup(s)["mine"], Fresh("mine"))
<1> DEFINE g == query["group"]
           m == query["mine"]
           im == Invalidate(m, OnPage("mine"))
           ig == Invalidate(g, OnPage("group"))
           sg == SetQueryData(g, requests[s].answer)
<1>1. /\ g \in Queries(Held("group")) /\ m \in Queries(Held("mine"))
      /\ g.data # Missing /\ m.data # Missing
      /\ Absent \in Held("group") /\ Absent \in Held("mine")
      /\ OnPage("group") \in BOOLEAN /\ OnPage("mine") \in BOOLEAN
      /\ s \in Pending /\ requests[s].answer \notin {Absent, Missing}
  BY DEF QueriesOK, Held, Views, OnPage, Answered
<1>2. AnswersDetail(requests[s]) => requests[s].answer \in Details
  BY <1>1, PendingFields DEF MutationOK
<1>3. /\ im \in Queries(Held("mine")) /\ ig \in Queries(Held("group"))
      /\ Faithful(im, Fresh("mine")) /\ Faithful(ig, Fresh("group"))
  <2>1. Absent \in Fresh("mine") /\ Absent \in Fresh("group")
    BY DEF Fresh
  <2> QED
    BY <1>1, <2>1, QueriesClosed, FaithfulKept
<1>4. im.data = m.data /\ ig.data = g.data
  BY <1>1 DEF Invalidate, Begin, Queries
<1>5. requests[s].answer \in Details => sg \in Queries(Held("group")) /\ sg.data = requests[s].answer
  <2>1. requests[s].answer \in Details => requests[s].answer \in Held("group")
    BY DEF Held, Served
  <2>2. requests[s].answer \in Details => sg \in Queries(Held("group"))
    BY <1>1, <2>1, QueriesClosed
  <2>3. requests[s].answer \in Details => sg.data = requests[s].answer
    BY <1>1 DEF SetQueryData, Queries
  <2> QED
    BY <2>2, <2>3
<1>6. NewQuery \in Queries(Held("group")) /\ NewQuery.data = Absent /\ Faithful(NewQuery, Fresh("group"))
  <2>1. Absent \in Fresh("group")
    BY DEF Fresh
  <2> QED
    BY <1>1, <2>1, NewQueries, FaithfulKept DEF NewQuery
<1>7. UseGroupDetailMutation(s) = [v \in Views |-> IF v = "group" THEN sg
                                                  ELSE IF v = "mine" THEN im ELSE query[v]]
  BY DEF UseGroupDetailMutation, QueriesOK
<1>8. UseRemoveGroupMember(s) = [v \in Views |-> IF v = "group" THEN ig
                                                ELSE IF v = "mine" THEN im ELSE query[v]]
  BY DEF UseRemoveGroupMember, QueriesOK
<1>9. UseDeleteGroup(s) = [v \in Views |-> IF v = "group" THEN NewQuery
                                          ELSE IF v = "mine" THEN im ELSE query[v]]
  BY DEF UseDeleteGroup, QueriesOK
<1>10. UseJoinGroup(s) = [v \in Views |-> IF v = "mine" THEN im ELSE query[v]]
  BY DEF UseJoinGroup, QueriesOK
<1>11. \A v \in Views : query[v] \in Queries(Held(v)) /\ query[v].data # Missing
  BY DEF QueriesOK
<1> HIDE DEF g, m, im, ig, sg
<1>12. AnswersDetail(requests[s]) =>
          /\ QueriesOK(UseGroupDetailMutation(s)) /\ UseGroupDetailMutation(s)["group"] = sg
          /\ UseGroupDetailMutation(s)["mine"] = im
  BY <1>1, <1>2, <1>3, <1>4, <1>5, <1>7, <1>11 DEF QueriesOK, Views
<1>13. /\ QueriesOK(UseRemoveGroupMember(s)) /\ UseRemoveGroupMember(s)["group"] = ig
       /\ UseRemoveGroupMember(s)["mine"] = im
  BY <1>1, <1>3, <1>4, <1>8, <1>11 DEF QueriesOK, Views
<1>14. /\ QueriesOK(UseDeleteGroup(s)) /\ UseDeleteGroup(s)["group"] = NewQuery
       /\ UseDeleteGroup(s)["mine"] = im
  BY <1>1, <1>3, <1>4, <1>6, <1>9, <1>11 DEF QueriesOK, Views
<1>15. /\ QueriesOK(UseJoinGroup(s)) /\ UseJoinGroup(s)["group"] = query["group"]
       /\ UseJoinGroup(s)["mine"] = im
  BY <1>1, <1>3, <1>4, <1>10, <1>11 DEF QueriesOK, Views
<1> QED
  BY <1>2, <1>3, <1>6, <1>12, <1>13, <1>14, <1>15 DEF sg, g

\* What is known once request s is settled, with the queries r.
LEMMA SettledKnown ==
    ASSUME PagesIInv, NEW s, Answered(s), NEW r, group' = group,
           \A v \in Views : Faithful(r[v], Fresh(v)) => Faithful(query'[v], Fresh(v)),
           \A t \in ReqSlots :
              /\ requests'[t] = NoRequest <=> Rest(s)[t] = NoRequest
              /\ Rest(s)[t] # NoRequest =>
                   requests'[t].kind = Rest(s)[t].kind /\ requests'[t].answer = Rest(s)[t].answer,
           Faithful(r["mine"], Fresh("mine")),
           ~Overlap /\ GroupFaithful /\ requests[s].kind # "join"
              => Faithful(r["group"], Fresh("group")),
           requests[s].kind = "join" => r["group"] = query["group"]
    PROVE  /\ GroupKnown /\ ~why.group => GroupFaithful'
           /\ MineFaithful'
<1>0. RequestsOK(requests)
  BY PagesParts
<1>1. s \in Pending
  BY DEF Answered
<1>2. /\ Pending' = Pending \ {s} /\ AboutGroup' = AboutGroup \ {s} /\ Told' = Told \ {s}
      /\ \A t \in AboutGroup \ {s} : requests'[t].answer = requests[t].answer
  BY <1>0, <1>1, Settled
<1>3. Fresh("mine")' = Fresh("mine") /\ Fresh("group")' = Fresh("group")
  BY DEF Fresh, Serve
<1>4. MineFaithful'
  BY <1>3 DEF MineFaithful, Views
<1>5. ASSUME ~Overlap, GroupFaithful
      PROVE  GroupFaithful'
  <2>1. CASE requests[s].kind = "join"
    <3>1. s \notin AboutGroup
      BY <2>1 DEF AboutGroup
    <3>2. AboutGroup' = AboutGroup /\ \A t \in AboutGroup : requests'[t].answer = requests[t].answer
      BY <1>2, <3>1
    <3>3. Faithful(query["group"], Fresh("group")) => Faithful(query'["group"], Fresh("group"))
      BY <2>1 DEF Views
    <3> QED
      BY <1>5, <3>2, <3>3, GroupKept
  <2>2. CASE requests[s].kind # "join"
    <3>1. s \in AboutGroup
      BY <1>1, <2>2 DEF AboutGroup
    <3>2. AboutGroup' = {}
      BY <1>2, <1>5, <3>1 DEF Overlap
    <3>3. Faithful(query'["group"], Fresh("group")')
      BY <1>3, <1>5, <2>2 DEF Views
    <3> QED
      BY <3>2, <3>3 DEF GroupFaithful
  <2> QED
    BY <2>1, <2>2
<1> QED
  BY <1>4, <1>5 DEF GroupKnown

\* What the successes have in common: the answer is filled in, and the page
\* stays or another opens.
LEMMA Succeeded ==
    ASSUME PagesIInv, NEW s, Answered(s), NEW r, QueriesOK(r),
           UNCHANGED <<my, group>>, Explain(FALSE),
           NEW p \in {"groups", "group", "join"},
           Open(p, r, Rest(s)) \/ (Stay(r) /\ requests' = Rest(s)),
           Faithful(r["mine"], Fresh("mine")),
           ~Overlap /\ GroupFaithful /\ requests[s].kind # "join"
              => Faithful(r["group"], Fresh("group")),
           requests[s].kind = "join" => r["group"] = query["group"]
    PROVE  PagesIInv'
<1>0. /\ PagesTypes /\ EditorKnown /\ QueriesOK(query) /\ RequestsOK(requests)
      /\ EditorOK(editor)
  BY PagesParts
<1>1. s \in Pending /\ my = "in"
  BY <1>0 DEF Answered, PagesTypes
<1>2. RequestsOK(Rest(s))
  BY <1>0, <1>1, RestTyped
<1>3. /\ screen' \in {"groups", "group", "join"} /\ QueriesOK(query') /\ RequestsOK(requests')
      /\ EditorOK(editor') /\ EditorKnown'
      /\ \A v \in Views : \A A : Absent \in A /\ Faithful(r[v], A) => Faithful(query'[v], A)
      /\ \A t \in ReqSlots :
            /\ requests'[t] = NoRequest <=> Rest(s)[t] = NoRequest
            /\ Rest(s)[t] # NoRequest =>
                 requests'[t].kind = Rest(s)[t].kind /\ requests'[t].answer = Rest(s)[t].answer
  <2>1. CASE Open(p, r, Rest(s))
    BY <1>0, <1>1, <1>2, <2>1, PageOpens
  <2>2. CASE Stay(r) /\ requests' = Rest(s)
    BY <1>0, <1>1, <1>2, <2>2, PageStays DEF PagesTypes
  <2> QED
    BY <2>1, <2>2
<1>4. \A v \in Views : Faithful(r[v], Fresh(v)) => Faithful(query'[v], Fresh(v))
  BY <1>3 DEF Fresh
<1>5. (GroupKnown /\ ~why.group => GroupFaithful') /\ MineFaithful'
  BY <1>3, <1>4, SettledKnown
<1>6. PagesTypes'
  BY <1>0, <1>1, <1>3 DEF PagesTypes
<1> QED
  BY <1>3, <1>5, <1>6, PagesStep

\* The answer is the group as it is.
LEMMA DetailIsGroup ==
    ASSUME PagesIInv, NEW s, Answered(s), AnswersDetail(requests[s]),
           ~Overlap, GroupFaithful
    PROVE  Faithful(UseGroupDetailMutation(s)["group"], Fresh("group"))
<1>0. QueriesOK(query) /\ RequestsOK(requests)
  BY PagesParts
<1>1. /\ requests[s].answer \in Details
      /\ UseGroupDetailMutation(s)["group"] = SetQueryData(query["group"], requests[s].answer)
  BY <1>0, AnswersTyped
<1>2. s \in AboutGroup
  BY DEF Answered, AnswersDetail, AboutGroup
<1>3. requests[s].answer = group /\ Me \in group.members /\ ~query["group"].fetch.on
  BY <1>1, <1>2 DEF GroupFaithful, Overlap
<1>4. Serve("group") = requests[s].answer
  BY <1>1, <1>3 DEF Serve
<1>5. query["group"] \in Queries(Held("group"))
  BY <1>0 DEF QueriesOK, Views
<1> QED
  BY <1>1, <1>3, <1>4, <1>5 DEF SetQueryData, Faithful, Fresh, Queries

\* One case for every kind of success.
LEMMA StepSucceeds ==
    ASSUME PagesIInv, NEW s \in ReqSlots,
           CreateSucceeds(s) \/ RotateOrAddSucceeds(s) \/ RemoveSucceeds(s)
             \/ LeaveSucceeds(s) \/ DeleteSucceeds(s) \/ JoinSucceeds(s)
    PROVE  PagesIInv'
<1>0. QueriesOK(query) /\ RequestsOK(requests)
  BY PagesParts
<1>1. Answered(s) /\ UNCHANGED <<my, group>> /\ Explain(FALSE)
  BY DEF CreateSucceeds, RotateOrAddSucceeds, RemoveSucceeds, LeaveSucceeds, DeleteSucceeds,
         JoinSucceeds
<1>2. CASE CreateSucceeds(s) \/ RotateOrAddSucceeds(s)
  <2>1. /\ AnswersDetail(requests[s]) /\ requests[s].kind # "join"
        /\ \/ Open("group", UseGroupDetailMutation(s), Rest(s))
           \/ Stay(UseGroupDetailMutation(s)) /\ requests' = Rest(s)
    BY <1>2 DEF CreateSucceeds, RotateOrAddSucceeds, AnswersDetail
  <2>2. /\ QueriesOK(UseGroupDetailMutation(s))
        /\ Faithful(UseGroupDetailMutation(s)["mine"], Fresh("mine"))
    BY <1>0, <1>1, <2>1, AnswersTyped
  <2>3. ~Overlap /\ GroupFaithful => Faithful(UseGroupDetailMutation(s)["group"], Fresh("group"))
    BY <1>1, <2>1, DetailIsGroup
  <2> QED
    BY <1>1, <2>1, <2>2, <2>3, Succeeded
<1>3. CASE RemoveSucceeds(s) \/ LeaveSucceeds(s)
  <2>1. /\ requests[s].kind # "join"
        /\ \/ Open("groups", UseRemoveGroupMember(s), Rest(s))
           \/ Stay(UseRemoveGroupMember(s)) /\ requests' = Rest(s)
    BY <1>3 DEF RemoveSucceeds, LeaveSucceeds
  <2> QED
    BY <1>0, <1>1, <2>1, AnswersTyped, Succeeded
<1>4. CASE DeleteSucceeds(s)
  <2>1. /\ requests[s].kind # "join"
        /\ \/ Open("groups", UseDeleteGroup(s), Rest(s))
           \/ Stay(UseDeleteGroup(s)) /\ requests' = Rest(s)
    BY <1>4 DEF DeleteSucceeds
  <2> QED
    BY <1>0, <1>1, <2>1, AnswersTyped, Succeeded
<1>5. CASE JoinSucceeds(s)
  <2>1. /\ requests[s].kind = "join"
        /\ \/ Open("group", UseJoinGroup(s), Rest(s))
           \/ Stay(UseJoinGroup(s)) /\ requests' = Rest(s)
    BY <1>5 DEF JoinSucceeds
  <2> QED
    BY <1>0, <1>1, <2>1, AnswersTyped, Succeeded
<1> QED
  BY <1>2, <1>3, <1>4, <1>5

\* GroupTitle closes its form, and has the new name.
LEMMA StepRenameSucceeds == ASSUME PagesIInv, NEW s \in ReqSlots, RenameSucceeds(s) PROVE PagesIInv'
<1>0. /\ PagesTypes /\ EditorKnown /\ QueriesOK(query) /\ RequestsOK(requests)
      /\ EditorOK(editor)
  BY PagesParts
<1> DEFINE new == requests[s].answer
           old == query["group"].data
           r == UseGroupDetailMutation(s)
<1>1. /\ Answered(s) /\ requests[s].kind = "rename" /\ AnswersDetail(requests[s])
      /\ UNCHANGED <<my, group, screen>> /\ Explain(FALSE) /\ query' = r /\ requests' = Rest(s)
      /\ s \in Pending
  BY DEF RenameSucceeds, AnswersDetail, Answered
<1>2. my = "in"
  BY <1>0, <1>1 DEF PagesTypes
<1>3. /\ new \in Details /\ QueriesOK(r) /\ Faithful(r["mine"], Fresh("mine"))
      /\ r["group"] = SetQueryData(query["group"], new)
  BY <1>0, <1>1, AnswersTyped
<1>4. ~Overlap /\ GroupFaithful => Faithful(r["group"], Fresh("group"))
  BY <1>1, DetailIsGroup
<1>5. (GroupKnown /\ ~why.group => GroupFaithful') /\ MineFaithful'
  BY <1>1, <1>3, <1>4, SettledKnown
<1>6. RequestsOK(requests')
  BY <1>0, <1>1, RestTyped
<1>7. old \in Details \cup {Absent} /\ query'["group"].data = new
  <2>1. query["group"] \in Queries(Held("group")) /\ new # Absent
    BY <1>0, <1>3 DEF QueriesOK, Views
  <2>2. r["group"].data = new
    BY <1>3, <2>1 DEF SetQueryData, Queries
  <2> QED
    BY <1>0, <1>1, <2>2, GroupHeld
<1>8. editor' = IF screen # "group" THEN editor
                ELSE IF old = Absent THEN NoEditor(new.name)
                ELSE IF requests[s].here
                THEN [editor EXCEPT !.open = FALSE, !.drifted = @ \/ new.name # editor.name]
                ELSE [editor EXCEPT !.drifted = @ \/ new.name # old.name]
  BY DEF RenameSucceeds, Shown
<1>9. new.name \in GroupNames
  BY <1>3 DEF Details
<1>10. /\ editor.open => screen = "group" /\ my = "in" /\ old # Absent
       /\ (screen = "group" /\ old # Absent /\ ~editor.drifted /\ (~editor.typed \/ ~editor.open))
              => editor.name \in {"", old.name}
  BY <1>0 DEF EditorKnown
<1> HIDE DEF new, old, r
<1>11. EditorOK(editor') /\ EditorKnown'
  <2>1. CASE screen # "group"
    BY <1>0, <1>1, <1>8, <1>10, <2>1 DEF EditorKnown
  <2>2. CASE screen = "group" /\ old = Absent
    <3>1. EditorOK(editor') /\ ~editor'.open /\ editor'.name = new.name
      BY <1>8, <1>9, <2>2 DEF NoEditor, EditorOK
    <3> QED
      BY <1>7, <3>1 DEF EditorKnown
  <2>3. CASE screen = "group" /\ old # Absent /\ requests[s].here
    <3> DEFINE b == editor.drifted \/ new.name # editor.name
    <3>1. b \in BOOLEAN /\ editor' = [editor EXCEPT !.open = FALSE, !.drifted = b]
      BY <1>0, <1>8, <2>3 DEF EditorOK
    <3>2. ~b => new.name = editor.name
      OBVIOUS
    <3> HIDE DEF b
    <3>3. EditorOK(editor') /\ ~editor'.open /\ editor'.name = editor.name /\ editor'.drifted = b
      BY <1>0, <3>1 DEF EditorOK
    <3> QED
      BY <1>7, <3>2, <3>3 DEF EditorKnown
  <2>4. CASE screen = "group" /\ old # Absent /\ ~requests[s].here
    <3> DEFINE b == editor.drifted \/ new.name # old.name
    <3>1. b \in BOOLEAN /\ editor' = [editor EXCEPT !.drifted = b]
      BY <1>0, <1>8, <2>4 DEF EditorOK
    <3>2. ~b => new.name = old.name /\ ~editor.drifted
      OBVIOUS
    <3> HIDE DEF b
    <3>3. /\ EditorOK(editor') /\ editor'.open = editor.open /\ editor'.name = editor.name
          /\ editor'.typed = editor.typed /\ editor'.drifted = b
      BY <1>0, <3>1 DEF EditorOK
    <3>4. screen' = "group" /\ my' = "in" /\ query'["group"].data # Absent
      BY <1>1, <1>2, <1>3, <1>7, <2>4
    <3> QED
      BY <1>7, <1>10, <2>4, <3>2, <3>3, <3>4 DEF EditorKnown
  <2> QED
    BY <2>1, <2>2, <2>3, <2>4
<1>12. PagesTypes'
  BY <1>0, <1>1, <1>2, <1>3, <1>6, <1>11 DEF PagesTypes
<1> QED
  BY <1>1, <1>5, <1>11, <1>12, PagesStep

\* A request that fails after it was handled leaves the views behind.
LEMMA StepRequestFails == ASSUME PagesIInv, NEW s \in ReqSlots, RequestFails(s) PROVE PagesIInv'
<1>0. /\ PagesTypes /\ EditorKnown /\ QueriesOK(query) /\ RequestsOK(requests)
      /\ EditorOK(editor) /\ (~why.mine => MineFaithful)
  BY PagesParts
<1> DEFINE astray == requests[s].answer \notin {Absent, Missing}
<1>1. /\ s \in Pending /\ requests' = Rest(s) /\ UNCHANGED <<my, group, screen, query, editor>>
      /\ Explain(astray) /\ astray \in BOOLEAN
  BY DEF RequestFails
<1>2. /\ Pending' = Pending \ {s} /\ AboutGroup' = AboutGroup \ {s} /\ Told' = Told \ {s}
      /\ \A t \in AboutGroup \ {s} : requests'[t].answer = requests[t].answer
  BY <1>0, <1>1, Settled
<1>3. PagesTypes'
  <2>1. RequestsOK(requests') /\ my = "in"
    BY <1>0, <1>1, RestTyped DEF PagesTypes
  <2> QED
    BY <1>0, <1>1, <2>1 DEF PagesTypes
<1>4. EditorKnown'
  BY <1>0, <1>1 DEF EditorKnown
<1>5. ASSUME MineFaithful, ~astray
      PROVE  MineFaithful'
  <2>1. Told' = Told
    BY <1>2, <1>5 DEF Told
  <2> QED
    BY <1>1, <1>5, <2>1, MineKept
<1>6. ASSUME GroupFaithful, ~Overlap, ~astray
      PROVE  GroupFaithful'
  <2>1. CASE s \in AboutGroup
    <3>1. AboutGroup' = {}
      BY <1>2, <1>6, <2>1 DEF Overlap
    <3>2. Faithful(query["group"], Fresh("group"))
      BY <1>6, <2>1 DEF GroupFaithful
    <3>3. Faithful(query'["group"], Fresh("group")')
      BY <1>1, <3>2 DEF Fresh, Serve
    <3> QED
      BY <3>1, <3>3 DEF GroupFaithful
  <2>2. CASE s \notin AboutGroup
    <3>1. AboutGroup' = AboutGroup /\ \A t \in AboutGroup : requests'[t].answer = requests[t].answer
      BY <1>2, <2>2
    <3> QED
      BY <1>1, <1>6, <3>1, GroupKept
  <2> QED
    BY <2>1, <2>2
<1> HIDE DEF astray
<1> QED
  BY <1>0, <1>1, <1>3, <1>4, <1>5, <1>6, PagesStep DEF GroupKnown

\* The fetches of the queries.
LEMMA StepFetches ==
    ASSUME PagesIInv, NEW v \in Views, ServerAnswers(v) \/ QueryLands(v) \/ QueryFails(v)
    PROVE  PagesIInv'
<1>0. /\ PagesTypes /\ EditorKnown /\ QueriesOK(query) /\ RequestsOK(requests)
      /\ EditorOK(editor) /\ (~why.group => GroupFaithful) /\ (~why.mine => MineFaithful)
  BY PagesParts
<1> DEFINE x == query[v]
<1>1. x \in Queries(Held(v)) /\ x.data # Missing /\ Serve(v) \in Held(v) /\ Absent \in Held(v)
  BY <1>0, ServeTyped DEF QueriesOK, PagesTypes
<1>2. x.fetch.on /\ my = "in" /\ my' = my
  <2>1. x.fetch.on /\ my' = my
    BY DEF ServerAnswers, QueryLands, QueryFails, CanLand
  <2>2. ~NewQuery.fetch.on
    BY DEF NewQuery, NoFetch
  <2> QED
    BY <1>0, <2>1, <2>2 DEF PagesTypes
<1>3. UNCHANGED <<group, requests>> /\ Explain(FALSE)
  BY DEF ServerAnswers, QueryLands, QueryFails
<1>4. PICK y \in Queries(Held(v)) :
         /\ y.data # Missing
         /\ Faithful(x, Fresh(v)) => Faithful(y, Fresh(v))
         /\ \/ Stay([query EXCEPT ![v] = y])
            \/ query' = [query EXCEPT ![v] = y] /\ UNCHANGED <<screen, editor>> /\ y.data = x.data
  <2>0. Absent \in Fresh(v) /\ Serve(v) \in Fresh(v)
    BY DEF Fresh
  <2>1. CASE ServerAnswers(v)
    <3> DEFINE y == ServerReads(x, Serve(v))
    <3>1. y \in Queries(Held(v))
      BY <1>1, QueriesClosed
    <3>2. Faithful(x, Fresh(v)) => Faithful(y, Fresh(v))
      BY <1>1, <2>0, FaithfulKept
    <3>3. y.data = x.data
      BY <1>1 DEF ServerReads, Queries
    <3>4. query' = [query EXCEPT ![v] = y] /\ UNCHANGED <<screen, editor>>
      BY <2>1 DEF ServerAnswers
    <3> HIDE DEF x, y
    <3> QED
      BY <1>1, <3>1, <3>2, <3>3, <3>4
  <2>2. CASE QueryLands(v)
    <3> DEFINE y == Landed(x)
    <3>1. y \in Queries(Held(v))
      BY <1>1, QueriesClosed
    <3>2. Faithful(x, Fresh(v)) => Faithful(y, Fresh(v))
      BY <1>1, <2>0, <2>2, FaithfulKept DEF QueryLands
    <3>3. y.data # Missing
      BY <2>2 DEF QueryLands, Landed
    <3>4. Stay([query EXCEPT ![v] = y])
      BY <2>2 DEF QueryLands
    <3> HIDE DEF x, y
    <3> QED
      BY <3>1, <3>2, <3>3, <3>4
  <2>3. CASE QueryFails(v)
    <3> DEFINE y == FetchFailed(x)
    <3>1. y \in Queries(Held(v))
      BY <1>1, QueriesClosed
    <3>2. Faithful(y, Fresh(v))
      BY <1>1, <2>0, FaithfulKept
    <3>3. y.data = x.data
      BY <1>1 DEF FetchFailed, Queries
    <3>4. query' = [query EXCEPT ![v] = y] /\ UNCHANGED <<screen, editor>>
      BY <2>3 DEF QueryFails
    <3> HIDE DEF x, y
    <3> QED
      BY <1>1, <3>1, <3>2, <3>3, <3>4
  <2> QED
    BY <2>1, <2>2, <2>3
<1> DEFINE r == [query EXCEPT ![v] = y]
<1>5. /\ QueriesOK(r) /\ r[v] = y /\ \A w \in Views \ {v} : r[w] = query[w]
  <2>1. r = [w \in Views |-> IF w = v THEN y ELSE query[w]]
    BY <1>0 DEF QueriesOK
  <2> HIDE DEF r
  <2> QED
    BY <1>0, <1>4, <2>1 DEF QueriesOK
<1>6. query' = r /\ screen' = screen /\ EditorOK(editor') /\ EditorKnown'
  <2>1. CASE Stay(r)
    <3> HIDE DEF r
    <3> QED
      BY <1>0, <1>2, <1>5, <2>1, PageStays
  <2>2. CASE query' = r /\ UNCHANGED <<screen, editor>> /\ y.data = x.data
    <3>1. r["group"].data = query["group"].data
      BY <1>5, <2>2 DEF Views
    <3> HIDE DEF r
    <3> QED
      BY <1>0, <1>2, <2>2, <3>1 DEF EditorKnown
  <2> QED
    BY <1>4, <2>1, <2>2
<1> HIDE DEF r
<1>7. \A w \in Views : Faithful(query[w], Fresh(w)) => Faithful(query'[w], Fresh(w))
  BY <1>4, <1>5, <1>6
<1>8. Pending' = Pending /\ AboutGroup' = AboutGroup /\ Told' = Told
  BY <1>3 DEF Pending, AboutGroup, Told
<1>9. PagesTypes'
  BY <1>0, <1>2, <1>3, <1>5, <1>6 DEF PagesTypes
<1>10. GroupFaithful => GroupFaithful'
  BY <1>3, <1>7, <1>8, GroupKept DEF Views
<1>11. MineFaithful => MineFaithful'
  BY <1>3, <1>7, <1>8, MineKept DEF Views
<1> QED
  BY <1>0, <1>3, <1>6, <1>9, <1>10, <1>11, PagesStep

\* At first nothing is under way.
LEMMA PagesIInit == PagesInit => PagesIInv
<1> SUFFICES ASSUME PagesInit
             PROVE  PagesIInv
  OBVIOUS
<1>1. Pending = {} /\ AboutGroup = {} /\ \A s \in ReqSlots : requests[s] = NoRequest
  BY DEF PagesInit, Pending, AboutGroup
<1>2. \A v \in Views : query[v] = NewQuery
  BY DEF PagesInit
<1>3. QueriesOK(query)
  <2>1. \A v \in Views : NewQuery \in Queries(Held(v)) /\ NewQuery.data # Missing
    BY NewQueries DEF Held, NewQuery
  <2> QED
    BY <1>2, <2>1 DEF PagesInit, QueriesOK
<1>4. RequestsOK(requests)
  BY <1>1 DEF PagesInit, RequestsOK
<1>5. EditorOK(editor) /\ ~editor.open
  BY DEF PagesInit, NoEditor, EditorOK
<1>6. group \in Details \cup {Missing} /\ (group # Missing => group.owner \in group.members)
  BY DEF PagesInit
<1>7. PagesTypes
  <2>1. my = "loading" /\ screen \in {"groups", "group", "join"}
    BY DEF PagesInit
  <2> QED
    BY <1>1, <1>2, <1>3, <1>4, <1>5, <1>6, <2>1 DEF PagesTypes
<1>8. EditorKnown
  <2>1. query["group"].data = Absent
    BY <1>2 DEF NewQuery, Views
  <2> QED
    BY <1>5, <2>1 DEF EditorKnown
<1>9. \A v \in Views : Faithful(query[v], Fresh(v)) /\ ~query[v].fetch.on
  BY <1>2 DEF Faithful, Fresh, NewQuery, NoFetch
<1>10. GroupKnown /\ MineKnown
  BY <1>1, <1>9 DEF GroupKnown, GroupFaithful, Overlap, MineKnown, MineFaithful, Views
<1>11. WhyTyped
  BY DEF PagesInit, WhyTyped
<1> QED
  BY <1>7, <1>8, <1>10, <1>11 DEF PagesIInv

\* One case for every action of the groups.
LEMMA PagesINext ==
    ASSUME PagesIInv, [PagesNext]_pageVars
    PROVE  PagesIInv'
<1>1. CASE UNCHANGED pageVars
  <2>1. UNCHANGED <<my, group, screen, query, editor, requests, why>>
    BY <1>1 DEF pageVars
  <2>2. Pending' = Pending /\ AboutGroup' = AboutGroup /\ Told' = Told /\ (~Overlap => ~Overlap')
    BY <2>1 DEF Pending, AboutGroup, Told, Overlap
  <2>3. (GroupFaithful => GroupFaithful') /\ (MineFaithful => MineFaithful')
    BY <2>1, <2>2, GroupKept, MineKept
  <2>4. GroupKnown' /\ MineKnown'
    BY <2>1, <2>2, <2>3 DEF PagesIInv, GroupKnown, MineKnown
  <2>5. PagesTypes' /\ WhyTyped' /\ EditorKnown'
    BY <2>1, <2>2 DEF PagesIInv, PagesTypes, WhyTyped, EditorKnown
  <2> QED
    BY <2>4, <2>5 DEF PagesIInv
<1>2. CASE PagesNext
  BY <1>2, StepGate, StepEditor, StepElsewhere, StepFollowLink, StepClicks, StepHandle,
     StepRequestFails, StepSucceeds, StepRenameSucceeds, StepFetches DEF PagesNext
<1> QED
  BY <1>1, <1>2

\* The inductive invariant of the groups has their promises in it.
LEMMA PagesIImplies == PagesIInv => GroupPagesInv
<1> SUFFICES ASSUME PagesIInv
             PROVE  GroupPagesInv
  OBVIOUS
<1>0. /\ PagesTypes /\ EditorKnown /\ QueriesOK(query) /\ RequestsOK(requests)
      /\ EditorOK(editor) /\ GroupKnown /\ MineKnown
  BY PagesParts
<1>1. query["group"].data \in Details \cup {Absent}
  BY <1>0, GroupHeld
<1>2. query["mine"].data \in {{}} \cup {{r} : r \in Row} \cup {Absent} /\ query["mine"].data # Missing
  <2>1. query["mine"].data \in Held("mine") /\ query["mine"].data # Missing
    BY <1>0 DEF QueriesOK, Queries, Views
  <2> QED
    BY <2>1 DEF Held, Served
<1>3. query["mine"].data = Absent \/ Cardinality(query["mine"].data) <= 1
  <2>1. CASE query["mine"].data = {}
    BY <2>1, FS_EmptySet
  <2>2. ASSUME NEW r \in Row, query["mine"].data = {r}
        PROVE  Cardinality(query["mine"].data) <= 1
    <3>1. Cardinality({r}) = 1
      BY FS_Singleton
    <3> QED
      BY <2>2, <3>1
  <2> QED
    BY <1>2, <2>1, <2>2
<1>4. GroupPagesTypeOK
  <2>1. \A s, t \in Pending : (requests[s].kind = requests[t].kind
                                 /\ requests[s].here /\ requests[t].here
                                 /\ requests[s].kind # "remove") => s = t
    BY <1>0 DEF RequestsOK, Pending
  <2>2. requests \in [ReqSlots -> Mutations \cup {NoRequest}]
    BY <1>0 DEF RequestsOK
  <2>3. editor.open => screen = "group"
    BY <1>0 DEF EditorKnown
  <2> QED
    BY <1>0, <1>1, <1>3, <2>1, <2>2, <2>3 DEF PagesIInv, PagesTypes, WhyTyped, EditorOK,
                                              GroupPagesTypeOK
<1>5. GroupExplained
  <2> SUFFICES ASSUME InFlightNow = 0, ~query["group"].outdated, ~query["group"].lapsed, ~why.group
               PROVE  Right("group")
    BY DEF GroupExplained
  <2>1. AboutGroup \subseteq ReqSlots /\ query["group"].fetch.on \in BOOLEAN
    BY <1>0 DEF AboutGroup, Pending, QueriesOK, Queries, Fetches, Views
  <2>2. IsFiniteSet(AboutGroup)
    BY <2>1, FS_Subset
  <2>3. InFlightNow = Cardinality(AboutGroup) + IF query["group"].fetch.on THEN 1 ELSE 0
    BY DEF InFlightNow
  <2>4. AboutGroup = {} /\ ~query["group"].fetch.on
    BY <2>1, <2>2, <2>3, Counting
  <2>5. query["group"].data \in Fresh("group")
    BY <1>0, <2>4 DEF GroupKnown, GroupFaithful, Faithful
  <2>6. query["group"].data # Missing
    BY <1>1
  <2> QED
    BY <2>5, <2>6 DEF Right, Fresh
<1>6. ListExplained
  <2> SUFFICES ASSUME Pending = {}, ~query["mine"].fetch.on, ~query["mine"].outdated,
                      ~query["mine"].lapsed, ~why.mine
               PROVE  Right("mine")
    BY DEF ListExplained
  <2>1. Told = {}
    BY DEF Told
  <2>2. query["mine"].data \in Fresh("mine")
    BY <1>0, <2>1 DEF MineKnown, MineFaithful, Faithful
  <2> QED
    BY <1>2, <2>2 DEF Right, Fresh
<1> QED
  BY <1>4, <1>5, <1>6 DEF GroupPagesInv

\* Once nothing is under way the page of a group and the list show what the
\* server has, unless requests overlapped, an answer was lost or somebody else
\* made the change, for any travellers, names and number of requests.
THEOREM GroupPagesSound == PagesSpec => []GroupPagesInv
<1>1. PagesSpec => []PagesIInv
  BY PagesIInit, PagesINext, PTL DEF PagesSpec
<1> QED
  BY <1>1, PagesIImplies, PTL

\* Only the form sends a rename.
LEMMA OnlySent ==
    ASSUME PagesIInv, PagesNext, NEW s \in ReqSlots, requests'[s] # NoRequest,
           requests'[s].kind = "rename", requests[s] = NoRequest \/ requests[s].kind # "rename"
    PROVE  \E t \in ReqSlots : ClickRename(t) /\ SubmitSends
<1>0. \A t \in ReqSlots : requests[t] \in Mutations \cup {NoRequest}
  BY DEF PagesIInv, PagesTypes, RequestsOK
<1>1. ASSUME NEW p, NEW r, NEW w, Open(p, r, w), w[s] \in {requests[s], NoRequest}
      PROVE  FALSE
  <2>1. requests'[s] = IF w[s] = NoRequest THEN NoRequest ELSE [w[s] EXCEPT !.here = FALSE]
    BY <1>1 DEF Open
  <2>2. w[s] \in Mutations => [w[s] EXCEPT !.here = FALSE].kind = w[s].kind
    BY DEF Mutations
  <2> QED
    BY <1>0, <1>1, <2>1, <2>2
<1>2. \A t \in ReqSlots : Rest(t)[s] \in {requests[s], NoRequest}
  BY DEF PagesIInv, PagesTypes, RequestsOK, Rest
<1>3. ASSUME requests' = requests
      PROVE  FALSE
  BY <1>3
<1>4. ASSUME NEW t \in ReqSlots, requests' = Rest(t)
      PROVE  FALSE
  BY <1>2, <1>4
<1>5. ASSUME NEW t \in ReqSlots, NEW kind, NEW arg, Send(t, kind, arg), kind # "rename"
      PROVE  FALSE
  <2> DEFINE new == [kind |-> kind, arg |-> arg, answer |-> Absent, here |-> TRUE]
  <2>1. requests' = [requests EXCEPT ![t] = new] /\ new.kind = kind
    BY <1>5 DEF Send
  <2> HIDE DEF new
  <2> QED
    BY <1>5, <2>1 DEF PagesIInv, PagesTypes, RequestsOK
<1>6. ASSUME NEW t \in ReqSlots, Handle(t)
      PROVE  FALSE
  <2>1. PICK a : requests' = [requests EXCEPT ![t].answer = a]
    BY <1>6 DEF Handle
  <2>2. requests' = [requests EXCEPT ![t] = [requests[t] EXCEPT !.answer = a]]
    BY <2>1
  <2>3. requests[t] # NoRequest
    BY <1>6 DEF Handle, Pending
  <2>4. [requests[t] EXCEPT !.answer = a].kind = requests[t].kind
    BY <1>0, <2>3 DEF Mutations
  <2> QED
    BY <2>2, <2>3, <2>4 DEF PagesIInv, PagesTypes, RequestsOK
<1>7. ASSUME NEW t \in ReqSlots, Click(t)
      PROVE  FALSE
  BY <1>5, <1>7 DEF Click, ClickRotate, ClickDelete, ClickLeave, ClickJoin, ClickRemove, ClickAdd
<1>8. ASSUME NEW t \in ReqSlots, NEW n \in GroupNames, ClickCreate(t, n)
      PROVE  FALSE
  BY <1>5, <1>8 DEF ClickCreate
<1>9. ~(OpenEditor \/ CancelEdit \/ Elsewhere) /\ ~\E n \in GroupNames \cup {""} : TypeName(n)
  BY <1>3 DEF OpenEditor, CancelEdit, Elsewhere, TypeName
<1>10. ~GateOpens /\ ~\E p \in {"groups", "group", "join"} : FollowLink(p)
  BY <1>1, <1>3 DEF GateOpens, FollowLink
<1>11. ~\E v \in Views : ServerAnswers(v) \/ QueryLands(v) \/ QueryFails(v)
  BY <1>3 DEF ServerAnswers, QueryLands, QueryFails
<1>12. ~\E t \in ReqSlots : RequestFails(t) \/ RenameSucceeds(t) \/ RotateOrAddSucceeds(t)
                              \/ RemoveSucceeds(t)
  BY <1>4 DEF RequestFails, RenameSucceeds, RotateOrAddSucceeds, RemoveSucceeds
<1>13. ~\E t \in ReqSlots : CreateSucceeds(t) \/ LeaveSucceeds(t) \/ DeleteSucceeds(t)
                              \/ JoinSucceeds(t)
  BY <1>1, <1>2, <1>4 DEF CreateSucceeds, LeaveSucceeds, DeleteSucceeds, JoinSucceeds
<1>14. PICK t \in ReqSlots : ClickRename(t)
  BY <1>6, <1>7, <1>8, <1>9, <1>10, <1>11, <1>12, <1>13 DEF PagesNext
<1>15. SubmitSends
  BY <1>3, <1>14 DEF ClickRename
<1> QED
  BY <1>14, <1>15

\* A form that was only opened and saved sends nothing, unless the group was
\* renamed while it was mounted.
THEOREM RenamesTyped == PagesSpec => RenamesAreTyped
<1>1. PagesSpec => []PagesIInv
  BY PagesIInit, PagesINext, PTL DEF PagesSpec
<1>2. ASSUME PagesIInv, [PagesNext]_pageVars
      PROVE  [(PendingKind("rename")' /\ ~PendingKind("rename"))
                => editor.typed \/ editor.drifted]_pageVars
  <2> SUFFICES ASSUME PagesNext, PendingKind("rename")', ~PendingKind("rename")
               PROVE  editor.typed \/ editor.drifted
    BY <1>2
  <2>1. PICK s \in ReqSlots : requests'[s] # NoRequest /\ requests'[s].kind = "rename"
    BY DEF PendingKind, Pending
  <2>2. requests[s] = NoRequest \/ requests[s].kind # "rename"
    BY DEF PendingKind, Pending
  <2>3. PICK t \in ReqSlots : ClickRename(t) /\ SubmitSends
    BY <1>2, <2>1, <2>2, OnlySent
  <2>4. editor.open /\ editor.name # "" /\ editor.name # query["group"].data.name
    BY <2>3 DEF ClickRename, SubmitSends, Shown
  <2>5. /\ screen = "group" /\ query["group"].data # Absent
        /\ ~editor.drifted /\ ~editor.typed => editor.name \in {"", query["group"].data.name}
    BY <1>2, <2>4 DEF PagesIInv, EditorKnown
  <2> QED
    BY <2>4, <2>5
<1> QED
  BY <1>1, <1>2, PTL DEF PagesSpec, RenamesAreTyped

-----------------------------------------------------------------------------
\* ProfilePages.  A page that is kept is only wrong between the change of the
\* profile and its bust; me, while an answer is on its way.

USE PagesHandles, PagesBefore, ProfileNone

\* Who has a username once keeps one.
Named == account.handle \in MyHandles

SiteOK(st) ==
    /\ st \in [MyHandles -> [page: Names \cup {Gone, Absent}, render: Renders \cup {NoRender},
                             stale: BOOLEAN]]
    /\ \A h \in MyHandles : st[h].stale => st[h].page # Absent
ProfileTypes ==
    /\ account \in Accounts /\ me \in Queries(Accounts \cup {Absent}) /\ SiteOK(site)
    /\ me.data # Absent /\ me.data.handle \in MyHandles => Named
    /\ me.fetch.read # Absent /\ me.fetch.read.handle \in MyHandles => Named
    /\ at \in [page: Screens \cup MyHandles, going: MyHandles \cup {NoPage}]
    /\ card \in [given: Names, name: Names, late: BOOLEAN]
    /\ form \in Forms \cup {NoForm} /\ save \in Saves \cup {NoSave} /\ meWhy \in BOOLEAN

\* A form belongs to its page, and what is saved to its form; only who has a
\* username has a card, and the settings wait for me.
FormPlaced ==
    form # NoForm =>
        /\ form.on = (IF at.page \in MyHandles THEN "card" ELSE at.page)
        /\ form.on = "settings" => me.data # Absent
        /\ form.on = "card" => Named
SavePlaced ==
    save # NoSave =>
        /\ save.here => form # NoForm /\ form.on = save.from
        /\ save.body["name"] \in Names \cup {Keep}
        /\ save.body["handle"] \in MyHandles \cup TakenHandles \cup {Keep}
        /\ save.from = "card" => Named
        /\ save.stage = "sent" => save.changed = {}
        /\ save.stage # "sent" =>
              /\ save.answer \in Accounts
              /\ save.answer.handle \in MyHandles => Named
              /\ save.from = "card" => save.answer.handle \in MyHandles

\* A field that was left alone holds what the form compares with.
FieldsKnown(f, cur) == \A x \in Fields \ (f.typed \cup f.drifted) : f[x] = cur[x]
Compared(on, c, m) ==
    IF on = "welcome" THEN [name |-> Invalid, handle |-> Invalid] ELSE Current(on, c, m)
FormKnown == form # NoForm => FieldsKnown(form, Compared(form.on, card, me.data))

CardKnown ==
    at.page \in MyHandles /\ account.handle = at.page => card.name = account.name \/ card.late

\* A page and a render of it that are right, or known not to be; and the pages
\* that wait for the bust.
PageGood(e, c) ==
    /\ e.page \in {Absent, c} \/ e.stale
    /\ e.render # NoRender => e.render.found = c \/ e.render.raced
AwaitsBust(h) ==
    save # NoSave /\ h \in save.changed /\ (save.stage = "busted" => h \notin save.paths)
SiteKnown == \A h \in MyHandles : ~AwaitsBust(h) => PageGood(site[h], Content(h))

\* me is only out of step with an answer that is on its way.
MeFaithful ==
    /\ ~me.fetch.on /\ ~me.outdated /\ ~me.lapsed => me.data = account
    /\ me.fetch.on /\ ~me.fetch.late => me.fetch.read \in {Absent, account}
MeInStep ==
    IF save = NoSave THEN MeFaithful
    ELSE IF save.stage = "applied" THEN save.answer = account ELSE MeFaithful
MeKnown == ~meWhy => MeInStep

ProfileIInv ==
    ProfileTypes /\ FormPlaced /\ SavePlaced /\ FormKnown /\ CardKnown /\ SiteKnown /\ MeKnown

\* meWhy is only taken back when me is right.
LEMMA MeStep ==
    ASSUME ProfileTypes, NEW event \in BOOLEAN, MeMayErr(event),
           me' \in Queries(Accounts \cup {Absent}), ~meWhy /\ ~event => MeInStep'
    PROVE  MeKnown' /\ meWhy' \in BOOLEAN
<1>1. meWhy' = ((meWhy \/ event) /\ (me'.fetch.on \/ save' # NoSave \/ me'.data # account'))
  BY DEF MeMayErr
<1>2. me'.fetch.on \in BOOLEAN /\ meWhy \in BOOLEAN
  BY DEF Queries, Fetches, ProfileTypes
<1>3. ~me'.fetch.on /\ save' = NoSave /\ me'.data = account' => MeInStep'
  BY DEF MeInStep, MeFaithful
<1> HIDE DEF MeInStep
<1> QED
  BY <1>1, <1>2, <1>3 DEF MeKnown

\* What a bust, or its absence, leaves of the pages.
LEMMA Busts ==
    ASSUME SiteOK(site), NEW hs
    PROVE  /\ SiteOK(Unbusted(site, hs)) /\ SiteOK(Busted(site, hs))
           /\ \A h \in MyHandles \ hs : Unbusted(site, hs)[h] = site[h] /\ Busted(site, hs)[h] = site[h]
           /\ \A h \in MyHandles \cap hs : \A c : /\ PageGood(Unbusted(site, hs)[h], c)
                                                  /\ PageGood(Busted(site, hs)[h], c)
<1> DEFINE E == [page: Names \cup {Gone, Absent}, render: Renders \cup {NoRender}, stale: BOOLEAN]
<1>1. ASSUME NEW h \in MyHandles
      PROVE  /\ site[h] \in E /\ (site[h].stale => site[h].page # Absent)
             /\ site[h].render # NoRender => /\ [site[h].render EXCEPT !.raced = TRUE] \in Renders
                                             /\ [site[h].render EXCEPT !.raced = TRUE].raced
  <2>1. site[h] \in E /\ (site[h].stale => site[h].page # Absent)
    BY DEF SiteOK
  <2> QED
    BY <2>1 DEF Renders
<1>2. ASSUME NEW h \in MyHandles
      PROVE  /\ Unbusted(site, hs)[h] \in E
             /\ Unbusted(site, hs)[h].stale => Unbusted(site, hs)[h].page # Absent
             /\ h \notin hs => Unbusted(site, hs)[h] = site[h]
             /\ h \in hs => \A c : PageGood(Unbusted(site, hs)[h], c)
  <2> DEFINE e == site[h]
             late == e.page # Absent
             render == IF e.render = NoRender THEN NoRender ELSE [e.render EXCEPT !.raced = TRUE]
             new == [e EXCEPT !.stale = late, !.render = render]
  <2>1. Unbusted(site, hs)[h] = IF h \notin hs THEN e ELSE new
    BY DEF Unbusted
  <2>2. late \in BOOLEAN /\ render \in Renders \cup {NoRender} /\ (render # NoRender => render.raced)
    BY <1>1
  <2>3. e \in E /\ (late <=> e.page # Absent) /\ (e.stale => e.page # Absent)
    BY <1>1
  <2> HIDE DEF e, late, render
  <2>4. new \in E /\ new.page = e.page /\ new.stale = late /\ new.render = render
    BY <2>2, <2>3
  <2>5. \A c : PageGood(new, c)
    BY <2>2, <2>3, <2>4 DEF PageGood
  <2> HIDE DEF new, E
  <2> QED
    BY <2>1, <2>2, <2>3, <2>4, <2>5 DEF e
<1>3. ASSUME NEW h \in MyHandles
      PROVE  /\ Busted(site, hs)[h] \in E
             /\ Busted(site, hs)[h].stale => Busted(site, hs)[h].page # Absent
             /\ h \notin hs => Busted(site, hs)[h] = site[h]
             /\ h \in hs => \A c : PageGood(Busted(site, hs)[h], c)
  <2> DEFINE e == site[h]
             render == IF e.render = NoRender THEN NoRender ELSE [e.render EXCEPT !.raced = TRUE]
             new == [page |-> Absent, stale |-> FALSE, render |-> render]
  <2>1. Busted(site, hs)[h] = IF h \notin hs THEN e ELSE new
    BY DEF Busted
  <2>2. render \in Renders \cup {NoRender} /\ (render # NoRender => render.raced)
    BY <1>1
  <2>3. e \in E /\ (e.stale => e.page # Absent)
    BY <1>1
  <2> HIDE DEF e, render
  <2>4. new \in E /\ ~new.stale /\ \A c : PageGood(new, c)
    BY <2>2 DEF PageGood
  <2> HIDE DEF new, E
  <2> QED
    BY <2>1, <2>3, <2>4 DEF e
<1>4. /\ Unbusted(site, hs) = [h \in MyHandles |-> Unbusted(site, hs)[h]]
      /\ Busted(site, hs) = [h \in MyHandles |-> Busted(site, hs)[h]]
  BY DEF Unbusted, Busted
<1>5. SiteOK(Unbusted(site, hs))
  BY <1>2, <1>4 DEF SiteOK
<1>6. SiteOK(Busted(site, hs))
  BY <1>3, <1>4 DEF SiteOK
<1> QED
  BY <1>2, <1>3, <1>5, <1>6

\* Forms.
LEMMA FormMade ==
    ASSUME NEW on \in {"card", "settings", "welcome"}, NEW cur,
           cur.name \in Names \cup {Invalid}, cur.handle \in MyHandles \cup {Invalid}
    PROVE  /\ NewForm(on, cur) \in Forms /\ NewForm(on, cur).on = on
           /\ FieldsKnown(NewForm(on, cur), cur)
<1>1. NewForm(on, cur) \in Forms
  BY DEF NewForm, Forms
<1> QED
  BY <1>1 DEF NewForm, FieldsKnown, Fields
LEMMA FormDrifts ==
    ASSUME NEW f \in Forms, NEW old, NEW new, FieldsKnown(f, old)
    PROVE  /\ Drift(f, old, new) \in Forms /\ Drift(f, old, new).on = f.on
           /\ FieldsKnown(Drift(f, old, new), new)
<1> DEFINE left == {x \in Fields : new[x] # old[x] /\ new[x] # f[x]}
           d == f.drifted \cup left
           g == [f EXCEPT !.drifted = d]
<1>1. Drift(f, old, new) = g
  BY DEF Drift
<1>2. d \in SUBSET Fields
  BY DEF Forms
<1>3. /\ f.drifted \subseteq d
      /\ \A x \in Fields \ d : new[x] = old[x] \/ new[x] = f[x]
  OBVIOUS
<1> HIDE DEF d
<1>4. /\ g \in Forms /\ g.on = f.on /\ g.typed = f.typed /\ g.drifted = d
      /\ \A x \in Fields : g[x] = f[x]
  BY <1>2 DEF Forms, Fields
<1> HIDE DEF g
<1>5. FieldsKnown(g, new)
  BY <1>3, <1>4 DEF FieldsKnown
<1> QED
  BY <1>1, <1>4, <1>5

\* The values the settings compare with.
LEMMA SettingsCompare ==
    ASSUME NEW m \in Accounts, NEW c
    PROVE  /\ Current("settings", c, m).name \in Names
           /\ Current("settings", c, m).handle \in MyHandles \cup {Invalid}
BY DEF Current, Accounts

\* A form that opens has the fields of the account it is given.
LEMMA FormOpens ==
    ASSUME NEW p \in Screens, NEW m \in Queries(Accounts \cup {Absent})
    PROVE  /\ FormOnMe(p, NoForm, m) \in Forms \cup {NoForm}
           /\ FormOnMe(p, NoForm, m) # NoForm =>
                 /\ FormOnMe(p, NoForm, m).on = p
                 /\ p = "welcome" \/ (p = "settings" /\ m.data # Absent)
                 /\ \A c : FieldsKnown(FormOnMe(p, NoForm, m), Compared(p, c, m.data))
<1> DEFINE w == [name |-> Invalid, handle |-> Invalid]
           cur == Current("settings", card, m.data)
<1>1. CASE p = "welcome"
  <2>1. FormOnMe(p, NoForm, m) = NewForm("welcome", w)
    BY <1>1 DEF FormOnMe
  <2>2. /\ NewForm("welcome", w) \in Forms /\ NewForm("welcome", w).on = "welcome"
        /\ FieldsKnown(NewForm("welcome", w), w)
    BY FormMade
  <2>3. \A c : Compared(p, c, m.data) = w
    BY <1>1 DEF Compared
  <2> HIDE DEF w
  <2> QED
    BY <1>1, <2>1, <2>2, <2>3
<1>2. CASE p = "settings" /\ m.data # Absent
  <2>1. FormOnMe(p, NoForm, m) = NewForm("settings", cur)
    BY <1>2 DEF FormOnMe
  <2>2. m.data \in Accounts
    BY <1>2 DEF Queries
  <2>3. /\ NewForm("settings", cur) \in Forms /\ NewForm("settings", cur).on = "settings"
        /\ FieldsKnown(NewForm("settings", cur), cur)
    BY <2>2, SettingsCompare, FormMade
  <2>4. \A c : Compared(p, c, m.data) = cur
    BY <1>2 DEF Compared, Current
  <2> HIDE DEF cur
  <2> QED
    BY <1>2, <2>1, <2>3, <2>4
<1>3. CASE p # "welcome" /\ ~(p = "settings" /\ m.data # Absent)
  BY <1>3 DEF FormOnMe
<1> QED
  BY <1>1, <1>2, <1>3

\* me changes under the page that is open.
LEMMA FormStays ==
    ASSUME ProfileTypes, FormPlaced, FormKnown,
           NEW m \in Queries(Accounts \cup {Absent}), m.data # Absent
    PROVE  /\ FormOnMe(at.page, form, m) \in Forms \cup {NoForm}
           /\ form # NoForm => FormOnMe(at.page, form, m) # NoForm
           /\ FormOnMe(at.page, form, m) # NoForm =>
                 /\ FormOnMe(at.page, form, m).on = (IF at.page \in MyHandles THEN "card" ELSE at.page)
                 /\ form # NoForm => FormOnMe(at.page, form, m).on = form.on
                 /\ FormOnMe(at.page, form, m).on = "card" => form # NoForm /\ form.on = "card"
                 /\ FieldsKnown(FormOnMe(at.page, form, m),
                                Compared(FormOnMe(at.page, form, m).on, card, m.data))
<1>0. at.page \in Screens \cup MyHandles /\ form \in Forms \cup {NoForm}
  BY DEF ProfileTypes
<1>1. CASE form = NoForm
  <2>1. CASE at.page \in Screens
    <3>1. at.page \notin MyHandles /\ "card" \notin Screens
      BY <2>1 DEF Screens
    <3> QED
      BY <1>1, <2>1, <3>1, FormOpens DEF Screens
  <2>2. CASE at.page \in MyHandles
    <3>1. at.page \notin {"welcome", "settings"}
      BY <2>2 DEF Screens
    <3> QED
      BY <1>1, <3>1 DEF FormOnMe
  <2> QED
    BY <1>0, <2>1, <2>2
<1>2. CASE form # NoForm
  <2>0. /\ form \in Forms /\ form.on = (IF at.page \in MyHandles THEN "card" ELSE at.page)
        /\ form.on = "settings" => me.data # Absent
        /\ FieldsKnown(form, Compared(form.on, card, me.data))
    BY <1>0, <1>2 DEF FormPlaced, FormKnown
  <2>1. CASE at.page = "settings"
    <3> DEFINE old == Current("settings", card, me.data)
               new == Current("settings", card, m.data)
    <3>1. at.page \notin MyHandles /\ form.on = "settings"
      BY <2>0, <2>1 DEF Screens
    <3>2. FormOnMe(at.page, form, m) = Drift(form, old, new)
      BY <1>2, <2>1 DEF FormOnMe
    <3>3. FieldsKnown(form, old)
      BY <2>0, <3>1 DEF Compared
    <3>4. /\ Drift(form, old, new) \in Forms /\ Drift(form, old, new).on = form.on
          /\ FieldsKnown(Drift(form, old, new), new)
      BY <2>0, <3>3, FormDrifts
    <3>5. Compared("settings", card, m.data) = new
      BY DEF Compared
    <3> HIDE DEF old, new
    <3> QED
      BY <1>2, <2>0, <2>1, <3>1, <3>2, <3>4, <3>5
  <2>2. CASE at.page # "settings"
    <3>1. FormOnMe(at.page, form, m) = form
      BY <1>2, <2>2 DEF FormOnMe
    <3>2. form.on # "settings"
      BY <2>0, <2>2
    <3>3. form.on \in {"card", "welcome"}
      BY <2>0, <3>2 DEF Forms
    <3>4. Compared(form.on, card, m.data) = Compared(form.on, card, me.data)
      BY <3>3 DEF Compared, Current
    <3> QED
      BY <1>2, <2>0, <3>1, <3>4
  <2> QED
    BY <2>1, <2>2
<1> QED
  BY <1>1, <1>2

\* A form that is left forgets its save; the save remembers what it was.
LEMMA LeftIs ==
    ASSUME ProfileTypes, FormPlaced, SavePlaced
    PROVE  /\ Left \in Saves \cup {NoSave}
           /\ save = NoSave <=> Left = NoSave
           /\ save # NoSave =>
                 /\ ~Left.here /\ Left.body = save.body /\ Left.from = save.from
                 /\ Left.stage = save.stage /\ Left.answer = save.answer
                 /\ Left.changed = save.changed /\ Left.paths = save.paths
<1>1. CASE save = NoSave
  BY <1>1 DEF Left
<1>2. CASE save # NoSave /\ ~save.here
  BY <1>2 DEF Left, ProfileTypes
<1>3. CASE save # NoSave /\ save.here
  <2> DEFINE h == IF save.from = "settings" THEN Current("settings", card, me.data).handle ELSE save.handle
             new == [save EXCEPT !.here = FALSE, !.handle = h]
  <2>1. save \in Saves
    BY <1>3 DEF ProfileTypes
  <2>2. h \in MyHandles \cup {Invalid}
    <3>1. CASE save.from = "settings"
      <4>1. me.data \in Accounts
        BY <1>3, <3>1 DEF SavePlaced, FormPlaced, ProfileTypes, Queries
      <4> QED
        BY <3>1, <4>1, SettingsCompare
    <3>2. CASE save.from # "settings"
      BY <2>1, <3>2 DEF Saves
    <3> QED
      BY <3>1, <3>2
  <2>3. Left = new
    BY <1>3 DEF Left
  <2> HIDE DEF h
  <2>4. new \in Saves
    BY <2>1, <2>2 DEF Saves
  <2>5. /\ ~new.here /\ new.body = save.body /\ new.from = save.from
        /\ new.stage = save.stage /\ new.answer = save.answer
        /\ new.changed = save.changed /\ new.paths = save.paths
    BY <2>1 DEF Saves
  <2> HIDE DEF new
  <2> QED
    BY <1>3, <2>3, <2>4, <2>5
<1> QED
  BY <1>1, <1>2, <1>3

\* The pages and me, while they and what is saved stay the same.
LEMMA SavesSame ==
    ASSUME account' = account, save = NoSave <=> save' = NoSave,
           save # NoSave => /\ save'.stage = save.stage /\ save'.answer = save.answer
                            /\ save'.changed = save.changed /\ save'.paths = save.paths
    PROVE  /\ SiteKnown /\ site' = site => SiteKnown'
           /\ MeInStep /\ me' = me => MeInStep'
           /\ MeKnown /\ me' = me /\ meWhy' = meWhy => MeKnown'
<1>1. \A h : Content(h)' = Content(h) /\ (AwaitsBust(h)' <=> AwaitsBust(h))
  BY DEF Content, AwaitsBust
<1>2. SiteKnown /\ site' = site => SiteKnown'
  BY <1>1 DEF SiteKnown
<1>3. me' = me => (MeFaithful' <=> MeFaithful)
  BY DEF MeFaithful
<1> QED
  BY <1>2, <1>3 DEF MeInStep, MeKnown

\* A page is rendered for the page cache.
LEMMA StepRender ==
    ASSUME ProfileIInv, NEW h \in MyHandles, Render(h) \/ RenderStores(h)
    PROVE  ProfileIInv'
<1>1. UNCHANGED <<account, me, at, card, form, save, meWhy>>
  BY DEF Render, RenderStores
<1>2. /\ SiteOK(site) /\ account \in Accounts
      /\ site[h] \in [page: Names \cup {Gone, Absent}, render: Renders \cup {NoRender},
                      stale: BOOLEAN]
      /\ site[h].stale => site[h].page # Absent
  BY DEF ProfileIInv, ProfileTypes, SiteOK
<1>3. Content(h) \in Names \cup {Gone}
  BY <1>2 DEF Content, Accounts
<1>4. PICK e \in [page: Names \cup {Gone, Absent}, render: Renders \cup {NoRender},
                  stale: BOOLEAN] :
         /\ site' = [site EXCEPT ![h] = e] /\ (e.stale => e.page # Absent)
         /\ PageGood(site[h], Content(h)) => PageGood(e, Content(h))
  <2>1. CASE Render(h)
    <3> DEFINE r == [found |-> Content(h), raced |-> FALSE]
               e == [site[h] EXCEPT !.render = r]
    <3> DEFINE c == Content(h)
    <3>0. c \in Names \cup {Gone}
      BY <1>3
    <3>1. r \in Renders /\ r.found = Content(h) /\ r # NoRender
      <4> HIDE DEF c
      <4>1. [found |-> c, raced |-> FALSE] \in Renders
        BY <3>0 DEF Renders
      <4> QED
        BY <4>1 DEF c
    <3>2. site' = [site EXCEPT ![h] = e]
      BY <2>1 DEF Render
    <3> HIDE DEF r
    <3>3. /\ e \in [page: Names \cup {Gone, Absent}, render: Renders \cup {NoRender}, stale: BOOLEAN]
          /\ e.stale = site[h].stale /\ e.page = site[h].page /\ e.render = r
      BY <1>2, <3>1
    <3> HIDE DEF e
    <3> QED
      BY <1>2, <3>1, <3>2, <3>3 DEF PageGood
  <2>2. CASE RenderStores(h)
    <3> DEFINE e == [page |-> site[h].render.found, render |-> NoRender,
                     stale |-> site[h].render.raced]
    <3>1. site[h].render # NoRender /\ site' = [site EXCEPT ![h] = e]
      BY <2>2 DEF RenderStores
    <3>2. site[h].render.found \in Names \cup {Gone} /\ site[h].render.raced \in BOOLEAN
      BY <1>2, <3>1 DEF Renders
    <3>3. /\ e \in [page: Names \cup {Gone, Absent}, render: Renders \cup {NoRender}, stale: BOOLEAN]
          /\ e.page # Absent
      BY <3>2
    <3>4. PageGood(site[h], Content(h)) => PageGood(e, Content(h))
      BY <3>1 DEF PageGood
    <3> HIDE DEF e
    <3> QED
      BY <3>1, <3>3, <3>4
  <2> QED
    BY <2>1, <2>2
<1>5. \A g \in MyHandles : site'[g] = IF g = h THEN e ELSE site[g]
  BY <1>2, <1>4 DEF SiteOK
<1>6. site' \in [MyHandles -> [page: Names \cup {Gone, Absent}, render: Renders \cup {NoRender},
                               stale: BOOLEAN]]
  BY <1>2, <1>4 DEF SiteOK
<1>7. SiteOK(site')
  BY <1>2, <1>4, <1>5, <1>6 DEF SiteOK
<1>8. SiteKnown'
  <2>1. \A g \in MyHandles : Content(g)' = Content(g) /\ (AwaitsBust(g)' <=> AwaitsBust(g))
    BY <1>1 DEF Content, AwaitsBust
  <2> QED
    BY <1>4, <1>5, <2>1 DEF ProfileIInv, SiteKnown
<1>9. ProfileTypes'
  BY <1>1, <1>7 DEF ProfileIInv, ProfileTypes, Named
<1>10. FormPlaced' /\ SavePlaced'
  BY <1>1 DEF ProfileIInv, FormPlaced, SavePlaced, Named
<1>11. FormKnown' /\ CardKnown'
  BY <1>1 DEF ProfileIInv, FormKnown, CardKnown, Compared, Current, FieldsKnown
<1>12. MeKnown'
  BY <1>1, SavesSame DEF ProfileIInv
<1> QED
  BY <1>8, <1>9, <1>10, <1>11, <1>12 DEF ProfileIInv

\* The server action renders pages anew.
LEMMA StepRevalidate == ASSUME ProfileIInv, RevalidateProfile PROVE ProfileIInv'
<1>0. ProfileTypes /\ FormPlaced /\ SavePlaced /\ FormKnown /\ CardKnown /\ SiteKnown /\ MeKnown
  BY DEF ProfileIInv
<1>1. /\ save # NoSave /\ save.stage = "saved" /\ save \in Saves
      /\ UNCHANGED <<account, me, at, card, form, meWhy>>
      /\ site' = Busted(site, save.paths) /\ save' = [save EXCEPT !.stage = "busted"]
  BY <1>0 DEF RevalidateProfile, ProfileTypes
<1>2. /\ save' \in Saves /\ save' # NoSave /\ save'.stage = "busted" /\ save'.here = save.here
      /\ save'.body = save.body /\ save'.from = save.from /\ save'.answer = save.answer
      /\ save'.changed = save.changed /\ save'.paths = save.paths
  <2>1. save' \in Saves
    BY <1>1 DEF Saves
  <2> QED
    BY <1>1, <2>1 DEF Saves
<1>3. /\ SiteOK(site') /\ \A h \in MyHandles \ save.paths : site'[h] = site[h]
      /\ \A h \in MyHandles \cap save.paths : \A c : PageGood(site'[h], c)
  BY <1>0, <1>1, Busts DEF ProfileTypes
<1>4. SiteKnown'
  <2>1. \A h : Content(h)' = Content(h)
    BY <1>1 DEF Content
  <2>2. \A h \in MyHandles \ save.paths : AwaitsBust(h) => AwaitsBust(h)'
    BY <1>1, <1>2 DEF AwaitsBust
  <2> QED
    BY <1>0, <1>3, <2>1, <2>2 DEF SiteKnown
<1>5. ProfileTypes'
  BY <1>0, <1>1, <1>2, <1>3 DEF ProfileTypes, Named
<1>6. FormPlaced'
  BY <1>0, <1>1 DEF FormPlaced, Named
<1>7. SavePlaced'
  BY <1>0, <1>1, <1>2 DEF SavePlaced, Named
<1>8. FormKnown' /\ CardKnown'
  BY <1>0, <1>1 DEF FormKnown, CardKnown, Compared, Current, FieldsKnown
<1>9. MeKnown'
  <2>1. MeFaithful' <=> MeFaithful
    BY <1>1 DEF MeFaithful
  <2> QED
    BY <1>0, <1>1, <1>2, <2>1 DEF MeKnown, MeInStep
<1> QED
  BY <1>4, <1>5, <1>6, <1>7, <1>8, <1>9 DEF ProfileIInv

\* The form on screen.
LEMMA StepForm ==
    ASSUME ProfileIInv,
           ClickEdit \/ CancelForm \/ Submit
             \/ (\E n \in Names \cup {Invalid} : TypeField("name", n))
             \/ (\E h \in MyHandles \cup TakenHandles \cup {Invalid} : TypeField("handle", h))
    PROVE  ProfileIInv'
<1>0. /\ ProfileTypes /\ FormPlaced /\ SavePlaced /\ FormKnown /\ CardKnown /\ SiteKnown /\ MeKnown
      /\ form \in Forms \cup {NoForm}
  BY DEF ProfileIInv, ProfileTypes
<1>1. UNCHANGED <<account, me, site, at, card, meWhy>>
  BY DEF ClickEdit, CancelForm, Submit, TypeField
<1>2. CardKnown'
  BY <1>0, <1>1 DEF CardKnown
<1>3. CASE form' # form /\ save' = save
  <2>1. SiteKnown' /\ MeKnown'
    BY <1>0, <1>1, <1>3, SavesSame
  <2>2. /\ form' \in Forms \cup {NoForm}
        /\ form' # NoForm => /\ form'.on = (IF at.page \in MyHandles THEN "card" ELSE at.page)
                             /\ form'.on = "settings" => me.data # Absent
                             /\ form'.on = "card" => Named
                             /\ FieldsKnown(form', Compared(form'.on, card, me.data))
        /\ save # NoSave /\ save.here => form' # NoForm /\ form'.on = save.from
    <3>1. CASE ClickEdit
      <4> DEFINE cur == Current("card", card, me)
      <4>1. /\ at.page \in MyHandles /\ me.data # Absent /\ me.data.handle = at.page
            /\ form = NoForm /\ form' = NewForm("card", cur)
        BY <3>1 DEF ClickEdit, IsOwnCard
      <4>2. cur.name \in Names \cup {Invalid} /\ cur.handle \in MyHandles \cup {Invalid}
        BY <1>0, <4>1 DEF Current, ProfileTypes
      <4>3. form' \in Forms /\ form'.on = "card" /\ FieldsKnown(form', cur)
        BY <4>1, <4>2, FormMade
      <4>4. Compared("card", card, me.data) = cur
        BY DEF Compared, Current
      <4>5. Named /\ ~(save # NoSave /\ save.here)
        BY <1>0, <4>1 DEF ProfileTypes, SavePlaced
      <4> HIDE DEF cur
      <4> QED
        BY <4>1, <4>3, <4>4, <4>5
    <3>2. CASE CancelForm
      BY <3>2 DEF CancelForm, Saving
    <3>3. ASSUME NEW x \in Fields, NEW value, TypeField(x, value),
                 x = "name" => value \in Names \cup {Invalid},
                 x = "handle" => value \in MyHandles \cup TakenHandles \cup {Invalid}
          PROVE  /\ form' \in Forms /\ form # NoForm /\ form'.on = form.on
                 /\ FieldsKnown(form', Compared(form'.on, card, me.data))
      <4> DEFINE ty == form.typed \cup {x}
      <4>1. form # NoForm /\ form \in Forms /\ form' = [form EXCEPT ![x] = value, !.typed = ty]
        BY <1>0, <3>3 DEF TypeField
      <4>2. ty \in SUBSET Fields /\ x \in ty /\ form.typed \subseteq ty
        BY <4>1 DEF Forms
      <4> HIDE DEF ty
      <4>3. /\ form' \in Forms /\ form'.on = form.on /\ form'.typed = ty
            /\ form'.drifted = form.drifted /\ \A y \in Fields \ {x} : form'[y] = form[y]
        <5>1. CASE x = "name"
          <6>1. form' = [[form EXCEPT !.name = value] EXCEPT !.typed = ty]
            BY <4>1, <5>1
          <6> QED
            BY <3>3, <4>1, <4>2, <5>1, <6>1 DEF Forms, Fields
        <5>2. CASE x = "handle"
          <6>1. form' = [[form EXCEPT !.handle = value] EXCEPT !.typed = ty]
            BY <4>1, <5>2
          <6> QED
            BY <3>3, <4>1, <4>2, <5>2, <6>1 DEF Forms, Fields
        <5> QED
          BY <3>3, <5>1, <5>2 DEF Fields
      <4>4. FieldsKnown(form, Compared(form.on, card, me.data))
        BY <1>0, <4>1 DEF FormKnown
      <4> QED
        BY <4>1, <4>2, <4>3, <4>4 DEF FieldsKnown
    <3>4. CASE \/ \E n \in Names \cup {Invalid} : TypeField("name", n)
               \/ \E h \in MyHandles \cup TakenHandles \cup {Invalid} : TypeField("handle", h)
      <4>1. /\ form' \in Forms /\ form # NoForm /\ form'.on = form.on
            /\ FieldsKnown(form', Compared(form'.on, card, me.data))
        BY <3>3, <3>4 DEF Fields
      <4> QED
        BY <1>0, <4>1 DEF FormPlaced, SavePlaced
    <3> QED
      BY <1>3, <3>1, <3>2, <3>4 DEF Submit
  <2>3. ProfileTypes'
    BY <1>0, <1>1, <1>3, <2>2 DEF ProfileTypes, Named
  <2>4. FormPlaced' /\ SavePlaced'
    BY <1>0, <1>1, <1>3, <2>2 DEF FormPlaced, SavePlaced, Named
  <2>5. FormKnown'
    BY <1>1, <2>2 DEF FormKnown, Compared, Current
  <2> QED
    BY <1>2, <2>1, <2>3, <2>4, <2>5 DEF ProfileIInv
<1>4. CASE Submit
  <2> DEFINE h == IF form.on = "card" THEN at.page ELSE Invalid
             new == [body |-> Body, from |-> form.on, here |-> TRUE, stage |-> "sent",
                     handle |-> h, answer |-> Absent, changed |-> {}, paths |-> {}]
  <2>1. /\ save = NoSave /\ CanSubmit /\ form' = form /\ save' = new /\ form # NoForm
        /\ form \in Forms
    BY <1>0, <1>4 DEF Submit, CanSubmit
  <2>2. /\ Body \in [Fields -> Names \cup MyHandles \cup TakenHandles \cup {Keep}]
        /\ Body["name"] \in Names \cup {Keep}
        /\ Body["handle"] \in MyHandles \cup TakenHandles \cup {Keep}
    <3>1. /\ form.name \in Names \cup {Invalid} /\ form.handle \in MyHandles \cup TakenHandles
          /\ form.on # "welcome" => form.name # Invalid
      BY <2>1 DEF CanSubmit, Forms
    <3>2. CASE form.on = "welcome"
      BY <3>1, <3>2 DEF Body, Fields
    <3>3. CASE form.on # "welcome"
      <4> DEFINE cur == Current(form.on, card, me.data)
      <4>1. Body = [x \in Fields |-> IF form[x] = cur[x] THEN Keep ELSE form[x]]
        BY <3>3 DEF Body, BuildUpdate
      <4> HIDE DEF cur
      <4> QED
        BY <3>1, <3>3, <4>1 DEF Fields
    <3> QED
      BY <3>2, <3>3
  <2>3. h \in MyHandles \cup {Invalid} /\ form.on \in {"card", "settings", "welcome"}
        /\ (form.on = "card" => Named)
    BY <1>0, <2>1 DEF FormPlaced, Forms, ProfileTypes, Screens
  <2> HIDE DEF h
  <2>4. new \in Saves
    BY <2>2, <2>3 DEF Saves
  <2>5. ProfileTypes'
    BY <1>0, <1>1, <2>1, <2>4 DEF ProfileTypes, Named
  <2>6. FormPlaced' /\ FormKnown'
    BY <1>0, <1>1, <2>1 DEF FormPlaced, FormKnown, Compared, Current, FieldsKnown, Named
  <2>7. SavePlaced'
    BY <1>1, <2>1, <2>2, <2>3, <2>4 DEF SavePlaced, Named
  <2>8. \A g : Content(g)' = Content(g) /\ (~AwaitsBust(g) /\ ~AwaitsBust(g)')
    BY <1>1, <2>1 DEF Content, AwaitsBust
  <2>9. SiteKnown'
    BY <1>0, <1>1, <2>8 DEF SiteKnown
  <2>10. MeFaithful' <=> MeFaithful
    BY <1>1 DEF MeFaithful
  <2>11. MeKnown'
    BY <1>0, <1>1, <2>1, <2>4, <2>10 DEF MeKnown, MeInStep
  <2> QED
    BY <1>2, <2>5, <2>6, <2>7, <2>9, <2>11 DEF ProfileIInv
<1>5. CASE form' = form /\ save' = save
  <2>1. SiteKnown' /\ MeKnown'
    BY <1>0, <1>1, <1>5, SavesSame
  <2>2. FormPlaced' /\ SavePlaced' /\ ProfileTypes'
    BY <1>0, <1>1, <1>5 DEF FormPlaced, SavePlaced, ProfileTypes, Named
  <2>3. FormKnown'
    BY <1>0, <1>1, <1>5 DEF FormKnown, Compared, Current, FieldsKnown
  <2> QED
    BY <1>2, <2>1, <2>2, <2>3 DEF ProfileIInv
<1>6. save' = save \/ Submit
  BY DEF ClickEdit, CancelForm, TypeField
<1> QED
  BY <1>3, <1>4, <1>5, <1>6

\* A card, whoever's it is.
LEMMA NoCardTyped == ASSUME account \in Accounts PROVE NoCard \in [given: Names, name: Names, late: BOOLEAN]
<1>1. Names # {}
  BY DEF Accounts
<1>2. (CHOOSE n \in Names : TRUE) \in Names
  BY <1>1
<1> QED
  BY <1>2 DEF NoCard

\* A fetch that is begun takes nothing away.
LEMMA MeBegins ==
    ASSUME ProfileTypes
    PROVE  /\ Begin(me) \in Queries(Accounts \cup {Absent}) /\ Begin(me).data = me.data
           /\ Begin(me).fetch.read \in {me.fetch.read, Absent}
           /\ ~me.fetch.on => ~Begin(me).fetch.late /\ Begin(me).fetch.read = Absent /\ Begin(me).fetch.on
           /\ me.fetch.on => Begin(me) = me
<1>1. me \in Queries(Accounts \cup {Absent})
  BY DEF ProfileTypes
<1>2. Begin(me) \in Queries(Accounts \cup {Absent})
  BY <1>1, QueriesClosed
<1> QED
  BY <1>1, <1>2 DEF Begin, Queries

\* The user sets out for another page.
LEMMA StepGoTo ==
    ASSUME ProfileIInv, NEW p \in {"home", "settings", "welcome"} \cup MyHandles, GoTo(p)
    PROVE  ProfileIInv'
<1>0. ProfileTypes /\ FormPlaced /\ SavePlaced /\ FormKnown /\ CardKnown /\ SiteKnown /\ MeKnown
  BY DEF ProfileIInv
<1>1. UNCHANGED <<account, site>>
  BY DEF GoTo
<1>2. CASE p \in MyHandles
  <2>1. at' = [at EXCEPT !.going = p] /\ UNCHANGED <<me, card, form, save, meWhy>>
    BY <1>2 DEF GoTo
  <2>2. at' \in [page: Screens \cup MyHandles, going: MyHandles \cup {NoPage}] /\ at'.page = at.page
    BY <1>0, <1>2, <2>1 DEF ProfileTypes
  <2>3. SiteKnown' /\ MeKnown'
    BY <1>0, <1>1, <2>1, SavesSame
  <2>4. ProfileTypes'
    BY <1>0, <1>1, <2>1, <2>2 DEF ProfileTypes, Named
  <2>5. FormPlaced' /\ SavePlaced' /\ CardKnown'
    BY <1>0, <1>1, <2>1, <2>2 DEF FormPlaced, SavePlaced, CardKnown, Named
  <2>6. FormKnown'
    BY <1>0, <2>1, <2>2 DEF FormKnown, Compared, Current, FieldsKnown
  <2> QED
    BY <2>3, <2>4, <2>5, <2>6 DEF ProfileIInv
<1>3. CASE p \notin MyHandles
  <2>1. /\ at' = [page |-> p, going |-> NoPage] /\ me' \in {me, Begin(me)}
        /\ form' = FormOnMe(p, NoForm, me) /\ card' = NoCard /\ save' = Left /\ MeMayErr(FALSE)
    BY <1>3 DEF GoTo
  <2>2. p \in Screens /\ at'.page = p /\ p \notin MyHandles /\ p # "card"
    BY <1>3, <2>1 DEF Screens
  <2>3. /\ me' \in Queries(Accounts \cup {Absent}) /\ me'.data = me.data
        /\ me'.fetch.read \in {me.fetch.read, Absent}
    BY <1>0, <2>1, MeBegins DEF ProfileTypes
  <2>4. MeFaithful => MeFaithful'
    BY <1>0, <1>1, <2>1, MeBegins DEF MeFaithful
  <2>5. /\ save' \in Saves \cup {NoSave} /\ (save = NoSave <=> save' = NoSave)
        /\ save # NoSave =>
                 /\ ~save'.here /\ save'.body = save.body /\ save'.from = save.from
                 /\ save'.stage = save.stage /\ save'.answer = save.answer
                 /\ save'.changed = save.changed /\ save'.paths = save.paths
    BY <1>0, <2>1, LeftIs
  <2>6. MeInStep => MeInStep'
    BY <1>1, <2>4, <2>5 DEF MeInStep
  <2>7. MeKnown' /\ meWhy' \in BOOLEAN
    BY <1>0, <2>1, <2>3, <2>6, MeStep DEF MeKnown
  <2>8. SiteKnown'
    BY <1>0, <1>1, <2>5, SavesSame
  <2>9. /\ form' \in Forms \cup {NoForm}
        /\ form' # NoForm =>
                 /\ form'.on = p
                 /\ p = "welcome" \/ (p = "settings" /\ me.data # Absent)
                 /\ \A c : FieldsKnown(form', Compared(p, c, me.data))
    BY <1>0, <2>1, <2>2, FormOpens DEF ProfileTypes
  <2>10. ProfileTypes'
    <3>1. at' \in [page: Screens \cup MyHandles, going: MyHandles \cup {NoPage}]
      BY <2>1, <2>2
    <3>2. card' \in [given: Names, name: Names, late: BOOLEAN]
      BY <1>0, <2>1, NoCardTyped DEF ProfileTypes
    <3> QED
      BY <1>0, <1>1, <2>3, <2>5, <2>7, <2>9, <3>1, <3>2 DEF ProfileTypes, Named
  <2>11. FormPlaced'
    BY <2>2, <2>3, <2>9 DEF FormPlaced
  <2>12. SavePlaced'
    BY <1>0, <1>1, <2>5 DEF SavePlaced, Named
  <2>13. FormKnown'
    <3>1. form' # NoForm => Compared(form.on, card, me.data)' = Compared(p, NoCard, me.data)
      BY <2>3, <2>9 DEF Compared, Current
    <3> QED
      BY <2>3, <2>9, <3>1 DEF FormKnown, FieldsKnown
  <2>14. CardKnown'
    BY <2>2 DEF CardKnown
  <2> QED
    BY <2>7, <2>8, <2>10, <2>11, <2>12, <2>13, <2>14 DEF ProfileIInv
<1> QED
  BY <1>2, <1>3

\* The page arrives.
LEMMA StepArrive == ASSUME ProfileIInv, ArriveAt PROVE ProfileIInv'
<1>0. ProfileTypes /\ FormPlaced /\ SavePlaced /\ FormKnown /\ CardKnown /\ SiteKnown /\ MeKnown
  BY DEF ProfileIInv
<1> DEFINE h == at.going
           p == site[h].page
           late == IF p # card.given THEN p # account.name ELSE card.late
           name == IF p # card.given THEN p ELSE card.name
           c == [given |-> p, name |-> name, late |-> late]
<1>1. /\ at.going # NoPage /\ p # Absent /\ UNCHANGED <<account, me, site, meWhy>>
      /\ at' = [page |-> IF p = Gone THEN "missing" ELSE h, going |-> NoPage]
  BY DEF ArriveAt
<1>2. /\ h \in MyHandles /\ p \in Names \cup {Gone} /\ account.name \in Names
      /\ card \in [given: Names, name: Names, late: BOOLEAN]
  BY <1>0, <1>1 DEF ProfileTypes, SiteOK, Accounts
<1>3. /\ at' \in [page: Screens \cup MyHandles, going: MyHandles \cup {NoPage}]
      /\ at'.page = IF p = Gone THEN "missing" ELSE h
      /\ "missing" \notin MyHandles
  BY <1>1, <1>2 DEF Screens
<1>4. CASE at.page = h /\ p # Gone
  <2>1. /\ card' = c /\ save' = save
        /\ form' = IF form = NoForm THEN form
                   ELSE Drift(form, Current("card", card, me), Current("card", c, me))
    BY <1>4 DEF ArriveAt
  <2>2. /\ card' \in [given: Names, name: Names, late: BOOLEAN]
        /\ card'.name = name /\ card'.late = late
    <3>1. name \in Names /\ late \in BOOLEAN
      BY <1>2, <1>4
    <3> HIDE DEF name, late
    <3> QED
      BY <1>2, <1>4, <2>1, <3>1
  <2>3. CardKnown'
    BY <1>0, <1>1, <1>3, <1>4, <2>2 DEF CardKnown
  <2>4. at'.page = at.page
    BY <1>3, <1>4
  <2>5. /\ form' \in Forms \cup {NoForm} /\ (form' = NoForm <=> form = NoForm)
        /\ form # NoForm => /\ form'.on = form.on /\ form.on = "card"
                            /\ FieldsKnown(form', Current("card", c, me))
    <3>1. CASE form = NoForm
      BY <2>1, <3>1
    <3>2. CASE form # NoForm
      <4> DEFINE old == Current("card", card, me)
                 new == Current("card", c, me)
      <4>1. form \in Forms /\ form.on = "card"
        BY <1>0, <1>2, <1>4, <3>2 DEF ProfileTypes, FormPlaced
      <4>2. FieldsKnown(form, old)
        BY <1>0, <3>2, <4>1 DEF FormKnown, Compared, Current
      <4>3. form' = Drift(form, old, new)
        BY <2>1, <3>2
      <4> HIDE DEF old, new
      <4>4. form' \in Forms /\ form'.on = form.on /\ FieldsKnown(form', new)
        BY <4>1, <4>2, <4>3, FormDrifts
      <4> QED
        BY <3>2, <4>1, <4>4 DEF new
    <3> QED
      BY <3>1, <3>2
  <2>6. FormKnown'
    <3>1. form # NoForm => Compared(form.on, card, me.data)' = Current("card", card', me)
      BY <2>4, <2>5 DEF Compared, Current
    <3>2. form # NoForm => FieldsKnown(form', Current("card", card', me))
      BY <2>1, <2>5
    <3> HIDE DEF c
    <3> QED
      BY <2>5, <3>1, <3>2 DEF FormKnown, FieldsKnown
  <2> HIDE DEF c, h, p, late, name
  <2>7. ProfileTypes'
    BY <1>0, <1>1, <1>3, <2>1, <2>2, <2>5 DEF ProfileTypes, Named
  <2>8. FormPlaced' /\ SavePlaced'
    BY <1>0, <1>1, <2>1, <2>4, <2>5 DEF FormPlaced, SavePlaced, Named
  <2>9. SiteKnown' /\ MeKnown'
    BY <1>0, <1>1, <2>1, SavesSame
  <2> QED
    BY <2>3, <2>6, <2>7, <2>8, <2>9 DEF ProfileIInv
<1>5. CASE ~(at.page = h /\ p # Gone)
  <2>1. /\ card' = IF p = Gone THEN NoCard
                   ELSE [given |-> p, name |-> p, late |-> p # Content(h)]
        /\ form' = NoForm /\ save' = Left
    BY <1>5 DEF ArriveAt
  <2>2. /\ save' \in Saves \cup {NoSave} /\ (save = NoSave <=> save' = NoSave)
        /\ save # NoSave =>
                 /\ ~save'.here /\ save'.body = save.body /\ save'.from = save.from
                 /\ save'.stage = save.stage /\ save'.answer = save.answer
                 /\ save'.changed = save.changed /\ save'.paths = save.paths
    BY <1>0, <2>1, LeftIs
  <2>3. SiteKnown' /\ MeKnown'
    BY <1>0, <1>1, <2>2, SavesSame
  <2>4. card' \in [given: Names, name: Names, late: BOOLEAN] /\ CardKnown'
    <3>1. CASE p = Gone
      BY <1>0, <1>3, <2>1, <3>1, NoCardTyped DEF ProfileTypes, CardKnown
    <3>2. CASE p # Gone
      <4> DEFINE b == p # Content(h)
      <4>1. card' = [given |-> p, name |-> p, late |-> b] /\ b \in BOOLEAN /\ p \in Names
        BY <1>2, <2>1, <3>2
      <4>2. b \/ p = Content(h)
        OBVIOUS
      <4>3. account.handle = h => Content(h) = account.name
        BY DEF Content
      <4> HIDE DEF b, p, h
      <4>4. card' \in [given: Names, name: Names, late: BOOLEAN] /\ card'.name = p /\ card'.late = b
        BY <4>1
      <4> QED
        BY <1>1, <1>3, <3>2, <4>2, <4>3, <4>4 DEF CardKnown
    <3> QED
      BY <3>1, <3>2
  <2> HIDE DEF c, h, p, late, name
  <2>5. ProfileTypes'
    BY <1>0, <1>1, <1>3, <2>1, <2>2, <2>4 DEF ProfileTypes, Named
  <2>6. FormPlaced' /\ FormKnown'
    BY <2>1 DEF FormPlaced, FormKnown
  <2>7. SavePlaced'
    BY <1>0, <1>1, <2>2 DEF SavePlaced, Named
  <2> QED
    BY <2>3, <2>4, <2>5, <2>6, <2>7 DEF ProfileIInv
<1> QED
  BY <1>4, <1>5

\* The account a save makes.
LEMMA UpdatedTyped ==
    ASSUME ProfileTypes, SavePlaced, save # NoSave, save.body.handle \notin TakenHandles
    PROVE  Updated \in Accounts /\ (Named => Updated.handle \in MyHandles)
<1> DEFINE n == IF save.body["name"] = Keep THEN account.name ELSE save.body["name"]
           h == IF save.body["handle"] = Keep THEN account.handle ELSE save.body["handle"]
<1>1. n \in Names /\ h \in MyHandles \cup {Nameless} /\ (Named => h \in MyHandles)
  BY DEF ProfileTypes, SavePlaced, Accounts, Named
<1>2. Updated = [x \in {"name", "handle"} |-> IF x = "name" THEN n ELSE h]
  BY DEF Updated, Fields
<1> HIDE DEF n, h
<1>3. Updated = [name |-> n, handle |-> h]
  BY <1>2
<1> QED
  BY <1>1, <1>3 DEF Accounts

\* The PATCH is applied.
LEMMA StepServerSaves == ASSUME ProfileIInv, ServerSaves PROVE ProfileIInv'
<1>0. ProfileTypes /\ FormPlaced /\ SavePlaced /\ FormKnown /\ CardKnown /\ SiteKnown /\ MeKnown
  BY DEF ProfileIInv
<1> DEFINE ch == {account.handle, Updated.handle} \cap MyHandles
           late == card.late \/ card.name # Updated.name
<1>1. /\ save # NoSave /\ save \in Saves /\ save.stage = "sent" /\ save.body.handle \notin TakenHandles
      /\ account' = Updated /\ UNCHANGED <<me, site, at, form>> /\ MeMayErr(FALSE)
      /\ save' = [save EXCEPT !.stage = "applied", !.answer = Updated, !.changed = ch]
      /\ card' = IF at.page \in MyHandles THEN [card EXCEPT !.late = late] ELSE card
  BY <1>0 DEF ServerSaves, ProfileTypes
<1>2. Updated \in Accounts /\ (Named => Updated.handle \in MyHandles)
  BY <1>0, <1>1, UpdatedTyped
<1>3. /\ ch \in SUBSET MyHandles
      /\ \A h \in MyHandles \ ch : account.handle # h /\ Updated.handle # h
      /\ late \in BOOLEAN /\ (late \/ card.name = Updated.name)
  BY <1>0 DEF ProfileTypes
<1> HIDE DEF ch, late
<1>4. /\ save' \in Saves /\ save' # NoSave /\ save'.stage = "applied" /\ save'.here = save.here
      /\ save'.body = save.body /\ save'.from = save.from /\ save'.answer = Updated
      /\ save'.changed = ch
  <2>1. save' \in Saves
    BY <1>1, <1>2, <1>3 DEF Saves
  <2> QED
    BY <1>1, <2>1 DEF Saves
<1>5. /\ card' \in [given: Names, name: Names, late: BOOLEAN] /\ card'.name = card.name
      /\ at.page \in MyHandles => card'.late = late
  <2>1. card \in [given: Names, name: Names, late: BOOLEAN]
    BY <1>0 DEF ProfileTypes
  <2> QED
    BY <1>1, <1>3, <2>1
<1>6. SiteKnown'
  <2> SUFFICES ASSUME NEW h \in MyHandles, ~AwaitsBust(h)'
               PROVE  PageGood(site'[h], Content(h)')
    BY DEF SiteKnown
  <2>1. h \notin ch
    BY <1>4 DEF AwaitsBust
  <2>2. Content(h)' = Content(h)
    BY <1>1, <1>3, <2>1 DEF Content
  <2>3. ~AwaitsBust(h)
    BY <1>0, <1>1 DEF AwaitsBust, SavePlaced
  <2> QED
    BY <1>0, <1>1, <2>2, <2>3 DEF SiteKnown
<1>7. MeKnown' /\ meWhy' \in BOOLEAN
  <2>1. MeInStep'
    BY <1>1, <1>4 DEF MeInStep
  <2> QED
    BY <1>0, <1>1, <2>1, MeStep DEF ProfileTypes
<1>8. CardKnown'
  BY <1>1, <1>3, <1>5 DEF CardKnown
<1>9. ProfileTypes'
  BY <1>0, <1>1, <1>2, <1>4, <1>5, <1>7 DEF ProfileTypes, Named
<1>10. FormPlaced'
  BY <1>0, <1>1, <1>2 DEF FormPlaced, Named
<1>11. SavePlaced'
  BY <1>0, <1>1, <1>2, <1>4 DEF SavePlaced, Named
<1>12. FormKnown'
  <2>1. form # NoForm => Compared(form.on, card, me.data)' = Compared(form.on, card, me.data)
    BY <1>1, <1>5 DEF Compared, Current
  <2> QED
    BY <1>0, <1>1, <2>1 DEF FormKnown, FieldsKnown
<1> QED
  BY <1>6, <1>7, <1>8, <1>9, <1>10, <1>11, <1>12 DEF ProfileIInv

\* The answer in me.
LEMMA AnswerTyped ==
    ASSUME ProfileTypes, save.answer \in Accounts
    PROVE  /\ AnswerSet \in Queries(Accounts \cup {Absent})
           /\ AnswerSet.data = save.answer /\ AnswerSet.fetch = me.fetch
           /\ MeAfterSave \in Queries(Accounts \cup {Absent})
           /\ MeAfterSave.data = save.answer /\ MeAfterSave.fetch.on
           /\ MeAfterSave.fetch.read = Absent /\ ~MeAfterSave.fetch.late
<1>1. me \in Queries(Accounts \cup {Absent}) /\ save.answer # Absent
  BY DEF ProfileTypes
<1>2. AnswerSet = [me EXCEPT !.data = save.answer, !.outdated = FALSE]
  BY <1>1 DEF AnswerSet, SetQueryData
<1>3. AnswerSet \in Queries(Accounts \cup {Absent})
  BY <1>1, QueriesClosed DEF AnswerSet
<1>4. AnswerSet.data = save.answer /\ AnswerSet.fetch = me.fetch
  BY <1>1, <1>2 DEF Queries
<1>5. MeAfterSave \in Queries(Accounts \cup {Absent})
  BY <1>3, QueriesClosed DEF MeAfterSave
<1>6. /\ MeAfterSave.data = save.answer /\ MeAfterSave.fetch.on
      /\ MeAfterSave.fetch.read = Absent /\ ~MeAfterSave.fetch.late
  <2> HIDE DEF AnswerSet
  <2>1. MeAfterSave = Begin([AnswerSet EXCEPT !.outdated = TRUE, !.fetch = NoFetch])
    BY <1>1, <1>4 DEF MeAfterSave, Invalidate
  <2>2. [AnswerSet EXCEPT !.outdated = TRUE, !.fetch = NoFetch].fetch = NoFetch
    BY <1>3 DEF Queries
  <2> QED
    BY <1>3, <1>4, <2>1, <2>2 DEF Begin, NoFetch, Queries
<1> QED
  BY <1>3, <1>4, <1>5, <1>6

\* The first username is claimed.
LEMMA StepClaimSucceeds == ASSUME ProfileIInv, ClaimSucceeds PROVE ProfileIInv'
<1>0. ProfileTypes /\ FormPlaced /\ SavePlaced /\ FormKnown /\ CardKnown /\ SiteKnown /\ MeKnown
  BY DEF ProfileIInv
<1>1. /\ save # NoSave /\ save.stage = "applied" /\ me' = AnswerSet
      /\ at' = [page |-> "home", going |-> NoPage] /\ form' = NoForm /\ save' = NoSave
      /\ site' = Unbusted(site, save.changed) /\ card' = NoCard /\ account' = account
      /\ MeMayErr(me.fetch.on)
  BY DEF ClaimSucceeds
<1>2. /\ save.answer \in Accounts /\ (save.answer.handle \in MyHandles => Named)
  BY <1>0, <1>1 DEF SavePlaced
<1>3. /\ me' \in Queries(Accounts \cup {Absent}) /\ me'.data = save.answer /\ me'.fetch = me.fetch
      /\ me.fetch.on \in BOOLEAN
  BY <1>0, <1>1, <1>2, AnswerTyped DEF ProfileTypes, Queries, Fetches
<1>4. /\ SiteOK(site') /\ \A h \in MyHandles \ save.changed : site'[h] = site[h]
      /\ \A h \in MyHandles \cap save.changed : \A c : PageGood(site'[h], c)
  BY <1>0, <1>1, Busts DEF ProfileTypes
<1>5. SiteKnown'
  <2>1. \A h \in MyHandles : Content(h)' = Content(h) /\ (AwaitsBust(h) => h \in save.changed)
    BY <1>1 DEF Content, AwaitsBust
  <2> QED
    BY <1>0, <1>4, <2>1 DEF SiteKnown
<1>6. MeKnown' /\ meWhy' \in BOOLEAN
  <2>1. ~meWhy /\ ~me.fetch.on => MeInStep'
    BY <1>0, <1>1, <1>3 DEF MeKnown, MeInStep, MeFaithful
  <2> QED
    BY <1>0, <1>1, <1>3, <2>1, MeStep
<1>7. "home" \in Screens /\ "home" \notin MyHandles
  BY DEF Screens
<1>8. ProfileTypes'
  <2>1. card' \in [given: Names, name: Names, late: BOOLEAN]
    BY <1>0, <1>1, NoCardTyped DEF ProfileTypes
  <2> QED
    BY <1>0, <1>1, <1>2, <1>3, <1>4, <1>6, <1>7, <2>1 DEF ProfileTypes, Named
<1>9. FormPlaced' /\ SavePlaced' /\ FormKnown' /\ CardKnown'
  BY <1>1, <1>7 DEF FormPlaced, SavePlaced, FormKnown, CardKnown
<1> QED
  BY <1>5, <1>6, <1>8, <1>9 DEF ProfileIInv

\* The answer to a save, and the paths it revalidates.
LEMMA StepSaveSucceeds == ASSUME ProfileIInv, SaveSucceeds PROVE ProfileIInv'
<1>0. ProfileTypes /\ FormPlaced /\ SavePlaced /\ FormKnown /\ CardKnown /\ SiteKnown /\ MeKnown
  BY DEF ProfileIInv
<1> DEFINE handle == IF save.from = "settings" /\ save.here
                     THEN Current("settings", card, me.data).handle ELSE save.handle
           paths == {handle, save.answer.handle} \cap MyHandles
<1>1. /\ save # NoSave /\ save \in Saves /\ save.stage = "applied" /\ me' = MeAfterSave
      /\ save' = [save EXCEPT !.stage = "saved", !.handle = handle, !.paths = paths]
      /\ form' = IF form = NoForm THEN form ELSE FormOnMe(at.page, form, me')
      /\ UNCHANGED <<account, site, at, card>> /\ MeMayErr(FALSE)
  BY <1>0 DEF SaveSucceeds, ProfileTypes
<1>2. save.answer \in Accounts /\ (save.answer.handle \in MyHandles => Named)
  BY <1>0, <1>1 DEF SavePlaced
<1>3. handle \in MyHandles \cup {Invalid} /\ paths \in SUBSET MyHandles
  <2>1. CASE save.from = "settings" /\ save.here
    <3>1. me.data \in Accounts
      BY <1>0, <1>1, <2>1 DEF SavePlaced, FormPlaced, ProfileTypes, Queries
    <3> QED
      BY <2>1, <3>1, SettingsCompare
  <2>2. CASE ~(save.from = "settings" /\ save.here)
    <3>1. save.handle \in MyHandles \cup {Invalid}
      BY <1>1 DEF Saves
    <3> QED
      BY <2>2, <3>1
  <2> QED
    BY <2>1, <2>2
<1> HIDE DEF handle, paths
<1>4. /\ save' \in Saves /\ save' # NoSave /\ save'.stage = "saved" /\ save'.here = save.here
      /\ save'.body = save.body /\ save'.from = save.from /\ save'.answer = save.answer
      /\ save'.changed = save.changed
  <2>1. save' \in Saves
    BY <1>1, <1>3 DEF Saves
  <2> QED
    BY <1>1, <2>1 DEF Saves
<1>5. /\ me' \in Queries(Accounts \cup {Absent}) /\ me'.data = save.answer /\ me'.fetch.on
      /\ me'.fetch.read = Absent /\ me'.data # Absent
  BY <1>0, <1>1, <1>2, AnswerTyped
<1>6. MeKnown' /\ meWhy' \in BOOLEAN
  <2>1. MeInStep'
    BY <1>4, <1>5 DEF MeInStep, MeFaithful
  <2> QED
    BY <1>0, <1>1, <1>5, <2>1, MeStep
<1>7. SiteKnown'
  <2>1. \A h : Content(h)' = Content(h) /\ (AwaitsBust(h) => AwaitsBust(h)')
    BY <1>1, <1>4 DEF Content, AwaitsBust
  <2> QED
    BY <1>0, <1>1, <2>1 DEF SiteKnown
<1>8. /\ form' \in Forms \cup {NoForm} /\ (form' = NoForm <=> form = NoForm)
      /\ form' # NoForm =>
            /\ form'.on = form.on
            /\ form'.on = (IF at.page \in MyHandles THEN "card" ELSE at.page)
            /\ FieldsKnown(form', Compared(form'.on, card, me'.data))
  BY <1>0, <1>1, <1>5, FormStays DEF ProfileTypes
<1>9. ProfileTypes'
  BY <1>0, <1>1, <1>2, <1>4, <1>5, <1>6, <1>8 DEF ProfileTypes, Named
<1>10. FormPlaced'
  BY <1>0, <1>1, <1>5, <1>8 DEF FormPlaced, Named
<1>11. SavePlaced'
  BY <1>0, <1>1, <1>4, <1>8 DEF SavePlaced, Named
<1>12. FormKnown'
  <2>1. form' # NoForm => Compared(form.on, card, me.data)' = Compared(form'.on, card, me'.data)
    BY <1>1 DEF Compared, Current
  <2> QED
    BY <1>8, <2>1 DEF FormKnown, FieldsKnown
<1>13. CardKnown'
  BY <1>0, <1>1 DEF CardKnown
<1> QED
  BY <1>6, <1>7, <1>9, <1>10, <1>11, <1>12, <1>13 DEF ProfileIInv

\* The save is over, and the page is left for the new username.
LEMMA StepSaveDone == ASSUME ProfileIInv, SaveDone PROVE ProfileIInv'
<1>0. ProfileTypes /\ FormPlaced /\ SavePlaced /\ FormKnown /\ CardKnown /\ SiteKnown /\ MeKnown
  BY DEF ProfileIInv
<1> DEFINE hs == save.changed \ save.paths
           going == IF save.answer.handle # save.handle THEN save.answer.handle
                    ELSE IF at.page \in MyHandles /\ at.going = NoPage THEN at.page ELSE at.going
           late == save.answer.name # account.name
           c == [given |-> card.given, name |-> save.answer.name, late |-> late]
<1>1. /\ save # NoSave /\ save.stage = "busted" /\ save' = NoSave /\ site' = Unbusted(site, hs)
      /\ UNCHANGED <<account, me, meWhy>>
  BY DEF SaveDone
<1>2. /\ save.answer \in Accounts /\ save.answer.name \in Names
      /\ save.from = "card" => save.answer.handle \in MyHandles
      /\ at \in [page: Screens \cup MyHandles, going: MyHandles \cup {NoPage}]
      /\ card \in [given: Names, name: Names, late: BOOLEAN]
  BY <1>0, <1>1 DEF SavePlaced, ProfileTypes, Accounts
<1>3. /\ at' \in [page: Screens \cup MyHandles, going: MyHandles \cup {NoPage}]
      /\ at'.page = at.page
  <2>1. CASE save.from = "card"
    <3>1. at' = [at EXCEPT !.going = going] /\ going \in MyHandles \cup {NoPage}
      BY <1>2, <2>1 DEF SaveDone
    <3> HIDE DEF going
    <3> QED
      BY <1>2, <3>1
  <2>2. CASE save.from # "card"
    BY <1>2, <2>2 DEF SaveDone
  <2> QED
    BY <2>1, <2>2
<1>4. /\ SiteOK(site') /\ \A h \in MyHandles \ hs : site'[h] = site[h]
      /\ \A h \in MyHandles \cap hs : \A x : PageGood(site'[h], x)
  BY <1>0, <1>1, Busts DEF ProfileTypes
<1>5. SiteKnown'
  <2>1. \A h \in MyHandles : Content(h)' = Content(h) /\ (AwaitsBust(h) => h \in hs)
    BY <1>1 DEF Content, AwaitsBust
  <2> QED
    BY <1>0, <1>4, <2>1 DEF SiteKnown
<1>6. MeKnown'
  <2>1. MeFaithful' <=> MeFaithful
    BY <1>1 DEF MeFaithful
  <2> QED
    BY <1>0, <1>1, <2>1 DEF MeKnown, MeInStep
<1>7. CASE save.from = "card" /\ save.here
  <2>1. card' = [CardSaved(save.answer.name) EXCEPT !.late = save.answer.name # account.name]
        /\ form' = NoForm
    BY <1>7 DEF SaveDone
  <2>2. late \in BOOLEAN /\ (late \/ save.answer.name = account.name)
    OBVIOUS
  <2>3. card' = [[card EXCEPT !.name = save.answer.name] EXCEPT !.late = late]
    BY <2>1 DEF CardSaved
  <2> HIDE DEF late
  <2>4. card' \in [given: Names, name: Names, late: BOOLEAN] /\ card'.late = late
        /\ card'.name = save.answer.name
    BY <1>2, <2>2, <2>3
  <2>5. CardKnown' /\ FormPlaced' /\ FormKnown' /\ SavePlaced'
    BY <1>1, <2>1, <2>2, <2>4 DEF CardKnown, FormPlaced, FormKnown, SavePlaced
  <2>6. ProfileTypes'
    BY <1>0, <1>1, <1>3, <1>4, <2>1, <2>4 DEF ProfileTypes, Named
  <2> QED
    BY <1>5, <1>6, <2>5, <2>6 DEF ProfileIInv
<1>8. CASE ~(save.from = "card" /\ save.here)
  <2>1. UNCHANGED <<form, card>>
    BY <1>8 DEF SaveDone
  <2>2. CardKnown' /\ FormPlaced' /\ SavePlaced'
    BY <1>0, <1>1, <1>3, <2>1 DEF CardKnown, FormPlaced, SavePlaced, Named
  <2>3. FormKnown'
    BY <1>0, <1>1, <1>3, <2>1 DEF FormKnown, FieldsKnown, Compared, Current
  <2>4. ProfileTypes'
    BY <1>0, <1>1, <1>3, <1>4, <2>1 DEF ProfileTypes, Named
  <2> QED
    BY <1>5, <1>6, <2>2, <2>3, <2>4 DEF ProfileIInv
<1> QED
  BY <1>7, <1>8

\* The save fails at any of its stages.
LEMMA StepSaveFails == ASSUME ProfileIInv, SaveFails PROVE ProfileIInv'
<1>0. ProfileTypes /\ FormPlaced /\ SavePlaced /\ FormKnown /\ CardKnown /\ SiteKnown /\ MeKnown
  BY DEF ProfileIInv
<1> DEFINE hs == IF save.stage = "busted" THEN save.changed \ save.paths ELSE save.changed
<1>1. /\ save # NoSave /\ save' = NoSave /\ site' = Unbusted(site, hs)
      /\ UNCHANGED <<account, me, at, card, form>> /\ MeMayErr(save.stage = "applied")
  BY DEF SaveFails
<1>2. /\ SiteOK(site') /\ \A h \in MyHandles \ hs : site'[h] = site[h]
      /\ \A h \in MyHandles \cap hs : \A x : PageGood(site'[h], x)
  BY <1>0, <1>1, Busts DEF ProfileTypes
<1>3. SiteKnown'
  <2>1. \A h \in MyHandles : Content(h)' = Content(h) /\ (AwaitsBust(h) => h \in hs)
    BY <1>1 DEF Content, AwaitsBust
  <2> QED
    BY <1>0, <1>2, <2>1 DEF SiteKnown
<1>4. MeKnown' /\ meWhy' \in BOOLEAN
  <2>1. MeFaithful' <=> MeFaithful
    BY <1>1 DEF MeFaithful
  <2>2. ~meWhy /\ save.stage # "applied" => MeInStep'
    BY <1>0, <1>1, <2>1 DEF MeKnown, MeInStep
  <2>3. me' \in Queries(Accounts \cup {Absent})
    BY <1>0, <1>1 DEF ProfileTypes
  <2> QED
    BY <1>0, <1>1, <2>2, <2>3, MeStep
<1>5. ProfileTypes'
  BY <1>0, <1>1, <1>2, <1>4 DEF ProfileTypes, Named
<1>6. FormPlaced' /\ SavePlaced' /\ CardKnown'
  BY <1>0, <1>1 DEF FormPlaced, SavePlaced, CardKnown, Named
<1>7. FormKnown'
  BY <1>0, <1>1 DEF FormKnown, FieldsKnown, Compared, Current
<1> QED
  BY <1>3, <1>4, <1>5, <1>6, <1>7 DEF ProfileIInv

\* Another tab saves.
LEMMA StepOtherTab == ASSUME ProfileIInv, OtherTab PROVE ProfileIInv'
<1>0. ProfileTypes /\ FormPlaced /\ SavePlaced /\ FormKnown /\ CardKnown /\ SiteKnown /\ MeKnown
  BY DEF ProfileIInv
<1> DEFINE hs == {account.handle, account'.handle} \cap MyHandles
           late == card.late \/ card.name # account'.name
<1>1. /\ account' \in [name: Names, handle: MyHandles] /\ site' = Busted(site, hs)
      /\ UNCHANGED <<me, at, form, save>> /\ MeMayErr(TRUE)
      /\ card' = IF at.page \in MyHandles THEN [card EXCEPT !.late = late] ELSE card
  BY DEF OtherTab
<1>2. account' \in Accounts /\ Named'
  BY <1>1 DEF Accounts, Named
<1>3. /\ SiteOK(site') /\ \A h \in MyHandles \ hs : site'[h] = site[h]
      /\ \A h \in MyHandles \cap hs : \A x : PageGood(site'[h], x)
  BY <1>0, <1>1, Busts DEF ProfileTypes
<1>4. \A h \in MyHandles \ hs : Content(h)' = Content(h)
  BY DEF Content
<1>5. SiteKnown'
  <2>1. \A h : AwaitsBust(h)' <=> AwaitsBust(h)
    BY <1>1 DEF AwaitsBust
  <2> QED
    BY <1>0, <1>3, <1>4, <2>1 DEF SiteKnown
<1>6. MeKnown' /\ meWhy' \in BOOLEAN
  <2>1. me' \in Queries(Accounts \cup {Absent})
    BY <1>0, <1>1 DEF ProfileTypes
  <2> QED
    BY <1>0, <1>1, <2>1, MeStep
<1>7. late \in BOOLEAN /\ (late \/ card.name = account'.name)
  BY <1>0 DEF ProfileTypes
<1> HIDE DEF late, hs
<1>8. /\ card' \in [given: Names, name: Names, late: BOOLEAN] /\ card'.name = card.name
      /\ at.page \in MyHandles => card'.late = late
  <2>1. card \in [given: Names, name: Names, late: BOOLEAN]
    BY <1>0 DEF ProfileTypes
  <2> QED
    BY <1>1, <1>7, <2>1
<1>9. ProfileTypes'
  BY <1>0, <1>1, <1>2, <1>3, <1>6, <1>8 DEF ProfileTypes
<1>10. FormPlaced' /\ SavePlaced'
  BY <1>0, <1>1, <1>2 DEF FormPlaced, SavePlaced
<1>11. CardKnown'
  BY <1>1, <1>7, <1>8 DEF CardKnown
<1>12. FormKnown'
  <2>1. form # NoForm => Compared(form.on, card, me.data)' = Compared(form.on, card, me.data)
    BY <1>1, <1>8 DEF Compared, Current
  <2> QED
    BY <1>0, <1>1, <2>1 DEF FormKnown, FieldsKnown
<1> QED
  BY <1>5, <1>6, <1>9, <1>10, <1>11, <1>12 DEF ProfileIInv

\* The query for the user's own account.
LEMMA StepMe == ASSUME ProfileIInv, MeRead \/ MeLands PROVE ProfileIInv'
<1>0. ProfileTypes /\ FormPlaced /\ SavePlaced /\ FormKnown /\ CardKnown /\ SiteKnown /\ MeKnown
  BY DEF ProfileIInv
<1>1. UNCHANGED <<account, site, at, card, save>> /\ MeMayErr(FALSE)
  BY DEF MeRead, MeLands
<1>2. me \in Queries(Accounts \cup {Absent}) /\ account \in Accounts
  BY <1>0 DEF ProfileTypes
<1>3. SiteKnown' /\ CardKnown'
  BY <1>0, <1>1, SavesSame DEF CardKnown
<1>4. /\ me' \in Queries(Accounts \cup {Absent}) /\ (MeFaithful => MeFaithful')
      /\ me'.data # Absent /\ me'.data.handle \in MyHandles => Named
      /\ me'.fetch.read # Absent /\ me'.fetch.read.handle \in MyHandles => Named
      /\ form' \in Forms \cup {NoForm}
      /\ form # NoForm => form' # NoForm /\ form'.on = form.on
      /\ form' # NoForm =>
            /\ form'.on = (IF at.page \in MyHandles THEN "card" ELSE at.page)
            /\ form'.on = "settings" => me'.data # Absent
            /\ form'.on = "card" => Named
            /\ FieldsKnown(form', Compared(form'.on, card, me'.data))
  <2>1. CASE MeRead
    <3>1. me.fetch.on /\ me' = ServerReads(me, account) /\ form' = form
      BY <2>1 DEF MeRead
    <3>2. me' \in Queries(Accounts \cup {Absent})
      BY <1>2, <3>1, QueriesClosed
    <3>3. /\ me'.data = me.data /\ me'.fetch.read = account /\ me'.fetch.on = me.fetch.on
          /\ me'.fetch.late = me.fetch.late
      BY <1>2, <3>1 DEF ServerReads, Queries, Fetches
    <3>4. MeFaithful => MeFaithful'
      BY <1>1, <3>1, <3>3 DEF MeFaithful
    <3>5. account.handle \in MyHandles => Named
      BY DEF Named
    <3> QED
      BY <1>0, <3>1, <3>2, <3>3, <3>4, <3>5 DEF ProfileTypes, FormPlaced, FormKnown
  <2>2. CASE MeLands
    <3>1. me.fetch.on /\ me.fetch.read # Absent /\ me' = Landed(me)
          /\ form' = FormOnMe(at.page, form, me')
      BY <2>2 DEF MeLands, CanLand
    <3>2. me' \in Queries(Accounts \cup {Absent})
      BY <1>2, <3>1, QueriesClosed
    <3>3. /\ me'.data = me.fetch.read /\ me'.fetch.read = Absent /\ ~me'.fetch.on
          /\ me'.lapsed = me.fetch.late
      BY <3>1 DEF Landed, NoFetch
    <3>4. MeFaithful => MeFaithful'
      BY <1>1, <3>1, <3>3 DEF MeFaithful
    <3>5. /\ form' \in Forms \cup {NoForm}
          /\ form # NoForm => form' # NoForm
          /\ form' # NoForm =>
                /\ form'.on = (IF at.page \in MyHandles THEN "card" ELSE at.page)
                /\ form # NoForm => form'.on = form.on
                /\ form'.on = "card" => form # NoForm /\ form.on = "card"
                /\ FieldsKnown(form', Compared(form'.on, card, me'.data))
      BY <1>0, <3>1, <3>2, <3>3, FormStays
    <3> QED
      BY <1>0, <3>1, <3>2, <3>3, <3>4, <3>5 DEF ProfileTypes, FormPlaced
  <2> QED
    BY <2>1, <2>2
<1>5. MeKnown' /\ meWhy' \in BOOLEAN
  <2>1. ~meWhy => MeInStep'
    BY <1>0, <1>1, <1>4 DEF MeKnown, MeInStep
  <2> QED
    BY <1>0, <1>1, <1>4, <2>1, MeStep
<1>6. Named' <=> Named
  BY <1>1 DEF Named
<1>7. ProfileTypes'
  BY <1>0, <1>1, <1>4, <1>5, <1>6 DEF ProfileTypes
<1>8. FormPlaced' /\ SavePlaced'
  BY <1>0, <1>1, <1>4, <1>6 DEF FormPlaced, SavePlaced
<1>9. FormKnown'
  <2>1. form' # NoForm => Compared(form.on, card, me.data)' = Compared(form'.on, card, me'.data)
    BY <1>1 DEF Compared, Current
  <2> QED
    BY <1>4, <2>1 DEF FormKnown, FieldsKnown
<1> QED
  BY <1>3, <1>5, <1>7, <1>8, <1>9 DEF ProfileIInv

\* At first no page was rendered and no form is open.
LEMMA ProfileIInit == ProfilePagesInit => ProfileIInv
<1> SUFFICES ASSUME ProfilePagesInit
             PROVE  ProfileIInv
  OBVIOUS
<1>1. account \in Accounts /\ me = Begin(NewQuery) /\ form = NoForm /\ save = NoSave
      /\ meWhy = FALSE
  BY DEF ProfilePagesInit, Accounts
<1>2. me \in Queries(Accounts \cup {Absent}) /\ me.data = Absent /\ me.fetch.on
      /\ me.fetch.read = Absent
  <2>1. NewQuery \in Queries(Accounts \cup {Absent})
    BY NewQueries
  <2>2. me \in Queries(Accounts \cup {Absent})
    BY <1>1, <2>1, QueriesClosed
  <2> QED
    BY <1>1, <2>2 DEF Begin, NewQuery, NoFetch
<1>3. \A h \in MyHandles : site[h] = [page |-> Absent, render |-> NoRender, stale |-> FALSE]
  BY DEF ProfilePagesInit
<1>4. SiteOK(site)
  BY <1>3 DEF ProfilePagesInit, SiteOK
<1>5. SiteKnown
  BY <1>3 DEF SiteKnown, PageGood
<1>6. /\ at \in [page: Screens \cup MyHandles, going: MyHandles \cup {NoPage}]
      /\ at.page \notin MyHandles
  BY DEF ProfilePagesInit, Screens
<1>7. card \in [given: Names, name: Names, late: BOOLEAN]
  BY <1>1, NoCardTyped DEF ProfilePagesInit
<1>8. ProfileTypes
  BY <1>1, <1>2, <1>4, <1>6, <1>7 DEF ProfileTypes
<1>9. FormPlaced /\ SavePlaced /\ FormKnown /\ CardKnown
  BY <1>1, <1>6 DEF FormPlaced, SavePlaced, FormKnown, CardKnown
<1>10. MeKnown
  BY <1>1, <1>2 DEF MeKnown, MeInStep, MeFaithful
<1> QED
  BY <1>5, <1>8, <1>9, <1>10 DEF ProfileIInv

\* One case for every action of the profile pages.
LEMMA ProfileINext ==
    ASSUME ProfileIInv, [ProfilePagesNext]_profileVars
    PROVE  ProfileIInv'
<1>1. CASE UNCHANGED profileVars
  <2>1. UNCHANGED <<account, me, site, at, card, form, save, meWhy>>
    BY <1>1 DEF profileVars
  <2>2. SiteKnown' /\ MeKnown'
    BY <2>1, SavesSame DEF ProfileIInv
  <2>3. ProfileTypes' /\ FormPlaced' /\ SavePlaced' /\ CardKnown'
    BY <2>1 DEF ProfileIInv, ProfileTypes, FormPlaced, SavePlaced, CardKnown, Named
  <2>4. FormKnown'
    BY <2>1 DEF ProfileIInv, FormKnown, FieldsKnown, Compared, Current
  <2> QED
    BY <2>2, <2>3, <2>4 DEF ProfileIInv
<1>2. CASE ProfilePagesNext
  BY <1>2, StepRender, StepRevalidate, StepForm, StepGoTo, StepArrive, StepServerSaves,
     StepClaimSucceeds, StepSaveSucceeds, StepSaveDone, StepSaveFails, StepOtherTab, StepMe
     DEF ProfilePagesNext
<1> QED
  BY <1>1, <1>2

\* The inductive invariant of the profiles has their promises in it.
LEMMA ProfileIImplies == ProfileIInv => ProfilePagesInv
<1> SUFFICES ASSUME ProfileIInv
             PROVE  ProfilePagesInv
  OBVIOUS
<1>0. ProfileTypes /\ FormPlaced /\ SavePlaced /\ FormKnown /\ CardKnown /\ SiteKnown /\ MeKnown
  BY DEF ProfileIInv
<1>1. ProfilePagesTypeOK
  <2>1. me.data \in Accounts \cup {Absent} /\ me.fetch.read \in Accounts \cup {Absent}
    BY <1>0 DEF ProfileTypes, Queries, Fetches
  <2>2. /\ DOMAIN site = MyHandles
        /\ \A h \in MyHandles :
              /\ site[h].page \in Names \cup {Gone, Absent}
              /\ site[h].render \in Renders \cup {NoRender}
              /\ site[h].stale => site[h].page # Absent
    BY <1>0 DEF ProfileTypes, SiteOK
  <2>3. save # NoSave => \A x \in Fields : save.body[x] # Invalid
    BY <1>0 DEF SavePlaced, Fields
  <2> QED
    BY <1>0, <2>1, <2>2, <2>3 DEF ProfileTypes, FormPlaced, SavePlaced, ProfilePagesTypeOK
<1>2. PagesFreshOrExplained
  BY <1>0 DEF SiteKnown, AwaitsBust, PageGood, PagesFreshOrExplained
<1>3. CardShowsSaved
  BY <1>0 DEF CardKnown, CardShowsSaved
<1>4. MeExplained
  BY <1>0 DEF MeKnown, MeInStep, MeFaithful, MeExplained
<1> QED
  BY <1>1, <1>2, <1>3, <1>4 DEF ProfilePagesInv

\* A profile page that is kept, the card and me show the profile as it is once
\* nothing is being saved, or it is known why not, for any names and usernames
\* and any number of changes, here and in other tabs.
THEOREM ProfilePagesSound == ProfilePagesSpec => []ProfilePagesInv
<1>1. ProfilePagesSpec => []ProfileIInv
  BY ProfileIInit, ProfileINext, PTL DEF ProfilePagesSpec
<1> QED
  BY <1>1, ProfileIImplies, PTL

\* The form sends a field only if it was typed, or has changed under the form.
THEOREM PatchSendsTyped == ProfilePagesSpec => PatchIsMinimal
<1>1. ProfilePagesSpec => []ProfileIInv
  BY ProfileIInit, ProfileINext, PTL DEF ProfilePagesSpec
<1>2. ASSUME ProfileIInv, [ProfilePagesNext]_profileVars
      PROVE  [(save = NoSave /\ save' # NoSave) => \A x \in Fields :
                 save'.body[x] # Keep => x \in form.typed \cup form.drifted]_profileVars
  <2> SUFFICES ASSUME ProfilePagesNext, save = NoSave, save' # NoSave,
                      NEW x \in Fields, save'.body[x] # Keep
               PROVE  x \in form.typed \cup form.drifted
    BY <1>2
  <2>1. Submit
    BY DEF ProfilePagesNext, ArriveAt, GoTo, Left, ClickEdit, CancelForm, ServerSaves,
           ClaimSucceeds, SaveSucceeds, RevalidateProfile, SaveDone, SaveFails, OtherTab,
           MeRead, MeLands, TypeField, Render, RenderStores
  <2>2. form # NoForm /\ CanSubmit /\ Body[x] # Keep
    BY <2>1 DEF Submit, CanSubmit
  <2>3. FieldsKnown(form, Compared(form.on, card, me.data))
    BY <1>2, <2>2 DEF ProfileIInv, FormKnown
  <2>4. CASE form.on = "welcome"
    <3>1. x = "handle" /\ form["handle"] # Invalid
      BY <2>2, <2>4 DEF Body, CanSubmit, Fields
    <3> QED
      BY <2>3, <2>4, <3>1 DEF FieldsKnown, Compared
  <2>5. CASE form.on # "welcome"
    <3>1. form[x] # Current(form.on, card, me.data)[x]
      BY <2>2, <2>5 DEF Body, BuildUpdate
    <3> QED
      BY <2>3, <2>5, <3>1 DEF FieldsKnown, Compared
  <2> QED
    BY <2>4, <2>5
<1> QED
  BY <1>1, <1>2, PTL DEF ProfilePagesSpec, PatchIsMinimal
=============================================================================
