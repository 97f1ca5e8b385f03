------------------------------ MODULE Follows -------------------------------
(***************************************************************************)
(* Whom the signed-in user follows, as the web client shows it: the search *)
(* results, the following list, the public profiles and the overlay of the *)
(* map, each a query of its own (apps/web/lib/social), the optimistic      *)
(* follow and unfollow that changes several of them at once, rolls them    *)
(* back together and reconciles all of them, and the screens that show     *)
(* them (apps/web/components/social).                                      *)
(*                                                                         *)
(* The list of followers is constant here: none of this user's clicks      *)
(* changes it.  A request fails before its handler ran or loses its answer *)
(* after.                                                                  *)
(***************************************************************************)
EXTENDS Integers, QueryCache

CONSTANTS
    Users,         \* travellers the user may follow
    Followers,     \* those who follow the user
    Fans,          \* followers of each traveller, the user left out
    FollowsBefore, \* whom the user may follow at first
    FollowSlots,   \* follow requests in flight at a time
    MaxFollows,    \* bounds the model: follow requests made
    MaxMoves,      \* bounds the model: pages, tabs and searches the user goes to
    NoFollow       \* a free slot

ASSUME FollowsFollowers == Followers \subseteq Users
ASSUME FollowsFans == Fans \in Nat
ASSUME FollowsBefores == FollowsBefore \subseteq SUBSET Users
ASSUME FollowsBounds == MaxFollows \in Nat /\ MaxMoves \in Nat
\* Pages and queries of a traveller are told from the other ones.
ASSUME FollowsNames == Users \cap {"friends", "map", "following", "search"} = {}

VARIABLES
    viewer,   \* useQuery(["me"]): "loading", "in" or "out"
    followed, \* the rows of Follow in Postgres
    page,     \* the screen: "friends", "map" or the profile of a user
    typed, debounced, \* the search box holds a name; the debounced copy does
    tab,      \* the list below it
    q,        \* the queries
    follows,  \* the mutations in flight
    clicked,  \* follow requests made so far
    moves     \* pages, tabs and searches so far

followVars == <<viewer, followed, page, typed, debounced, tab, q, follows, clicked, moves>>

Keys == {"following", "search", "map"} \cup Users

Profile == [isFollowing: BOOLEAN, followers: Nat]
DataOf(k) == IF k \in Users THEN Profile ELSE SUBSET Users
Values(k) == DataOf(k) \cup {Absent}

Following == {s \in FollowSlots : follows[s] # NoFollow}

\* clean is history: no fetch, rollback or newer change of this user came since.
FollowOp ==
    [user: Users, follow: BOOLEAN, applied: BOOLEAN, clean: BOOLEAN,
     profile: Profile \cup {Absent}, following: (SUBSET Users) \cup {Absent},
     search: (SUBSET Users) \cup {Absent}]
ASSUME FollowsNone ==
    NoFollow \notin FollowOp /\ Absent \notin Profile /\ \A A \in SUBSET Users : A # Absent

FollowsTypeOK ==
    /\ viewer \in {"loading", "in", "out"}
    /\ followed \in SUBSET Users
    /\ page \in {"friends", "map"} \cup Users
    /\ typed \in BOOLEAN /\ debounced \in BOOLEAN
    /\ tab \in {"following", "followers"}
    /\ DOMAIN q = Keys
    /\ \A k \in Keys :
        /\ q[k].data \in Values(k) /\ q[k].fetch.read \in Values(k)
        /\ q[k].outdated \in BOOLEAN /\ q[k].lapsed \in BOOLEAN /\ q[k].fetch.on \in BOOLEAN
        /\ q[k].fetch.on /\ viewer # "in" => FALSE
    /\ \A s \in Following : follows[s] \in FollowOp
    /\ clicked \in 0..MaxFollows /\ moves \in 0..MaxMoves

\* What the API answers to the query k (follows.service.ts, users.service.ts).
Answer(k) ==
    IF k \in Users
    THEN [isFollowing |-> k \in followed,
          followers |-> Fans + IF k \in followed THEN 1 ELSE 0]
    ELSE followed

FollowsInit ==
    /\ viewer = "loading"
    /\ followed \in FollowsBefore
    /\ page \in {"friends", "map"} \cup Users
    /\ typed = FALSE /\ debounced = FALSE
    /\ tab = "following"
    /\ q = [k \in Keys |-> NewQuery]
    /\ follows = [s \in FollowSlots |-> NoFollow]
    /\ clicked = 0 /\ moves = 0

-----------------------------------------------------------------------------
\* Which queries the screen enables.

\* useFollowing, useUserSearch (a name is typed), useFriendsMap, useProfileQuery.
Enabled(k, p, searching) ==
    CASE k = "following" -> p = "friends"
      [] k = "search" -> p = "friends" /\ searching
      [] k = "map" -> p = "map"
      [] OTHER -> p = k
OnScreen(k) == viewer = "in" /\ Enabled(k, page, debounced)

\* Another page or search mounts the queries it did not have before.  A fetch
\* that starts may overwrite what is in flight.
Mounts(p, searching) ==
    LET New == {k \in Keys : Enabled(k, p, searching) /\ ~OnScreen(k)} IN
    /\ \E aged \in SUBSET New :
          q' = [k \in Keys |-> IF k \in New /\ (k \in aged \/ MustFetch(q[k]))
                               THEN Begin(q[k]) ELSE q[k]]
    /\ follows' = [s \in FollowSlots |->
            IF s \in Following /\ q' # q THEN [follows[s] EXCEPT !.clean = FALSE]
            ELSE follows[s]]

\* FriendsScreen and FollowButton wait for me.
MeArrives ==
    /\ viewer = "loading"
    /\ \/ viewer' = "out" /\ UNCHANGED <<q, follows>>
       \/ viewer' = "in" /\ Mounts(page, debounced)
    /\ UNCHANGED <<followed, page, typed, debounced, tab, clicked, moves>>

\* A link, or the back button.
Visit(p) ==
    /\ page' = p /\ page # p
    /\ moves < MaxMoves /\ moves' = moves + 1
    /\ IF viewer = "in" THEN Mounts(p, FALSE) ELSE UNCHANGED <<q, follows>>
    /\ typed' = FALSE /\ debounced' = FALSE /\ tab' = "following"
    /\ UNCHANGED <<viewer, followed, clicked>>

-----------------------------------------------------------------------------
\* FriendsScreen.

Type ==
    /\ viewer = "in" /\ page = "friends"
    /\ moves < MaxMoves /\ moves' = moves + 1
    /\ typed' = ~typed
    /\ UNCHANGED <<viewer, followed, page, debounced, tab, q, follows, clicked>>

\* useDebounced: 300 ms after the last key.
Debounce ==
    /\ page = "friends" /\ debounced # typed
    /\ debounced' = typed
    /\ Mounts(page, typed)
    /\ UNCHANGED <<viewer, followed, page, typed, tab, clicked, moves>>

\* TabButton, below the search.
SelectTab ==
    /\ viewer = "in" /\ page = "friends" /\ ~debounced
    /\ moves < MaxMoves /\ moves' = moves + 1
    /\ tab' = IF tab = "following" THEN "followers" ELSE "following"
    /\ UNCHANGED <<viewer, followed, page, typed, debounced, q, follows, clicked>>

Rows(data) == IF data = Absent THEN {} ELSE data

\* Whether the row of u says "Following", for every row on screen.  The
\* results list everybody, with a flag; the followers take theirs from the
\* following list.
SearchRow(u) == debounced /\ q["search"].data # Absent
ListRow(u) == ~debounced /\ u \in IF tab = "following" THEN Rows(q["following"].data)
                                                        ELSE Followers
RowFollows(u) ==
    IF debounced THEN u \in Rows(q["search"].data) ELSE u \in Rows(q["following"].data)

\* FriendCard: "View on map", for those I follow.
ViewOnMap(u) ==
    /\ viewer = "in" /\ page = "friends"
    /\ (SearchRow(u) \/ ListRow(u)) /\ RowFollows(u)
    /\ Visit("map")

\* FollowButton: on a row, or on the profile with its own query.
ButtonShows(u) ==
    /\ viewer = "in"
    /\ \/ page = "friends" /\ (SearchRow(u) \/ ListRow(u))
       \/ page = u
ButtonFollows(u) ==
    IF page = "friends" THEN RowFollows(u)
    ELSE q[u].data # Absent /\ q[u].data.isFollowing

-----------------------------------------------------------------------------
\* follow-cache.ts

ApplyFollowToProfile(profile, f) ==
    IF profile = Absent THEN Absent
    ELSE [isFollowing |-> f,
          followers |-> IF f THEN profile.followers + 1
                        ELSE IF profile.followers = 0 THEN 0 ELSE profile.followers - 1]

ApplyFollowToSearchResults(rows, u, f) ==
    IF rows = Absent THEN Absent ELSE IF f THEN rows \cup {u} ELSE rows \ {u}

ApplyFollowToFollowingList(rows, u, f) ==
    IF rows = Absent THEN Absent ELSE IF f THEN rows \cup {u} ELSE rows \ {u}

-----------------------------------------------------------------------------
\* use-follow.ts

\* onMutate: cancel, remember and change the queries that show u.
FollowMutation(s, u, f) ==
    LET kept == [k \in {u, "following", "search"} |-> CancelQuery(q[k])] IN
    /\ follows[s] = NoFollow /\ clicked < MaxFollows
    /\ clicked' = clicked + 1
    /\ q' = [k \in Keys |->
            CASE k = u -> SetQueryData(kept[k], ApplyFollowToProfile(kept[k].data, f))
              [] k = "following" ->
                   SetQueryData(kept[k], ApplyFollowToFollowingList(kept[k].data, u, f))
              [] k = "search" ->
                   SetQueryData(kept[k], ApplyFollowToSearchResults(kept[k].data, u, f))
              [] OTHER -> q[k]]
    /\ follows' = [r \in FollowSlots |->
            IF r = s
            THEN [user |-> u, follow |-> f, applied |-> FALSE, clean |-> TRUE,
                  profile |-> kept[u].data, following |-> kept["following"].data,
                  search |-> kept["search"].data]
            ELSE IF r \in Following /\ follows[r].user = u
                 THEN [follows[r] EXCEPT !.clean = FALSE] ELSE follows[r]]
    /\ UNCHANGED <<viewer, followed, page, typed, debounced, tab, moves>>

ClickFollow(s, u) == ButtonShows(u) /\ FollowMutation(s, u, ~ButtonFollows(u))

\* FollowsService.follow and unfollow: both idempotent.
ServerFollows(s) ==
    /\ s \in Following /\ ~follows[s].applied
    /\ follows' = [follows EXCEPT ![s].applied = TRUE]
    /\ followed' = IF follows[s].follow THEN followed \cup {follows[s].user}
                   ELSE followed \ {follows[s].user}
    /\ UNCHANGED <<viewer, page, typed, debounced, tab, q, clicked, moves>>

\* Mutant: the list of those followed is not refetched.
SettleFollow_KeepsList(s, r) ==
    /\ q' = [k \in Keys |-> IF k \in {follows[s].user, "search", "map"}
                            THEN Invalidate(r[k], OnScreen(k)) ELSE r[k]]
    /\ follows' = [t \in FollowSlots |->
            IF t = s THEN NoFollow
            ELSE IF t \in Following THEN [follows[t] EXCEPT !.clean = FALSE] ELSE follows[t]]
    /\ UNCHANGED <<viewer, followed, page, typed, debounced, tab, clicked, moves>>
\* onSettled: every query that shows u.  r are the queries after onError.
SettleFollow(s, r) ==
    /\ q' = [k \in Keys |-> IF k \in {follows[s].user, "following", "search", "map"}
                            THEN Invalidate(r[k], OnScreen(k)) ELSE r[k]]
    /\ follows' = [t \in FollowSlots |->
            IF t = s THEN NoFollow
            ELSE IF t \in Following THEN [follows[t] EXCEPT !.clean = FALSE] ELSE follows[t]]
    /\ UNCHANGED <<viewer, followed, page, typed, debounced, tab, clicked, moves>>

FollowSucceeds(s) == s \in Following /\ follows[s].applied /\ SettleFollow(s, q)

\* onError: the snapshots come back, whatever has changed since.
FollowFails(s) ==
    /\ s \in Following
    /\ SettleFollow(s, [k \in Keys |->
            CASE k = follows[s].user -> SetQueryData(q[k], follows[s].profile)
              [] k = "following" -> SetQueryData(q[k], follows[s].following)
              [] k = "search" -> SetQueryData(q[k], follows[s].search)
              [] OTHER -> q[k]])

-----------------------------------------------------------------------------
\* The requests of the queries.

AnswerRead(k) ==
    /\ q[k].fetch.on /\ q[k].fetch.read = Absent
    /\ q' = [q EXCEPT ![k] = ServerReads(q[k], Answer(k))]
    /\ UNCHANGED <<viewer, followed, page, typed, debounced, tab, follows, clicked, moves>>

AnswerLands(k) ==
    /\ CanLand(q[k])
    /\ q' = [q EXCEPT ![k] = Landed(q[k])]
    /\ UNCHANGED <<viewer, followed, page, typed, debounced, tab, follows, clicked, moves>>

AnswerLost(k) ==
    /\ q[k].fetch.on
    /\ q' = [q EXCEPT ![k] = FetchFailed(q[k])]
    /\ UNCHANGED <<viewer, followed, page, typed, debounced, tab, follows, clicked, moves>>

FollowsNext ==
    \/ MeArrives \/ Type \/ Debounce \/ SelectTab
    \/ \E p \in {"friends", "map"} \cup Users : Visit(p)
    \/ \E u \in Users : ViewOnMap(u)
    \/ \E s \in FollowSlots :
        \/ ServerFollows(s) \/ FollowSucceeds(s) \/ FollowFails(s)
        \/ \E u \in Users : ClickFollow(s, u)
    \/ \E k \in Keys : AnswerRead(k) \/ AnswerLands(k) \/ AnswerLost(k)

FollowsSpec == FollowsInit /\ [][FollowsNext]_followVars

-----------------------------------------------------------------------------
\* Correctness.

\* "rolls all of them back on error and reconciles with the server on settle"
\* (use-follow.ts:85): once nothing is under way every view that is not marked
\* for a refetch shows what the server has, the follower count included, unless
\* its data came from a request that was under way when a change settled and
\* was not started again.
ViewsReconciled ==
    Following = {} => \A k \in Keys :
        q[k].data # Absent /\ ~q[k].fetch.on /\ ~q[k].outdated /\ ~q[k].lapsed
            => q[k].data = Answer(k)

\* "the label flips immediately": until the request settles the profile, the
\* list and the results agree on it, unless a fetch, another settled request or
\* a newer click on the same traveller came in between.
ViewsAgree ==
    \A s \in Following : follows[s].clean =>
        LET u == follows[s].user IN
        /\ q[u].data # Absent => q[u].data.isFollowing = follows[s].follow
        /\ \A k \in {"following", "search"} :
              q[k].data # Absent => (u \in q[k].data <=> follows[s].follow)

\* What the five views of who follows whom promise in every state.
FollowsInv == FollowsTypeOK /\ ViewsReconciled /\ ViewsAgree
=============================================================================
