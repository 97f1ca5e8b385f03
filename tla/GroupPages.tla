----------------------------- MODULE GroupPages -----------------------------
(***************************************************************************)
(* The group screens of the web client (apps/web/components/groups) and    *)
(* the queries behind them (apps/web/lib/groups/use-groups.ts): the list   *)
(* with its form, the page of one group with everything its owner and its  *)
(* members may do there, and the landing page of an invite link.           *)
(*                                                                         *)
(* The model has one group.  What the server does with a request is the    *)
(* outcome of the handlers of module Groups, as one step.  The changes of  *)
(* other members, and of the same user in another tab, are Elsewhere.      *)
(***************************************************************************)
EXTENDS Naturals, FiniteSets, QueryCache

CONSTANTS
    Travellers,    \* who may be in the group
    Me,            \* the user of the browser
    Friends,       \* whom the user follows
    GroupNames,
    GroupsBefore,  \* the groups that may exist at first, or Missing
    ReqSlots,      \* requests in flight at a time
    MaxRequests, MaxTurns, MaxCode, \* bound the model
    Missing,       \* no such group, or not for this user: 404; a refusal
    Done,          \* an answer without content
    NoRequest, Nobody

ASSUME PagesMe == Me \in Travellers /\ Friends \subseteq Travellers \ {Me}

VARIABLES
    my,       \* AuthGate: "loading", "out", "nameless" or "in"
    group,    \* the group in Postgres
    screen,   \* "groups", "group" or "join"
    query,    \* the three queries
    editor,   \* GroupTitle's form
    requests, \* mutations in flight
    why,      \* history: why a view may be wrong
    spent     \* requests so far; changes elsewhere and page changes so far

pageVars == <<my, group, screen, query, editor, requests, why, spent>>

Kinds == {"create", "rename", "rotate", "add", "remove", "leave", "delete", "join"}
Views == {"mine", "group", "invite"}

Pending == {s \in ReqSlots : requests[s] # NoRequest}
PendingKind(k) == \E s \in Pending : requests[s].kind = k

\* The invite link the user was sent.
Link == 0

Details == [name: GroupNames, code: 0..MaxCode, members: SUBSET Travellers, owner: Travellers]
Mutations ==
    [kind: Kinds, arg: Travellers \cup GroupNames \cup {Nobody},
     answer: Details \cup {Done, Missing, Absent}, here: BOOLEAN]

ASSUME GroupsGiven == GroupsBefore \subseteq {g \in Details : g.owner \in g.members} \cup {Missing}
ASSUME GroupsBounds == IsFiniteSet(ReqSlots) /\ MaxCode \in Nat
ASSUME GroupsNone ==
    /\ Details \cap {Done, Missing, Absent} = {} /\ Missing # Absent /\ Done \notin {Missing, Absent}
    /\ NoRequest \notin Mutations

\* findMine, detail and invitePreview of the API.
Serve(v) ==
    CASE v = "mine" -> IF group = Missing THEN {}
                       ELSE IF Me \notin group.members THEN {}
                       ELSE {[name |-> group.name, memberCount |-> Cardinality(group.members)]}
      [] v = "group" -> IF group = Missing THEN Missing
                        ELSE IF Me \in group.members THEN group ELSE Missing
      [] v = "invite" -> IF group = Missing THEN Missing
                         ELSE IF group.code # Link THEN Missing
                         ELSE [name |-> group.name, isMember |-> Me \in group.members]

GroupPagesTypeOK ==
    /\ my \in {"loading", "out", "nameless", "in"}
    /\ group \in Details \cup {Missing}
    /\ screen \in {"groups", "group", "join"}
    /\ query["group"].data \in Details \cup {Absent}
    /\ query["mine"].data = Absent \/ Cardinality(query["mine"].data) <= 1
    /\ editor \in [open: BOOLEAN, name: GroupNames \cup {""}, typed: BOOLEAN, drifted: BOOLEAN]
    /\ requests \in [ReqSlots -> Mutations \cup {NoRequest}]
    /\ \A s, t \in Pending : requests[s].kind = requests[t].kind
                               /\ requests[s].here /\ requests[t].here
                               /\ requests[s].kind # "remove" => s = t
    /\ my # "in" => Pending = {} /\ \A v \in Views : query[v] = NewQuery
    /\ editor.open => screen = "group"
    /\ why \in [group: BOOLEAN, mine: BOOLEAN]

NoEditor(name) == [open |-> FALSE, name |-> name, typed |-> FALSE, drifted |-> FALSE]

PagesInit ==
    /\ my = "loading"
    /\ group \in GroupsBefore
    /\ screen \in {"groups", "group", "join"}
    /\ query = [v \in Views |-> NewQuery]
    /\ editor = NoEditor("")
    /\ requests = [s \in ReqSlots |-> NoRequest]
    /\ why = [group |-> FALSE, mine |-> FALSE]
    /\ spent = [requests |-> 0, moves |-> 0]

-----------------------------------------------------------------------------
\* History: a view may be wrong while two requests that change or fetch it
\* overlap, and after an answer was lost or a change was made elsewhere.

AboutGroup == {s \in Pending : requests[s].kind # "join"}
InFlightNow == Cardinality(AboutGroup) + IF query["group"].fetch.on THEN 1 ELSE 0
Right(v) == query[v].data = Absent \/ query[v].data = Serve(v)
Explain(astray) ==
    why' = [group |-> ~(Right("group")' /\ InFlightNow' = 0)
                      /\ (why.group \/ astray \/ InFlightNow' >= 2),
            mine |-> ~(Right("mine")' /\ ~query'["mine"].fetch.on) /\ (why.mine \/ astray)]

-----------------------------------------------------------------------------
\* Pages and the queries they enable.

Shows(v, p) == p = [mine |-> "groups", group |-> "group", invite |-> "join"][v]
OnPage(v) == my = "in" /\ Shows(v, screen)

\* GroupTitle keeps the name the group had when it was mounted; it is mounted
\* with the data.
Mounted(ed, old, new) ==
    IF new = Absent THEN NoEditor("")
    ELSE IF old = Absent THEN NoEditor(new.name)
    ELSE [ed EXCEPT !.drifted = @ \/ new.name # old.name]

\* Page p is opened, with queries r: forms start anew, and callbacks of the
\* page that was left are not called any more.
Open(p, r, waiting) ==
    /\ screen' = p
    /\ \E aged \in BOOLEAN :
          query' = [v \in Views |-> IF Shows(v, p) /\ (aged \/ MustFetch(r[v]))
                                    THEN Begin(r[v]) ELSE r[v]]
    /\ editor' = IF p = "group" THEN Mounted(editor, Absent, r["group"].data) ELSE NoEditor("")
    /\ requests' = [s \in ReqSlots |-> IF waiting[s] = NoRequest THEN NoRequest
                                       ELSE [waiting[s] EXCEPT !.here = FALSE]]

\* The page stays, with queries r.
Stay(r) ==
    /\ query' = r
    /\ editor' = IF screen = "group"
                 THEN Mounted(editor, query["group"].data, r["group"].data) ELSE editor
    /\ UNCHANGED screen

\* AuthGate: logged out, without a username, or in.
GateOpens ==
    /\ my = "loading"
    /\ \/ my' \in {"out", "nameless"} /\ UNCHANGED <<screen, query, editor, requests>>
       \/ my' = "in" /\ Open(screen, query, requests)
    /\ UNCHANGED <<group, spent>>
    /\ Explain(FALSE)

\* A link or the back button; GroupContent offers "Your groups" to whom it
\* has nothing to show.
FollowLink(p) ==
    /\ p # screen /\ my = "in"
    /\ spent.moves < MaxTurns /\ spent' = [spent EXCEPT !.moves = @ + 1]
    /\ Open(p, query, requests)
    /\ UNCHANGED <<my, group>>
    /\ Explain(FALSE)

-----------------------------------------------------------------------------
\* What the user does on the pages.

Send(s, kind, arg) ==
    /\ requests[s] = NoRequest
    /\ spent.requests < MaxRequests /\ spent' = [spent EXCEPT !.requests = @ + 1]
    /\ requests' = [requests EXCEPT ![s] =
            [kind |-> kind, arg |-> arg, answer |-> Absent, here |-> TRUE]]

\* The buttons are disabled while their own mutation is pending.
Free(kind) == \A s \in Pending : requests[s].kind = kind => ~requests[s].here

\* GroupsList's form; the model's one group is there to be created.
ClickCreate(s, n) ==
    /\ my = "in" /\ screen = "groups" /\ group = Missing /\ Free("create")
    /\ Send(s, "create", n)
    /\ UNCHANGED <<my, group, screen, query, editor>>
    /\ Explain(FALSE)

\* GroupView is there once there is data, also data that is out of date.
ViewOpen == my = "in" /\ screen = "group" /\ query["group"].data # Absent
Shown == query["group"].data
IsOwner == ViewOpen /\ Shown.owner = Me

\* GroupTitle.
OpenEditor ==
    /\ IsOwner /\ ~editor.open
    /\ editor' = [editor EXCEPT !.open = TRUE, !.typed = FALSE]
    /\ UNCHANGED <<my, group, screen, query, requests, why, spent>>
TypeName(n) ==
    /\ editor.open /\ editor.name # n
    /\ editor' = [editor EXCEPT !.name = n, !.typed = TRUE]
    /\ UNCHANGED <<my, group, screen, query, requests, why, spent>>
CancelEdit ==
    /\ editor.open
    /\ editor' = NoEditor(Shown.name)
    /\ UNCHANGED <<my, group, screen, query, requests, why, spent>>

\* Mutant: nothing is compared.
SubmitSends_Always == editor.name # ""
\* A name that is blank or the group's own is not sent.
SubmitSends == editor.name # "" /\ editor.name # Shown.name
ClickRename(s) ==
    /\ editor.open /\ Free("rename")
    /\ \/ SubmitSends /\ Send(s, "rename", editor.name) /\ UNCHANGED editor
       \/ ~SubmitSends /\ editor' = [editor EXCEPT !.open = FALSE] /\ UNCHANGED <<requests, spent>>
    /\ UNCHANGED <<my, group, screen, query>>
    /\ Explain(FALSE)

\* MemberRow, confirmed.
CanRemove(u) == IsOwner /\ u # Shown.owner
ClickRemove(s, u) == ViewOpen /\ u \in Shown.members /\ CanRemove(u) /\ Send(s, "remove", u)
\* Invite.
ClickRotate(s) == IsOwner /\ Free("rotate") /\ Send(s, "rotate", Nobody)
\* AddFromFollowing.
Candidates == Friends \ Shown.members
ClickAdd(s, u) == IsOwner /\ u \in Candidates /\ Free("add") /\ Send(s, "add", u)
\* DangerZone.
ClickDelete(s) == IsOwner /\ Free("delete") /\ Send(s, "delete", Nobody)
ClickLeave(s) == ViewOpen /\ ~IsOwner /\ Free("leave") /\ Send(s, "leave", Me)

\* JoinCard: somebody who is in gets a link to the group instead.
ClickJoin(s) ==
    /\ my = "in" /\ screen = "join" /\ Free("join")
    /\ query["invite"].data # Absent /\ ~query["invite"].data.isMember
    /\ Send(s, "join", Nobody)

Click(s) ==
    /\ \/ ClickRotate(s) \/ ClickDelete(s) \/ ClickLeave(s) \/ ClickJoin(s)
       \/ \E u \in Travellers : ClickRemove(s, u) \/ ClickAdd(s, u)
    /\ UNCHANGED <<my, group, screen, query, editor>>
    /\ Explain(FALSE)

-----------------------------------------------------------------------------
\* The server, as module Groups has it.

Owned == IF group = Missing THEN FALSE ELSE group.owner = Me
MayDo(r) ==
    CASE r.kind = "create" -> group = Missing
      [] r.kind = "join" -> IF group = Missing THEN FALSE ELSE group.code = Link
      [] r.kind = "leave" -> IF group = Missing THEN FALSE
                             ELSE Me \in group.members /\ group.owner # Me
      [] r.kind = "remove" -> IF Owned THEN r.arg \in group.members \ {Me} ELSE FALSE
      [] r.kind = "rotate" -> Owned /\ group.code < MaxCode
      [] OTHER -> Owned
Changed(r) ==
    CASE r.kind = "create" -> [name |-> r.arg, code |-> Link, members |-> {Me}, owner |-> Me]
      [] r.kind = "join" -> [group EXCEPT !.members = @ \cup {Me}]
      [] r.kind \in {"leave", "remove"} -> [group EXCEPT !.members = @ \ {r.arg}]
      [] r.kind = "rename" -> [group EXCEPT !.name = r.arg]
      [] r.kind = "rotate" -> [group EXCEPT !.code = @ + 1]
      [] r.kind = "add" -> [group EXCEPT !.members = @ \cup {r.arg}]
      [] r.kind = "delete" -> Missing
AnswersDetail(r) == r.kind \in {"create", "rename", "rotate", "add"}

Handle(s) ==
    /\ s \in Pending /\ requests[s].answer = Absent
    /\ LET r == requests[s] IN
        IF MayDo(r)
        THEN /\ group' = Changed(r)
             /\ requests' = [requests EXCEPT ![s].answer = IF AnswersDetail(r) THEN group' ELSE Done]
        ELSE group' = group /\ requests' = [requests EXCEPT ![s].answer = Missing]
    /\ UNCHANGED <<my, screen, query, editor, spent>>
    /\ Explain(FALSE)

\* Another member, or another tab.
Elsewhere ==
    /\ spent.moves < MaxTurns /\ spent' = [spent EXCEPT !.moves = @ + 1]
    /\ group # Missing
    /\ \/ group' = Missing
       \/ \E n \in GroupNames : group' = [group EXCEPT !.name = n]
       \/ group.code < MaxCode /\ group' = [group EXCEPT !.code = @ + 1]
       \/ \E u \in Travellers \ {group.owner} : group' = [group EXCEPT !.members = @ \ {u}]
       \/ \E u \in Travellers \ {Me} : group' = [group EXCEPT !.members = @ \cup {u}]
    /\ UNCHANGED <<my, screen, query, editor, requests>>
    /\ Explain(TRUE)

-----------------------------------------------------------------------------
\* use-groups.ts: the answers.

Answered(s) == s \in Pending /\ requests[s].answer \notin {Absent, Missing}
Rest(s) == [requests EXCEPT ![s] = NoRequest]

\* useGroupDetailMutation: a fetch under way is not cancelled.
UseGroupDetailMutation(s) ==
    [query EXCEPT !["group"] = SetQueryData(query["group"], requests[s].answer),
                  !["mine"] = Invalidate(query["mine"], OnPage("mine"))]

\* Mutant: only the list is refreshed.
UseRemoveGroupMember_ListOnly(s) ==
    [query EXCEPT !["mine"] = Invalidate(query["mine"], OnPage("mine"))]
UseRemoveGroupMember(s) ==
    [query EXCEPT !["group"] = Invalidate(query["group"], OnPage("group")),
                  !["mine"] = Invalidate(query["mine"], OnPage("mine"))]

\* removeQueries forgets the group, and a fetch of it.
UseDeleteGroup(s) ==
    [query EXCEPT !["group"] = NewQuery,
                  !["mine"] = Invalidate(query["mine"], OnPage("mine"))]

UseJoinGroup(s) ==
    [query EXCEPT !["mine"] = Invalidate(query["mine"], OnPage("mine"))]

CreateSucceeds(s) ==
    /\ Answered(s) /\ requests[s].kind = "create"
    /\ IF requests[s].here THEN Open("group", UseGroupDetailMutation(s), Rest(s))
       ELSE Stay(UseGroupDetailMutation(s)) /\ requests' = Rest(s)
    /\ UNCHANGED <<my, group, spent>> /\ Explain(FALSE)

\* The form is closed by the call that saved it.
RenameSucceeds(s) ==
    /\ Answered(s) /\ requests[s].kind = "rename"
    /\ query' = UseGroupDetailMutation(s)
    /\ editor' = IF screen # "group" THEN editor
                 ELSE IF query["group"].data = Absent THEN NoEditor(requests[s].answer.name)
                 ELSE IF requests[s].here
                 THEN [editor EXCEPT !.open = FALSE,
                                     !.drifted = @ \/ requests[s].answer.name # editor.name]
                 ELSE [editor EXCEPT !.drifted = @ \/ requests[s].answer.name # Shown.name]
    /\ requests' = Rest(s)
    /\ UNCHANGED <<my, group, screen, spent>> /\ Explain(FALSE)

RotateOrAddSucceeds(s) ==
    /\ Answered(s) /\ requests[s].kind \in {"rotate", "add"}
    /\ Stay(UseGroupDetailMutation(s)) /\ requests' = Rest(s)
    /\ UNCHANGED <<my, group, spent>> /\ Explain(FALSE)

RemoveSucceeds(s) ==
    /\ Answered(s) /\ requests[s].kind = "remove"
    /\ Stay(UseRemoveGroupMember(s)) /\ requests' = Rest(s)
    /\ UNCHANGED <<my, group, spent>> /\ Explain(FALSE)

\* router.push("/groups")
LeaveSucceeds(s) ==
    /\ Answered(s) /\ requests[s].kind = "leave"
    /\ IF requests[s].here THEN Open("groups", UseRemoveGroupMember(s), Rest(s))
       ELSE Stay(UseRemoveGroupMember(s)) /\ requests' = Rest(s)
    /\ UNCHANGED <<my, group, spent>> /\ Explain(FALSE)
DeleteSucceeds(s) ==
    /\ Answered(s) /\ requests[s].kind = "delete"
    /\ IF requests[s].here THEN Open("groups", UseDeleteGroup(s), Rest(s))
       ELSE Stay(UseDeleteGroup(s)) /\ requests' = Rest(s)
    /\ UNCHANGED <<my, group, spent>> /\ Explain(FALSE)

JoinSucceeds(s) ==
    /\ Answered(s) /\ requests[s].kind = "join"
    /\ IF requests[s].here THEN Open("group", UseJoinGroup(s), Rest(s))
       ELSE Stay(UseJoinGroup(s)) /\ requests' = Rest(s)
    /\ UNCHANGED <<my, group, spent>> /\ Explain(FALSE)

\* onError: a toast, and nothing else; the server may have done it.
RequestFails(s) ==
    /\ s \in Pending
    /\ requests' = Rest(s)
    /\ UNCHANGED <<my, group, screen, query, editor, spent>>
    /\ Explain(requests[s].answer \notin {Absent, Missing})

-----------------------------------------------------------------------------
\* The queries' requests.

ServerAnswers(v) ==
    /\ query[v].fetch.on /\ query[v].fetch.read = Absent
    /\ query' = [query EXCEPT ![v] = ServerReads(query[v], Serve(v))]
    /\ UNCHANGED <<my, group, screen, editor, requests, spent>>
    /\ Explain(FALSE)

QueryLands(v) ==
    /\ CanLand(query[v]) /\ query[v].fetch.read # Missing
    /\ Stay([query EXCEPT ![v] = Landed(query[v])])
    /\ UNCHANGED <<my, group, requests, spent>>
    /\ Explain(FALSE)

\* retry: false.  A 404 leaves the data there was, too.
QueryFails(v) ==
    /\ query[v].fetch.on
    /\ query' = [query EXCEPT ![v] = FetchFailed(query[v])]
    /\ UNCHANGED <<my, group, screen, editor, requests, spent>>
    /\ Explain(FALSE)

PagesNext ==
    \/ GateOpens \/ OpenEditor \/ CancelEdit \/ Elsewhere
    \/ \E p \in {"groups", "group", "join"} : FollowLink(p)
    \/ \E n \in GroupNames \cup {""} : TypeName(n)
    \/ \E s \in ReqSlots :
        \/ Click(s) \/ ClickRename(s) \/ Handle(s) \/ RequestFails(s)
        \/ CreateSucceeds(s) \/ RenameSucceeds(s) \/ RotateOrAddSucceeds(s)
        \/ RemoveSucceeds(s) \/ LeaveSucceeds(s) \/ DeleteSucceeds(s) \/ JoinSucceeds(s)
        \/ \E n \in GroupNames : ClickCreate(s, n)
    \/ \E v \in Views : ServerAnswers(v) \/ QueryLands(v) \/ QueryFails(v)

PagesSpec == PagesInit /\ [][PagesNext]_pageVars

-----------------------------------------------------------------------------
\* Correctness.

\* "Mutations that return the updated group: prime its detail cache"
\* (use-groups.ts:46): once nothing is under way and nothing failed the page
\* shows the group as the server has it, unless two requests overlapped (the
\* answer that comes last wins, not the newest), an answer was lost, or the
\* change was made elsewhere.
GroupExplained ==
    InFlightNow = 0 /\ ~query["group"].outdated /\ ~query["group"].lapsed /\ ~why.group
        => Right("group")

\* "refresh the my groups list": after every change of the user the list shows
\* the group as it is, or is marked for a refetch; only lost answers and
\* changes elsewhere leave it wrong.
ListExplained ==
    Pending = {} /\ ~query["mine"].fetch.on /\ ~query["mine"].outdated
      /\ ~query["mine"].lapsed /\ ~why.mine
        => Right("mine")

\* What the pages of a group promise in every state.
GroupPagesInv == GroupPagesTypeOK /\ GroupExplained /\ ListExplained

\* A form that is opened and saved as it is renames the group only if the name
\* has changed under it: the form keeps the name of the time it was mounted.
RenamesAreTyped ==
    [][(PendingKind("rename")' /\ ~PendingKind("rename"))
          => editor.typed \/ editor.drifted]_pageVars
=============================================================================
