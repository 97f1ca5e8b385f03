------------------------------- MODULE Groups -------------------------------
(***************************************************************************)
(* Friend groups of the API (apps/api/src/modules/groups), at the grain of *)
(* one database statement.                                                 *)
(*                                                                         *)
(* Every endpoint is an async function: between two awaited Prisma calls   *)
(* any other request may run, on this instance or on another, so each      *)
(* await is a step of its own and req[r] is the handler's local state.     *)
(* insertMember runs in $transaction, which Postgres executes READ         *)
(* COMMITTED: its three statements each see what is committed when they    *)
(* run, so they too are three steps.  A handler that throws (400, 403,     *)
(* 404, 409, or a Prisma error on a row that vanished) answers and changes *)
(* nothing further: its slot becomes Idle.  The read-only endpoints        *)
(* (listMine, detail, invitePreview) and the detail view that ends the     *)
(* mutations change no state and are left out.                             *)
(***************************************************************************)
EXTENDS Naturals, FiniteSets

CONSTANTS
    Users,        \* accounts; no endpoint deletes one
    Public,       \* users with isPublic; no endpoint changes it
    Handles,      \* usernames that can be claimed
    GroupIds,     \* group uuids, never reused
    Codes,        \* invite codes; newInviteCode never repeats one
    Names,        \* group names
    Requests,     \* slots for requests in flight
    None,         \* SQL NULL, or a local variable not yet assigned
    MemberLimit,  \* GROUP_MEMBER_LIMIT (50 in the code)
    OwnedLimit    \* GROUPS_OWNED_LIMIT (20 in the code)

ASSUME NoneAssumption ==
    None \notin Users \cup Handles \cup GroupIds \cup Codes \cup Names
ASSUME PublicAssumption == Public \subseteq Users
ASSUME LimitsAssumption ==
    MemberLimit \in Nat \ {0} /\ OwnedLimit \in Nat \ {0}
ASSUME RequestsAssumption == IsFiniteSet(Requests)
ASSUME UsersAssumption == IsFiniteSet(Users)
ASSUME GroupIdsAssumption == IsFiniteSet(GroupIds)

VARIABLES
    handle,   \* User.username
    live,     \* ids of the rows of Group
    born,     \* ids ever given to a group
    owner,    \* Group.ownerId
    name,     \* Group.name
    code,     \* Group.inviteCode
    issued,   \* invite codes generated so far
    retired,  \* invite codes that a rotation or a deletion withdrew
    members,  \* the rows of GroupMember, by group
    req       \* the request handlers in flight

groupVars == <<live, born, owner, name, code, issued, retired>>
vars == <<handle, live, born, owner, name, code, issued, retired,
          members, req>>

-----------------------------------------------------------------------------

Ops == {"create", "join", "rename", "rotate", "remove", "add", "kick"}

\* Where a handler is: the statement it runs next.
Steps == {"requireHandle", "countOwned", "insertGroup", "findByInvite",
          "requireOwner", "findMembership", "findTarget", "writeGroup",
          "findExisting", "countMembers", "insertRow", "deleteRow"}

Idle == [op |-> None, pc |-> "idle", user |-> None, group |-> None,
         arg |-> None, target |-> None, asOwner |-> FALSE, late |-> FALSE]

Request ==
    [op: Ops \cup {None},
     pc: Steps \cup {"idle"},
     user: Users \cup {None},
     group: GroupIds \cup {None},
     arg: Handles \cup Codes \cup Names \cup {None},  \* body or last path part
     target: Users \cup {None},    \* the member to insert or delete
     asOwner: BOOLEAN,             \* ownerId = userId, as findMembership read it
     late: BOOLEAN]                \* history: the invite was retired at arrival

TypeOK ==
    /\ handle \in [Users -> Handles \cup {None}]
    /\ born \subseteq GroupIds
    /\ live \subseteq born
    /\ owner \in [GroupIds -> Users \cup {None}]
    /\ name \in [GroupIds -> Names \cup {None}]
    /\ code \in [GroupIds -> Codes \cup {None}]
    /\ issued \subseteq Codes
    /\ retired \subseteq issued
    /\ members \in [GroupIds -> SUBSET Users]
    /\ req \in [Requests -> Request]

\* A fresh database: accounts exist, nobody has claimed a handle yet.
Init ==
    /\ handle = [u \in Users |-> None]
    /\ live = {}
    /\ born = {}
    /\ owner = [g \in GroupIds |-> None]
    /\ name = [g \in GroupIds |-> None]
    /\ code = [g \in GroupIds |-> None]
    /\ issued = {}
    /\ retired = {}
    /\ members = [g \in GroupIds |-> {}]
    /\ req = [r \in Requests |-> Idle]

-----------------------------------------------------------------------------
\* What happens to users meanwhile, as far as groups depend on it.

\* updateMe: claim or change the unique username; a taken one answers 409.
ClaimHandle(u, h) ==
    /\ \A v \in Users : handle[v] # h
    /\ handle' = [handle EXCEPT ![u] = h]
    /\ UNCHANGED <<groupVars, members, req>>

-----------------------------------------------------------------------------
\* Requests arrive, from sessions of any user.  A join remembers, as history,
\* whether its code was retired by then.

Arrive(r, request) ==
    /\ req[r] = Idle
    /\ req' = [req EXCEPT ![r] = request]
    /\ UNCHANGED <<handle, groupVars, members>>

StartCreate(r, u, n) ==
    Arrive(r, [Idle EXCEPT !.op = "create", !.pc = "requireHandle",
                           !.user = u, !.arg = n])

StartJoin(r, u, c) ==
    Arrive(r, [Idle EXCEPT !.op = "join", !.pc = "requireHandle",
                           !.user = u, !.arg = c, !.late = c \in retired])

StartRename(r, u, g, n) ==
    Arrive(r, [Idle EXCEPT !.op = "rename", !.pc = "requireOwner",
                           !.user = u, !.group = g, !.arg = n])

StartRotate(r, u, g) ==
    Arrive(r, [Idle EXCEPT !.op = "rotate", !.pc = "requireOwner",
                           !.user = u, !.group = g])

StartRemove(r, u, g) ==
    Arrive(r, [Idle EXCEPT !.op = "remove", !.pc = "requireOwner",
                           !.user = u, !.group = g])

StartAddMember(r, u, g, h) ==
    Arrive(r, [Idle EXCEPT !.op = "add", !.pc = "requireOwner",
                           !.user = u, !.group = g, !.arg = h])

StartRemoveMember(r, u, g, h) ==
    Arrive(r, [Idle EXCEPT !.op = "kick", !.pc = "findMembership",
                           !.user = u, !.group = g, !.arg = h])

-----------------------------------------------------------------------------
\* The statements of the handlers.

\* r is about to run the statement s.
At(r, s) == req[r].pc = s

Goto(r, s) == req' = [req EXCEPT ![r].pc = s]

\* The handler answers (with a result or an error) and is gone.
Answer(r) == req' = [req EXCEPT ![r] = Idle]

\* Mutant: a user without a username is let through.
RequireHandle_Skipped(r) ==
    /\ At(r, "requireHandle")
    /\ Goto(r, IF req[r].op = "create" THEN "countOwned" ELSE "findByInvite")
    /\ UNCHANGED <<handle, groupVars, members>>

\* requireHandle: 400 for a user who has not claimed a username.
RequireHandle(r) ==
    /\ At(r, "requireHandle")
    /\ IF handle[req[r].user] = None THEN Answer(r)
       ELSE Goto(r, IF req[r].op = "create" THEN "countOwned" ELSE "findByInvite")
    /\ UNCHANGED <<handle, groupVars, members>>

Owned(u) == {g \in live : owner[g] = u}

\* create: the count that guards GROUPS_OWNED_LIMIT.
CountOwned(r) ==
    /\ At(r, "countOwned")
    /\ IF Cardinality(Owned(req[r].user)) >= OwnedLimit THEN Answer(r)
       ELSE Goto(r, "insertGroup")
    /\ UNCHANGED <<handle, groupVars, members>>

\* create: the nested insert of the group and of its owner's membership.
InsertGroup(r) ==
    /\ At(r, "insertGroup")
    /\ \E g \in GroupIds \ born, c \in Codes \ issued :
          /\ live' = live \cup {g}
          /\ born' = born \cup {g}
          /\ owner' = [owner EXCEPT ![g] = req[r].user]
          /\ name' = [name EXCEPT ![g] = req[r].arg]
          /\ code' = [code EXCEPT ![g] = c]
          /\ issued' = issued \cup {c}
          /\ members' = [members EXCEPT ![g] = {req[r].user}]
    /\ Answer(r)
    /\ UNCHANGED <<handle, retired>>

\* join: findByInvite.
FindByInvite(r) ==
    /\ At(r, "findByInvite")
    /\ \/ \E g \in live :
             /\ code[g] = req[r].arg
             /\ req' = [req EXCEPT ![r].pc = "findExisting", ![r].group = g,
                                   ![r].target = req[r].user]
       \/ /\ \A g \in live : code[g] # req[r].arg
          /\ Answer(r)
    /\ UNCHANGED <<handle, groupVars, members>>

IsMember(g, u) == g \in live /\ u \in members[g]

\* Mutant: a member will do.
RequireOwner_Member(r) ==
    /\ At(r, "requireOwner")
    /\ IF IsMember(req[r].group, req[r].user)
       THEN Goto(r, IF req[r].op = "add" THEN "findTarget" ELSE "writeGroup")
       ELSE Answer(r)
    /\ UNCHANGED <<handle, groupVars, members>>

\* requireOwner: 404 for non-members, 403 for members.
RequireOwner(r) ==
    /\ At(r, "requireOwner")
    /\ IF IsMember(req[r].group, req[r].user) /\ owner[req[r].group] = req[r].user
       THEN Goto(r, IF req[r].op = "add" THEN "findTarget" ELSE "writeGroup")
       ELSE Answer(r)
    /\ UNCHANGED <<handle, groupVars, members>>

\* removeMember: findMembership, which keeps ownerId for the checks below.
FindMembership(r) ==
    /\ At(r, "findMembership")
    /\ IF IsMember(req[r].group, req[r].user)
       THEN req' = [req EXCEPT ![r].pc = "findTarget",
                               ![r].asOwner = owner[req[r].group] = req[r].user]
       ELSE Answer(r)
    /\ UNCHANGED <<handle, groupVars, members>>

\* addMember: the target must be public.
FindTarget(r) ==
    /\ At(r, "findTarget")
    /\ req[r].op = "add"
    /\ \/ \E t \in Public :
             /\ handle[t] = req[r].arg
             /\ req' = [req EXCEPT ![r].pc = "findExisting", ![r].target = t]
       \/ /\ \A t \in Public : handle[t] # req[r].arg
          /\ Answer(r)
    /\ UNCHANGED <<handle, groupVars, members>>

\* Mutant: any member removes any other.
MayRemove_Anyone(r, t) == t = req[r].user => ~req[r].asOwner

\* removeMember: the owner removes anyone but themselves, a member only
\* themselves.
MayRemove(r, t) == (t = req[r].user) # req[r].asOwner

FindRemoved(r) ==
    /\ At(r, "findTarget")
    /\ req[r].op = "kick"
    /\ \/ \E t \in Users :
             /\ handle[t] = req[r].arg
             /\ MayRemove(r, t)
             /\ req' = [req EXCEPT ![r].pc = "deleteRow", ![r].target = t]
       \/ /\ \A t \in Users : handle[t] = req[r].arg => ~MayRemove(r, t)
          /\ Answer(r)
    /\ UNCHANGED <<handle, groupVars, members>>

\* removeMember: deleteMany; no row left to delete answers 404.
DeleteMember(r) ==
    /\ At(r, "deleteRow")
    /\ members' = [members EXCEPT ![req[r].group] = @ \ {req[r].target}]
    /\ Answer(r)
    /\ UNCHANGED <<handle, groupVars>>

\* insertMember, first statement: an existing member is a no-op.
FindExisting(r) ==
    /\ At(r, "findExisting")
    /\ IF req[r].target \in members[req[r].group] THEN Answer(r)
       ELSE Goto(r, "countMembers")
    /\ UNCHANGED <<handle, groupVars, members>>

\* Mutant: off by one.
CountMembers_OffByOne(r) ==
    /\ At(r, "countMembers")
    /\ IF Cardinality(members[req[r].group]) > MemberLimit THEN Answer(r)
       ELSE Goto(r, "insertRow")
    /\ UNCHANGED <<handle, groupVars, members>>

\* insertMember, second statement: 409 when the group is full.
CountMembers(r) ==
    /\ At(r, "countMembers")
    /\ IF Cardinality(members[req[r].group]) >= MemberLimit THEN Answer(r)
       ELSE Goto(r, "insertRow")
    /\ UNCHANGED <<handle, groupVars, members>>

\* insertMember, third statement: createMany skips a duplicate; the foreign
\* key refuses a group deleted meanwhile.
InsertMember(r) ==
    /\ At(r, "insertRow")
    /\ members' = IF req[r].group \in live
                  THEN [members EXCEPT ![req[r].group] = @ \cup {req[r].target}]
                  ELSE members
    /\ Answer(r)
    /\ UNCHANGED <<handle, groupVars>>

\* rename, rotateInvite: an update of the row (P2025 if it is gone).
Rename(r) ==
    /\ At(r, "writeGroup")
    /\ req[r].op = "rename"
    /\ name' = IF req[r].group \in live
               THEN [name EXCEPT ![req[r].group] = req[r].arg]
               ELSE name
    /\ Answer(r)
    /\ UNCHANGED <<handle, live, born, owner, code, issued, retired, members>>

\* Mutant: the new code is returned and never stored.
RotateInvite_NotStored(r) ==
    /\ At(r, "writeGroup")
    /\ req[r].op = "rotate"
    /\ \E c \in Codes \ issued : issued' = issued \cup {c}
    /\ retired' = IF req[r].group \in live THEN retired \cup {code[req[r].group]}
                  ELSE retired
    /\ Answer(r)
    /\ UNCHANGED <<handle, live, born, owner, name, code, members>>

RotateInvite(r) ==
    /\ At(r, "writeGroup")
    /\ req[r].op = "rotate"
    /\ \E c \in Codes \ issued :
          /\ issued' = issued \cup {c}
          /\ IF req[r].group \in live
             THEN /\ retired' = retired \cup {code[req[r].group]}
                  /\ code' = [code EXCEPT ![req[r].group] = c]
             ELSE UNCHANGED <<retired, code>>
    /\ Answer(r)
    /\ UNCHANGED <<handle, live, born, owner, name, members>>

\* remove: the delete cascades to the memberships (P2025 if it is gone).
RemoveGroup(r) ==
    /\ At(r, "writeGroup")
    /\ req[r].op = "remove"
    /\ LET g == req[r].group IN
       IF g \in live
       THEN /\ live' = live \ {g}
            /\ retired' = retired \cup {code[g]}
            /\ owner' = [owner EXCEPT ![g] = None]
            /\ name' = [name EXCEPT ![g] = None]
            /\ code' = [code EXCEPT ![g] = None]
            /\ members' = [members EXCEPT ![g] = {}]
       ELSE UNCHANGED <<live, retired, owner, name, code, members>>
    /\ Answer(r)
    /\ UNCHANGED <<handle, born, issued>>

-----------------------------------------------------------------------------

Profile(u) == \E h \in Handles : ClaimHandle(u, h)

Start(r, u) ==
    \/ \E n \in Names : StartCreate(r, u, n)
    \/ \E c \in issued : StartJoin(r, u, c)
    \/ \E g \in born :
          \/ \E n \in Names : StartRename(r, u, g, n)
          \/ StartRotate(r, u, g)
          \/ StartRemove(r, u, g)
          \/ \E h \in Handles : StartAddMember(r, u, g, h)
          \/ \E h \in Handles : StartRemoveMember(r, u, g, h)

Handle(r) ==
    \/ RequireHandle(r) \/ CountOwned(r) \/ InsertGroup(r) \/ FindByInvite(r)
    \/ RequireOwner(r) \/ FindMembership(r) \/ FindTarget(r) \/ FindRemoved(r)
    \/ DeleteMember(r) \/ FindExisting(r) \/ CountMembers(r) \/ InsertMember(r)
    \/ Rename(r) \/ RotateInvite(r) \/ RemoveGroup(r)

Next ==
    \/ \E u \in Users : Profile(u)
    \/ \E r \in Requests, u \in Users : Start(r, u)
    \/ \E r \in Requests : Handle(r)

Spec == Init /\ [][Next]_vars

-----------------------------------------------------------------------------
\* Correctness.

\* schema.prisma: "The owner is also a member."  The owner's row is inserted
\* with the group and the check that the owner cannot leave is made two
\* awaits before the delete it guards.
OwnerIsMember == \A g \in live : owner[g] \in members[g]

\* Everybody in a group has a handle to show ("Group membership shows your
\* handle", requireHandle): the detail view drops members without one, so
\* its list would disagree with memberCount.
MembersHaveHandles ==
    \A g \in GroupIds : \A u \in members[g] : handle[u] # None

\* The handlers of g's inserts that passed the count and have yet to insert.
Admitted(g) == {r \in Requests : At(r, "insertRow") /\ req[r].group = g}

\* insertMember counts and inserts in separate READ COMMITTED statements, so
\* a group can outgrow its limit, but only by requests that overlap: with N
\* requests in flight at most N - 1 too many, none when they run one by one.
MemberOvershootBounded ==
    \A g \in live :
        Cardinality(members[g]) + Cardinality(Admitted(g))
            <= MemberLimit + Cardinality(Requests) - 1

\* The creates of u that passed the count and have yet to insert.
Creating(u) == {r \in Requests : At(r, "insertGroup") /\ req[r].user = u}

\* The same for create and the number of groups a user owns.
OwnedOvershootBounded ==
    \A u \in Users :
        Cardinality(Owned(u)) + Cardinality(Creating(u))
            <= OwnedLimit + Cardinality(Requests) - 1

\* Neither limit, of members or of groups a user owns, is overshot by more than
\* the requests that overlap.
OvershootBounded == MemberOvershootBounded /\ OwnedOvershootBounded

\* "New invite code; the old link stops working" (groups.service.ts:166): a
\* request that arrives with a code already rotated away, or of a deleted
\* group, never gets to insert a membership.  A join that looked the code up
\* before the rotation may still land after it.
RetiredInviteNeverAdmits ==
    \A r \in Requests :
        req[r].late => ~(\E s \in {"findExisting", "countMembers", "insertRow"} :
                             At(r, s))

\* The request whose handler answers in this step.
Answers(r) == req[r] # Idle /\ req'[r] = Idle

\* A membership disappears only by the member's own request, or by a request
\* of the group's owner, whatever ran between the check and the delete.
OnlyOwnerOrSelfRemoves ==
    [][\A g \in live : \A u \in members[g] :
          u \notin members'[g] =>
              \E r \in Requests : Answers(r) /\ req[r].user \in {u, owner[g]}]_vars

\* Name, invite code and existence of a group change only by a request of its
\* owner; who owns it never changes while it exists.
OnlyOwnerManages ==
    [][\A g \in live :
          /\ (g \notin live' \/ name'[g] # name[g] \/ code'[g] # code[g]) =>
                 \E r \in Requests : Answers(r) /\ req[r].user = owner[g]
          /\ g \in live' => owner'[g] = owner[g]]_vars

-----------------------------------------------------------------------------
\* Why it is correct: what a handler has read and still relies on.

\* The endpoint, its steps and its parameters fit together.
LocalsOK(q) ==
    \/ q = Idle
    \/ /\ q.user \in Users
       /\ \/ /\ q.op = "create"
             /\ q.pc \in {"requireHandle", "countOwned", "insertGroup"}
             /\ q.arg \in Names
          \/ /\ q.op = "join"
             /\ q.pc \in {"requireHandle", "findByInvite", "findExisting",
                          "countMembers", "insertRow"}
             /\ q.arg \in Codes
          \/ /\ q.op \in {"rename", "rotate", "remove"}
             /\ q.pc \in {"requireOwner", "writeGroup"}
             /\ q.group \in GroupIds
             /\ q.op = "rename" => q.arg \in Names
          \/ /\ q.op = "add"
             /\ q.pc \in {"requireOwner", "findTarget", "findExisting",
                          "countMembers", "insertRow"}
             /\ q.group \in GroupIds
             /\ q.arg \in Handles
          \/ /\ q.op = "kick"
             /\ q.pc \in {"findMembership", "findTarget", "deleteRow"}
             /\ q.group \in GroupIds
             /\ q.arg \in Handles

\* What the handler learnt from the database is still so, although any number
\* of other requests committed since: the group it found existed, the user it
\* will make a member still has a handle, its view of the owner is current,
\* the row it will delete is not the owner's and its user still may delete it,
\* and the group it will change is still its user's.
KnowledgeOK(r) ==
    LET q == req[r] IN
    /\ q.pc \in {"writeGroup", "findTarget", "findExisting", "countMembers",
                 "insertRow", "deleteRow"} => q.group \in born
    /\ q.pc \in {"countOwned", "insertGroup", "findByInvite"} =>
           handle[q.user] # None
    /\ q.pc \in {"findExisting", "countMembers", "insertRow"} =>
           q.target \in Users /\ handle[q.target] # None
    /\ (q.pc = "findTarget" /\ q.op = "kick" /\ q.group \in live) =>
           (q.asOwner <=> owner[q.group] = q.user)
    /\ q.pc = "deleteRow" => q.target \in Users
    /\ (q.pc = "deleteRow" /\ q.group \in live) =>
           q.target # owner[q.group] /\ q.user \in {q.target, owner[q.group]}
    /\ (q.pc = "writeGroup" /\ q.group \in live) => owner[q.group] = q.user
    /\ q.late => /\ q.arg \in retired
                 /\ q.op = "join"
                 /\ q.pc \in {"requireHandle", "findByInvite"}

\* No handler acts on something it read that has since become false.
HandlersOK == \A r \in Requests : LocalsOK(req[r]) /\ KnowledgeOK(r)

\* The rows: foreign keys, and the unique index on inviteCode.
RowsOK ==
    /\ \A g \in live : /\ owner[g] \in Users
                       /\ name[g] \in Names
                       /\ code[g] \in issued \ retired
    /\ \A g \in GroupIds \ live : members[g] = {}
    /\ \A g, h \in live : code[g] = code[h] => g = h

\* The inductive invariant.
IInv == TypeOK /\ HandlersOK /\ RowsOK /\ OwnerIsMember /\ MembersHaveHandles

-----------------------------------------------------------------------------
\* What the repository says of groups and the interleavings above break.

\* packages/shared/src/schemas/group.schema.ts:6, "Most members a group can
\* hold (owner included)".
MemberLimitHolds == \A g \in live : Cardinality(members[g]) <= MemberLimit
=============================================================================
