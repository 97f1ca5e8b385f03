---------------------------- MODULE GroupsProofs ----------------------------
(***************************************************************************)
(* Theorems about Groups, for any set of users, requests, groups and codes.*)
(* IInv is inductive.  Its core is HandlersOK: what a handler read in one  *)
(* await is still true in the next, because the database only Evolves in   *)
(* ways that cannot falsify it: handles are never given up, a group id is  *)
(* never reused, an owner never changes, a retired code stays retired.     *)
(***************************************************************************)
EXTENDS Groups, FiniteSetTheorems, TLAPS

\* How any step of any handler may change what other handlers have read.
Evolves ==
    /\ \A u \in Users : handle[u] # None => handle'[u] # None
    /\ born \subseteq born'
    /\ live' \cap born \subseteq live
    /\ \A g \in live \cap live' : owner'[g] = owner[g]
    /\ retired \subseteq retired'

\* Only r moves.
Moves(r) ==
    /\ req' = [req EXCEPT ![r] = req'[r]]
    /\ req'[r] \in Request
    /\ LocalsOK(req'[r])
    /\ KnowledgeOK(r)'

\* A handler at rest keeps its knowledge through every evolution.
LEMMA KnowledgeStable ==
    ASSUME TypeOK, Evolves, NEW r \in Requests, req'[r] = req[r],
           LocalsOK(req[r]), KnowledgeOK(r)
    PROVE  KnowledgeOK(r)'
<1>1. req[r] = Idle \/ req[r].user \in Users
  BY DEF LocalsOK
<1>2. CASE req[r] = Idle
  BY <1>2 DEF KnowledgeOK, Idle
<1>3. CASE req[r].user \in Users
  BY <1>3 DEF KnowledgeOK, Evolves, TypeOK
<1> QED
  BY <1>1, <1>2, <1>3

\* If one handler moves soundly, all handlers are sound.
LEMMA HandlersStable ==
    ASSUME TypeOK, HandlersOK, Evolves, NEW r \in Requests, Moves(r)
    PROVE  HandlersOK' /\ req' \in [Requests -> Request]
<1>1. req' \in [Requests -> Request]
  BY DEF Moves, TypeOK
<1>2. ASSUME NEW s \in Requests
      PROVE  LocalsOK(req'[s]) /\ KnowledgeOK(s)'
  <2>1. CASE s = r
    BY <2>1 DEF Moves
  <2>2. CASE s # r
    <3>1. req'[s] = req[s]
      BY <2>2 DEF Moves, TypeOK
    <3> QED
      BY <3>1, KnowledgeStable DEF HandlersOK
  <2> QED
    BY <2>1, <2>2
<1> QED
  BY <1>1, <1>2 DEF HandlersOK

-----------------------------------------------------------------------------
\* A step that only reads the database.

Reads == UNCHANGED <<handle, groupVars, members>>

\* Reading disturbs nothing but the handler that reads.
LEMMA ReadStep ==
    ASSUME IInv, NEW r \in Requests, Moves(r), Reads
    PROVE  IInv'
<1>1. Evolves
  BY DEF Evolves, Reads, groupVars
<1>2. HandlersOK' /\ req' \in [Requests -> Request]
  BY <1>1, HandlersStable DEF IInv
<1> QED
  BY <1>2 DEF IInv, Reads, groupVars, TypeOK, RowsOK,
              OwnerIsMember, MembersHaveHandles

\* A handler that answers is Idle again, which is always sound.
LEMMA AnswerMoves ==
    ASSUME TypeOK, NEW r \in Requests, Answer(r)
    PROVE  Moves(r)
<1>1. Idle \in Request
  BY DEF Idle, Request
<1>2. req'[r] = Idle
  BY DEF Answer, TypeOK
<1>3. req' = [req EXCEPT ![r] = req'[r]]
  BY <1>2 DEF Answer
<1>4. LocalsOK(Idle)
  BY DEF LocalsOK
<1>5. KnowledgeOK(r)'
  BY <1>2 DEF KnowledgeOK, Idle
<1> QED
  BY <1>1, <1>2, <1>3, <1>4, <1>5 DEF Moves

\* Membership is a Boolean, which the provers need to be told of a field.
LEMMA InIsBoolean ==
    ASSUME NEW S, NEW x
    PROVE  (x \in S) \in BOOLEAN
OBVIOUS

\* A new request starts soundly.
LEMMA StartMoves ==
    ASSUME IInv, NEW r \in Requests, NEW u \in Users, Start(r, u)
    PROVE  Moves(r) /\ Reads
<1> USE DEF Arrive, Reads
<1>0. ASSUME NEW q \in Request, Arrive(r, q), LocalsOK(q),
             q.pc \in {"requireHandle", "requireOwner", "findMembership"},
             q.late => q.op = "join" /\ q.arg \in retired /\ q.pc = "requireHandle"
      PROVE  Moves(r) /\ Reads
  <2>1. req'[r] = q /\ req' = [req EXCEPT ![r] = req'[r]]
    BY <1>0 DEF IInv, TypeOK
  <2>2. retired' = retired
    BY <1>0 DEF groupVars
  <2>3. KnowledgeOK(r)'
    BY <1>0, <2>1, <2>2 DEF KnowledgeOK
  <2> QED
    BY <1>0, <2>1, <2>3 DEF Moves
<1> USE DEF IInv, TypeOK, Idle, Request, Ops, Steps, LocalsOK
<1>1. ASSUME NEW n \in Names, StartCreate(r, u, n)
      PROVE  Moves(r) /\ Reads
  BY <1>0, <1>1 DEF StartCreate
<1>2. ASSUME NEW c \in issued, StartJoin(r, u, c)
      PROVE  Moves(r) /\ Reads
  <2> DEFINE q == [Idle EXCEPT !.op = "join", !.pc = "requireHandle",
                               !.user = u, !.arg = c, !.late = c \in retired]
  <2>1. c \in Codes
    OBVIOUS
  <2>2. q \in Request /\ q.op = "join" /\ q.pc = "requireHandle" /\ q.user = u
          /\ q.arg = c /\ q.late = (c \in retired)
    BY <2>1, InIsBoolean
  <2>3. Arrive(r, q)
    BY <1>2 DEF StartJoin
  <2> HIDE DEF q
  <2> QED
    BY <1>0, <2>1, <2>2, <2>3
<1>3. ASSUME NEW g \in born, NEW n \in Names, StartRename(r, u, g, n)
      PROVE  Moves(r) /\ Reads
  BY <1>0, <1>3 DEF StartRename
<1>4. ASSUME NEW g \in born, StartRotate(r, u, g)
      PROVE  Moves(r) /\ Reads
  BY <1>0, <1>4 DEF StartRotate
<1>5. ASSUME NEW g \in born, StartRemove(r, u, g)
      PROVE  Moves(r) /\ Reads
  BY <1>0, <1>5 DEF StartRemove
<1>6. ASSUME NEW g \in born, NEW h \in Handles, StartAddMember(r, u, g, h)
      PROVE  Moves(r) /\ Reads
  BY <1>0, <1>6 DEF StartAddMember
<1>7. ASSUME NEW g \in born, NEW h \in Handles, StartRemoveMember(r, u, g, h)
      PROVE  Moves(r) /\ Reads
  BY <1>0, <1>7 DEF StartRemoveMember
<1> QED
  BY <1>1, <1>2, <1>3, <1>4, <1>5, <1>6, <1>7 DEF Start

\* Goto changes the statement only.
LEMMA GotoMoves ==
    ASSUME TypeOK, NEW r \in Requests, NEW s \in Steps, Goto(r, s)
    PROVE  /\ req' = [req EXCEPT ![r] = req'[r]]
           /\ req'[r] = [req[r] EXCEPT !.pc = s]
           /\ req'[r] \in Request
           /\ req'[r].pc = s
           /\ req'[r].op = req[r].op
           /\ req'[r].user = req[r].user
           /\ req'[r].group = req[r].group
           /\ req'[r].arg = req[r].arg
           /\ req'[r].target = req[r].target
           /\ req'[r].asOwner = req[r].asOwner
           /\ req'[r].late = req[r].late
BY DEF TypeOK, Goto, Request

\* The statements that read leave the handler with sound knowledge.
LEMMA ReadsMove ==
    ASSUME IInv, NEW r \in Requests,
           \/ RequireHandle(r) \/ CountOwned(r) \/ FindByInvite(r)
           \/ RequireOwner(r) \/ FindMembership(r) \/ FindTarget(r)
           \/ FindRemoved(r) \/ FindExisting(r) \/ CountMembers(r)
    PROVE  Moves(r) /\ Reads
<1> USE DEF IInv, At, Reads
<1>0. /\ LocalsOK(req[r]) /\ KnowledgeOK(r) /\ req[r] \in Request
      /\ Answer(r) => Moves(r)
  BY AnswerMoves DEF HandlersOK, TypeOK
<1>1. CASE RequireHandle(r)
  <2>1. CASE handle[req[r].user] = None
    BY <1>0, <1>1, <2>1 DEF RequireHandle
  <2>2. CASE handle[req[r].user] # None
    <3> DEFINE s == IF req[r].op = "create" THEN "countOwned" ELSE "findByInvite"
    <3>1. Goto(r, s) /\ s \in Steps
      BY <1>1, <2>2 DEF RequireHandle, Steps
    <3>2. /\ req[r].user \in Users
          /\ \/ req[r].op = "create" /\ req[r].arg \in Names
             \/ req[r].op = "join" /\ req[r].arg \in Codes
      BY <1>0, <1>1 DEF RequireHandle, LocalsOK, Idle
    <3>3. LocalsOK(req'[r])
      BY <3>1, <3>2, GotoMoves DEF LocalsOK
    <3>4. KnowledgeOK(r)'
      BY <1>0, <1>1, <2>2, <3>1, <3>2, GotoMoves
         DEF RequireHandle, KnowledgeOK, groupVars
    <3> QED
      BY <1>1, <3>1, <3>3, <3>4, GotoMoves DEF RequireHandle, Moves
  <2> QED
    BY <2>1, <2>2
<1>2. CASE CountOwned(r)
  <2>1. Answer(r) \/ Goto(r, "insertGroup")
    BY <1>2 DEF CountOwned
  <2>2. ASSUME Goto(r, "insertGroup")
        PROVE  Moves(r)
    <3>1. "insertGroup" \in Steps
      BY DEF Steps
    <3>2. req[r].user \in Users /\ req[r].op = "create" /\ req[r].arg \in Names
      BY <1>0, <1>2 DEF CountOwned, LocalsOK, Idle
    <3>3. LocalsOK(req'[r])
      BY <2>2, <3>1, <3>2, GotoMoves DEF LocalsOK
    <3>4. KnowledgeOK(r)'
      BY <1>0, <1>2, <2>2, <3>1, <3>2, GotoMoves
         DEF CountOwned, KnowledgeOK, groupVars
    <3> QED
      BY <2>2, <3>1, <3>3, <3>4, GotoMoves DEF Moves
  <2> QED
    BY <1>0, <1>2, <2>1, <2>2 DEF CountOwned
<1>3. CASE FindByInvite(r)
  <2>1. ASSUME NEW g \in live, code[g] = req[r].arg,
               req' = [req EXCEPT ![r].pc = "findExisting", ![r].group = g,
                                  ![r].target = req[r].user]
        PROVE  Moves(r)
    <3>0. /\ req[r].op = "join" /\ req[r].user \in Users /\ req[r].arg \in Codes
      <4>1. req[r].pc = "findByInvite"
        BY <1>3 DEF FindByInvite
      <4> QED
        BY <1>0, <4>1 DEF LocalsOK, Idle
    <3>1. handle[req[r].user] # None /\ ~req[r].late
      BY <1>0, <1>3, <2>1 DEF FindByInvite, KnowledgeOK, RowsOK
    <3>2. /\ req' = [req EXCEPT ![r] = req'[r]]
          /\ req'[r] = [req[r] EXCEPT !.pc = "findExisting", !.group = g,
                                      !.target = req[r].user]
      BY <1>0, <2>1 DEF TypeOK
    <3>3. req'[r] \in Request
      BY <1>0, <3>0, <3>2 DEF TypeOK, Request, Steps
    <3> QED
      BY <1>0, <1>3, <3>0, <3>1, <3>2, <3>3
         DEF FindByInvite, Moves, LocalsOK, KnowledgeOK, Request, TypeOK, groupVars
  <2> QED
    BY <1>0, <1>3, <2>1 DEF FindByInvite
<1>4. CASE RequireOwner(r)
  <2>1. CASE IsMember(req[r].group, req[r].user) /\ owner[req[r].group] = req[r].user
    <3> DEFINE s == IF req[r].op = "add" THEN "findTarget" ELSE "writeGroup"
    <3>1. Goto(r, s) /\ s \in Steps
      BY <1>4, <2>1 DEF RequireOwner, Steps
    <3>2. /\ req[r].user \in Users /\ req[r].group \in live
          /\ \/ req[r].op \in {"rename", "rotate", "remove"}
                /\ (req[r].op = "rename" => req[r].arg \in Names)
             \/ req[r].op = "add" /\ req[r].arg \in Handles
      BY <1>0, <1>4, <2>1 DEF RequireOwner, LocalsOK, Idle, IsMember
    <3>3. LocalsOK(req'[r])
      BY <3>1, <3>2, GotoMoves DEF LocalsOK, TypeOK
    <3>4. KnowledgeOK(r)'
      BY <1>0, <1>4, <2>1, <3>1, <3>2, GotoMoves
         DEF RequireOwner, KnowledgeOK, groupVars, TypeOK
    <3> QED
      BY <1>4, <3>1, <3>3, <3>4, GotoMoves DEF RequireOwner, Moves
  <2> QED
    BY <1>0, <1>4, <2>1 DEF RequireOwner
<1>5. CASE FindMembership(r)
  <2>1. CASE IsMember(req[r].group, req[r].user)
    <3> DEFINE b == owner[req[r].group] = req[r].user
    <3>1. req' = [req EXCEPT ![r].pc = "findTarget", ![r].asOwner = b]
      BY <1>5, <2>1 DEF FindMembership
    <3>2. b \in BOOLEAN
      OBVIOUS
    <3> HIDE DEF b
    <3>3. /\ req' = [req EXCEPT ![r] = req'[r]]
          /\ req'[r] = [req[r] EXCEPT !.pc = "findTarget", !.asOwner = b]
      BY <1>0, <3>1 DEF TypeOK
    <3>4. req'[r] \in Request
      BY <1>0, <3>2, <3>3 DEF TypeOK, Request, Steps
    <3>5. LocalsOK(req'[r])
      BY <1>0, <1>5, <3>3 DEF FindMembership, LocalsOK, Request, Idle
    <3>6. req'[r].asOwner = b /\ req'[r].pc = "findTarget"
            /\ req'[r].group = req[r].group /\ req'[r].user = req[r].user
            /\ req'[r].late = req[r].late
      BY <1>0, <3>3 DEF Request
    <3>7. ~req[r].late /\ req[r].group \in born
      BY <1>0, <1>5, <2>1 DEF FindMembership, KnowledgeOK, IsMember, TypeOK
    <3>8. KnowledgeOK(r)'
      BY <1>5, <3>6, <3>7 DEF FindMembership, KnowledgeOK, groupVars, b
    <3> QED
      BY <1>5, <3>3, <3>4, <3>5, <3>8 DEF FindMembership, Moves
  <2> QED
    BY <1>0, <1>5, <2>1 DEF FindMembership
<1>6. CASE FindTarget(r)
  <2>1. ASSUME NEW t \in Public, handle[t] = req[r].arg,
               req' = [req EXCEPT ![r].pc = "findExisting", ![r].target = t]
        PROVE  Moves(r)
    <3>1. req[r].pc = "findTarget" /\ req[r].op = "add" /\ t \in Users
      BY <1>6, PublicAssumption DEF FindTarget
    <3>2. req[r].user \in Users /\ req[r].group \in GroupIds /\ req[r].arg \in Handles
      BY <1>0, <3>1 DEF LocalsOK, Idle
    <3>3. ~req[r].late /\ req[r].group \in born
      BY <1>0, <3>1 DEF KnowledgeOK
    <3>4. /\ req' = [req EXCEPT ![r] = req'[r]]
          /\ req'[r] = [req[r] EXCEPT !.pc = "findExisting", !.target = t]
      BY <1>0, <2>1 DEF TypeOK
    <3>5. req'[r] \in Request
      BY <1>0, <3>1, <3>4 DEF Request, Steps
    <3>6. LocalsOK(req'[r])
      BY <1>0, <3>1, <3>2, <3>4 DEF LocalsOK, Request
    <3>7. handle[t] # None
      BY <2>1, <3>2, NoneAssumption
    <3>8. KnowledgeOK(r)'
      BY <1>0, <1>6, <3>1, <3>3, <3>4, <3>7
         DEF FindTarget, KnowledgeOK, Request, groupVars
    <3> QED
      BY <3>4, <3>5, <3>6, <3>8 DEF Moves
  <2> QED
    BY <1>0, <1>6, <2>1 DEF FindTarget
<1>7. CASE FindRemoved(r)
  <2>1. ASSUME NEW t \in Users, MayRemove(r, t),
               req' = [req EXCEPT ![r].pc = "deleteRow", ![r].target = t]
        PROVE  Moves(r)
    <3>1. req[r].pc = "findTarget" /\ req[r].op = "kick"
      BY <1>7 DEF FindRemoved
    <3>2. req[r].user \in Users /\ req[r].group \in GroupIds /\ req[r].arg \in Handles
      BY <1>0, <3>1 DEF LocalsOK, Idle
    <3>3. /\ ~req[r].late /\ req[r].group \in born
          /\ req[r].group \in live =>
                 (req[r].asOwner <=> owner[req[r].group] = req[r].user)
      BY <1>0, <3>1 DEF KnowledgeOK
    <3>4. /\ req' = [req EXCEPT ![r] = req'[r]]
          /\ req'[r] = [req[r] EXCEPT !.pc = "deleteRow", !.target = t]
      BY <1>0, <2>1 DEF TypeOK
    <3>5. req'[r] \in Request
      BY <1>0, <3>1, <3>4 DEF Request, Steps
    <3>6. LocalsOK(req'[r])
      BY <1>0, <3>1, <3>2, <3>4 DEF LocalsOK, Request
    <3>7. req[r].group \in live =>
              t # owner[req[r].group] /\ req[r].user \in {t, owner[req[r].group]}
      BY <1>0, <2>1, <3>3 DEF MayRemove, Request
    <3>8. KnowledgeOK(r)'
      BY <1>0, <1>7, <3>1, <3>3, <3>4, <3>7
         DEF FindRemoved, KnowledgeOK, Request, groupVars
    <3> QED
      BY <3>4, <3>5, <3>6, <3>8 DEF Moves
  <2> QED
    BY <1>0, <1>7, <2>1 DEF FindRemoved
<1>8. CASE FindExisting(r)
  <2>1. ASSUME Goto(r, "countMembers")
        PROVE  Moves(r)
    <3>1. "countMembers" \in Steps
      BY DEF Steps
    <3>2. req[r].pc = "findExisting"
      BY <1>8 DEF FindExisting
    <3>3. LocalsOK(req'[r])
      <4>1. /\ req[r].user \in Users
            /\ \/ req[r].op = "join" /\ req[r].arg \in Codes
               \/ /\ req[r].op = "add" /\ req[r].group \in GroupIds
                  /\ req[r].arg \in Handles
        BY <1>0, <3>2 DEF LocalsOK, Idle
      <4> QED
        BY <2>1, <3>1, <4>1, GotoMoves DEF LocalsOK
    <3>4. KnowledgeOK(r)'
      BY <1>0, <1>8, <2>1, <3>1, <3>2, GotoMoves
         DEF FindExisting, KnowledgeOK, groupVars
    <3> QED
      BY <2>1, <3>1, <3>3, <3>4, GotoMoves DEF Moves
  <2> QED
    BY <1>0, <1>8, <2>1 DEF FindExisting
<1>9. CASE CountMembers(r)
  <2>1. ASSUME Goto(r, "insertRow")
        PROVE  Moves(r)
    <3>1. "insertRow" \in Steps
      BY DEF Steps
    <3>2. req[r].pc = "countMembers"
      BY <1>9 DEF CountMembers
    <3>3. LocalsOK(req'[r])
      <4>1. /\ req[r].user \in Users
            /\ \/ req[r].op = "join" /\ req[r].arg \in Codes
               \/ /\ req[r].op = "add" /\ req[r].group \in GroupIds
                  /\ req[r].arg \in Handles
        BY <1>0, <3>2 DEF LocalsOK, Idle
      <4> QED
        BY <2>1, <3>1, <4>1, GotoMoves DEF LocalsOK
    <3>4. KnowledgeOK(r)'
      BY <1>0, <1>9, <2>1, <3>1, <3>2, GotoMoves
         DEF CountMembers, KnowledgeOK, groupVars
    <3> QED
      BY <2>1, <3>1, <3>3, <3>4, GotoMoves DEF Moves
  <2> QED
    BY <1>0, <1>9, <2>1 DEF CountMembers
<1> QED
  BY <1>1, <1>2, <1>3, <1>4, <1>5, <1>6, <1>7, <1>8, <1>9

-----------------------------------------------------------------------------
\* The steps that write.

\* The three statements that insert or delete rows keep the invariant.
LEMMA WritesStep ==
    ASSUME IInv, NEW r \in Requests,
           \/ InsertGroup(r) \/ DeleteMember(r) \/ InsertMember(r)
           \/ Rename(r) \/ RotateInvite(r) \/ RemoveGroup(r)
    PROVE  IInv'
<1> USE DEF IInv, At
<1>0. /\ LocalsOK(req[r]) /\ KnowledgeOK(r) /\ req[r] \in Request
      /\ Answer(r)
      /\ Evolves => HandlersOK' /\ req' \in [Requests -> Request]
  <2>1. Answer(r)
    BY DEF InsertGroup, DeleteMember, InsertMember, Rename, RotateInvite, RemoveGroup
  <2> QED
    BY <2>1, AnswerMoves, HandlersStable DEF HandlersOK, TypeOK
<1>1. CASE InsertGroup(r)
  <2>0. PICK g \in GroupIds \ born, c \in Codes \ issued :
          /\ live' = live \cup {g}
          /\ born' = born \cup {g}
          /\ owner' = [owner EXCEPT ![g] = req[r].user]
          /\ name' = [name EXCEPT ![g] = req[r].arg]
          /\ code' = [code EXCEPT ![g] = c]
          /\ issued' = issued \cup {c}
          /\ members' = [members EXCEPT ![g] = {req[r].user}]
    BY <1>1 DEF InsertGroup
  <2>1. req[r].pc = "insertGroup" /\ UNCHANGED <<handle, retired>>
    BY <1>1 DEF InsertGroup
  <2>2. req[r].user \in Users /\ req[r].arg \in Names
    BY <1>0, <2>1 DEF LocalsOK, Idle
  <2>3. handle[req[r].user] # None
    BY <1>0, <2>1 DEF KnowledgeOK
  <2>4. Evolves
    BY <2>0, <2>1 DEF Evolves, TypeOK
  <2>5. TypeOK' /\ HandlersOK'
    BY <1>0, <2>0, <2>1, <2>2, <2>4 DEF TypeOK
  <2>6. RowsOK'
    BY <2>0, <2>1, <2>2 DEF RowsOK, TypeOK
  <2>7. OwnerIsMember'
    BY <2>0, <2>2 DEF OwnerIsMember, TypeOK
  <2>8. MembersHaveHandles'
    BY <2>0, <2>1, <2>2, <2>3 DEF MembersHaveHandles, TypeOK
  <2> QED
    BY <2>5, <2>6, <2>7, <2>8
<1>2. CASE DeleteMember(r)
  <2> DEFINE g == req[r].group
             t == req[r].target
  <2>1. /\ req[r].pc = "deleteRow" /\ members' = [members EXCEPT ![g] = @ \ {t}]
        /\ UNCHANGED <<handle, live, born, owner, name, code, issued, retired>>
    BY <1>2 DEF DeleteMember, groupVars
  <2>2. g \in GroupIds /\ (g \in live => t # owner[g])
    BY <1>0, <2>1 DEF KnowledgeOK, TypeOK
  <2>3. Evolves
    BY <2>1 DEF Evolves
  <2>4. TypeOK' /\ HandlersOK'
    BY <1>0, <2>1, <2>2, <2>3 DEF TypeOK
  <2>5. RowsOK' /\ OwnerIsMember' /\ MembersHaveHandles'
    BY <2>1, <2>2 DEF RowsOK, OwnerIsMember, MembersHaveHandles, TypeOK
  <2> QED
    BY <2>4, <2>5
<1>3. CASE InsertMember(r)
  <2> DEFINE g == req[r].group
             t == req[r].target
  <2>1. /\ req[r].pc = "insertRow"
        /\ members' = IF g \in live THEN [members EXCEPT ![g] = @ \cup {t}] ELSE members
        /\ UNCHANGED <<handle, live, born, owner, name, code, issued, retired>>
    BY <1>3 DEF InsertMember, groupVars
  <2>2. g \in GroupIds /\ t \in Users /\ handle[t] # None
    BY <1>0, <2>1 DEF KnowledgeOK, TypeOK
  <2>3. Evolves
    BY <2>1 DEF Evolves
  <2>4. TypeOK' /\ HandlersOK'
    BY <1>0, <2>1, <2>2, <2>3 DEF TypeOK
  <2>5. RowsOK' /\ OwnerIsMember' /\ MembersHaveHandles'
    BY <2>1, <2>2 DEF RowsOK, OwnerIsMember, MembersHaveHandles, TypeOK
  <2> QED
    BY <2>4, <2>5
<1>4. CASE Rename(r)
  <2> DEFINE g == req[r].group
  <2>1. /\ req[r].pc = "writeGroup" /\ req[r].op = "rename"
        /\ name' = IF g \in live THEN [name EXCEPT ![g] = req[r].arg] ELSE name
        /\ UNCHANGED <<handle, live, born, owner, code, issued, retired, members>>
    BY <1>4 DEF Rename
  <2>2. req[r].arg \in Names
    BY <1>0, <2>1 DEF LocalsOK, Idle
  <2>3. Evolves
    BY <2>1 DEF Evolves
  <2>4. TypeOK' /\ HandlersOK'
    BY <1>0, <2>1, <2>2, <2>3 DEF TypeOK
  <2>5. RowsOK' /\ OwnerIsMember' /\ MembersHaveHandles'
    BY <2>1, <2>2 DEF RowsOK, OwnerIsMember, MembersHaveHandles, TypeOK
  <2> QED
    BY <2>4, <2>5
<1>5. CASE RotateInvite(r)
  <2> DEFINE g == req[r].group
  <2>0. PICK c \in Codes \ issued :
          /\ issued' = issued \cup {c}
          /\ IF g \in live
             THEN /\ retired' = retired \cup {code[g]}
                  /\ code' = [code EXCEPT ![g] = c]
             ELSE UNCHANGED <<retired, code>>
    BY <1>5 DEF RotateInvite
  <2>1. UNCHANGED <<handle, live, born, owner, name, members>>
    BY <1>5 DEF RotateInvite
  <2>2. g \in live => code[g] \in issued
    BY DEF RowsOK
  <2>3. Evolves
    BY <2>0, <2>1 DEF Evolves
  <2>4. TypeOK' /\ HandlersOK'
    BY <1>0, <2>0, <2>1, <2>2, <2>3 DEF TypeOK
  <2>5. RowsOK'
    BY <2>0, <2>1, <2>2 DEF RowsOK, TypeOK
  <2>6. OwnerIsMember' /\ MembersHaveHandles'
    BY <2>1 DEF OwnerIsMember, MembersHaveHandles
  <2> QED
    BY <2>4, <2>5, <2>6
<1>6. CASE RemoveGroup(r)
  <2> DEFINE g == req[r].group
  <2>1. UNCHANGED <<handle, born, issued>>
    BY <1>6 DEF RemoveGroup
  <2>2. CASE g \in live
    <3>1. /\ live' = live \ {g}
          /\ retired' = retired \cup {code[g]}
          /\ owner' = [owner EXCEPT ![g] = None]
          /\ name' = [name EXCEPT ![g] = None]
          /\ code' = [code EXCEPT ![g] = None]
          /\ members' = [members EXCEPT ![g] = {}]
      BY <1>6, <2>2 DEF RemoveGroup
    <3>2. code[g] \in issued
      BY <2>2 DEF RowsOK
    <3>3. Evolves
      BY <2>1, <3>1 DEF Evolves, TypeOK
    <3>4. TypeOK' /\ HandlersOK'
      BY <1>0, <2>1, <3>1, <3>2, <3>3 DEF TypeOK
    <3>5. \A h \in live' : /\ h # g /\ h \in live
                            /\ owner'[h] = owner[h] /\ name'[h] = name[h]
                            /\ code'[h] = code[h] /\ members'[h] = members[h]
      BY <3>1 DEF TypeOK
    <3>6. \A h \in live' : code[h] # code[g]
      BY <2>2, <3>5 DEF RowsOK
    <3>7. RowsOK'
      <4>1. \A h \in GroupIds \ live' : members'[h] = {}
        BY <3>1 DEF RowsOK, TypeOK
      <4> QED
        BY <2>1, <3>1, <3>5, <3>6, <4>1 DEF RowsOK
    <3>8. OwnerIsMember' /\ MembersHaveHandles'
      BY <2>1, <3>1, <3>5 DEF OwnerIsMember, MembersHaveHandles, TypeOK
    <3> QED
      BY <3>4, <3>7, <3>8
  <2>3. CASE g \notin live
    <3>1. UNCHANGED <<live, retired, owner, name, code, members>>
      BY <1>6, <2>3 DEF RemoveGroup
    <3>2. Evolves
      BY <2>1, <3>1 DEF Evolves
    <3> QED
      BY <1>0, <2>1, <3>1, <3>2 DEF TypeOK, RowsOK, OwnerIsMember, MembersHaveHandles
  <2> QED
    BY <2>2, <2>3
<1> QED
  BY <1>1, <1>2, <1>3, <1>4, <1>5, <1>6

\* Users claim handles between the handlers' steps.
LEMMA ProfileStep ==
    ASSUME IInv, NEW u \in Users, Profile(u)
    PROVE  IInv'
<1> USE DEF IInv
<1>1. ASSUME NEW h \in Handles, ClaimHandle(u, h)
      PROVE  IInv'
  <2>1. /\ handle' = [handle EXCEPT ![u] = h]
        /\ UNCHANGED <<live, born, owner, name, code, issued, retired,
                       members, req>>
    BY <1>1 DEF ClaimHandle, groupVars
  <2>2. h # None
    BY NoneAssumption
  <2>3. Evolves
    BY <2>1, <2>2 DEF Evolves, TypeOK
  <2>4. HandlersOK'
    BY <2>1, <2>3, KnowledgeStable DEF HandlersOK
  <2>5. MembersHaveHandles'
    BY <2>1, <2>2 DEF MembersHaveHandles, TypeOK
  <2> QED
    BY <2>1, <2>4, <2>5 DEF TypeOK, RowsOK, OwnerIsMember
<1> QED
  BY <1>1 DEF Profile

-----------------------------------------------------------------------------

\* Every step, and every stutter, preserves IInv.
LEMMA NextStep == IInv /\ [Next]_vars => IInv'
<1> SUFFICES ASSUME IInv, [Next]_vars
             PROVE  IInv'
  OBVIOUS
<1>1. ASSUME NEW u \in Users, Profile(u)
      PROVE  IInv'
  BY <1>1, ProfileStep
<1>2. ASSUME NEW r \in Requests, NEW u \in Users, Start(r, u)
      PROVE  IInv'
  BY <1>2, StartMoves, ReadStep
<1>3. ASSUME NEW r \in Requests, Handle(r)
      PROVE  IInv'
  <2>1. CASE \/ RequireHandle(r) \/ CountOwned(r) \/ FindByInvite(r)
             \/ RequireOwner(r) \/ FindMembership(r) \/ FindTarget(r)
             \/ FindRemoved(r) \/ FindExisting(r) \/ CountMembers(r)
    BY <2>1, ReadsMove, ReadStep
  <2>2. CASE \/ InsertGroup(r) \/ DeleteMember(r) \/ InsertMember(r)
             \/ Rename(r) \/ RotateInvite(r) \/ RemoveGroup(r)
    BY <2>2, WritesStep
  <2> QED
    BY <1>3, <2>1, <2>2 DEF Handle
<1>4. CASE UNCHANGED vars
  <2>1. Evolves
    BY <1>4 DEF vars, Evolves
  <2>2. HandlersOK'
    BY <1>4, <2>1, KnowledgeStable DEF vars, IInv, HandlersOK
  <2> QED
    BY <1>4, <2>2 DEF vars, IInv, TypeOK, RowsOK, OwnerIsMember, MembersHaveHandles
<1> QED
  BY <1>1, <1>2, <1>3, <1>4 DEF Next

\* IInv is an invariant of the groups service.
THEOREM Invariance == Spec => []IInv
<1>1. Init => IInv
  <2> SUFFICES ASSUME Init
               PROVE  IInv
    OBVIOUS
  <2>1. Idle \in Request
    BY DEF Idle, Request
  <2>2. TypeOK
    BY <2>1 DEF Init, TypeOK
  <2>3. \A r \in Requests : req[r] = Idle
    BY DEF Init
  <2>4. HandlersOK
    <3>1. ASSUME NEW r \in Requests
          PROVE  LocalsOK(req[r])
      BY <2>3 DEF LocalsOK
    <3>2. ASSUME NEW r \in Requests
          PROVE  KnowledgeOK(r)
      BY <2>3 DEF KnowledgeOK, Idle
    <3> QED
      BY <3>1, <3>2 DEF HandlersOK
  <2> QED
    BY <2>2, <2>4 DEF Init, IInv, RowsOK, OwnerIsMember, MembersHaveHandles
<1> QED
  BY <1>1, NextStep, PTL DEF Spec

\* Type correctness.
THEOREM TypeCorrect == Spec => []TypeOK
BY Invariance, PTL DEF IInv

\* schema.prisma's "The owner is also a member", in every reachable state and
\* however the endpoints' statements interleave.
THEOREM OwnerMembership == Spec => []OwnerIsMember
BY Invariance, PTL DEF IInv

\* Nobody without a username is in a group.
THEOREM HandleMembership == Spec => []MembersHaveHandles
BY Invariance, PTL DEF IInv

\* What handlers learnt from the database stays true until they use it.
THEOREM HandlersSound == Spec => []HandlersOK
BY Invariance, PTL DEF IInv

\* A retired invite code never admits a request that arrives after it.
THEOREM InviteRetirement == Spec => []RetiredInviteNeverAdmits
<1>1. IInv => RetiredInviteNeverAdmits
  BY DEF IInv, HandlersOK, KnowledgeOK, RetiredInviteNeverAdmits, At
<1> QED
  BY <1>1, Invariance, PTL

-----------------------------------------------------------------------------
\* The limits.  The counts only matter where a handler passes the check or
\* inserts; every other step is quiet.

\* Group g neither gains members nor handlers about to insert.
Quiet(g) ==
    /\ g \in live
    /\ members'[g] \subseteq members[g]
    /\ Admitted(g)' \subseteq Admitted(g)

\* The sets counted are finite.
LEMMA CountsFinite ==
    ASSUME TypeOK, NEW g \in GroupIds
    PROVE  /\ IsFiniteSet(members[g]) /\ Cardinality(members[g]) \in Nat
           /\ IsFiniteSet(Admitted(g)) /\ Cardinality(Admitted(g)) \in Nat
           /\ Cardinality(Admitted(g)) <= Cardinality(Requests)
           /\ Cardinality(Requests) \in Nat
<1>1. members[g] \in SUBSET Users /\ Admitted(g) \in SUBSET Requests
  BY DEF TypeOK, Admitted
<1> QED
  BY <1>1, UsersAssumption, RequestsAssumption, FS_Subset, FS_CardinalityType

\* A quiet step cannot raise the sum.
LEMMA QuietStep ==
    ASSUME TypeOK, TypeOK', MemberOvershootBounded, NEW g \in GroupIds, Quiet(g)
    PROVE  Cardinality(members'[g]) + Cardinality(Admitted(g)')
               <= MemberLimit + Cardinality(Requests) - 1
<1>1. /\ Cardinality(members'[g]) <= Cardinality(members[g])
      /\ Cardinality(Admitted(g)') <= Cardinality(Admitted(g))
  BY CountsFinite, FS_Subset DEF Quiet
<1>2. /\ Cardinality(members'[g]) \in Nat
      /\ Cardinality(Admitted(g)') \in Nat
  BY CountsFinite, FS_Subset, FS_CardinalityType DEF Quiet
<1>3. Cardinality(members[g]) + Cardinality(Admitted(g))
        <= MemberLimit + Cardinality(Requests) - 1
  BY DEF MemberOvershootBounded, Quiet
<1> QED
  BY <1>1, <1>2, <1>3, CountsFinite, LimitsAssumption

\* If handlers other than r stand still and r is not about to insert after the
\* step, no handler becomes about to insert.
LEMMA AdmittedShrinks ==
    ASSUME TypeOK, NEW r \in Requests, req' = [req EXCEPT ![r] = req'[r]],
           req'[r].pc # "insertRow", NEW g \in GroupIds
    PROVE  Admitted(g)' \subseteq Admitted(g) \ {r}
<1>1. ASSUME NEW s \in Requests, req'[s].pc = "insertRow", req'[s].group = g
      PROVE  s # r /\ req[s].pc = "insertRow" /\ req[s].group = g
  BY <1>1 DEF TypeOK
<1> QED
  BY <1>1 DEF Admitted, At

\* Where only IInv's handler r moves, and not to the insert.
LEMMA OtherReadsQuiet ==
    ASSUME IInv, NEW r \in Requests, NEW g \in live',
           Moves(r), Reads, req'[r].pc # "insertRow"
    PROVE  Quiet(g)
<1>1. g \in live /\ g \in GroupIds /\ members' = members
  BY DEF Reads, groupVars, IInv, TypeOK
<1>2. Admitted(g)' \subseteq Admitted(g)
  BY <1>1, AdmittedShrinks DEF Moves, IInv
<1> QED
  BY <1>1, <1>2 DEF Quiet

\* The three statements of insertMember and the creation of a group keep the
\* sum of members and admitted handlers within the bound.
LEMMA OvershootStep ==
    ASSUME IInv, IInv', MemberOvershootBounded, [Next]_vars
    PROVE  MemberOvershootBounded'
<1> SUFFICES ASSUME NEW g \in live'
             PROVE  Cardinality(members'[g]) + Cardinality(Admitted(g)')
                        <= MemberLimit + Cardinality(Requests) - 1
  BY DEF MemberOvershootBounded
<1>0. TypeOK /\ TypeOK' /\ g \in GroupIds
  BY DEF IInv, TypeOK
<1>1. CASE Quiet(g)
  BY <1>0, <1>1, QuietStep
<1>2. ASSUME NEW u \in Users, Profile(u)
      PROVE  Quiet(g)
  <2>1. UNCHANGED <<live, members, req>>
    BY <1>2 DEF Profile, ClaimHandle, groupVars
  <2> QED
    BY <2>1 DEF Quiet, Admitted, At
<1>3. ASSUME NEW r \in Requests, NEW u \in Users, Start(r, u)
      PROVE  Quiet(g)
  <2>1. Moves(r) /\ Reads
    BY <1>3, StartMoves
  <2>2. req'[r].pc # "insertRow"
    BY <1>0, <1>3 DEF Start, StartCreate, StartJoin, StartRename, StartRotate,
       StartRemove, StartAddMember, StartRemoveMember, Arrive, Idle, TypeOK
  <2> QED
    BY <2>1, <2>2, OtherReadsQuiet
<1>4. ASSUME NEW r \in Requests,
             \/ RequireHandle(r) \/ CountOwned(r) \/ FindByInvite(r)
             \/ RequireOwner(r) \/ FindMembership(r) \/ FindTarget(r)
             \/ FindRemoved(r) \/ FindExisting(r)
      PROVE  Quiet(g)
  <2>1. Moves(r) /\ Reads
    BY <1>4, ReadsMove
  <2>2. req'[r].pc # "insertRow"
    <3>1. ASSUME Answer(r)
          PROVE  req'[r].pc # "insertRow"
      BY <1>0, <3>1 DEF Answer, Idle, TypeOK
    <3>2. ASSUME NEW t \in Steps, Goto(r, t), t # "insertRow"
          PROVE  req'[r].pc # "insertRow"
      BY <1>0, <3>2, GotoMoves
    <3>3. CASE RequireHandle(r) \/ CountOwned(r) \/ RequireOwner(r) \/ FindExisting(r)
      BY <3>1, <3>2, <3>3 DEF RequireHandle, CountOwned, RequireOwner, FindExisting, Steps
    <3>4. CASE FindByInvite(r) \/ FindTarget(r) \/ FindRemoved(r) \/ FindMembership(r)
      <4>1. req[r] \in Request /\ DOMAIN req = Requests
        BY <1>0 DEF TypeOK
      <4>2. CASE FindByInvite(r)
        BY <3>1, <4>1, <4>2 DEF FindByInvite, Request
      <4>3. CASE FindTarget(r)
        BY <3>1, <4>1, <4>3 DEF FindTarget, Request
      <4>4. CASE FindRemoved(r)
        BY <3>1, <4>1, <4>4 DEF FindRemoved, Request
      <4>5. CASE FindMembership(r)
        BY <3>1, <4>1, <4>5 DEF FindMembership, Request
      <4> QED
        BY <3>4, <4>2, <4>3, <4>4, <4>5
    <3> QED
      BY <1>4, <3>3, <3>4
  <2> QED
    BY <2>1, <2>2, OtherReadsQuiet
<1>5. ASSUME NEW r \in Requests, CountMembers(r), ~Quiet(g)
      PROVE  /\ Cardinality(members'[g]) <= MemberLimit - 1
  <2>1. Moves(r) /\ Reads
    BY <1>5, ReadsMove
  <2>2. req'[r].pc = "insertRow" /\ Goto(r, "insertRow")
    BY <1>0, <1>5, <2>1, OtherReadsQuiet DEF CountMembers, Goto, Answer, TypeOK, Request, Idle
  <2>3. ~(Cardinality(members[req[r].group]) >= MemberLimit)
    BY <1>0, <1>5, <2>2 DEF CountMembers, Answer, Idle, TypeOK
  <2>4. CASE req[r].group # g
    <3>1. ASSUME NEW s \in Requests, req'[s].pc = "insertRow", req'[s].group = g
          PROVE  req[s].pc = "insertRow" /\ req[s].group = g
      BY <1>0, <2>2, <2>4, <3>1 DEF Goto, TypeOK, Request
    <3>2. Quiet(g)
      BY <1>0, <2>1, <3>1 DEF Quiet, Admitted, At, Reads, groupVars
    <3> QED
      BY <1>5, <3>2
  <2>5. CASE req[r].group = g
    BY <1>0, <2>1, <2>3, <2>5, CountsFinite, LimitsAssumption DEF Reads
  <2> QED
    BY <2>4, <2>5
<1>6. ASSUME NEW r \in Requests,
             \/ DeleteMember(r) \/ Rename(r) \/ RotateInvite(r) \/ RemoveGroup(r)
      PROVE  Quiet(g)
  <2>1. Answer(r)
    BY <1>6 DEF DeleteMember, Rename, RotateInvite, RemoveGroup
  <2>2. Admitted(g)' \subseteq Admitted(g)
    BY <1>0, <2>1, AdmittedShrinks, AnswerMoves DEF Moves, Answer, Idle, TypeOK
  <2>3. g \in live /\ members'[g] \subseteq members[g]
    BY <1>0, <1>6 DEF DeleteMember, Rename, RotateInvite, RemoveGroup, groupVars, TypeOK
  <2> QED
    BY <2>2, <2>3 DEF Quiet
<1>7. ASSUME NEW r \in Requests, InsertMember(r)
      PROVE  Cardinality(members'[g]) + Cardinality(Admitted(g)')
                 <= MemberLimit + Cardinality(Requests) - 1
  <2>0. /\ req[r].pc = "insertRow" /\ Answer(r) /\ live' = live
        /\ members' = IF req[r].group \in live
                      THEN [members EXCEPT ![req[r].group] = @ \cup {req[r].target}]
                      ELSE members
    BY <1>7 DEF InsertMember, At, groupVars
  <2>1. Admitted(g)' \subseteq Admitted(g) \ {r}
    BY <1>0, <2>0, AdmittedShrinks, AnswerMoves DEF Moves, Answer, Idle, TypeOK
  <2>2. CASE req[r].group # g
    <3>1. Quiet(g)
      BY <1>0, <2>0, <2>1, <2>2 DEF Quiet, TypeOK
    <3> QED
      BY <1>1, <3>1
  <2>3. CASE req[r].group = g
    <3>1. r \in Admitted(g) /\ members'[g] = members[g] \cup {req[r].target}
      BY <1>0, <2>0, <2>3 DEF Admitted, At, TypeOK
    <3>2. Cardinality(members'[g]) <= Cardinality(members[g]) + 1
      <4> DEFINE m == members[g]
                 x == req[r].target
      <4>1. IsFiniteSet(m) /\ Cardinality(m) \in Nat
        BY <1>0, CountsFinite
      <4>2. Cardinality(m \cup {x}) = IF x \in m THEN Cardinality(m) ELSE Cardinality(m) + 1
        BY <4>1, FS_AddElement
      <4>3. members'[g] = m \cup {x}
        BY <3>1
      <4> HIDE DEF m, x
      <4>4. Cardinality(m \cup {x}) <= Cardinality(m) + 1
        BY <4>1, <4>2
      <4> QED
        BY <4>3, <4>4 DEF m
    <3>3. Cardinality(Admitted(g) \ {r}) = Cardinality(Admitted(g)) - 1
            /\ IsFiniteSet(Admitted(g) \ {r})
      BY <1>0, <3>1, CountsFinite, FS_RemoveElement
    <3>4. Cardinality(Admitted(g)') <= Cardinality(Admitted(g)) - 1
      BY <2>1, <3>3, FS_Subset
    <3>5. Cardinality(members'[g]) \in Nat /\ Cardinality(Admitted(g)') \in Nat
      BY <1>0, <2>1, <3>1, <3>3, CountsFinite, FS_AddElement, FS_Subset, FS_CardinalityType
    <3>6. Cardinality(members[g]) + Cardinality(Admitted(g))
            <= MemberLimit + Cardinality(Requests) - 1
      BY <2>0 DEF MemberOvershootBounded
    <3> QED
      BY <1>0, <3>2, <3>4, <3>5, <3>6, CountsFinite, LimitsAssumption
  <2> QED
    BY <2>2, <2>3
<1>8. ASSUME NEW r \in Requests, InsertGroup(r)
      PROVE  Cardinality(members'[g]) + Cardinality(Admitted(g)')
                 <= MemberLimit + Cardinality(Requests) - 1
  <2>0. PICK h \in GroupIds \ born :
          live' = live \cup {h} /\ members' = [members EXCEPT ![h] = {req[r].user}]
    BY <1>8 DEF InsertGroup
  <2>1. Answer(r)
    BY <1>8 DEF InsertGroup
  <2>2. Admitted(g)' \subseteq Admitted(g) \ {r}
    BY <1>0, <2>1, AdmittedShrinks, AnswerMoves DEF Moves, Answer, Idle, TypeOK
  <2>3. CASE g # h
    <3>1. Quiet(g)
      BY <1>0, <2>0, <2>2, <2>3 DEF Quiet, TypeOK
    <3> QED
      BY <1>1, <3>1
  <2>4. CASE g = h
    <3>1. Admitted(g) = {}
      BY <2>0, <2>4 DEF IInv, HandlersOK, KnowledgeOK, Admitted, At
    <3>2. Cardinality(Admitted(g)') = 0
      BY <2>2, <3>1, FS_EmptySet
    <3>3. Cardinality(members'[g]) = 1
      BY <1>0, <2>0, <2>4, FS_Singleton DEF TypeOK
    <3>4. Cardinality(Requests) \in Nat /\ Cardinality(Requests) # 0
      BY RequestsAssumption, FS_CardinalityType, FS_EmptySet
    <3> QED
      BY <3>2, <3>3, <3>4, LimitsAssumption
  <2> QED
    BY <2>3, <2>4
<1>9. CASE UNCHANGED vars
  <2>1. Quiet(g)
    BY <1>9 DEF vars, Quiet, Admitted, At
  <2> QED
    BY <1>1, <2>1
<1>10. ASSUME NEW r \in Requests, CountMembers(r), ~Quiet(g)
       PROVE  Cardinality(members'[g]) + Cardinality(Admitted(g)')
                  <= MemberLimit + Cardinality(Requests) - 1
  <2>1. /\ Cardinality(Admitted(g)') <= Cardinality(Requests)
        /\ Cardinality(Admitted(g)') \in Nat /\ Cardinality(Requests) \in Nat
        /\ Cardinality(members'[g]) \in Nat
    <3>1. Admitted(g)' \in SUBSET Requests /\ members'[g] \in SUBSET Users
      BY <1>0 DEF Admitted, TypeOK
    <3> QED
      BY <3>1, UsersAssumption, RequestsAssumption, FS_Subset, FS_CardinalityType
  <2> QED
    BY <1>5, <1>10, <2>1, LimitsAssumption
<1> QED
  BY <1>1, <1>2, <1>3, <1>4, <1>6, <1>7, <1>8, <1>9, <1>10 DEF Next, Handle

\* However many requests overlap, a group outgrows its limit by at most the
\* requests in flight less one: GROUP_MEMBER_LIMIT holds of requests that do
\* not overlap, and is exceeded by no more than the overlap otherwise.
THEOREM MemberOvershoot == Spec => []MemberOvershootBounded
<1>1. Init => MemberOvershootBounded
  BY DEF Init, MemberOvershootBounded
<1>2. IInv /\ IInv' /\ MemberOvershootBounded /\ [Next]_vars => MemberOvershootBounded'
  BY OvershootStep
<1> QED
  BY <1>1, <1>2, Invariance, PTL DEF Spec

-----------------------------------------------------------------------------
\* The number of groups a user owns, along the same lines.

\* The sets counted are finite.
LEMMA OwnedFinite ==
    ASSUME TypeOK, NEW u \in Users
    PROVE  /\ IsFiniteSet(Owned(u)) /\ Cardinality(Owned(u)) \in Nat
           /\ IsFiniteSet(Creating(u)) /\ Cardinality(Creating(u)) \in Nat
           /\ Cardinality(Creating(u)) <= Cardinality(Requests)
           /\ Cardinality(Requests) \in Nat
<1>1. Owned(u) \in SUBSET GroupIds /\ Creating(u) \in SUBSET Requests
  BY DEF TypeOK, Owned, Creating
<1> QED
  BY <1>1, GroupIdsAssumption, RequestsAssumption, FS_Subset, FS_CardinalityType

\* Where neither set grows, neither does the sum.
LEMMA OwnedQuiet ==
    ASSUME TypeOK, TypeOK', OwnedOvershootBounded, NEW u \in Users,
           Owned(u)' \subseteq Owned(u), Creating(u)' \subseteq Creating(u)
    PROVE  Cardinality(Owned(u)') + Cardinality(Creating(u)')
               <= OwnedLimit + Cardinality(Requests) - 1
<1>1. /\ Cardinality(Owned(u)') <= Cardinality(Owned(u))
      /\ Cardinality(Creating(u)') <= Cardinality(Creating(u))
      /\ Cardinality(Owned(u)') \in Nat /\ Cardinality(Creating(u)') \in Nat
  BY OwnedFinite, FS_Subset, FS_CardinalityType
<1>2. Cardinality(Owned(u)) + Cardinality(Creating(u))
        <= OwnedLimit + Cardinality(Requests) - 1
  BY DEF OwnedOvershootBounded
<1> QED
  BY <1>1, <1>2, OwnedFinite, LimitsAssumption

\* If handlers other than r stand still and r is not about to create after the
\* step, no handler becomes about to create.
LEMMA CreatingShrinks ==
    ASSUME TypeOK, NEW r \in Requests, req' = [req EXCEPT ![r] = req'[r]],
           req'[r].pc # "insertGroup", NEW u \in Users
    PROVE  Creating(u)' \subseteq Creating(u) \ {r}
<1>1. ASSUME NEW s \in Requests, req'[s].pc = "insertGroup", req'[s].user = u
      PROVE  s # r /\ req[s].pc = "insertGroup" /\ req[s].user = u
  BY <1>1 DEF TypeOK
<1> QED
  BY <1>1 DEF Creating, At

\* A group is created within the count, and the count leaves room for every
\* request that may create one.
LEMMA OwnedStep ==
    ASSUME IInv, IInv', OwnedOvershootBounded, [Next]_vars
    PROVE  OwnedOvershootBounded'
<1> SUFFICES ASSUME NEW u \in Users
             PROVE  Cardinality(Owned(u)') + Cardinality(Creating(u)')
                        <= OwnedLimit + Cardinality(Requests) - 1
  BY DEF OwnedOvershootBounded
<1>0. TypeOK /\ TypeOK'
  BY DEF IInv
<1>1. CASE Owned(u)' \subseteq Owned(u) /\ Creating(u)' \subseteq Creating(u)
  BY <1>0, <1>1, OwnedQuiet
<1>2. ASSUME UNCHANGED <<live, owner, req>>
      PROVE  Owned(u)' \subseteq Owned(u) /\ Creating(u)' \subseteq Creating(u)
  BY <1>2 DEF Owned, Creating, At
<1>3. ASSUME NEW r \in Requests, Moves(r), UNCHANGED <<live, owner>>,
             req'[r].pc # "insertGroup"
      PROVE  Owned(u)' \subseteq Owned(u) /\ Creating(u)' \subseteq Creating(u)
  <2>1. Creating(u)' \subseteq Creating(u)
    BY <1>0, <1>3, CreatingShrinks DEF Moves
  <2> QED
    BY <1>3, <2>1 DEF Owned
<1>4. ASSUME NEW v \in Users, Profile(v)
      PROVE  UNCHANGED <<live, owner, req>>
  BY <1>4 DEF Profile, ClaimHandle, groupVars
<1>5. ASSUME NEW r \in Requests, NEW v \in Users, Start(r, v)
      PROVE  Moves(r) /\ UNCHANGED <<live, owner>> /\ req'[r].pc # "insertGroup"
  <2>1. Moves(r) /\ UNCHANGED <<live, owner>>
    BY <1>5, StartMoves DEF Reads, groupVars
  <2>2. req'[r].pc # "insertGroup"
    BY <1>0, <1>5 DEF Start, StartCreate, StartJoin, StartRename, StartRotate,
       StartRemove, StartAddMember, StartRemoveMember, Arrive, Idle, TypeOK
  <2> QED
    BY <2>1, <2>2
<1>6. ASSUME NEW r \in Requests,
             \/ RequireHandle(r) \/ FindByInvite(r) \/ RequireOwner(r)
             \/ FindMembership(r) \/ FindTarget(r) \/ FindRemoved(r)
             \/ FindExisting(r) \/ CountMembers(r)
      PROVE  Moves(r) /\ UNCHANGED <<live, owner>> /\ req'[r].pc # "insertGroup"
  <2>1. Moves(r) /\ UNCHANGED <<live, owner>>
    BY <1>6, ReadsMove DEF Reads, groupVars
  <2>2. ASSUME Answer(r)
        PROVE  req'[r].pc # "insertGroup"
    BY <1>0, <2>2 DEF Answer, Idle, TypeOK
  <2>3. ASSUME NEW t \in Steps, Goto(r, t), t # "insertGroup"
        PROVE  req'[r].pc # "insertGroup"
    BY <1>0, <2>3, GotoMoves
  <2>4. CASE RequireHandle(r) \/ RequireOwner(r) \/ FindExisting(r) \/ CountMembers(r)
    BY <2>1, <2>2, <2>3, <2>4 DEF RequireHandle, RequireOwner, FindExisting, CountMembers, Steps
  <2>5. req[r] \in Request /\ DOMAIN req = Requests
    BY <1>0 DEF TypeOK
  <2>6. CASE FindByInvite(r)
    BY <2>1, <2>2, <2>5, <2>6 DEF FindByInvite, Request
  <2>7. CASE FindTarget(r)
    BY <2>1, <2>2, <2>5, <2>7 DEF FindTarget, Request
  <2>8. CASE FindRemoved(r)
    BY <2>1, <2>2, <2>5, <2>8 DEF FindRemoved, Request
  <2>9. CASE FindMembership(r)
    BY <2>1, <2>2, <2>5, <2>9 DEF FindMembership, Request
  <2> QED
    BY <1>6, <2>1, <2>4, <2>6, <2>7, <2>8, <2>9
<1>7. ASSUME NEW r \in Requests, CountOwned(r), ~(Creating(u)' \subseteq Creating(u))
      PROVE  Cardinality(Owned(u)') + Cardinality(Creating(u)')
                 <= OwnedLimit + Cardinality(Requests) - 1
  <2>1. Moves(r) /\ UNCHANGED <<live, owner>>
    BY <1>7, ReadsMove DEF Reads, groupVars
  <2>2. Goto(r, "insertGroup") /\ ~(Cardinality(Owned(req[r].user)) >= OwnedLimit)
    <3>1. ~Answer(r)
      BY <1>0, <1>7, <2>1, CreatingShrinks DEF Moves, Answer, Idle, TypeOK
    <3> QED
      BY <1>7, <3>1 DEF CountOwned
  <2>3. req[r].user = u
    <3>1. ASSUME req[r].user # u, NEW s \in Requests, req'[s].pc = "insertGroup",
                 req'[s].user = u
          PROVE  req[s].pc = "insertGroup" /\ req[s].user = u
      BY <1>0, <2>2, <3>1 DEF Goto, TypeOK, Request
    <3> QED
      BY <1>7, <3>1 DEF Creating, At
  <2>4. Owned(u)' = Owned(u)
    BY <2>1 DEF Owned
  <2>5. Cardinality(Creating(u)') <= Cardinality(Requests) /\ Cardinality(Creating(u)') \in Nat
    <3>1. Creating(u)' \in SUBSET Requests
      BY DEF Creating
    <3> QED
      BY <3>1, RequestsAssumption, FS_Subset, FS_CardinalityType
  <2> QED
    BY <1>0, <2>2, <2>3, <2>4, <2>5, OwnedFinite, LimitsAssumption
<1>8. ASSUME NEW r \in Requests, CountOwned(r)
      PROVE  Owned(u)' \subseteq Owned(u)
  BY <1>8, ReadsMove DEF Reads, groupVars, Owned
<1>9. ASSUME NEW r \in Requests,
             \/ DeleteMember(r) \/ InsertMember(r) \/ Rename(r)
             \/ RotateInvite(r) \/ RemoveGroup(r)
      PROVE  Owned(u)' \subseteq Owned(u) /\ Creating(u)' \subseteq Creating(u)
  <2>1. Answer(r)
    BY <1>9 DEF DeleteMember, InsertMember, Rename, RotateInvite, RemoveGroup
  <2>2. Creating(u)' \subseteq Creating(u)
    BY <1>0, <2>1, CreatingShrinks, AnswerMoves DEF Moves, Answer, Idle, TypeOK
  <2>3. Owned(u)' \subseteq Owned(u)
    BY <1>0, <1>9, NoneAssumption
       DEF DeleteMember, InsertMember, Rename, RotateInvite, RemoveGroup, groupVars, Owned, TypeOK
  <2> QED
    BY <2>2, <2>3
<1>10. ASSUME NEW r \in Requests, InsertGroup(r)
       PROVE  Cardinality(Owned(u)') + Cardinality(Creating(u)')
                  <= OwnedLimit + Cardinality(Requests) - 1
  <2>0. PICK g \in GroupIds \ born :
          live' = live \cup {g} /\ owner' = [owner EXCEPT ![g] = req[r].user]
    BY <1>10 DEF InsertGroup
  <2>1. Answer(r) /\ req[r].pc = "insertGroup"
    BY <1>10 DEF InsertGroup, At
  <2>2. Creating(u)' \subseteq Creating(u) \ {r}
    BY <1>0, <2>1, CreatingShrinks, AnswerMoves DEF Moves, Answer, Idle, TypeOK
  <2>3. CASE req[r].user # u
    <3>1. Owned(u)' \subseteq Owned(u)
      BY <1>0, <2>0, <2>3 DEF Owned, TypeOK
    <3> QED
      BY <1>1, <2>2, <3>1
  <2>4. CASE req[r].user = u
    <3>1. r \in Creating(u)
      BY <2>1, <2>4 DEF Creating, At
    <3>2. Owned(u)' = Owned(u) \cup {g} /\ g \notin Owned(u)
      BY <1>0, <2>0, <2>4 DEF Owned, TypeOK
    <3>3. Cardinality(Owned(u)') = Cardinality(Owned(u)) + 1
      BY <1>0, <3>2, OwnedFinite, FS_AddElement
    <3>4. Cardinality(Creating(u) \ {r}) = Cardinality(Creating(u)) - 1
            /\ IsFiniteSet(Creating(u) \ {r})
      BY <1>0, <3>1, OwnedFinite, FS_RemoveElement
    <3>5. Cardinality(Creating(u)') <= Cardinality(Creating(u)) - 1
            /\ Cardinality(Creating(u)') \in Nat
      BY <2>2, <3>4, FS_Subset, FS_CardinalityType
    <3>6. Cardinality(Owned(u)) + Cardinality(Creating(u))
            <= OwnedLimit + Cardinality(Requests) - 1
      BY DEF OwnedOvershootBounded
    <3> QED
      BY <1>0, <3>3, <3>5, <3>6, OwnedFinite, LimitsAssumption
  <2> QED
    BY <2>3, <2>4
<1>11. CASE UNCHANGED vars
  BY <1>1, <1>2, <1>11 DEF vars
<1> QED
  BY <1>1, <1>2, <1>3, <1>4, <1>5, <1>6, <1>7, <1>8, <1>9, <1>10, <1>11 DEF Next, Handle

\* Neither GROUP_MEMBER_LIMIT nor GROUPS_OWNED_LIMIT is overshot by more than
\* the requests in flight less one.
THEOREM Overshoot == Spec => []OvershootBounded
<1>1. Init => OwnedOvershootBounded
  <2> SUFFICES ASSUME Init, NEW u \in Users
               PROVE  Cardinality(Owned(u)) + Cardinality(Creating(u))
                          <= OwnedLimit + Cardinality(Requests) - 1
    BY DEF OwnedOvershootBounded
  <2>1. Owned(u) = {} /\ Creating(u) = {}
    BY DEF Init, Owned, Creating, At, Idle
  <2>2. Cardinality(Requests) \in Nat
    BY RequestsAssumption, FS_CardinalityType
  <2> QED
    BY <2>1, <2>2, FS_EmptySet, LimitsAssumption
<1>2. IInv /\ IInv' /\ OwnedOvershootBounded /\ [Next]_vars => OwnedOvershootBounded'
  BY OwnedStep
<1>3. Spec => []OwnedOvershootBounded
  BY <1>1, <1>2, Invariance, PTL DEF Spec
<1> QED
  BY <1>3, MemberOvershoot, PTL DEF OvershootBounded

-----------------------------------------------------------------------------
\* Who may change a group.  A handler about to write still knows who owns the
\* group, although the check was made one or two awaits before, because the
\* owner of a group never changes.


\* Members and groups stay as they are, or r answers.
Harmless ==
    /\ live' = live
    /\ \A g \in live : /\ members[g] \subseteq members'[g]
                       /\ owner'[g] = owner[g] /\ name'[g] = name[g] /\ code'[g] = code[g]

\* A handler that answers was at work.
LEMMA Answering ==
    ASSUME TypeOK, NEW r \in Requests, NEW s \in Steps, At(r, s), Answer(r)
    PROVE  Answers(r)
<1>1. Idle.pc # s
  BY DEF Idle, Steps
<1> QED
  BY <1>1 DEF At, Answer, Answers, TypeOK

\* Steps that only read, that change a username, and stutters.
LEMMA HarmlessSteps ==
    ASSUME IInv,
           \/ \E u \in Users : Profile(u)
           \/ \E r \in Requests, u \in Users : Start(r, u)
           \/ \E r \in Requests :
                  \/ RequireHandle(r) \/ CountOwned(r) \/ FindByInvite(r)
                  \/ RequireOwner(r) \/ FindMembership(r) \/ FindTarget(r)
                  \/ FindRemoved(r) \/ FindExisting(r) \/ CountMembers(r)
           \/ UNCHANGED vars
    PROVE  Harmless
<1>1. UNCHANGED <<groupVars, members>>
  <2>1. CASE \E u \in Users : Profile(u)
    BY <2>1 DEF Profile, ClaimHandle
  <2>2. CASE \E r \in Requests, u \in Users : Start(r, u)
    BY <2>2, StartMoves DEF Reads
  <2>3. CASE \E r \in Requests :
                  \/ RequireHandle(r) \/ CountOwned(r) \/ FindByInvite(r)
                  \/ RequireOwner(r) \/ FindMembership(r) \/ FindTarget(r)
                  \/ FindRemoved(r) \/ FindExisting(r) \/ CountMembers(r)
    BY <2>3, ReadsMove DEF Reads
  <2>4. CASE UNCHANGED vars
    BY <2>4 DEF vars, groupVars
  <2> QED
    BY <2>1, <2>2, <2>3, <2>4
<1> QED
  BY <1>1 DEF Harmless, groupVars

\* The two statements that only add rows.
LEMMA InsertsHarmless ==
    ASSUME IInv, NEW r \in Requests, InsertGroup(r) \/ InsertMember(r)
    PROVE  /\ live \subseteq live'
           /\ \A g \in live :
                  /\ members[g] \subseteq members'[g]
                  /\ owner'[g] = owner[g] /\ name'[g] = name[g] /\ code'[g] = code[g]
BY DEF InsertGroup, InsertMember, groupVars, IInv, TypeOK

\* A membership disappears only by the member's own request, or by one of the
\* owner's: what findMembership read of the owner holds when the row goes.
LEMMA RemovalStep ==
    ASSUME IInv, [Next]_vars, NEW g \in live, NEW u \in members[g], u \notin members'[g]
    PROVE  \E r \in Requests : Answers(r) /\ req[r].user \in {u, owner[g]}
<1>0. g \in GroupIds /\ TypeOK
  BY DEF IInv, TypeOK
<1>1. ~Harmless
  BY DEF Harmless
<1>2. PICK r \in Requests : \/ InsertGroup(r) \/ DeleteMember(r) \/ InsertMember(r)
                            \/ Rename(r) \/ RotateInvite(r) \/ RemoveGroup(r)
  BY <1>1, HarmlessSteps DEF Next, Handle
<1>3. KnowledgeOK(r)
  BY DEF IInv, HandlersOK
<1>4. ~(InsertGroup(r) \/ InsertMember(r))
  BY InsertsHarmless
<1>5. ~(Rename(r) \/ RotateInvite(r))
  BY DEF Rename, RotateInvite
<1>6. CASE DeleteMember(r)
  <2>1. At(r, "deleteRow") /\ Answer(r) /\ "deleteRow" \in Steps
    BY <1>6 DEF DeleteMember, Steps
  <2>2. req[r].group = g /\ req[r].target = u
    BY <1>0, <1>6 DEF DeleteMember, TypeOK
  <2> QED
    BY <1>0, <1>3, <2>1, <2>2, Answering DEF KnowledgeOK, At
<1>7. CASE RemoveGroup(r)
  <2>1. At(r, "writeGroup") /\ Answer(r) /\ "writeGroup" \in Steps
    BY <1>7 DEF RemoveGroup, Steps
  <2>2. req[r].group = g
    BY <1>0, <1>7 DEF RemoveGroup, TypeOK
  <2> QED
    BY <1>0, <1>3, <2>1, <2>2, Answering DEF KnowledgeOK, At
<1> QED
  BY <1>2, <1>4, <1>5, <1>6, <1>7

\* However the statements of other requests come in between, only the member
\* and the owner remove a member.
THEOREM RemovalRights == Spec => OnlyOwnerOrSelfRemoves
<1>1. IInv /\ [Next]_vars =>
          [\A g \in live : \A u \in members[g] :
              u \notin members'[g] =>
                  \E r \in Requests : Answers(r) /\ req[r].user \in {u, owner[g]}]_vars
  BY RemovalStep
<1> QED
  BY <1>1, Invariance, PTL DEF Spec, OnlyOwnerOrSelfRemoves

\* A group is renamed, rotated or deleted only by a request of its owner, and
\* keeps its owner.
LEMMA ManagementStep ==
    ASSUME IInv, [Next]_vars, NEW g \in live
    PROVE  /\ (g \notin live' \/ name'[g] # name[g] \/ code'[g] # code[g]) =>
                  \E r \in Requests : Answers(r) /\ req[r].user = owner[g]
           /\ g \in live' => owner'[g] = owner[g]
<1>0. g \in GroupIds /\ TypeOK
  BY DEF IInv, TypeOK
<1>1. CASE Harmless
  BY <1>1 DEF Harmless
<1>2. ASSUME NEW r \in Requests, InsertGroup(r) \/ InsertMember(r)
      PROVE  g \in live' /\ owner'[g] = owner[g] /\ name'[g] = name[g] /\ code'[g] = code[g]
  BY <1>2, InsertsHarmless
<1>3. ASSUME NEW r \in Requests, DeleteMember(r)
      PROVE  g \in live' /\ owner'[g] = owner[g] /\ name'[g] = name[g] /\ code'[g] = code[g]
  BY <1>3 DEF DeleteMember, groupVars
<1>4. ASSUME NEW r \in Requests, Rename(r) \/ RotateInvite(r) \/ RemoveGroup(r)
      PROVE  /\ (g \notin live' \/ name'[g] # name[g] \/ code'[g] # code[g]) =>
                    Answers(r) /\ req[r].user = owner[g]
             /\ g \in live' => owner'[g] = owner[g]
  <2>1. At(r, "writeGroup") /\ Answer(r) /\ "writeGroup" \in Steps
    BY <1>4 DEF Rename, RotateInvite, RemoveGroup, Steps
  <2>2. Answers(r)
    BY <1>0, <2>1, Answering
  <2>3. req[r].group = g => req[r].user = owner[g]
    BY <2>1 DEF IInv, HandlersOK, KnowledgeOK, At
  <2>4. req[r].group # g => g \in live' /\ UNCHANGED <<name[g], code[g]>>
    BY <1>0, <1>4 DEF Rename, RotateInvite, RemoveGroup, TypeOK
  <2>5. g \in live' => owner'[g] = owner[g]
    BY <1>0, <1>4 DEF Rename, RotateInvite, RemoveGroup, TypeOK
  <2> QED
    BY <2>2, <2>3, <2>4, <2>5
<1> QED
  BY <1>1, <1>2, <1>3, <1>4, HarmlessSteps DEF Next, Handle

\* The name, the code and the existence of a group are its owner's.
THEOREM ManagementRights == Spec => OnlyOwnerManages
<1>1. IInv /\ [Next]_vars =>
          [\A g \in live :
              /\ (g \notin live' \/ name'[g] # name[g] \/ code'[g] # code[g]) =>
                     \E r \in Requests : Answers(r) /\ req[r].user = owner[g]
              /\ g \in live' => owner'[g] = owner[g]]_vars
  BY ManagementStep
<1> QED
  BY <1>1, Invariance, PTL DEF Spec, OnlyOwnerManages
=============================================================================
