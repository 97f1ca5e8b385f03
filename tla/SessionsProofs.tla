---------------------------- MODULE SessionsProofs ---------------------------
(***************************************************************************)
(* Theorems about Sessions, for any set of tokens, families and requests   *)
(* and any of its failures, and about BrowserSession, for any sign-ins,    *)
(* calls and slots as well.  In Sessions rows only ever grow: a token      *)
(* keeps its family and a revocation is never taken back, so what a        *)
(* handler has read or done (Sound) stays true whatever runs before its    *)
(* next call.  A step of the browser is a step of Sessions or leaves the   *)
(* API alone (Refines), so all this holds there; the rest of the invariant *)
(* says what one jar adds: every handler works for the session of the last *)
(* sign-in, and the token that session lives by is in the jar or on its    *)
(* way there.                                                              *)
(***************************************************************************)
EXTENDS BrowserSession, TLAPS

-----------------------------------------------------------------------------
\* The API under any clients.

\* What a handler in state q relies on, given the rows.
Sound(q, fam, rev) ==
    /\ q.pc = "findUnique" => q.token \in Tokens /\ q.todo = {}
    /\ q.pc = "revokeFamily" => q.family \in Families
    /\ q.pc = "rotate" \/ q.todo # {} =>
           q.token \in Tokens /\ q.family \in Families /\ fam[q.token] = q.family
    /\ q.pc = "rotate" =>
           /\ "update" \notin q.todo => q.token \in rev
           /\ "create" \notin q.todo => q.fresh \in Tokens /\ fam[q.fresh] = q.family
    /\ q.pc = "200" /\ q.op = "refresh" =>
           /\ q.token \in Tokens \cap rev
           /\ q.fresh \in Tokens
           /\ fam[q.token] \in Families
           /\ fam[q.fresh] = fam[q.token]

\* The inductive invariant.
IInv == TypeOK /\ \A r \in Requests : Sound(req[r], family, revoked)

\* How a step may change the rows.
Rows ==
    /\ family' \in [Tokens -> Families \cup {None}]
    /\ revoked' \cup expired' \subseteq {t \in Tokens : family'[t] # None}
    /\ \A t \in Tokens : family[t] # None => family'[t] = family[t]
    /\ revoked \subseteq revoked'

\* A handler that does not move stays sound.
LEMMA SoundStable ==
    ASSUME Rows, NEW q \in Request, Sound(q, family, revoked)
    PROVE  Sound(q, family', revoked')
BY SessionsNone DEF Sound, Rows

\* A step in which only r moves, and soundly.
LEMMA HandlerStep ==
    ASSUME IInv, Rows, NEW r \in Requests, NEW q \in Request,
           req' = [req EXCEPT ![r] = q], Sound(q, family', revoked')
    PROVE  IInv'
<1>1. TypeOK'
  BY DEF IInv, TypeOK, Rows
<1>2. ASSUME NEW s \in Requests
      PROVE  Sound(req'[s], family', revoked')
  <2>1. CASE s = r
    BY <2>1 DEF IInv, TypeOK
  <2>2. CASE s # r
    <3>1. req'[s] = req[s] /\ req[s] \in Request
      BY <2>2 DEF IInv, TypeOK
    <3>2. Sound(req[s], family, revoked)
      BY DEF IInv
    <3> QED
      BY <3>1, <3>2, SoundStable
  <2> QED
    BY <2>1, <2>2
<1> QED
  BY <1>1, <1>2 DEF IInv

\* A step in which no handler moves.
LEMMA RowStep ==
    ASSUME IInv, Rows, req' = req
    PROVE  IInv'
<1>1. TypeOK'
  BY DEF IInv, TypeOK, Rows
<1>2. ASSUME NEW s \in Requests
      PROVE  Sound(req'[s], family', revoked')
  <2>1. req[s] \in Request /\ Sound(req[s], family, revoked)
    BY DEF IInv, TypeOK
  <2> QED
    BY <2>1, SoundStable
<1> QED
  BY <1>1, <1>2 DEF IInv

\* The rows stay as they are.
LEMMA Unchanged ==
    ASSUME IInv, UNCHANGED dbVars
    PROVE  Rows
BY DEF IInv, TypeOK, Rows, dbVars

\* A slot without a request relies on nothing.
LEMMA IdleSound ==
    Idle \in Request /\ \A fam, rev : Sound(Idle, fam, rev)
BY DEF Idle, Request, Sound

-----------------------------------------------------------------------------

\* No step takes a row or a revocation back.
LEMMA RowsGrow ==
    ASSUME IInv, [SessionsNext]_sessionVars
    PROVE  Rows
<1>1. ASSUME NEW t \in Tokens, NEW f \in Families, IssueSession(t, f)
      PROVE  Rows
  BY <1>1, SessionsNone DEF IssueSession, Fresh, Exists, Rows, IInv, TypeOK
<1>2. ASSUME NEW t \in Tokens, Expire(t)
      PROVE  Rows
  BY <1>2 DEF Expire, Exists, Rows, IInv, TypeOK
<1>3. ASSUME NEW r \in Requests, RevokeFamily(r)
      PROVE  Rows
  <2>1. req[r].family \in Families
    BY <1>3 DEF RevokeFamily, At, IInv, Sound
  <2> QED
    BY <1>3, <2>1, SessionsNone DEF RevokeFamily, Rows, IInv, TypeOK
<1>4. ASSUME NEW r \in Requests, RotateUpdate(r)
      PROVE  Rows
  <2>1. req[r].token \in Tokens /\ family[req[r].token] \in Families
    BY <1>4 DEF RotateUpdate, IInv, Sound
  <2> QED
    BY <1>4, <2>1, SessionsNone DEF RotateUpdate, Rows, IInv, TypeOK
<1>5. ASSUME NEW r \in Requests, RotateCreate(r)
      PROVE  Rows
  <2>1. req[r].family \in Families
    BY <1>5 DEF RotateCreate, IInv, Sound
  <2> QED
    BY <1>5, <2>1, SessionsNone DEF RotateCreate, Fresh, Exists, Rows, IInv, TypeOK
<1>6. CASE UNCHANGED dbVars
  BY <1>6, Unchanged
<1> QED
  BY <1>1, <1>2, <1>3, <1>4, <1>5, <1>6
     DEF SessionsNext, Serve, sessionVars, dbVars, StartRefresh, StartLogout,
         FindUnique, DbFails, Crash, Reply

\* IInv is inductive.
LEMMA NextIInv ==
    ASSUME IInv, [SessionsNext]_sessionVars
    PROVE  IInv'
<1>0. Rows
  BY RowsGrow
<1>1. ASSUME NEW t \in Tokens, NEW f \in Families, IssueSession(t, f)
      PROVE  IInv'
  BY <1>0, <1>1, RowStep DEF IssueSession
<1>2. ASSUME NEW t \in Tokens, Expire(t)
      PROVE  IInv'
  BY <1>0, <1>2, RowStep DEF Expire
<1>3. ASSUME NEW r \in Requests, NEW t \in Tokens \cup {None}, StartRefresh(r, t)
      PROVE  IInv'
  <2> DEFINE q == [Idle EXCEPT !.op = "refresh", !.token = t,
                      !.pc = IF t = None THEN "401" ELSE "findUnique"]
  <2>1. q \in Request
    BY DEF Request, Idle
  <2>2. Sound(q, family', revoked')
    BY DEF Sound, Idle
  <2>3. req' = [req EXCEPT ![r] = q] /\ UNCHANGED dbVars
    BY <1>3 DEF StartRefresh
  <2> QED
    BY <1>0, <2>1, <2>2, <2>3, HandlerStep
<1>4. ASSUME NEW r \in Requests, NEW f \in Families \cup {None}, StartLogout(r, f)
      PROVE  IInv'
  <2> DEFINE q == [Idle EXCEPT !.op = "logout", !.family = f,
                      !.pc = IF f = None THEN "200" ELSE "revokeFamily",
                      !.clear = f = None]
  <2>1. q \in Request
    BY DEF Request, Idle
  <2>2. Sound(q, family', revoked')
    BY DEF Sound, Idle
  <2>3. req' = [req EXCEPT ![r] = q] /\ UNCHANGED dbVars
    BY <1>4 DEF StartLogout
  <2> QED
    BY <1>0, <2>1, <2>2, <2>3, HandlerStep
<1>5. ASSUME NEW r \in Requests, FindUnique(r)
      PROVE  IInv'
  <2> DEFINE t == req[r].token
  <2>2. t \in Tokens /\ req[r] \in Request /\ req[r].pc = "findUnique"
          /\ Sound(req[r], family, revoked)
    BY <1>5 DEF FindUnique, At, IInv, TypeOK, Sound
  <2>3. req[r].todo = {} \/ family[t] = req[r].family
    BY <2>2 DEF Sound
  <2> DEFINE rejected == [req[r] EXCEPT !.pc = "401", !.clear = TRUE]
             reused == [req[r] EXCEPT !.pc = "revokeFamily", !.family = family[t]]
             rotated == [req[r] EXCEPT !.pc = "rotate", !.family = family[t],
                                       !.todo = {"update", "create"}]
             Becomes(q) == req' = [req EXCEPT ![r] = q]
  <2>4. Becomes(rejected) \/ (Exists(t) /\ Becomes(reused))
          \/ (Exists(t) /\ Becomes(rotated))
    BY <1>5 DEF FindUnique, Answer, Live
  <2>5. CASE Becomes(rejected)
    <3>1. rejected \in Request
      BY <2>2 DEF Request
    <3>2. Sound(rejected, family, revoked)
      BY <2>2 DEF Sound, Request
    <3> QED
      BY <1>0, <2>5, <3>1, <3>2, SoundStable, HandlerStep
  <2>6. ASSUME Exists(t)
        PROVE  family[t] \in Families
    BY <2>2, <2>6 DEF Exists, IInv, TypeOK
  <2>7. CASE Exists(t) /\ Becomes(reused)
    <3>1. reused \in Request
      BY <2>2, <2>6, <2>7 DEF Request
    <3>2. Sound(reused, family, revoked)
      BY <2>2, <2>6, <2>7 DEF Sound, Request
    <3> QED
      BY <1>0, <2>7, <3>1, <3>2, SoundStable, HandlerStep
  <2>8. CASE Exists(t) /\ Becomes(rotated)
    <3>1. rotated \in Request
      BY <2>2, <2>6, <2>8 DEF Request
    <3>2. Sound(rotated, family, revoked)
      BY <2>2, <2>6, <2>8 DEF Sound, Request
    <3> QED
      BY <1>0, <2>8, <3>1, <3>2, SoundStable, HandlerStep
  <2> QED
    BY <2>4, <2>5, <2>7, <2>8
<1>6. ASSUME NEW r \in Requests, RevokeFamily(r)
      PROVE  IInv'
  <2> DEFINE s == IF req[r].op = "logout" THEN "200" ELSE "401"
             q == [req[r] EXCEPT !.pc = s, !.clear = TRUE]
  <2>1. req[r] \in Request /\ req[r].pc = "revokeFamily"
          /\ Sound(req[r], family, revoked) /\ req[r].family \in Families
    BY <1>6 DEF RevokeFamily, At, IInv, TypeOK, Sound
  <2>3. q \in Request
    BY <2>1 DEF Request
  <2>4. Sound(q, family, revoked)
    BY <2>1 DEF Sound, Request
  <2>5. req' = [req EXCEPT ![r] = q]
    BY <1>6 DEF RevokeFamily, Answer
  <2> QED
    BY <1>0, <2>3, <2>4, <2>5, SoundStable, HandlerStep
<1>7. ASSUME NEW r \in Requests, RotateUpdate(r)
      PROVE  IInv'
  <2> DEFINE q == Done(r, "update")
  <2>1. req[r] \in Request /\ "update" \in req[r].todo
          /\ Sound(req[r], family, revoked)
    BY <1>7 DEF RotateUpdate, IInv, TypeOK
  <2>2. req[r].token \in Tokens /\ family[req[r].token] \in Families
    BY <2>1 DEF Sound
  <2>4. q \in Request
    BY <2>1 DEF Request, Done
  <2>5. Sound(q, family', revoked')
    BY <1>7, <2>1, <2>2 DEF Sound, Request, Done, RotateUpdate
  <2> QED
    BY <1>0, <1>7, <2>4, <2>5, HandlerStep DEF RotateUpdate
<1>8. ASSUME NEW r \in Requests, RotateCreate(r)
      PROVE  IInv'
  <2>1. PICK t \in Tokens :
            /\ Fresh(t)
            /\ family' = [family EXCEPT ![t] = req[r].family]
            /\ req' = [req EXCEPT ![r] = [Done(r, "create") EXCEPT !.fresh = t]]
    BY <1>8 DEF RotateCreate
  <2> DEFINE q == [Done(r, "create") EXCEPT !.fresh = t]
  <2>2. req[r] \in Request /\ "create" \in req[r].todo
          /\ Sound(req[r], family, revoked)
    BY <1>8 DEF RotateCreate, IInv, TypeOK
  <2>3. req[r].token \in Tokens /\ req[r].family \in Families
          /\ family[req[r].token] = req[r].family
    BY <2>2 DEF Sound
  <2>4. family[t] = None
    BY <2>1 DEF Fresh, Exists
  <2>6. q \in Request
    BY <2>2 DEF Request, Done
  <2>7. family'[t] = req[r].family /\ family'[req[r].token] = req[r].family
    BY <2>1, <2>3, <2>4, SessionsNone DEF IInv, TypeOK
  <2>8. Sound(q, family', revoked')
    BY <1>8, <2>2, <2>3, <2>7 DEF Sound, Request, Done, RotateCreate
  <2> QED
    BY <1>0, <2>1, <2>6, <2>8, HandlerStep
<1>9. ASSUME NEW r \in Requests, DbFails(r)
      PROVE  IInv'
  <2>1. req[r] \in Request /\ Sound(req[r], family, revoked)
    BY DEF IInv, TypeOK
  <2>2. ASSUME NEW b \in BOOLEAN, NEW q, q = [req[r] EXCEPT !.pc = "500", !.clear = b],
               req' = [req EXCEPT ![r] = q]
        PROVE  IInv'
    <3>1. q \in Request
      BY <2>1, <2>2 DEF Request
    <3>2. Sound(q, family, revoked)
      BY <2>1, <2>2 DEF Sound, Request
    <3> QED
      BY <1>0, <2>2, <3>1, <3>2, SoundStable, HandlerStep
  <2>3. ASSUME NEW k \in req[r].todo, NEW q,
               q = [req[r] EXCEPT !.todo = @ \ {k},
                                  !.pc = IF @ = "rotate" THEN "500" ELSE @,
                                  !.clear = @ \/ At(r, "rotate")],
               req' = [req EXCEPT ![r] = q]
        PROVE  IInv'
    <3>0. (req[r].clear \/ At(r, "rotate")) \in BOOLEAN
      BY <2>1 DEF At, Request
    <3>1. q \in Request
      BY <2>1, <2>3, <3>0 DEF Request
    <3>2. Sound(q, family, revoked)
      BY <2>1, <2>3 DEF Sound, Request
    <3> QED
      BY <1>0, <2>3, <3>1, <3>2, SoundStable, HandlerStep
  <2> QED
    BY <1>9, <2>2, <2>3 DEF DbFails, Answer
<1>10. ASSUME NEW r \in Requests, Crash(r)
       PROVE  IInv'
  <2> DEFINE q == [req[r] EXCEPT !.pc = "lost", !.todo = {}, !.clear = FALSE]
  <2>1. q \in Request
    BY DEF IInv, TypeOK, Request
  <2>2. Sound(q, family', revoked')
    BY DEF IInv, TypeOK, Request, Sound
  <2>3. req' = [req EXCEPT ![r] = q] /\ UNCHANGED dbVars
    BY <1>10 DEF Crash
  <2> QED
    BY <1>0, <2>1, <2>2, <2>3, HandlerStep
<1>11. ASSUME NEW r \in Requests, Reply(r)
       PROVE  IInv'
  <2> DEFINE q == IF req[r].todo = {} THEN Idle
                  ELSE [req[r] EXCEPT !.pc = "lost", !.clear = FALSE]
  <2>1. req[r] \in Request /\ Sound(req[r], family, revoked)
    BY DEF IInv, TypeOK
  <2>2. q \in Request
    BY <2>1, IdleSound DEF Request
  <2>3. Sound(q, family, revoked)
    BY <2>1, IdleSound DEF Sound, Request
  <2>4. req' = [req EXCEPT ![r] = q]
    BY <1>11 DEF Reply
  <2> QED
    BY <1>0, <2>2, <2>3, <2>4, SoundStable, HandlerStep
<1>12. CASE UNCHANGED sessionVars
  BY <1>12 DEF sessionVars, IInv, TypeOK, Sound
<1> QED
  BY <1>1, <1>2, <1>3, <1>4, <1>5, <1>6, <1>7, <1>8, <1>9, <1>10, <1>11, <1>12
     DEF SessionsNext, Serve

\* It holds at the start.
LEMMA InitIInv == SessionsInit => IInv
BY IdleSound DEF SessionsInit, IInv, TypeOK

\* So it holds in every reachable state.
LEMMA Invariance == SessionsSpec => []IInv
BY InitIInv, NextIInv, PTL DEF SessionsSpec

\* TypeOK for every instance: every row that is revoked or expired exists, and
\* every handler's locals have their types.
THEOREM TypeCorrect == SessionsSpec => []TypeOK
BY Invariance, PTL DEF IInv

\* token.service.ts rotateSession: whatever fails, a refresh that is answered
\* 200 has revoked its token and stored the successor in the same family.
THEOREM RotationComplete == SessionsSpec => []AnswerAfterRotation
<1>1. IInv => AnswerAfterRotation
  BY SessionsNone DEF IInv, AnswerAfterRotation, Sound, At
<1> QED
  BY <1>1, Invariance, PTL

-----------------------------------------------------------------------------

\* An ended family stays ended when rows are kept and nobody starts to add one.
LEMMA EndedKept ==
    ASSUME NEW f \in Families, Ended(f), Rows,
           \A t \in Tokens : family'[t] = f => family[t] = f,
           \A r \in Requests : "create" \in req'[r].todo /\ req'[r].family = f
                                   => r \in Rotating(f)
    PROVE  Ended(f)'
<1>1. ~Unused(f)'
  BY SessionsNone DEF Ended, Unused, Rows
<1>2. \A t \in Tokens : family'[t] = f => t \in revoked'
  BY DEF Ended, Rows
<1>3. Rotating(f)' = {}
  BY DEF Ended, Rotating
<1> QED
  BY <1>1, <1>2, <1>3 DEF Ended

\* token.service.ts revokeFamily, rotateSession: a session that was logged out
\* or revoked for reuse stays dead, in every interleaving and after every
\* failure.
THEOREM EndedForGood == SessionsSpec => EndedStaysEnded
<1>1. ASSUME IInv, [SessionsNext]_sessionVars, NEW f \in Families, Ended(f)
      PROVE  Ended(f)'
  <2>0. /\ \A t \in Tokens : family[t] = f => t \in revoked
        /\ Rotating(f) = {}
        /\ ~Unused(f)
        /\ TypeOK
    BY <1>1 DEF Ended, IInv
  <2> DEFINE SameRows == \A t \in Tokens : family'[t] = f => family[t] = f
             NoneStarts == \A r \in Requests :
                 "create" \in req'[r].todo /\ req'[r].family = f => r \in Rotating(f)
  <2>1. ASSUME NEW t \in Tokens, NEW g \in Families, IssueSession(t, g)
        PROVE  SameRows /\ NoneStarts
    <3>1. g # f
      BY <2>0, <2>1 DEF IssueSession
    <3> QED
      BY <2>0, <2>1, <3>1 DEF IssueSession, TypeOK, Rotating
  <2>2. ASSUME NEW t \in Tokens, Expire(t)
        PROVE  SameRows /\ NoneStarts
    BY <2>2 DEF Expire, Rotating
  <2>3. ASSUME NEW r \in Requests, NEW t \in Tokens \cup {None}, StartRefresh(r, t)
        PROVE  SameRows /\ NoneStarts
    BY <2>0, <2>3 DEF StartRefresh, dbVars, Rotating, TypeOK, Idle
  <2>4. ASSUME NEW r \in Requests, NEW g \in Families \cup {None}, StartLogout(r, g)
        PROVE  SameRows /\ NoneStarts
    BY <2>0, <2>4 DEF StartLogout, dbVars, Rotating, TypeOK, Idle
  <2>5. ASSUME NEW r \in Requests, FindUnique(r)
        PROVE  SameRows /\ NoneStarts
    <3>1. req[r].token \in Tokens
      BY <1>1, <2>5 DEF FindUnique, At, IInv, Sound
    <3>2. Live(req[r].token) => family[req[r].token] # f
      BY <2>0, <3>1 DEF Live
    <3>3. "create" \notin req[r].todo \/ req[r].family # f
      BY <2>0 DEF Rotating
    <3>4. req[r].todo = {}
      BY <1>1, <2>0, <2>5 DEF FindUnique, At, TypeOK, IInv, Sound
    <3> QED
      BY <2>0, <2>5, <3>2, <3>4 DEF FindUnique, Answer, dbVars, Rotating, TypeOK, Request
  <2>6. ASSUME NEW r \in Requests, RevokeFamily(r)
        PROVE  SameRows /\ NoneStarts
    BY <2>0, <2>6 DEF RevokeFamily, Answer, Rotating, TypeOK, Request
  <2>7. ASSUME NEW r \in Requests, RotateUpdate(r)
        PROVE  SameRows /\ NoneStarts
    BY <2>0, <2>7 DEF RotateUpdate, Done, Rotating, TypeOK, Request
  <2>8. ASSUME NEW r \in Requests, RotateCreate(r)
        PROVE  SameRows /\ NoneStarts
    <3>1. req[r].family # f
      BY <2>0, <2>8 DEF RotateCreate, Rotating
    <3> QED
      BY <2>0, <2>8, <3>1 DEF RotateCreate, Done, Rotating, TypeOK, Request
  <2>9. ASSUME NEW r \in Requests, DbFails(r)
        PROVE  SameRows /\ NoneStarts
    <3> DEFINE failed(b) == [req[r] EXCEPT !.pc = "500", !.clear = b]
               halved(k) == [req[r] EXCEPT
                                !.todo = @ \ {k},
                                !.pc = IF @ = "rotate" THEN "500" ELSE @,
                                !.clear = @ \/ At(r, "rotate")]
    <3>0. req[r] \in Request /\ SameRows
      BY <2>0, <2>9 DEF DbFails, dbVars, TypeOK
    <3>1. ASSUME NEW q, q.todo \subseteq req[r].todo, q.family = req[r].family,
                 req' = [req EXCEPT ![r] = q]
          PROVE  NoneStarts
      BY <2>0, <3>1 DEF Rotating, TypeOK
    <3>2. ASSUME NEW b, req' = [req EXCEPT ![r] = failed(b)]
          PROVE  NoneStarts
      <4>1. failed(b).todo = req[r].todo /\ failed(b).family = req[r].family
        BY <3>0 DEF Request
      <4> HIDE DEF failed
      <4> QED
        BY <3>1, <3>2, <4>1
    <3>3. ASSUME NEW k \in req[r].todo, req' = [req EXCEPT ![r] = halved(k)]
          PROVE  NoneStarts
      <4>1. halved(k).todo = req[r].todo \ {k} /\ halved(k).family = req[r].family
        BY <3>0 DEF Request
      <4> HIDE DEF halved
      <4> QED
        BY <3>1, <3>3, <4>1
    <3>4. (\E b : req' = [req EXCEPT ![r] = failed(b)])
            \/ (\E k \in req[r].todo : req' = [req EXCEPT ![r] = halved(k)])
      BY <2>9 DEF DbFails, Answer
    <3> QED
      BY <3>0, <3>2, <3>3, <3>4
  <2>10. ASSUME NEW r \in Requests, Crash(r)
         PROVE  SameRows /\ NoneStarts
    BY <2>0, <2>10 DEF Crash, dbVars, Rotating, TypeOK, Request
  <2>11. ASSUME NEW r \in Requests, Reply(r)
         PROVE  SameRows /\ NoneStarts
    BY <2>0, <2>11 DEF Reply, dbVars, Rotating, TypeOK, Request, Idle
  <2>12. ASSUME UNCHANGED sessionVars
         PROVE  SameRows /\ NoneStarts
    BY <2>12 DEF sessionVars, Rotating
  <2>13. SameRows /\ NoneStarts
    BY <1>1, <2>1, <2>2, <2>3, <2>4, <2>5, <2>6, <2>7, <2>8, <2>9, <2>10, <2>11, <2>12
       DEF SessionsNext, Serve
  <2>14. Rows
    BY <1>1, RowsGrow
  <2> QED
    BY <1>1, <2>13, <2>14, EndedKept
<1> DEFINE Kept == \A f \in Families : Ended(f) => Ended(f)'
<1>2. IInv /\ [SessionsNext]_sessionVars => [Kept]_sessionVars
  BY <1>1
<1> QED
  BY <1>2, Invariance, PTL DEF SessionsSpec, EndedStaysEnded

-----------------------------------------------------------------------------
\* One browser.

USE SessionsNone, BrowserNone, BrowserRetries

\* A token of the session of the last sign-in, or none.
Ours(t) == t = None \/ Current(t)
Good(t) == t \in Tokens /\ Live(t) /\ t \notin expired

\* What a handler holds belongs to that session; a logout only revokes.
HandlerOurs(q) ==
    /\ q.op = None <=> q = Idle
    /\ Ours(q.token) /\ Ours(q.fresh) /\ q.family \in {None, current}
    /\ q.fresh # None => q.fresh # q.token
    /\ q.op = "logout" => /\ q.pc \in {"revokeFamily", "200", "500", "lost"}
                          /\ q.token = None /\ q.todo = {} /\ q.fresh = None
    /\ q.pc = "findUnique" \/ "create" \in q.todo => q.fresh = None
JarOurs == Ours(cookie) /\ access \in {None, current}
AllOurs == JarOurs /\ \A r \in Requests : HandlerOurs(req[r])

\* A call waits for a handler of its own.
CallWaits(k) ==
    /\ k.slot = None <=> k.pc \in {"idle", "refresh"}
    /\ k.pc = "idle" => k = Rest
    /\ k.pc = "await" => req[k.slot].op = "refresh"
    /\ k.pc = "awaitLogout" => req[k.slot].op = "logout"
CallsWait ==
    /\ \A c \in Calls : CallWaits(call[c])
    /\ \A c, d \in Calls : call[c].slot = call[d].slot /\ call[c].slot # None => c = d

\* As long as nothing goes wrong there is one refresh at a time, and a call
\* waits for it.
OneRefresh ==
    ~disturbed =>
        /\ \A r, s \in Requests : req[r].op = "refresh" /\ req[s].op = "refresh" => r = s
        /\ \A r \in Requests : req[r].op = "refresh" =>
               \E c \in Calls : call[c].pc = "await" /\ call[c].slot = r
        /\ \A r \in Requests : req[r].todo # {} => req[r].pc = "rotate"

\* The tokens that would be accepted.
LiveOnes ==
    ~disturbed =>
        /\ \A r \in Requests : req[r].todo # {} =>
               \A t \in Tokens : Current(t) /\ Live(t) => t \in {req[r].token, req[r].fresh}
        /\ (\A r \in Requests : req[r].todo = {}) =>
               \A t, u \in Tokens : Current(t) /\ Live(t) /\ Current(u) /\ Live(u) => t = u

\* The one that the browser has, or will have.
KeepsToken(q) ==
    \/ q.op = None
    \/ /\ q.op = "refresh" /\ ~q.clear
       /\ \/ q.pc = "findUnique" /\ Good(q.token)
          \/ q.pc = "rotate" /\ ("create" \notin q.todo => Good(q.fresh))
          \/ q.pc = "200" /\ Good(q.fresh)
OpenGood ==
    session = "open" /\ ~disturbed =>
        /\ \A r \in Requests : KeepsToken(req[r])
        /\ (\A r \in Requests : req[r].op = None) => Good(cookie)

\* A logout that meets no other handler.
AllRevoked == \A t \in Tokens : Current(t) => t \in revoked
LogoutAlone ==
    alone =>
        /\ \A r, s \in Requests : req[r].op # None /\ req[s].op # None => r = s
        /\ \A r \in Requests :
               /\ req[r].op # "refresh"
               /\ req[r].op = "logout" /\ req[r].pc = "200" /\ req[r].family # None =>
                      req[r].clear /\ AllRevoked

\* What is left after it.
Harmless(q) ==
    \/ q.op = None
    \/ q.op = "refresh" /\ q.pc \in {"401", "lost"} /\ q.token = None /\ q.todo = {} /\ q.fresh = None
LoggedOut ==
    session = "loggedOut" =>
        cookie = None /\ access = None /\ AllRevoked /\ \A r \in Requests : Harmless(req[r])

\* What one jar adds to the invariant of the handlers.
Extra == AllOurs /\ CallsWait /\ OneRefresh /\ LiveOnes /\ OpenGood /\ LogoutAlone /\ LoggedOut
BInv == IInv /\ BrowserTypeOK /\ Extra

-----------------------------------------------------------------------------
\* The browser's steps.

\* Every one is a step of Sessions, or leaves the API alone.
LEMMA Refines ==
    ASSUME BInv, [Next]_vars
    PROVE  [SessionsNext]_sessionVars
<1>0. BrowserTypeOK /\ CallsWait
  BY DEF BInv, Extra
<1>1. ASSUME NEW t \in Tokens, NEW f \in Families, SignIn(t, f)
      PROVE  SessionsNext
  BY <1>1 DEF SignIn, SessionsNext
<1>2. CASE AgeAccess \/ UNCHANGED vars
  BY <1>2 DEF AgeAccess, vars, dbVars, sessionVars
<1>3. CASE AgeCookie
  BY <1>0, <1>3 DEF AgeCookie, SessionsNext, BrowserTypeOK
<1>4. ASSUME NEW c \in Calls, GetUnauthorized(c) \/ Unreachable(c) \/ CutOff(c)
      PROVE  UNCHANGED sessionVars
  BY <1>4 DEF GetUnauthorized, Unreachable, CutOff, dbVars, sessionVars
<1>5. ASSUME NEW c \in Calls, SendRefresh(c)
      PROVE  SessionsNext
  BY <1>0, <1>5 DEF SendRefresh, SessionsNext, BrowserTypeOK
<1>6. ASSUME NEW c \in Calls, PressLogout(c)
      PROVE  SessionsNext
  BY <1>0, <1>6 DEF PressLogout, SessionsNext, BrowserTypeOK
<1>7. ASSUME NEW c \in Calls, ReceiveRefresh(c) \/ ReceiveLogout(c)
      PROVE  SessionsNext
  <2>1. call[c].slot \in Requests
    BY <1>0, <1>7 DEF ReceiveRefresh, ReceiveLogout, CallsWait, CallWaits, BrowserTypeOK, Call
  <2> QED
    BY <1>7, <2>1 DEF ReceiveRefresh, ReceiveLogout, SessionsNext
<1>8. ASSUME NEW r \in Requests, Progress(r) \/ Fault(r) \/ DropReply(r)
      PROVE  SessionsNext
  BY <1>8 DEF Progress, Fault, DropReply, SessionsNext, Serve
<1> QED
  BY <1>1, <1>2, <1>3, <1>4, <1>5, <1>6, <1>7, <1>8 DEF Next, Client

\* The browser's own variables keep their types.
LEMMA TypesStay ==
    ASSUME BInv, TypeOK', [Next]_vars
    PROVE  BrowserTypeOK'
<1>0. BrowserTypeOK /\ CallsWait
  BY DEF BInv, Extra
<1>1. ASSUME NEW t \in Tokens, NEW f \in Families, SignIn(t, f)
      PROVE  BrowserTypeOK'
  BY <1>0, <1>1 DEF SignIn, BrowserTypeOK
<1>2. CASE AgeAccess \/ AgeCookie \/ UNCHANGED vars
  BY <1>0, <1>2 DEF AgeAccess, AgeCookie, vars, BrowserTypeOK
<1>3. ASSUME NEW c \in Calls, TryAgain(c)
      PROVE  call' \in [Calls -> Call]
  BY <1>0, <1>3 DEF TryAgain, BrowserTypeOK, Call, Rest
<1>4. ASSUME NEW c \in Calls, GetUnauthorized(c) \/ Unreachable(c) \/ CutOff(c)
      PROVE  BrowserTypeOK'
  <2>1. call' \in [Calls -> Call]
    BY <1>0, <1>3, <1>4 DEF GetUnauthorized, Unreachable, CutOff, BrowserTypeOK, Call, Rest
  <2> QED
    BY <1>0, <1>4, <2>1 DEF GetUnauthorized, Unreachable, CutOff, BrowserTypeOK
<1>5. ASSUME NEW c \in Calls, SendRefresh(c) \/ PressLogout(c)
      PROVE  BrowserTypeOK'
  <2>0. call \in [Calls -> Call] /\ call[c] \in Call
    BY <1>0 DEF BrowserTypeOK
  <2>1. call' \in [Calls -> Call]
    <3> DEFINE k(pc, r) == [call[c] EXCEPT !.pc = pc, !.slot = r]
    <3>1. \A pc \in {"await", "awaitLogout"}, r \in Requests : k(pc, r) \in Call
      BY <2>0 DEF Call
    <3>2. \E pc \in {"await", "awaitLogout"}, r \in Requests : call' = [call EXCEPT ![c] = k(pc, r)]
      BY <1>5 DEF SendRefresh, PressLogout
    <3> HIDE DEF k
    <3> QED
      BY <2>0, <3>1, <3>2
  <2> QED
    BY <1>0, <1>5, <2>1 DEF SendRefresh, PressLogout, BrowserTypeOK
<1>6. ASSUME NEW c \in Calls, ReceiveRefresh(c) \/ ReceiveLogout(c)
      PROVE  BrowserTypeOK'
  <2>1. call[c].slot \in Requests
    BY <1>0, <1>6 DEF ReceiveRefresh, ReceiveLogout, CallsWait, CallWaits, BrowserTypeOK, Call
  <2>2. req[call[c].slot] \in Request
    BY <1>0, <2>1 DEF BrowserTypeOK, TypeOK
  <2>3. access' \in Families \cup {None} /\ cookie' \in Tokens \cup {None}
    BY <1>0, <1>6, <2>2 DEF ReceiveRefresh, ReceiveLogout, ApplyCookies, BrowserTypeOK, Request
  <2>4. call' \in [Calls -> Call]
    BY <1>0, <1>3, <1>6 DEF ReceiveRefresh, ReceiveLogout, BrowserTypeOK, Call, Rest
  <2> QED
    BY <1>0, <1>6, <2>3, <2>4 DEF ReceiveRefresh, ReceiveLogout, BrowserTypeOK
<1>7. ASSUME NEW r \in Requests, Progress(r) \/ Fault(r) \/ DropReply(r)
      PROVE  BrowserTypeOK'
  BY <1>0, <1>7 DEF Progress, Fault, DropReply, browserVars, BrowserTypeOK
<1> QED
  BY <1>1, <1>2, <1>4, <1>5, <1>6, <1>7 DEF Next, Client

-----------------------------------------------------------------------------
\* Steps of one handler.

\* The others stay where they are, and so does the browser.
Works(r) ==
    /\ \A s \in Requests : s # r => req'[s] = req[s]
    /\ UNCHANGED <<access, cookie, call, session, current, alone>>

\* Rows are not taken back, so what belongs to the session still does.
LEMMA OursStay ==
    ASSUME BInv, Rows, current' = current, NEW t \in Tokens \cup {None}, Ours(t)
    PROVE  Ours(t)'
BY DEF Ours, Current, Exists, Rows

\* When r works on, what every handler and call relies on holds if it holds of r.
LEMMA HandlersStay ==
    ASSUME BInv, Rows, NEW r \in Requests, Works(r),
           HandlerOurs(req[r])', req'[r].op = req[r].op
    PROVE  AllOurs' /\ CallsWait'
<1>0. /\ BrowserTypeOK /\ TypeOK /\ AllOurs /\ CallsWait
      /\ UNCHANGED <<access, cookie, call, session, current, alone>>
  BY DEF BInv, IInv, Extra, Works
<1>1. JarOurs'
  BY <1>0, OursStay DEF AllOurs, JarOurs, BrowserTypeOK
<1>2. ASSUME NEW s \in Requests
      PROVE  HandlerOurs(req[s])'
  <2>1. CASE s = r
    BY <2>1
  <2>2. CASE s # r
    <3>1. req'[s] = req[s] /\ HandlerOurs(req[s]) /\ req[s] \in Request
      BY <1>0, <2>2 DEF Works, AllOurs, TypeOK
    <3>2. Ours(req[s].token)' /\ Ours(req[s].fresh)'
      <4>1. req[s].token \in Tokens \cup {None} /\ req[s].fresh \in Tokens \cup {None}
        BY <3>1 DEF Request
      <4> QED
        BY <1>0, <3>1, <4>1, OursStay DEF HandlerOurs, Ours, Current, Exists, Rows
    <3> QED
      BY <1>0, <3>1, <3>2 DEF HandlerOurs
  <2> QED
    BY <2>1, <2>2
<1>3. \A s \in Requests : req'[s].op = req[s].op
  BY DEF Works
<1>4. CallsWait'
  BY <1>0, <1>3 DEF CallsWait, CallWaits, BrowserTypeOK, Call
<1> QED
  BY <1>1, <1>2, <1>4 DEF AllOurs

\* A refresh under way works for the session, and nobody is logged out.
LEMMA RefreshAtWork ==
    ASSUME BInv, NEW r \in Requests, req[r].pc = "findUnique" \/ req[r].todo # {}
    PROVE  /\ req[r].op = "refresh" /\ req[r].token \in Tokens /\ Current(req[r].token)
           /\ ~alone /\ session # "loggedOut"
           /\ req[r].todo # {} => req[r].family = current
<1>1. /\ req[r] \in Request /\ Sound(req[r], family, revoked) /\ HandlerOurs(req[r])
      /\ LogoutAlone /\ LoggedOut
  BY DEF BInv, IInv, Extra, AllOurs, TypeOK
<1>2. req[r] # Idle
  BY DEF Idle
<1>3. req[r].op = "refresh" /\ req[r].token \in Tokens
  BY <1>1, <1>2 DEF HandlerOurs, Request, Sound
<1>4. Current(req[r].token) /\ (req[r].todo # {} => req[r].family = current)
  BY <1>1, <1>3 DEF HandlerOurs, Ours, Sound
<1>5. ~Harmless(req[r])
  BY <1>3 DEF Harmless
<1> QED
  BY <1>1, <1>3, <1>4, <1>5 DEF LogoutAlone, LoggedOut

\* While nothing goes wrong no other handler rotates.
LEMMA Lone ==
    ASSUME BInv, ~disturbed, NEW r \in Requests, req[r].op = "refresh"
    PROVE  \A s \in Requests : s # r => req[s].op # "refresh" /\ req[s].todo = {}
<1>1. OneRefresh
  BY DEF BInv, Extra
<1> QED
  BY <1>1, RefreshAtWork DEF OneRefresh

\* The calls that wait for a refresh keep waiting for it.
LEMMA OneRefreshStays ==
    ASSUME BInv, NEW r \in Requests, Works(r), req'[r].op = req[r].op,
           disturbed' = disturbed, req'[r].todo # {} => req'[r].pc = "rotate"
    PROVE  OneRefresh'
BY DEF BInv, Extra, OneRefresh, Works

\* The handler decides: unless something went wrong it finds its token good.
LEMMA StepFindUnique ==
    ASSUME BInv, Rows, NEW r \in Requests, FindUnique(r), UNCHANGED browserVars
    PROVE  Extra'
<1> DEFINE t == req[r].token
<1>0. /\ req[r] \in Request /\ req[r].pc = "findUnique" /\ req[r].todo = {}
      /\ HandlerOurs(req[r]) /\ req \in [Requests -> Request]
      /\ UNCHANGED <<access, cookie, call, session, current, alone, disturbed>>
      /\ UNCHANGED <<family, revoked, expired>>
  BY DEF FindUnique, At, BInv, IInv, Extra, AllOurs, TypeOK, Sound, browserVars, dbVars
<1>1. req[r].op = "refresh" /\ t \in Tokens /\ Current(t) /\ ~alone /\ session # "loggedOut"
  BY <1>0, RefreshAtWork
<1>2. Works(r)
  BY <1>0 DEF FindUnique, Answer, Works
<1>3. /\ req'[r].op = "refresh" /\ req'[r].token = t /\ req'[r].fresh = None
      /\ \/ /\ req'[r].pc \in {"401", "revokeFamily"} /\ req'[r].todo = {}
            /\ req'[r].family \in {req[r].family, current} /\ ~Good(t)
         \/ /\ req'[r].pc = "rotate" /\ req'[r].todo = {"update", "create"}
            /\ req'[r].family = current /\ req'[r].clear = req[r].clear /\ Live(t)
  BY <1>0, <1>1 DEF FindUnique, Answer, HandlerOurs, Good, Live, Current, Request
<1>4. HandlerOurs(req[r])'
  BY <1>0, <1>1, <1>3 DEF HandlerOurs, Ours, Current, Exists, Idle
<1>5. AllOurs' /\ CallsWait'
  BY <1>1, <1>2, <1>3, <1>4, HandlersStay
<1>6. OneRefresh'
  BY <1>0, <1>1, <1>2, <1>3, OneRefreshStays
<1>7. LiveOnes'
  <2>1. ASSUME ~disturbed
        PROVE  \A s \in Requests : req[s].todo = {}
    BY <1>0, <1>1, <2>1, Lone
  <2>2. ASSUME ~disturbed, NEW u \in Tokens, Current(u), Live(u), Live(t)
        PROVE  u = t
    BY <1>1, <2>1, <2>2 DEF BInv, Extra, LiveOnes
  <2>3. \A u \in Tokens : (Current(u)' <=> Current(u)) /\ (Live(u)' <=> Live(u))
    BY <1>0 DEF Current, Live, Exists
  <2> QED
    BY <1>0, <1>2, <1>3, <2>1, <2>2, <2>3 DEF LiveOnes, Works, BInv, Extra
<1>8. OpenGood'
  <2>1. ASSUME session = "open", ~disturbed
        PROVE  Good(t) /\ ~req[r].clear
    BY <1>0, <1>1, <2>1 DEF BInv, Extra, OpenGood, KeepsToken
  <2>2. ASSUME session = "open", ~disturbed
        PROVE  KeepsToken(req[r])'
    BY <1>3, <2>1, <2>2 DEF KeepsToken
  <2>3. ASSUME session = "open", ~disturbed, NEW s \in Requests, s # r
        PROVE  KeepsToken(req[s])'
    BY <1>0, <1>1, <1>2, <2>3, Lone DEF BInv, Extra, OpenGood, KeepsToken, Works
  <2> QED
    BY <1>0, <1>3, <2>2, <2>3 DEF OpenGood
<1>9. LogoutAlone' /\ LoggedOut'
  BY <1>0, <1>1 DEF LogoutAlone, LoggedOut
<1> QED
  BY <1>5, <1>6, <1>7, <1>8, <1>9 DEF Extra

\* Fewer tokens are live, and no rotation has moved.
LEMMA LiveOnesStay ==
    ASSUME BInv, Rows, NEW r \in Requests, Works(r), disturbed' = disturbed,
           family' = family, req'[r].todo = req[r].todo, req'[r].token = req[r].token,
           req'[r].fresh = req[r].fresh
    PROVE  LiveOnes'
<1>1. \A s \in Requests : /\ req'[s].todo = req[s].todo /\ req'[s].token = req[s].token
                          /\ req'[s].fresh = req[s].fresh
  BY DEF Works
<1>2. \A u \in Tokens : (Current(u) /\ Live(u))' => Current(u) /\ Live(u)
  BY DEF Current, Live, Exists, Rows, Works
<1> QED
  BY <1>1, <1>2 DEF LiveOnes, BInv, Extra

\* A logout, or a replay, which nothing but a disturbance can have brought about.
LEMMA StepRevokeFamily ==
    ASSUME BInv, Rows, NEW r \in Requests, RevokeFamily(r), UNCHANGED browserVars
    PROVE  Extra'
<1>0. /\ req[r] \in Request /\ req[r].pc = "revokeFamily" /\ req[r].family \in Families
      /\ HandlerOurs(req[r]) /\ req \in [Requests -> Request]
      /\ UNCHANGED <<access, cookie, call, session, current, alone, disturbed>>
      /\ UNCHANGED <<family, expired>>
  BY DEF RevokeFamily, At, BInv, IInv, Extra, AllOurs, TypeOK, Sound, browserVars
<1>1. req[r].op # None /\ req[r].family = current
  BY <1>0 DEF HandlerOurs, Idle
<1>2. Works(r)
  BY <1>0 DEF RevokeFamily, Answer, Works
<1>3. /\ req'[r].op = req[r].op /\ req'[r].token = req[r].token /\ req'[r].fresh = req[r].fresh
      /\ req'[r].family = current /\ req'[r].todo = req[r].todo /\ req'[r].clear
      /\ req'[r].pc = IF req[r].op = "logout" THEN "200" ELSE "401"
  BY <1>0, <1>1 DEF RevokeFamily, Answer, Request
<1>4. HandlerOurs(req[r])'
  BY <1>0, <1>1, <1>3 DEF HandlerOurs, Ours, Current, Exists, Idle
<1>5. AllOurs' /\ CallsWait'
  BY <1>2, <1>3, <1>4, HandlersStay
<1>6. OneRefresh'
  <2>1. ~disturbed => req[r].todo = {}
    BY <1>0 DEF BInv, Extra, OneRefresh
  <2>2. CASE disturbed
    BY <1>0, <2>2 DEF OneRefresh
  <2>3. CASE ~disturbed
    BY <1>0, <1>2, <1>3, <2>1, <2>3, OneRefreshStays
  <2> QED
    BY <2>2, <2>3
<1>7. LiveOnes'
  BY <1>0, <1>2, <1>3, LiveOnesStay
<1>8. session = "open" => disturbed
  <2>1. ~KeepsToken(req[r])
    BY <1>0, <1>1 DEF KeepsToken
  <2> QED
    BY <2>1 DEF BInv, Extra, OpenGood
<1>9. OpenGood'
  BY <1>0, <1>8 DEF OpenGood
<1>10. LogoutAlone'
  <2>1. AllRevoked'
    BY <1>0, <1>1 DEF RevokeFamily, AllRevoked, Current
  <2>2. \A s \in Requests : req'[s].op = req[s].op
    BY <1>2, <1>3 DEF Works
  <2> QED
    BY <1>0, <1>2, <1>3, <2>1, <2>2 DEF LogoutAlone, Works, BInv, Extra
<1>11. LoggedOut'
  <2>1. ~Harmless(req[r])
    BY <1>0, <1>1 DEF Harmless
  <2> QED
    BY <1>0, <2>1 DEF LoggedOut, BInv, Extra
<1> QED
  BY <1>5, <1>6, <1>7, <1>9, <1>10, <1>11 DEF Extra

\* The old token dies; if the new one is stored, it is the one that lives.
LEMMA StepRotateUpdate ==
    ASSUME BInv, Rows, NEW r \in Requests, RotateUpdate(r), UNCHANGED browserVars
    PROVE  Extra'
<1> DEFINE t == req[r].token
           n == req[r].fresh
<1>0. /\ req[r] \in Request /\ "update" \in req[r].todo
      /\ HandlerOurs(req[r]) /\ req \in [Requests -> Request]
      /\ UNCHANGED <<access, cookie, call, session, current, alone, disturbed>>
      /\ UNCHANGED <<family, expired>> /\ revoked' = revoked \cup {t}
      /\ req[r].pc # "findUnique" /\ req[r].todo \subseteq {"update", "create"}
  BY DEF RotateUpdate, BInv, IInv, Extra, AllOurs, TypeOK, Request, Sound, browserVars
<1>1. req[r].op = "refresh" /\ t \in Tokens /\ Current(t) /\ ~alone /\ session # "loggedOut"
  BY <1>0, RefreshAtWork
<1>2. Works(r)
  BY <1>0 DEF RotateUpdate, Works
<1>3. /\ req'[r].op = "refresh" /\ req'[r].token = t /\ req'[r].fresh = n
      /\ req'[r].family = req[r].family /\ req'[r].todo = req[r].todo \ {"update"}
      /\ req'[r].clear = req[r].clear
      /\ req'[r].pc = IF req[r].pc = "rotate" /\ req[r].todo = {"update"} THEN "200" ELSE req[r].pc
  BY <1>0, <1>1 DEF RotateUpdate, Done, Request
<1>4. HandlerOurs(req[r])'
  BY <1>0, <1>1, <1>3 DEF HandlerOurs, Ours, Current, Exists, Idle
<1>5. AllOurs' /\ CallsWait'
  BY <1>1, <1>2, <1>3, <1>4, HandlersStay
<1>6. ~disturbed => req[r].pc = "rotate" /\ \A s \in Requests : s # r => req[s].todo = {}
  BY <1>0, <1>1, Lone DEF BInv, Extra, OneRefresh
<1>7. OneRefresh'
  <2>1. CASE disturbed
    BY <1>0, <2>1 DEF OneRefresh
  <2>2. CASE ~disturbed
    BY <1>0, <1>1, <1>2, <1>3, <1>6, <2>2, OneRefreshStays
  <2> QED
    BY <2>1, <2>2
<1>8. LiveOnes'
  <2>1. ASSUME ~disturbed, NEW u \in Tokens, Current(u)', Live(u)'
        PROVE  u = n
    BY <1>0, <2>1 DEF BInv, Extra, LiveOnes, Current, Live, Exists
  <2>2. ~disturbed => \A s \in Requests : s # r => req'[s].todo = {}
    BY <1>2, <1>6 DEF Works
  <2> QED
    BY <1>0, <1>3, <2>1, <2>2 DEF LiveOnes
<1>9. OpenGood'
  <2>1. ASSUME session = "open", ~disturbed
        PROVE  ~req[r].clear /\ ("create" \notin req[r].todo => Good(n) /\ n # t)
    BY <1>0, <1>1, <1>6, <2>1 DEF BInv, Extra, OpenGood, KeepsToken, Good, HandlerOurs
  <2>2. ASSUME session = "open", ~disturbed
        PROVE  KeepsToken(req[r])'
    BY <1>0, <1>3, <1>6, <2>1, <2>2 DEF KeepsToken, Good, Live, Exists
  <2>3. ASSUME session = "open", ~disturbed, NEW s \in Requests, s # r
        PROVE  KeepsToken(req[s])'
    BY <1>0, <1>1, <1>2, <2>3, Lone DEF BInv, Extra, OpenGood, KeepsToken, Works
  <2> QED
    BY <1>0, <1>3, <2>2, <2>3 DEF OpenGood
<1>10. LogoutAlone' /\ LoggedOut'
  BY <1>0, <1>1 DEF LogoutAlone, LoggedOut
<1> QED
  BY <1>5, <1>7, <1>8, <1>9, <1>10 DEF Extra

\* The new token is stored; the old one lives on only if it is still to be revoked.
LEMMA StepRotateCreate ==
    ASSUME BInv, Rows, NEW r \in Requests, RotateCreate(r), UNCHANGED browserVars
    PROVE  Extra'
<1> DEFINE t == req[r].token
<1>0. /\ req[r] \in Request /\ "create" \in req[r].todo /\ TypeOK
      /\ HandlerOurs(req[r]) /\ Sound(req[r], family, revoked) /\ req \in [Requests -> Request]
      /\ UNCHANGED <<access, cookie, call, session, current, alone, disturbed>>
      /\ UNCHANGED <<revoked, expired>>
      /\ req[r].pc # "findUnique" /\ req[r].todo \subseteq {"update", "create"}
  BY DEF RotateCreate, BInv, IInv, Extra, AllOurs, TypeOK, Request, Sound, browserVars
<1>1. /\ req[r].op = "refresh" /\ t \in Tokens /\ Current(t) /\ ~alone /\ session # "loggedOut"
      /\ req[r].family = current /\ req[r].fresh = None
  BY <1>0, RefreshAtWork DEF HandlerOurs
<1>2. PICK n \in Tokens :
          /\ Fresh(n)
          /\ family' = [family EXCEPT ![n] = current]
          /\ req' = [req EXCEPT ![r] = [Done(r, "create") EXCEPT !.fresh = n]]
  BY <1>1 DEF RotateCreate
<1>3. Works(r)
  BY <1>0, <1>2 DEF Works
<1>4. /\ req'[r].op = "refresh" /\ req'[r].token = t /\ req'[r].fresh = n
      /\ req'[r].family = current /\ req'[r].todo = req[r].todo \ {"create"}
      /\ req'[r].clear = req[r].clear
      /\ req'[r].pc = IF req[r].pc = "rotate" /\ req[r].todo = {"create"} THEN "200" ELSE req[r].pc
  BY <1>0, <1>1, <1>2 DEF Done, Request
<1>5. /\ n # t /\ ~Exists(n) /\ Current(n)' /\ n \notin revoked \cup expired
      /\ \A u \in Tokens : u # n => family'[u] = family[u]
  BY <1>0, <1>1, <1>2 DEF Fresh, Current, Exists, TypeOK
<1>6. HandlerOurs(req[r])'
  <2>1. Current(req[r].token)' /\ Current(n)'
    BY <1>0, <1>1, <1>4, <1>5 DEF Current, Exists
  <2> QED
    BY <1>0, <1>4, <1>5, <2>1 DEF HandlerOurs, Idle, Ours
<1>7. AllOurs' /\ CallsWait'
  BY <1>1, <1>3, <1>4, <1>6, HandlersStay
<1>8. ~disturbed => req[r].pc = "rotate" /\ \A s \in Requests : s # r => req[s].todo = {}
  BY <1>0, <1>1, Lone DEF BInv, Extra, OneRefresh
<1>9. OneRefresh'
  <2>1. CASE disturbed
    BY <1>0, <2>1 DEF OneRefresh
  <2>2. CASE ~disturbed
    BY <1>0, <1>1, <1>3, <1>4, <1>8, <2>2, OneRefreshStays
  <2> QED
    BY <2>1, <2>2
<1>10. LiveOnes'
  <2>1. ASSUME ~disturbed, NEW u \in Tokens, Current(u)', Live(u)', u # n
        PROVE  u = t /\ req[r].todo # {"create"}
    <3>1. Current(u) /\ Live(u)
      BY <1>0, <1>5, <2>1 DEF Current, Live, Exists
    <3>2. u = t
      BY <1>0, <1>1, <2>1, <3>1 DEF BInv, Extra, LiveOnes
    <3> QED
      BY <1>0, <1>8, <2>1, <3>1, <3>2 DEF Sound, Live
  <2>2. ~disturbed => \A s \in Requests : s # r => req'[s].todo = {}
    BY <1>3, <1>8 DEF Works
  <2> QED
    BY <1>0, <1>4, <2>1, <2>2 DEF LiveOnes
<1>11. OpenGood'
  <2>1. ASSUME session = "open", ~disturbed
        PROVE  ~req[r].clear
    BY <1>0, <1>1, <1>8, <2>1 DEF BInv, Extra, OpenGood, KeepsToken
  <2>2. Good(n)'
    BY <1>0, <1>5 DEF Good, Live, Current
  <2>3. ASSUME session = "open", ~disturbed
        PROVE  KeepsToken(req[r])'
    BY <1>0, <1>4, <1>8, <2>1, <2>2, <2>3 DEF KeepsToken, Good, Live, Exists
  <2>4. ASSUME session = "open", ~disturbed, NEW s \in Requests, s # r
        PROVE  KeepsToken(req[s])'
    BY <1>0, <1>1, <1>3, <2>4, Lone DEF BInv, Extra, OpenGood, KeepsToken, Works
  <2> QED
    BY <1>0, <1>4, <2>3, <2>4 DEF OpenGood
<1>12. LogoutAlone' /\ LoggedOut'
  BY <1>0, <1>1 DEF LogoutAlone, LoggedOut
<1> QED
  BY <1>7, <1>9, <1>10, <1>11, <1>12 DEF Extra

\* What a failure does to a handler.
LEMMA FaultMoves ==
    ASSUME BInv, NEW r \in Requests, Fault(r)
    PROVE  /\ req[r] # Idle /\ req'[r].todo \subseteq req[r].todo
           /\ \A s \in Requests : s # r => req'[s] = req[s]
           /\ req'[r].op = req[r].op /\ req'[r].token = req[r].token
           /\ req'[r].fresh = req[r].fresh /\ req'[r].family = req[r].family
           /\ \/ req'[r].pc \in {"500", "lost"}
              \/ req'[r].pc = req[r].pc /\ req[r].todo # {}
           /\ Harmless(req[r]) => req'[r].pc = "lost"
<1>0. req[r] \in Request /\ req \in [Requests -> Request]
  BY DEF BInv, IInv, TypeOK
<1>1. CASE Crash(r)
  <2>1. req[r] # Idle
    BY <1>1 DEF Crash, At, Idle
  <2> QED
    BY <1>0, <1>1, <2>1 DEF Crash, Request
<1>2. CASE /\ req[r].pc \in {"findUnique", "revokeFamily"}
           /\ Answer(r, "500", IF req[r].op = "refresh" THEN "clear" ELSE "keep")
  <2>1. req[r] # Idle /\ ~Harmless(req[r])
    BY <1>0, <1>2 DEF Idle, Harmless, HandlerOurs, BInv, Extra, AllOurs
  <2> QED
    BY <1>0, <1>2, <2>1 DEF Answer, Request
<1>3. ASSUME NEW k \in req[r].todo,
             req' = [req EXCEPT ![r].todo = @ \ {k},
                                ![r].pc = IF @ = "rotate" THEN "500" ELSE @,
                                ![r].clear = @ \/ At(r, "rotate")]
      PROVE  /\ req'[r].todo = req[r].todo \ {k}
             /\ \A s \in Requests : s # r => req'[s] = req[s]
             /\ req'[r].op = req[r].op /\ req'[r].token = req[r].token
             /\ req'[r].fresh = req[r].fresh /\ req'[r].family = req[r].family
             /\ req'[r].pc \in {"500", req[r].pc}
  <2> DEFINE c == req[r].clear \/ At(r, "rotate")
  <2>1. req' = [req EXCEPT ![r] = [req[r] EXCEPT !.todo = @ \ {k},
                                        !.pc = IF @ = "rotate" THEN "500" ELSE @,
                                        !.clear = c]]
    BY <1>0, <1>3
  <2>2. c \in BOOLEAN
    BY <1>0 DEF Request, At
  <2> HIDE DEF c
  <2> QED
    BY <1>0, <2>1, <2>2 DEF Request
<1>4. ASSUME NEW k \in req[r].todo
      PROVE  req[r] # Idle /\ ~Harmless(req[r])
  BY DEF Idle, Harmless, HandlerOurs, BInv, Extra, AllOurs
<1> QED
  BY <1>1, <1>2, <1>3, <1>4 DEF Fault, DbFails

\* A handler fails: only what is claimed of undisturbed sessions could break.
LEMMA StepFault ==
    ASSUME BInv, Rows, NEW r \in Requests, Fault(r)
    PROVE  Extra'
<1>0. /\ req[r] \in Request /\ HandlerOurs(req[r]) /\ Sound(req[r], family, revoked)
      /\ UNCHANGED <<access, cookie, call, session, current, alone>> /\ disturbed'
      /\ UNCHANGED <<family, revoked, expired>>
  BY DEF Fault, DbFails, Crash, BInv, IInv, Extra, AllOurs, TypeOK, dbVars
<1>1. req[r].op # None
  BY <1>0, FaultMoves DEF HandlerOurs
<1>2. Works(r)
  BY <1>0, FaultMoves DEF Works
<1>4. HandlerOurs(req[r])'
  BY <1>0, <1>1, FaultMoves DEF HandlerOurs, Ours, Current, Exists, Idle
<1>5. AllOurs' /\ CallsWait'
  BY <1>2, <1>4, FaultMoves, HandlersStay
<1>6. OneRefresh' /\ LiveOnes' /\ OpenGood'
  BY <1>0 DEF OneRefresh, LiveOnes, OpenGood
<1>7. \A s \in Requests : req'[s].op = req[s].op
  BY FaultMoves
<1>8. AllRevoked' <=> AllRevoked
  BY <1>0 DEF AllRevoked, Current, Exists
<1>9. LogoutAlone'
  <2>1. req[r].op = "logout" => req'[r].pc # "200"
    BY <1>0, FaultMoves DEF HandlerOurs
  <2> QED
    BY <1>0, <1>2, <1>7, <1>8, <2>1 DEF LogoutAlone, Works, BInv, Extra
<1>10. LoggedOut'
  <2>1. Harmless(req[r]) => Harmless(req[r])'
    BY <1>0, <1>1, FaultMoves DEF Harmless
  <2> QED
    BY <1>0, <1>2, <1>8, <2>1 DEF LoggedOut, Works, BInv, Extra, Harmless
<1> QED
  BY <1>5, <1>6, <1>9, <1>10 DEF Extra

-----------------------------------------------------------------------------
\* Answers.

\* An answer frees its slot, unless half of a rotation still runs behind it.
LEMMA ReplyMoves ==
    ASSUME BInv, NEW r \in Requests, Reply(r)
    PROVE  /\ req[r].op # None /\ UNCHANGED <<family, revoked, expired>>
           /\ \A s \in Requests : s # r => req'[s] = req[s]
           /\ \/ req[r].todo = {} /\ req'[r] = Idle
              \/ /\ req[r].todo # {} /\ disturbed /\ req[r].op = "refresh"
                 /\ req'[r].op = req[r].op /\ req'[r].token = req[r].token
                 /\ req'[r].fresh = req[r].fresh /\ req'[r].family = req[r].family
                 /\ req'[r].todo = req[r].todo /\ req'[r].pc = "lost"
<1>0. /\ req[r] \in Request /\ req \in [Requests -> Request]
      /\ HandlerOurs(req[r]) /\ OneRefresh
  BY DEF BInv, IInv, TypeOK, Extra, AllOurs
<1>1. req[r].op # None
  BY <1>0 DEF Reply, Answered, HandlerOurs, Idle
<1>2. req[r].todo # {} => disturbed
  BY <1>0 DEF Reply, Answered, OneRefresh
<1>3. req[r].todo # {} => req[r].op = "refresh"
  BY RefreshAtWork
<1> QED
  BY <1>0, <1>1, <1>2, <1>3 DEF Reply, Request, dbVars

\* Handlers that answer, or do not, still work for the session.
LEMMA ReplyOurs ==
    ASSUME BInv, NEW r \in Requests, Reply(r), current' = current, JarOurs'
    PROVE  AllOurs'
<1>0. \A s \in Requests : HandlerOurs(req[s])
  BY DEF BInv, Extra, AllOurs
<1>1. UNCHANGED <<family, current>>
  BY ReplyMoves
<1>2. ASSUME NEW s \in Requests, s # r
      PROVE  HandlerOurs(req[s])'
  BY <1>0, <1>1, <1>2, ReplyMoves DEF HandlerOurs, Ours, Current, Exists
<1>3. HandlerOurs(req[r])'
  <2>1. CASE req'[r] = Idle
    BY <2>1 DEF HandlerOurs, Ours, Idle
  <2>2. CASE req'[r] # Idle
    BY <1>0, <1>1, <2>2, ReplyMoves DEF HandlerOurs, Ours, Current, Exists, Idle
  <2> QED
    BY <2>1, <2>2
<1> QED
  BY <1>2, <1>3 DEF AllOurs

\* No row changes, and an undisturbed rotation that answers is over.
LEMMA ReplyLive ==
    ASSUME BInv, NEW r \in Requests, Reply(r), UNCHANGED <<current, disturbed>>
    PROVE  LiveOnes'
<1>1. \A u \in Tokens : (Current(u) /\ Live(u))' <=> Current(u) /\ Live(u)
  BY ReplyMoves DEF Current, Live, Exists
<1>2. ~disturbed => \A s \in Requests : /\ req'[s].todo = req[s].todo
                                        /\ s # r => req'[s] = req[s]
  BY ReplyMoves DEF Idle
<1>3. ~disturbed => req[r].todo = {}
  BY ReplyMoves
<1> QED
  BY <1>1, <1>2, <1>3 DEF LiveOnes, BInv, Extra

\* Nobody waits for it: it is an orphan's, or a logout's.
LEMMA StepDropReply ==
    ASSUME BInv, NEW r \in Requests, DropReply(r)
    PROVE  Extra'
<1>0. /\ Reply(r) /\ HandlerOurs(req[r]) /\ \A c \in Calls : call[c].slot # r
      /\ UNCHANGED <<access, cookie, call, session, current, alone, disturbed>>
      /\ BrowserTypeOK /\ JarOurs /\ OneRefresh /\ LogoutAlone /\ LoggedOut /\ OpenGood
  BY DEF DropReply, browserVars, BInv, Extra, AllOurs
<1>1. /\ req[r].op # None /\ UNCHANGED <<family, revoked, expired>>
      /\ \A s \in Requests : s # r => req'[s] = req[s]
  BY <1>0, ReplyMoves
<1>2. JarOurs'
  BY <1>0, <1>1 DEF JarOurs, Ours, Current, Exists
<1>3. CallsWait'
  BY <1>0, <1>1 DEF CallsWait, CallWaits, BInv, Extra, BrowserTypeOK, Call
<1>4. ~disturbed => req[r].op # "refresh"
  BY <1>0 DEF OneRefresh
<1>5. ~disturbed => req'[r] = Idle
  BY <1>0, ReplyMoves
<1>6. OneRefresh'
  BY <1>0, <1>1, <1>4, <1>5 DEF OneRefresh, Idle
<1>7. OpenGood'
  BY <1>0, <1>1, <1>4 DEF OpenGood, KeepsToken
<1>8. AllRevoked' <=> AllRevoked
  BY <1>0, <1>1 DEF AllRevoked, Current, Exists
<1>9. LogoutAlone'
  <2>1. alone => req'[r] = Idle
    BY <1>0, ReplyMoves DEF LogoutAlone
  <2> QED
    BY <1>0, <1>1, <1>8, <2>1 DEF LogoutAlone, Idle
<1>10. LoggedOut'
  <2>1. session = "loggedOut" => req'[r] = Idle
    BY <1>0, ReplyMoves DEF LoggedOut, Harmless
  <2> QED
    BY <1>0, <1>1, <1>8, <2>1 DEF LoggedOut, Harmless, Idle
<1> QED
  BY <1>0, <1>2, <1>3, <1>6, <1>7, <1>9, <1>10, ReplyOurs, ReplyLive DEF Extra

\* Call c is on its own.
Frees(c) ==
    /\ \A d \in Calls : d # c => call'[d] = call[d]
    /\ call'[c].slot = None /\ call'[c].pc \in {"idle", "refresh"}
    /\ call'[c].pc = "idle" => call'[c] = Rest

\* The other calls keep their handlers.
LEMMA CallFrees ==
    ASSUME BInv, NEW c \in Calls, Frees(c),
           \A d \in Calls : d # c /\ call[d].slot # None =>
               req'[call[d].slot].op = req[call[d].slot].op
    PROVE  CallsWait'
<1>1. CallsWait /\ call \in [Calls -> Call]
  BY DEF BInv, BrowserTypeOK, Extra
<1>2. ASSUME NEW d \in Calls
      PROVE  CallWaits(call[d])'
  <2>1. CASE d = c
    BY <2>1 DEF Frees, CallWaits
  <2>2. CASE d # c
    BY <1>1, <2>2 DEF Frees, CallsWait, CallWaits
  <2> QED
    BY <2>1, <2>2
<1>3. ASSUME NEW d \in Calls, NEW e \in Calls, call'[d].slot = call'[e].slot, call'[d].slot # None
      PROVE  d = e
  BY <1>1, <1>3 DEF Frees, CallsWait
<1> QED
  BY <1>2, <1>3 DEF CallsWait

\* A call that tries again, or gives up, waits for nobody.
LEMMA AgainFrees ==
    ASSUME BInv, NEW c \in Calls, TryAgain(c) \/ call' = [call EXCEPT ![c] = Rest]
    PROVE  Frees(c)
<1>1. call \in [Calls -> Call]
  BY DEF BInv, BrowserTypeOK
<1> QED
  BY <1>1 DEF TryAgain, Frees, Rest

\* The handler that a waiting call waits for is its own.
LEMMA OwnHandler ==
    ASSUME BInv, NEW c \in Calls, call[c].slot # None
    PROVE  /\ call[c].slot \in Requests
           /\ \A d \in Calls : d # c => call[d].slot # call[c].slot
BY DEF BInv, BrowserTypeOK, Extra, CallsWait, Call

\* The browser takes the token that the rotation kept for it.
LEMMA StepReceiveRefresh ==
    ASSUME BInv, NEW c \in Calls, ReceiveRefresh(c)
    PROVE  Extra'
<1> DEFINE r == call[c].slot
<1>0. /\ call[c].pc = "await" /\ CallWaits(call[c])
      /\ UNCHANGED <<session, current, disturbed, alone>>
      /\ BrowserTypeOK /\ JarOurs /\ OneRefresh /\ LogoutAlone /\ LoggedOut /\ OpenGood
  BY DEF ReceiveRefresh, BInv, Extra, AllOurs, CallsWait
<1>1. r \in Requests /\ req[r].op = "refresh" /\ \A d \in Calls : d # c => call[d].slot # r
  BY <1>0, OwnHandler DEF CallWaits
<1> HIDE DEF r
<1>2. Reply(r) /\ ApplyCookies(r) /\ req[r].pc \in Answered
  BY DEF ReceiveRefresh, r, Reply
<1>3. /\ UNCHANGED <<family, revoked, expired>>
      /\ \A s \in Requests : s # r => req'[s] = req[s]
  BY <1>1, <1>2, ReplyMoves
<1>4. HandlerOurs(req[r]) /\ req[r] \in Request
  BY <1>1 DEF BInv, IInv, TypeOK, Extra, AllOurs
<1>5. JarOurs'
  <2>1. Ours(cookie') /\ access' \in {None, current}
    BY <1>0, <1>2, <1>4 DEF ApplyCookies, JarOurs, HandlerOurs, Ours
  <2> QED
    BY <1>0, <1>3, <2>1 DEF JarOurs, Ours, Current, Exists
<1>6. Frees(c)
  BY AgainFrees DEF ReceiveRefresh, r
<1>7. CallsWait'
  BY <1>1, <1>3, <1>6, OwnHandler, CallFrees
<1>8. ASSUME ~disturbed
      PROVE  req'[r] = Idle /\ \A s \in Requests : s # r => req[s].op # "refresh"
  BY <1>1, <1>2, <1>8, Lone, ReplyMoves
<1>9. OneRefresh'
  BY <1>0, <1>1, <1>3, <1>8 DEF OneRefresh, Idle
<1>10. OpenGood'
  <2>1. ASSUME session = "open", ~disturbed
        PROVE  req[r].pc = "200" /\ Good(req[r].fresh) /\ ~req[r].clear
    BY <1>0, <1>1, <1>2, <2>1 DEF OpenGood, KeepsToken, Answered
  <2>2. ASSUME session = "open", ~disturbed
        PROVE  Good(cookie')
    BY <1>2, <2>1, <2>2 DEF ApplyCookies, At, Good
  <2>3. ASSUME session = "open", ~disturbed
        PROVE  \A s \in Requests : KeepsToken(req[s])'
    BY <1>0, <1>3, <1>8, <2>3 DEF OpenGood, KeepsToken, Idle
  <2> QED
    BY <1>0, <1>3, <2>2, <2>3 DEF OpenGood, Good, Live, Exists
<1>11. LogoutAlone'
  BY <1>0, <1>1 DEF LogoutAlone
<1>12. LoggedOut'
  <2>1. AllRevoked' <=> AllRevoked
    BY <1>0, <1>3 DEF AllRevoked, Current, Exists
  <2>2. ASSUME session = "loggedOut"
        PROVE  /\ req[r].pc # "200" /\ req[r].todo = {}
               /\ cookie' = None /\ access' = None
    BY <1>0, <1>1, <1>2, <2>2 DEF LoggedOut, Harmless, ApplyCookies, At
  <2>3. session = "loggedOut" => req'[r] = Idle
    BY <1>1, <1>2, <2>2, ReplyMoves
  <2> QED
    BY <1>0, <1>3, <2>1, <2>2, <2>3 DEF LoggedOut, Harmless, Idle
<1> QED
  BY <1>0, <1>1, <1>2, <1>5, <1>7, <1>9, <1>10, <1>11, <1>12, ReplyOurs, ReplyLive DEF Extra

\* A logout that met nobody has left nothing behind.
LEMMA StepReceiveLogout ==
    ASSUME BInv, NEW c \in Calls, ReceiveLogout(c)
    PROVE  Extra'
<1> DEFINE r == call[c].slot
<1>0. /\ call[c].pc = "awaitLogout" /\ CallWaits(call[c])
      /\ UNCHANGED <<current, disturbed, alone>>
      /\ BrowserTypeOK /\ JarOurs /\ OneRefresh /\ LogoutAlone /\ LoggedOut /\ OpenGood
  BY DEF ReceiveLogout, BInv, Extra, AllOurs, CallsWait
<1>1. r \in Requests /\ req[r].op = "logout" /\ \A d \in Calls : d # c => call[d].slot # r
  BY <1>0, OwnHandler DEF CallWaits
<1> HIDE DEF r
<1>2. /\ Reply(r) /\ ApplyCookies(r)
      /\ session' = IF ~At(r, "200") THEN session
                    ELSE IF alone /\ req[r].family # None THEN "loggedOut" ELSE "left"
  BY DEF ReceiveLogout, r
<1>3. /\ UNCHANGED <<family, revoked, expired>> /\ req'[r] = Idle
      /\ \A s \in Requests : s # r => req'[s] = req[s]
  BY <1>1, <1>2, ReplyMoves
<1>4. HandlerOurs(req[r]) /\ req[r].fresh = None
  BY <1>1 DEF BInv, Extra, AllOurs, HandlerOurs
<1>5. /\ cookie' = IF req[r].clear THEN None ELSE cookie
      /\ access' = IF req[r].clear THEN None ELSE access
  BY <1>2, <1>4 DEF ApplyCookies
<1>6. JarOurs'
  BY <1>0, <1>3, <1>5 DEF JarOurs, Ours, Current, Exists
<1>7. Frees(c)
  BY AgainFrees DEF ReceiveLogout
<1>8. CallsWait'
  BY <1>1, <1>3, <1>7, OwnHandler, CallFrees
<1>9. OneRefresh'
  BY <1>0, <1>1, <1>3, <1>7 DEF OneRefresh, Idle, Frees
<1>10. OpenGood'
  <2>1. session = "open" => disturbed
    BY <1>0, <1>1 DEF OpenGood, KeepsToken
  <2> QED
    BY <1>0, <1>2, <2>1 DEF OpenGood
<1>11. AllRevoked' <=> AllRevoked
  BY <1>0, <1>3 DEF AllRevoked, Current, Exists
<1>12. LogoutAlone'
  BY <1>0, <1>3, <1>11 DEF LogoutAlone, Idle
<1>13. LoggedOut'
  <2>1. session # "loggedOut"
    BY <1>0, <1>1 DEF LoggedOut, Harmless
  <2>2. ASSUME session' = "loggedOut"
        PROVE  /\ req[r].clear /\ AllRevoked
               /\ \A s \in Requests : s # r => req[s].op = None
    BY <1>0, <1>1, <1>2, <2>1, <2>2 DEF LogoutAlone, At
  <2> QED
    BY <1>3, <1>5, <1>11, <2>2 DEF LoggedOut, Harmless, Idle
<1> QED
  BY <1>0, <1>1, <1>2, <1>6, <1>8, <1>9, <1>10, <1>12, <1>13, ReplyOurs, ReplyLive DEF Extra

-----------------------------------------------------------------------------
\* Requests.

\* Call c waits for the handler that r begins.
Waits(c, r, pc) ==
    /\ \A d \in Calls : d # c => call'[d] = call[d]
    /\ call'[c].slot = r /\ call'[c].pc = pc

\* Handler r begins with q.
Begins(r, op) ==
    /\ req[r] = Idle /\ req'[r].op = op /\ req'[r].fresh = None /\ req'[r].todo = {}
    /\ \A s \in Requests : s # r => req'[s] = req[s]

\* No other call waits for a handler that was idle.
LEMMA CallBegins ==
    ASSUME BInv, NEW c \in Calls, NEW r \in Requests, call[c].slot = None,
           \/ Waits(c, r, "await") /\ Begins(r, "refresh")
           \/ Waits(c, r, "awaitLogout") /\ Begins(r, "logout")
    PROVE  CallsWait'
<1>1. CallsWait /\ call \in [Calls -> Call]
  BY DEF BInv, BrowserTypeOK, Extra
<1>2. \A d \in Calls : call[d].slot # r
  BY <1>1 DEF CallsWait, CallWaits, Begins, Idle, Call
<1>3. ASSUME NEW d \in Calls
      PROVE  CallWaits(call[d])'
  <2>1. CASE d = c
    BY <2>1 DEF Waits, Begins, CallWaits
  <2>2. CASE d # c
    BY <1>1, <1>2, <2>2 DEF Waits, Begins, CallsWait, CallWaits, Call
  <2> QED
    BY <2>1, <2>2
<1>4. ASSUME NEW d \in Calls, NEW e \in Calls, call'[d].slot = call'[e].slot, call'[d].slot # None
      PROVE  d = e
  BY <1>1, <1>2, <1>4 DEF Waits, CallsWait
<1> QED
  BY <1>3, <1>4 DEF CallsWait

\* The handlers and tokens of the session.
LEMMA BeginsOurs ==
    ASSUME BInv, NEW r \in Requests, NEW op, Begins(r, op), UNCHANGED <<family, current, access, cookie>>,
           HandlerOurs(req[r])'
    PROVE  AllOurs'
<1>1. JarOurs'
  BY DEF BInv, Extra, AllOurs, JarOurs, Ours, Current, Exists
<1>2. ASSUME NEW s \in Requests, s # r
      PROVE  HandlerOurs(req[s])'
  BY <1>2 DEF BInv, Extra, AllOurs, HandlerOurs, Ours, Current, Exists, Begins
<1> QED
  BY <1>1, <1>2 DEF AllOurs

\* A handler that begins has not rotated anything yet.
LEMMA BeginsLive ==
    ASSUME BInv, NEW r \in Requests, NEW op, Begins(r, op), UNCHANGED <<family, current, revoked>>,
           disturbed' \/ ~disturbed
    PROVE  LiveOnes'
<1>1. \A u \in Tokens : (Current(u) /\ Live(u))' <=> Current(u) /\ Live(u)
  BY DEF Current, Live, Exists
<1>2. \A s \in Requests : /\ req'[s].todo = req[s].todo
                          /\ req'[s].todo # {} => req'[s] = req[s]
  BY DEF Begins, Idle
<1> QED
  BY <1>1, <1>2 DEF LiveOnes, BInv, Extra

\* The jar's token goes out; unless something else is under way it is good.
LEMMA StepSendRefresh ==
    ASSUME BInv, NEW c \in Calls, SendRefresh(c)
    PROVE  Extra'
<1>0. /\ call[c].pc = "refresh" /\ CallWaits(call[c]) /\ call \in [Calls -> Call]
      /\ req \in [Requests -> Request] /\ TypeOK
      /\ disturbed' = (disturbed \/ \E r \in Requests : req[r] # Idle)
      /\ alone' = FALSE /\ UNCHANGED <<access, cookie, session, current>>
      /\ JarOurs /\ OpenGood /\ LoggedOut /\ cookie \in Tokens \cup {None}
      /\ disturbed \in BOOLEAN
  BY DEF SendRefresh, BInv, BrowserTypeOK, IInv, TypeOK, Extra, AllOurs, CallsWait
<1>1. PICK r \in Requests :
          /\ StartRefresh(r, cookie)
          /\ call' = [call EXCEPT ![c] = [@ EXCEPT !.pc = "await", !.slot = r]]
  BY DEF SendRefresh
<1>2. UNCHANGED <<family, revoked, expired>> /\ req[r] = Idle
  BY <1>1 DEF StartRefresh, dbVars
<1>3. /\ Begins(r, "refresh") /\ req'[r].token = cookie /\ req'[r].family = None
      /\ req'[r].pc = IF cookie = None THEN "401" ELSE "findUnique"
      /\ ~req'[r].clear
  BY <1>0, <1>1 DEF StartRefresh, Begins, Idle
<1>4. Waits(c, r, "await")
  BY <1>0, <1>1 DEF Waits, Call
<1>5. AllOurs'
  <2>1. HandlerOurs(req[r])'
    BY <1>0, <1>2, <1>3 DEF HandlerOurs, Begins, JarOurs, Ours, Current, Exists, Idle
  <2> QED
    BY <1>0, <1>2, <1>3, <2>1, BeginsOurs
<1>6. CallsWait'
  BY <1>0, <1>3, <1>4, CallBegins DEF CallWaits
<1>7. ASSUME ~disturbed'
      PROVE  /\ ~disturbed /\ \A s \in Requests : req[s] = Idle
             /\ \A s \in Requests : s # r => req'[s] = Idle
  BY <1>0, <1>3, <1>7 DEF Begins
<1>8. OneRefresh'
  BY <1>3, <1>4, <1>7 DEF OneRefresh, Begins, Waits, Idle
<1>9. LiveOnes'
  BY <1>0, <1>2, <1>3, BeginsLive
<1>10. OpenGood'
  <2>1. ASSUME session = "open", ~disturbed'
        PROVE  Good(cookie)
    BY <1>0, <1>7, <2>1 DEF OpenGood, Idle
  <2>2. ASSUME session = "open", ~disturbed'
        PROVE  KeepsToken(req[r])'
    BY <1>2, <1>3, <2>1, <2>2 DEF KeepsToken, Begins, Good, Live, Exists
  <2> QED
    BY <1>0, <1>3, <1>7, <2>2 DEF OpenGood, KeepsToken, Begins, Idle
<1>11. LogoutAlone'
  BY <1>0 DEF LogoutAlone
<1>12. LoggedOut'
  <2>1. AllRevoked' <=> AllRevoked
    BY <1>0, <1>2 DEF AllRevoked, Current, Exists
  <2> QED
    BY <1>0, <1>3, <2>1 DEF LoggedOut, Harmless, Begins
<1> QED
  BY <1>5, <1>6, <1>8, <1>9, <1>10, <1>11, <1>12 DEF Extra

\* A logout begins, alone or not.
LEMMA StepPressLogout ==
    ASSUME BInv, NEW c \in Calls, PressLogout(c)
    PROVE  Extra'
<1>0. /\ call[c] = Rest /\ call \in [Calls -> Call] /\ req \in [Requests -> Request] /\ TypeOK
      /\ session' = "leaving" /\ alone' = \A r \in Requests : req[r] = Idle
      /\ UNCHANGED <<access, cookie, current, disturbed>>
      /\ JarOurs /\ OneRefresh /\ access \in Families \cup {None}
  BY DEF PressLogout, BInv, BrowserTypeOK, IInv, TypeOK, Extra, AllOurs
<1>1. PICK r \in Requests :
          /\ StartLogout(r, access)
          /\ call' = [call EXCEPT ![c] = [@ EXCEPT !.pc = "awaitLogout", !.slot = r]]
  BY DEF PressLogout
<1>2. UNCHANGED <<family, revoked, expired>> /\ req[r] = Idle
  BY <1>1 DEF StartLogout, dbVars
<1>3. /\ Begins(r, "logout") /\ req'[r].token = None /\ req'[r].family = access
      /\ req'[r].pc = IF access = None THEN "200" ELSE "revokeFamily"
  BY <1>0, <1>1 DEF StartLogout, Begins, Idle
<1>4. Waits(c, r, "awaitLogout")
  BY <1>0, <1>1 DEF Waits, Call
<1>5. AllOurs'
  <2>1. HandlerOurs(req[r])'
    BY <1>0, <1>2, <1>3 DEF HandlerOurs, Begins, JarOurs, Ours, Current, Exists, Idle
  <2> QED
    BY <1>0, <1>2, <1>3, <2>1, BeginsOurs
<1>6. CallsWait'
  BY <1>0, <1>3, <1>4, CallBegins DEF Rest
<1>7. OneRefresh'
  BY <1>0, <1>2, <1>3, <1>4 DEF OneRefresh, Begins, Waits, Rest, Idle
<1>8. LiveOnes'
  BY <1>0, <1>2, <1>3, BeginsLive
<1>9. OpenGood' /\ LoggedOut'
  BY <1>0 DEF OpenGood, LoggedOut
<1>10. LogoutAlone'
  <2>1. ASSUME alone', NEW s \in Requests, s # r
        PROVE  req'[s] = Idle
    BY <1>0, <1>3, <2>1 DEF Begins
  <2>2. ~(req'[r].pc = "200" /\ req'[r].family # None) /\ req'[r].op = "logout"
    BY <1>3 DEF Begins
  <2> QED
    BY <2>1, <2>2 DEF LogoutAlone, Idle
<1> QED
  BY <1>5, <1>6, <1>7, <1>8, <1>9, <1>10 DEF Extra

-----------------------------------------------------------------------------
\* The user, the clock, and calls on their own.

\* The API does not notice.
LEMMA StepAlone ==
    ASSUME BInv, NEW c \in Calls, GetUnauthorized(c) \/ Unreachable(c) \/ CutOff(c)
    PROVE  Extra'
<1>0. /\ UNCHANGED <<family, revoked, expired, req, access, cookie, session, current, alone>>
      /\ call \in [Calls -> Call] /\ OneRefresh /\ OpenGood /\ LiveOnes
      /\ (disturbed' = disturbed /\ call[c].pc # "await") \/ disturbed'
  BY DEF GetUnauthorized, Unreachable, CutOff, dbVars, BInv, BrowserTypeOK, Extra, Rest
<1>1. Frees(c)
  <2>1. CASE GetUnauthorized(c)
    BY <1>0, <2>1 DEF GetUnauthorized, Frees, Rest
  <2>2. CASE Unreachable(c) \/ CutOff(c)
    BY <2>2, AgainFrees DEF Unreachable, CutOff
  <2> QED
    BY <2>1, <2>2
<1>2. CallsWait'
  BY <1>0, <1>1, CallFrees
<1>3. OneRefresh'
  BY <1>0, <1>1 DEF OneRefresh, Frees
<1>4. AllOurs' /\ LogoutAlone' /\ LoggedOut'
  BY <1>0 DEF BInv, Extra, AllOurs, JarOurs, HandlerOurs, Ours, Current, Exists,
     LogoutAlone, LoggedOut, AllRevoked, Harmless
<1>5. LiveOnes' /\ OpenGood'
  BY <1>0 DEF LiveOnes, OpenGood, KeepsToken, Good, Current, Live, Exists
<1> QED
  BY <1>2, <1>3, <1>4, <1>5 DEF Extra

\* A cookie disappears, with time.
LEMMA StepAge ==
    ASSUME BInv, AgeAccess \/ AgeCookie
    PROVE  Extra'
<1>0. /\ UNCHANGED <<family, revoked, req, call, current, disturbed, alone>>
      /\ access' \in {access, None} /\ cookie' \in {cookie, None}
      /\ \/ UNCHANGED <<expired, cookie, session>>
         \/ session' # "open" /\ (session' = "loggedOut" => session = "loggedOut")
  BY DEF AgeAccess, AgeCookie, Expire, dbVars
<1>1. AllOurs'
  BY <1>0 DEF BInv, Extra, AllOurs, JarOurs, HandlerOurs, Ours, Current, Exists
<1>2. CallsWait' /\ OneRefresh'
  BY <1>0 DEF BInv, Extra, CallsWait, CallWaits, OneRefresh
<1>3. LiveOnes'
  BY <1>0 DEF BInv, Extra, LiveOnes, Current, Live, Exists
<1>4. OpenGood'
  BY <1>0 DEF BInv, Extra, OpenGood, KeepsToken, Good, Live, Exists
<1>5. LogoutAlone' /\ LoggedOut'
  BY <1>0 DEF BInv, Extra, LogoutAlone, LoggedOut, AllRevoked, Current, Exists, Harmless
<1> QED
  BY <1>1, <1>2, <1>3, <1>4, <1>5 DEF Extra

\* A new session begins with nothing under way.
LEMMA StepSignIn ==
    ASSUME BInv, NEW t \in Tokens, NEW f \in Families, SignIn(t, f)
    PROVE  Extra'
<1>0. /\ \A r \in Requests : req'[r] = Idle
      /\ \A c \in Calls : call'[c] = Rest
      /\ UNCHANGED <<revoked, expired>> /\ family' = [family EXCEPT ![t] = f]
      /\ access' = f /\ cookie' = t /\ session' = "open" /\ current' = f
      /\ ~Exists(t) /\ Unused(f) /\ TypeOK
  BY DEF SignIn, Quiet, IssueSession, Fresh, BInv, IInv
<1>1. /\ \A u \in Tokens : Current(u)' <=> u = t
      /\ Good(t)'
  BY <1>0 DEF Current, Exists, Unused, Good, Live, TypeOK
<1>2. AllOurs'
  <2>1. Current(cookie)'
    BY <1>0 DEF Current, Exists, TypeOK
  <2>2. JarOurs'
    BY <1>0, <2>1 DEF JarOurs, Ours
  <2>3. ASSUME NEW r \in Requests
        PROVE  HandlerOurs(req[r])'
    <3>1. req'[r] = Idle
      BY <1>0
    <3> QED
      BY <3>1 DEF HandlerOurs, Ours, Idle
  <2> QED
    BY <2>2, <2>3 DEF AllOurs
<1>3. CallsWait' /\ OneRefresh'
  BY <1>0 DEF CallsWait, CallWaits, OneRefresh, Rest, Idle
<1>4. LiveOnes'
  BY <1>0, <1>1 DEF LiveOnes, Idle
<1>5. OpenGood' /\ LogoutAlone' /\ LoggedOut'
  BY <1>0, <1>1 DEF OpenGood, KeepsToken, LogoutAlone, LoggedOut, Idle
<1> QED
  BY <1>2, <1>3, <1>4, <1>5 DEF Extra

\* Nothing has happened yet.
LEMMA InitBInv == Init => BInv
<1> SUFFICES ASSUME Init
             PROVE  BInv
  OBVIOUS
<1>1. IInv /\ TypeOK
  BY InitIInv DEF Init, IInv
<1>2. /\ \A r \in Requests : req[r] = Idle
      /\ \A c \in Calls : call[c] = Rest
      /\ \A t \in Tokens : family[t] = None
      /\ access = None /\ cookie = None /\ session = "none" /\ current = None
  BY DEF Init, SessionsInit
<1>3. BrowserTypeOK
  <2>1. call \in [Calls -> Call]
    BY DEF Init, Rest, Call
  <2> QED
    BY <1>1, <2>1 DEF Init, BrowserTypeOK
<1>4. ASSUME NEW r \in Requests
      PROVE  HandlerOurs(req[r])
  <2>1. req[r] = Idle
    BY <1>2
  <2> QED
    BY <2>1 DEF HandlerOurs, Ours, Idle
<1>5. AllOurs /\ CallsWait /\ OneRefresh
  BY <1>2, <1>4 DEF AllOurs, JarOurs, Ours, CallsWait, CallWaits, OneRefresh, Idle, Rest
<1>6. LiveOnes /\ OpenGood /\ LogoutAlone /\ LoggedOut
  BY <1>2 DEF LiveOnes, Live, Exists, OpenGood, LogoutAlone, LoggedOut, Idle
<1> QED
  BY <1>1, <1>3, <1>5, <1>6 DEF BInv, Extra

\* The invariant is inductive: the handlers' part because the steps are those of
\* Sessions, the rest action by action.
LEMMA NextBInv ==
    ASSUME BInv, [Next]_vars
    PROVE  BInv'
<1>1. [SessionsNext]_sessionVars
  BY Refines
<1>2. Rows /\ IInv'
  BY <1>1, RowsGrow, NextIInv DEF BInv
<1>3. BrowserTypeOK'
  BY <1>2, TypesStay DEF IInv
<1>4. ASSUME UNCHANGED vars
      PROVE  Extra'
  <2>0. /\ UNCHANGED <<family, revoked, expired, req, access, cookie, call>>
        /\ UNCHANGED <<session, current, disturbed, alone>>
    BY <1>4 DEF vars
  <2>1. AllOurs' /\ CallsWait' /\ OneRefresh'
    BY <2>0 DEF BInv, Extra, AllOurs, JarOurs, HandlerOurs, Ours, Current, Exists, CallsWait,
       CallWaits, OneRefresh
  <2>2. LiveOnes' /\ OpenGood'
    BY <2>0 DEF BInv, Extra, LiveOnes, OpenGood, KeepsToken, Good, Current, Live, Exists
  <2>3. LogoutAlone' /\ LoggedOut'
    BY <2>0 DEF BInv, Extra, LogoutAlone, LoggedOut, AllRevoked, Harmless, Current, Exists
  <2> QED
    BY <2>1, <2>2, <2>3 DEF Extra
<1>5. ASSUME NEW r \in Requests, Progress(r) \/ Fault(r) \/ DropReply(r)
      PROVE  Extra'
  <2>1. CASE Progress(r)
    BY <1>2, <2>1, StepFindUnique, StepRevokeFamily, StepRotateUpdate, StepRotateCreate
       DEF Progress
  <2> QED
    BY <1>2, <1>5, <2>1, StepFault, StepDropReply
<1>6. ASSUME NEW c \in Calls,
             \/ GetUnauthorized(c) \/ PressLogout(c) \/ Client(c)
             \/ Unreachable(c) \/ CutOff(c)
      PROVE  Extra'
  BY <1>6, StepAlone, StepSendRefresh, StepPressLogout, StepReceiveRefresh, StepReceiveLogout
     DEF Client
<1>7. ASSUME NEW t \in Tokens, NEW f \in Families, SignIn(t, f)
      PROVE  Extra'
  BY <1>7, StepSignIn
<1>8. ASSUME AgeAccess \/ AgeCookie
      PROVE  Extra'
  BY <1>8, StepAge
<1>9. Extra'
  BY <1>4, <1>5, <1>6, <1>7, <1>8 DEF Next
<1> QED
  BY <1>2, <1>3, <1>9 DEF BInv

\* The inductive invariant holds in every reachable state, for any number of
\* sign-ins, calls and slots, and whatever fails.
LEMMA BrowserInvariance == Spec => []BInv
BY InitBInv, NextBInv, PTL DEF Spec

\* What the browser does to the API is what Sessions lets clients do, so what
\* was proved of the handlers holds for this browser too: whatever its calls and
\* its jar do, a session that has ended stays ended (token.service.ts
\* rotateSession, revokeFamily).
THEOREM BrowserIsClient == Spec => SessionsSpec /\ EndedStaysEnded
<1>1. Init => SessionsInit
  BY DEF Init
<1>2. BInv /\ [Next]_vars => [SessionsNext]_sessionVars
  BY Refines
<1>3. Spec => SessionsSpec
  BY <1>1, <1>2, BrowserInvariance, PTL DEF Spec, SessionsSpec
<1> QED
  BY <1>3, EndedForGood, PTL

\* api-client.ts apiFetch: a browser whose refreshes do not overlap and whose
\* failed requests never reached a handler always holds a good refresh token.
THEOREM CookieStaysUsable == Spec => []BrowserInv
<1>1. ASSUME BInv
      PROVE  BrowserInv
  <2>1. ASSUME session = "open", ~disturbed, \A c \in Calls : call[c].pc # "await"
        PROVE  \A r \in Requests : req[r].op = None
    BY <1>1, <2>1 DEF BInv, Extra, OpenGood, OneRefresh, KeepsToken
  <2>2. CookieUsable
    BY <1>1, <2>1 DEF BInv, Extra, OpenGood, Good, CookieUsable
  <2> QED
    BY <1>1, <2>2 DEF BInv, BrowserInv
<1> QED
  BY <1>1, BrowserInvariance, PTL

\* token.service.ts rotateSession: between rotations such a browser's session
\* has one token that would be accepted, or none.
THEOREM LiveTokenUnique == Spec => []OneLiveToken
<1>1. ASSUME BInv
      PROVE  OneLiveToken
  <2>1. ASSUME \A r \in Requests : req[r].family = current => req[r].todo = {}
        PROVE  \A r \in Requests : req[r].todo = {}
    BY <1>1, <2>1, RefreshAtWork
  <2> QED
    BY <1>1, <2>1 DEF BInv, Extra, LiveOnes, OneLiveToken
<1> QED
  BY <1>1, BrowserInvariance, PTL

\* auth.controller.ts logout: alone and with the access cookie, it leaves no
\* live token of the session and no cookie, whatever failed before.
THEOREM LogoutIsFinal == Spec => []LogoutEnds
<1>1. ASSUME BInv
      PROVE  LogoutEnds
  BY <1>1 DEF BInv, Extra, LoggedOut, AllRevoked, Live, LogoutEnds
<1> QED
  BY <1>1, BrowserInvariance, PTL
=============================================================================
