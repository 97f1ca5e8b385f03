------------------------------ MODULE Sessions ------------------------------
(***************************************************************************)
(* Refresh tokens of the API (apps/api/src/modules/auth): token.service.ts *)
(* with the handlers of POST /auth/refresh and POST /auth/logout.          *)
(*                                                                         *)
(* A session is a family of refresh-token rows; rotation revokes one and   *)
(* adds another.  No handler uses a transaction, so each Prisma call is a  *)
(* step, and the two calls that rotateSession passes to Promise.all commit *)
(* in either order.  A call can fail (the database is restarted), and the  *)
(* process can die between calls.  Here clients may present any token;     *)
(* BrowserSession narrows this to what one browser does.                   *)
(***************************************************************************)
EXTENDS Naturals, FiniteSets

CONSTANTS
    Tokens,    \* raw refresh tokens; randomBytes(32) never repeats one
    Families,  \* family ids; randomUUID never repeats one
    Requests,  \* slots for requests in flight
    Failures,  \* what may go wrong, by name
    None

ASSUME SessionsNone == None \notin Tokens \cup Families
ASSUME SessionsFailures == Failures \subseteq {"db", "crash", "unreachable", "cut"}

VARIABLES
    family,   \* RefreshToken.familyId, None while there is no such row
    revoked,  \* rows whose revokedAt is set
    expired,  \* rows whose expiresAt has passed
    req       \* the handlers in flight

dbVars == <<family, revoked, expired>>
sessionVars == <<family, revoked, expired, req>>

-----------------------------------------------------------------------------

Idle == [op |-> None, pc |-> "idle", token |-> None, family |-> None,
         todo |-> {}, fresh |-> None, clear |-> FALSE]

\* pc is the next statement, or the status of the answer under way; an answer
\* sets the cookies (200 to a refresh), clears them, or leaves them alone.
Request ==
    [op: {"refresh", "logout", None},
     pc: {"idle", "findUnique", "rotate", "revokeFamily",
          "200", "401", "500", "lost"},
     token: Tokens \cup {None},
     family: Families \cup {None},
     todo: SUBSET {"update", "create"},
     fresh: Tokens \cup {None},
     clear: BOOLEAN]

Answered == {"200", "401", "500", "lost"}

TypeOK ==
    /\ family \in [Tokens -> Families \cup {None}]
    /\ revoked \cup expired \subseteq {t \in Tokens : family[t] # None}
    /\ req \in [Requests -> Request]

Exists(t) == family[t] # None
Live(t) == Exists(t) /\ t \notin revoked
Unused(f) == \A t \in Tokens : family[t] # f

\* A raw token just drawn: never stored, and nobody is presenting it.
Fresh(t) == ~Exists(t) /\ \A r \in Requests : req[r].token # t

SessionsInit ==
    /\ family = [t \in Tokens |-> None]
    /\ revoked = {}
    /\ expired = {}
    /\ req = [r \in Requests |-> Idle]

-----------------------------------------------------------------------------

\* issueSession: a fresh family with one token.
IssueSession(t, f) ==
    /\ Fresh(t)
    /\ Unused(f)
    /\ family' = [family EXCEPT ![t] = f]
    /\ UNCHANGED <<revoked, expired, req>>

\* Thirty days pass.
Expire(t) ==
    /\ Exists(t)
    /\ expired' = expired \cup {t}
    /\ UNCHANGED <<family, revoked, req>>

\* POST /auth/refresh; without a cookie it throws before the try.
StartRefresh(r, t) ==
    /\ req[r] = Idle
    /\ req' = [req EXCEPT ![r] = [Idle EXCEPT
                  !.op = "refresh", !.token = t,
                  !.pc = IF t = None THEN "401" ELSE "findUnique"]]
    /\ UNCHANGED dbVars

\* Mutant: without the early return, updateMany's where is empty.
StartLogout_NoGuard(r, f) ==
    /\ req[r] = Idle
    /\ req' = [req EXCEPT ![r] = [Idle EXCEPT
                  !.op = "logout", !.family = f, !.pc = "revokeFamily"]]
    /\ UNCHANGED dbVars

\* POST /auth/logout; f is the fid of a valid access cookie, None without one.
StartLogout(r, f) ==
    /\ req[r] = Idle
    /\ req' = [req EXCEPT ![r] = [Idle EXCEPT
                  !.op = "logout", !.family = f,
                  !.pc = IF f = None THEN "200" ELSE "revokeFamily",
                  !.clear = f = None]]
    /\ UNCHANGED dbVars

At(r, s) == req[r].pc = s

\* The handler is done but for the answer; every error of a refresh, of
\* whatever kind, also clears the cookies (the catch in refresh).
Answer(r, status, cookies) ==
    req' = [req EXCEPT ![r].pc = status, ![r].clear = cookies = "clear"]

\* Mutant: decideRefresh does not look at revokedAt.
FindUnique_NoReuseCheck(r) ==
    /\ At(r, "findUnique")
    /\ LET t == req[r].token IN
       \/ /\ ~Exists(t) \/ t \in expired
          /\ Answer(r, "401", "clear")
       \/ /\ Exists(t) /\ t \notin expired
          /\ req' = [req EXCEPT ![r].pc = "rotate", ![r].family = family[t],
                                ![r].todo = {"update", "create"}]
    /\ UNCHANGED dbVars

\* decideRefresh on the row that findUnique returned: unknown tokens are
\* rejected, revoked ones revoke the family even if expired, live ones rotate.
FindUnique(r) ==
    /\ At(r, "findUnique")
    /\ LET t == req[r].token IN
       \/ /\ ~Exists(t) \/ (Live(t) /\ t \in expired)
          /\ Answer(r, "401", "clear")
       \/ /\ Exists(t) /\ t \in revoked
          /\ req' = [req EXCEPT ![r].pc = "revokeFamily", ![r].family = family[t]]
       \/ /\ Live(t) /\ t \notin expired
          /\ req' = [req EXCEPT ![r].pc = "rotate", ![r].family = family[t],
                                ![r].todo = {"update", "create"}]
    /\ UNCHANGED dbVars

\* Mutant: only the presented token is revoked.
RevokeFamily_Presented(r) ==
    /\ At(r, "revokeFamily")
    /\ revoked' = revoked \cup ({req[r].token} \ {None})
    /\ Answer(r, IF req[r].op = "logout" THEN "200" ELSE "401", "clear")
    /\ UNCHANGED <<family, expired>>

\* revokeFamily: one updateMany; it ends a logout and a detected reuse.
RevokeFamily(r) ==
    /\ At(r, "revokeFamily")
    /\ revoked' = revoked \cup {t \in Tokens : family[t] = req[r].family}
    /\ Answer(r, IF req[r].op = "logout" THEN "200" ELSE "401", "clear")
    /\ UNCHANGED <<family, expired>>

\* Mutant: the answer waits for one of the two calls.
Done_Race(r, call) ==
    [req[r] EXCEPT !.todo = @ \ {call}, !.pc = IF @ = "rotate" THEN "200" ELSE @]

\* Promise.all has resolved when both calls have; it rejects on the first
\* failure, and the other call still runs, behind an answer already given.
Done(r, call) ==
    [req[r] EXCEPT !.todo = @ \ {call},
                   !.pc = IF @ = "rotate" /\ req[r].todo = {call} THEN "200" ELSE @]

\* Mutant: the presented token stays live.
RotateUpdate_NoRevoke(r) ==
    /\ "update" \in req[r].todo
    /\ req' = [req EXCEPT ![r] = Done(r, "update")]
    /\ UNCHANGED dbVars

\* rotateSession: the presented token is marked revoked, whatever it is now.
RotateUpdate(r) ==
    /\ "update" \in req[r].todo
    /\ revoked' = revoked \cup {req[r].token}
    /\ req' = [req EXCEPT ![r] = Done(r, "update")]
    /\ UNCHANGED <<family, expired>>

\* rotateSession: its successor is inserted into the family.
RotateCreate(r) ==
    /\ "create" \in req[r].todo
    /\ \E t \in Tokens :
          /\ Fresh(t)
          /\ family' = [family EXCEPT ![t] = req[r].family]
          /\ req' = [req EXCEPT ![r] = [Done(r, "create") EXCEPT !.fresh = t]]
    /\ UNCHANGED <<revoked, expired>>

\* A database call fails: the refresh handler clears the cookies on its way
\* out, the logout handler does not get that far.
DbFails(r) ==
    /\ "db" \in Failures
    /\ \/ /\ req[r].pc \in {"findUnique", "revokeFamily"}
          /\ Answer(r, "500", IF req[r].op = "refresh" THEN "clear" ELSE "keep")
       \/ \E call \in req[r].todo :
             req' = [req EXCEPT ![r].todo = @ \ {call},
                                ![r].pc = IF @ = "rotate" THEN "500" ELSE @,
                                ![r].clear = @ \/ At(r, "rotate")]
    /\ UNCHANGED dbVars

\* The process dies (a redeploy): what is committed stays, what is left to do
\* is not done, no answer arrives.
Crash(r) ==
    /\ "crash" \in Failures
    /\ ~At(r, "idle")
    /\ req' = [req EXCEPT ![r].pc = "lost", ![r].todo = {}, ![r].clear = FALSE]
    /\ UNCHANGED dbVars

Serve(r) ==
    \/ FindUnique(r) \/ RevokeFamily(r) \/ RotateUpdate(r) \/ RotateCreate(r)
    \/ DbFails(r) \/ Crash(r)

\* The answer, if there is one, leaves the server.  A rotation of which one
\* call failed may answer while the other still runs, then for nobody.
Reply(r) ==
    /\ req[r].pc \in Answered
    /\ At(r, "lost") => req[r].todo = {}
    /\ req' = [req EXCEPT ![r] =
                  IF @.todo = {} THEN Idle
                  ELSE [@ EXCEPT !.pc = "lost", !.clear = FALSE]]
    /\ UNCHANGED dbVars

SessionsNext ==
    \/ \E t \in Tokens, f \in Families : IssueSession(t, f)
    \/ \E t \in Tokens : Expire(t)
    \/ \E r \in Requests :
          \/ \E t \in Tokens \cup {None} : StartRefresh(r, t)
          \/ \E f \in Families \cup {None} : StartLogout(r, f)
          \/ Serve(r)
          \/ Reply(r)

SessionsSpec == SessionsInit /\ [][SessionsNext]_sessionVars

-----------------------------------------------------------------------------
\* Correctness.

\* The handlers that have read a live token of family f and will still insert
\* its successor.
Rotating(f) == {r \in Requests : "create" \in req[r].todo /\ req[r].family = f}

\* The session f has ended: it existed, none of its tokens is live, and no
\* rotation that began earlier is still to add one.
Ended(f) ==
    /\ ~Unused(f)
    /\ \A t \in Tokens : family[t] = f => t \in revoked
    /\ Rotating(f) = {}

\* A session that has ended (by logout, or because a rotated token was
\* replayed) never comes back to life, whatever tokens are presented.
EndedStaysEnded == [][\A f \in Families : Ended(f) => Ended(f)']_sessionVars

\* When a refresh is answered 200 the new token is stored in the family of the
\* old one and the old one is dead: a client that stores the answer is never
\* left without a row, and a replay of the old token will be detected.
AnswerAfterRotation ==
    \A r \in Requests :
        (req[r].op = "refresh" /\ At(r, "200")) =>
            /\ req[r].token \in revoked
            /\ req[r].fresh # None
            /\ family[req[r].fresh] = family[req[r].token]

=============================================================================
