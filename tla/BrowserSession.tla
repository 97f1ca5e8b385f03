--------------------------- MODULE BrowserSession ---------------------------
(***************************************************************************)
(* One browser and its session: the cookie jar, the apiFetch calls of its  *)
(* tabs (apps/web/lib/api-client.ts), and the refresh and logout handlers  *)
(* of Sessions that serve them.                                            *)
(*                                                                         *)
(* Every query and mutation of a page is an apiFetch call of its own and   *)
(* all of them share the jar.  A call answered 401 posts /auth/refresh, up *)
(* to three times, with whatever refresh cookie the jar then holds, and    *)
(* nothing makes concurrent calls share one refresh.  Calls that find a    *)
(* valid access cookie change nothing here and are left out.               *)
(***************************************************************************)
EXTENDS Sessions

CONSTANTS
    Calls,   \* apiFetch calls that can overlap
    Retries  \* REFRESH_RETRY_DELAYS_MS.length (2 in the code)

ASSUME BrowserNone == None \notin Requests \cup {"refresh", "logout"}
ASSUME BrowserRetries == Retries \in Nat

VARIABLES
    access,   \* fid of the access cookie while its JWT is valid, else None
    cookie,   \* the refresh cookie, None without one
    call,     \* the state of each apiFetch call
    session,  \* history: what the user did and time undid; "leaving" from
              \* the first click on log out to a 200, or a new sign-in; then
              \* "left" if that logout did not know the session or was not alone
    current,  \* history: the family of the last sign-in
    disturbed, \* history: since the last sign-in a handler failed, an answer
              \* was lost, or a refresh overlapped another
    alone     \* history: no other handler runs since the last logout was sent

browserVars == <<access, cookie, call, session, current, disturbed, alone>>
vars == <<family, revoked, expired, req, access, cookie, call, session, current, disturbed, alone>>

Rest == [pc |-> "idle", slot |-> None, attempt |-> 0]

Call == [pc: {"idle", "refresh", "await", "awaitLogout"},
         slot: Requests \cup {None},
         attempt: 0..Retries]

BrowserTypeOK ==
    /\ TypeOK
    /\ access \in Families \cup {None}
    /\ cookie \in Tokens \cup {None}
    /\ call \in [Calls -> Call]
    /\ session \in {"none", "open", "leaving", "loggedOut", "left", "expired"}
    /\ current \in Families \cup {None}
    /\ {disturbed, alone} \subseteq BOOLEAN

Init ==
    /\ SessionsInit
    /\ access = None
    /\ cookie = None
    /\ call = [c \in Calls |-> Rest]
    /\ session = "none"
    /\ current = None
    /\ disturbed = FALSE
    /\ alone = TRUE

-----------------------------------------------------------------------------
\* The user and the clock.

\* Nothing is in flight.
Quiet == (\A c \in Calls : call[c] = Rest) /\ (\A r \in Requests : req[r] = Idle)

\* The magic link or Google redirect signs in and sets both cookies.
SignIn(t, f) ==
    /\ session # "open"
    /\ Quiet
    /\ IssueSession(t, f)
    /\ access' = f
    /\ cookie' = t
    /\ session' = "open"
    /\ current' = f
    /\ disturbed' = FALSE
    /\ UNCHANGED <<call, alone>>

\* Fifteen minutes: JWT and cookie expire together.
AgeAccess ==
    /\ access # None
    /\ access' = None
    /\ UNCHANGED <<dbVars, req, cookie, call, session, current, disturbed, alone>>

\* Thirty days without a refresh: row and cookie expire together.  No request
\* is under way that long.
AgeCookie ==
    /\ cookie # None
    /\ Quiet
    /\ Expire(cookie)
    /\ cookie' = None
    /\ session' = IF session = "open" THEN "expired" ELSE session
    /\ UNCHANGED <<access, call, current, disturbed, alone>>

-----------------------------------------------------------------------------
\* apiFetch.

\* It only bounds the model: a call starts when the supply of tokens suffices
\* for it and the calls under way.  Each attempt can use a token, and only a
\* failure that reached a handler leads to a second attempt that does.
Headroom ==
    LET each == IF Failures \subseteq {"unreachable"} THEN 1 ELSE Retries + 1 IN
    Cardinality({t \in Tokens : ~Exists(t)})
        >= each * (1 + Cardinality({c \in Calls : call[c] # Rest}))
              + Cardinality({r \in Requests : req[r] # Idle})

\* A request is answered 401: its access cookie is gone.
GetUnauthorized(c) ==
    /\ call[c] = Rest
    /\ access = None
    /\ Headroom
    /\ call' = [call EXCEPT ![c].pc = "refresh"]
    /\ UNCHANGED <<dbVars, req, access, cookie, session, current, disturbed, alone>>

\* POST /auth/refresh with the jar's cookie of this moment.
SendRefresh(c) ==
    /\ call[c].pc = "refresh"
    /\ \E r \in Requests :
          /\ StartRefresh(r, cookie)
          /\ call' = [call EXCEPT ![c] = [@ EXCEPT !.pc = "await", !.slot = r]]
    /\ disturbed' = (disturbed \/ \E r \in Requests : req[r] # Idle)
    /\ alone' = FALSE
    /\ UNCHANGED <<access, cookie, session, current>>

\* Mutant: the attempts are not counted.
TryAgain_Forever(c) ==
    call' = [call EXCEPT ![c] = [@ EXCEPT !.pc = "refresh", !.slot = None]]

\* No answer, or a 5xx: back off and try again while attempts remain.
TryAgain(c) ==
    call' = [call EXCEPT ![c] =
                IF @.attempt < Retries
                THEN [pc |-> "refresh", slot |-> None, attempt |-> @.attempt + 1]
                ELSE Rest]

\* The API does not answer at all: the request never reaches a handler.
Unreachable(c) ==
    /\ "unreachable" \in Failures
    /\ call[c].pc = "refresh"
    /\ TryAgain(c)
    /\ UNCHANGED <<dbVars, req, access, cookie, session, current, disturbed, alone>>

\* The connection breaks while the handler runs on: its answer will be dropped.
\* A logout is not tried again.
CutOff(c) ==
    /\ "cut" \in Failures
    /\ \/ /\ call[c].pc = "await"
          /\ TryAgain(c)
       \/ /\ call[c].pc = "awaitLogout"
          /\ call' = [call EXCEPT ![c] = Rest]
    /\ disturbed' = TRUE
    /\ UNCHANGED <<dbVars, req, access, cookie, session, current, alone>>

\* Mutant: the refresh cookie's path keeps the browser from replacing it.
ApplyCookies_AccessOnly(r) ==
    /\ access' = IF req[r].clear THEN None
                 ELSE IF req[r].fresh # None /\ At(r, "200") THEN req[r].family
                 ELSE access
    /\ cookie' = IF req[r].clear THEN None ELSE cookie

\* The browser applies Set-Cookie before the page sees the status.
ApplyCookies(r) ==
    /\ access' = IF req[r].clear THEN None
                 ELSE IF req[r].fresh # None /\ At(r, "200") THEN req[r].family
                 ELSE access
    /\ cookie' = IF req[r].clear THEN None
                 ELSE IF req[r].fresh # None /\ At(r, "200") THEN req[r].fresh
                 ELSE cookie

\* 200 repeats the original request once, 401 ends the call; either way it is
\* over.  Anything else is taken for transient.
ReceiveRefresh(c) ==
    /\ call[c].pc = "await"
    /\ LET r == call[c].slot IN
          /\ Reply(r)
          /\ ApplyCookies(r)
          /\ IF req[r].pc \in {"200", "401"}
             THEN call' = [call EXCEPT ![c] = Rest]
             ELSE TryAgain(c)
    /\ UNCHANGED <<session, current, disturbed, alone>>

\* The header's log-out button; the logout route never answers 401.
PressLogout(c) ==
    /\ call[c] = Rest
    /\ session \in {"open", "leaving"}
    /\ \E r \in Requests :
          /\ StartLogout(r, access)
          /\ call' = [call EXCEPT ![c] = [@ EXCEPT !.pc = "awaitLogout", !.slot = r]]
    /\ session' = "leaving"
    /\ alone' = \A r \in Requests : req[r] = Idle
    /\ UNCHANGED <<access, cookie, current, disturbed>>

\* Only a 200 logs the page out; an error leaves things as they are.
ReceiveLogout(c) ==
    /\ call[c].pc = "awaitLogout"
    /\ LET r == call[c].slot IN
          /\ Reply(r)
          /\ ApplyCookies(r)
          /\ session' = IF ~At(r, "200") THEN session
                        ELSE IF alone /\ req[r].family # None THEN "loggedOut" ELSE "left"
    /\ call' = [call EXCEPT ![c] = Rest]
    /\ UNCHANGED <<current, disturbed, alone>>

\* A handler whose client has gone finishes for nobody.
DropReply(r) ==
    /\ \A c \in Calls : call[c].slot # r
    /\ Reply(r)
    /\ UNCHANGED browserVars

-----------------------------------------------------------------------------

Client(c) == SendRefresh(c) \/ ReceiveRefresh(c) \/ ReceiveLogout(c)

\* What a server does by itself, and what stops it.
Progress(r) ==
    /\ FindUnique(r) \/ RevokeFamily(r) \/ RotateUpdate(r) \/ RotateCreate(r)
    /\ UNCHANGED browserVars

Fault(r) ==
    /\ DbFails(r) \/ Crash(r)
    /\ disturbed' = TRUE
    /\ UNCHANGED <<access, cookie, call, session, current, alone>>

Next ==
    \/ \E t \in Tokens, f \in Families : SignIn(t, f)
    \/ AgeAccess
    \/ AgeCookie
    \/ \E c \in Calls : \/ GetUnauthorized(c) \/ PressLogout(c) \/ Client(c)
                        \/ Unreachable(c) \/ CutOff(c)
    \/ \E r \in Requests : Progress(r) \/ Fault(r) \/ DropReply(r)

Spec == Init /\ [][Next]_vars

\* The browser's event loop and the API's run on; users, clocks and failures
\* are under no obligation.  That slots are few bounds the model, not the code:
\* a call that waits for one gets it some time.
Fairness ==
    /\ \A c \in Calls : WF_vars(Client(c)) /\ SF_vars(SendRefresh(c))
    /\ \A r \in Requests : WF_vars(Progress(r)) /\ WF_vars(DropReply(r))

FairSpec == Spec /\ Fairness

-----------------------------------------------------------------------------
\* Correctness.

\* A browser whose refreshes do not overlap, and whose failed requests never
\* reached a handler, holds a refresh token the server will rotate whenever it
\* needs one: nothing else but leaving and time ends its session.
CookieUsable ==
    (session = "open" /\ ~disturbed /\ \A c \in Calls : call[c].pc # "await") =>
        cookie # None /\ Live(cookie) /\ cookie \notin expired

\* What holds in every state of the browser with the API behind it: every call
\* waits for what is under way, and the cookie it will present is good.
BrowserInv == BrowserTypeOK /\ CookieUsable

\* A token of the session the user last signed in to.
Current(t) == Exists(t) /\ family[t] = current

\* The two calls of a rotation commit in either order, yet between rotations the
\* session of such a browser has at most one token that would be accepted.
OneLiveToken ==
    ~disturbed /\ (\A r \in Requests : req[r].family = current => req[r].todo = {}) =>
        \A t, u \in Tokens : Current(t) /\ Current(u) /\ Live(t) /\ Live(u) => t = u

\* "Revoke every live token in a family (logout / reuse detection)"
\* (token.service.ts:91): a logout that carries the access cookie and meets no
\* other handler leaves no live token and no cookie behind, whatever failed
\* before it.  A page that is logged out without that may still hold both.
LogoutEnds ==
    session = "loggedOut" =>
        cookie = None /\ access = None /\ \A t \in Tokens : Current(t) => ~Live(t)

\* Whatever fails, an apiFetch call returns to its caller.
CallsReturn == \A c \in Calls : (call[c].pc # "idle") ~> (call[c].pc = "idle")

-----------------------------------------------------------------------------
\* What the repository says of the browser's session and a run breaks.

\* api-client.ts:97-102, "a deploy blip doesn't bounce a valid session to
\* login; a 401/403 from refresh is a genuine logout": while the user neither
\* leaves nor lets the session expire, the browser keeps a refresh cookie.
KeepsSession == session = "open" => cookie # None
=============================================================================
