---------------------------- MODULE GoogleSignIn ----------------------------
(***************************************************************************)
(* Signing in with Google (google.controller.ts, google.strategy.ts and    *)
(* upsertGoogleUser of auth.service.ts).  A browser has one oauth_state    *)
(* cookie for all its tabs; a tab's state is named after the tab.  The     *)
(* callback reads the account, and if there is none writes the user and    *)
(* then the account, so two callbacks for a new account interleave, and    *)
(* its address at Google may change in between.                            *)
(***************************************************************************)
EXTENDS Naturals, FiniteSets

CONSTANTS
    Addresses,  \* of Google accounts; a user is known by the one it signed up with
    Known,      \* those that had a user before, by mail
    Accounts,   \* Google accounts
    Flows,      \* tabs that sign in with Google
    Nobody

ASSUME GoogleNone == Nobody \notin Addresses \cup Flows
ASSUME GoogleKnown == Known \subseteq Addresses

VARIABLES
    members,   \* rows of User, by the address each was created with
    owner,     \* rows of OauthAccount: the user an account belongs to
    address,   \* at Google: the address of each account
    cookie,    \* oauth_state: the flow whose state the browser holds
    flow,      \* what each tab is doing
    upset,     \* history: flows whose state the browser has lost
    sessionOf  \* history: users that an account has opened sessions of

googleVars == <<members, owner, address, cookie, flow, upset, sessionOf>>

Closed == {"idle", "signed in", "401", "403", "500"}
Steps == [pc : Closed \cup {"consent", "find", "upsert", "create", "issue"},
          account : Accounts \cup {Nobody}, email : Addresses \cup {Nobody},
          user : Addresses \cup {Nobody}]
Start == [pc |-> "idle", account |-> Nobody, email |-> Nobody, user |-> Nobody]

GoogleTypeOK ==
    /\ members \subseteq Addresses
    /\ owner \in [Accounts -> members \cup {Nobody}]
    /\ address \in [Accounts -> Addresses]
    /\ cookie \in Flows \cup {Nobody}
    /\ flow \in [Flows -> Steps]
    /\ \A f \in Flows : flow[f].user \in members \cup {Nobody}
    /\ upset \subseteq Flows
    /\ sessionOf \in [Accounts -> SUBSET members]

GoogleInit ==
    /\ members = Known
    /\ owner = [a \in Accounts |-> Nobody]
    /\ address \in [Accounts -> Addresses]
    /\ cookie = Nobody
    /\ flow = [f \in Flows |-> Start]
    /\ upset = {}
    /\ sessionOf = [a \in Accounts |-> {}]

To(f, pc) == flow' = [flow EXCEPT ![f].pc = pc]

-----------------------------------------------------------------------------

\* GoogleAuthGuard: a new state, in the one cookie.
SignIn(f) ==
    /\ flow[f].pc \in Closed
    /\ cookie' = f
    /\ upset' = (upset \ {f}) \cup ({cookie} \ {f, Nobody})
    /\ flow' = [flow EXCEPT ![f] = [Start EXCEPT !.pc = "consent"]]
    /\ UNCHANGED <<members, owner, address, sessionOf>>

\* Ten minutes have passed: the cookie is gone, and the state in it is void.
CookieExpires ==
    /\ cookie # Nobody
    /\ upset' = upset \cup {cookie}
    /\ cookie' = Nobody
    /\ UNCHANGED <<members, owner, address, flow, sessionOf>>

\* GoogleCallbackGuard.
StateMatches(f) == cookie = f

\* The user consents with one of their accounts; Google sends the browser back,
\* and the guard compares.  What Google says of the account is read then; an
\* account without an address is refused.
Callback(f, a) ==
    /\ flow[f].pc = "consent"
    /\ \/ ~StateMatches(f) /\ To(f, "403")
       \/ StateMatches(f) /\ To(f, "401")
       \/ /\ StateMatches(f)
          /\ flow' = [flow EXCEPT ![f] = [@ EXCEPT !.pc = "find", !.account = a,
                                                   !.email = address[a]]]
    /\ UNCHANGED <<members, owner, address, cookie, upset, sessionOf>>

FindAccount(f) ==
    LET u == owner[flow[f].account]
    IN /\ flow[f].pc = "find"
       /\ flow' = [flow EXCEPT ![f] = [@ EXCEPT !.pc = IF u = Nobody THEN "upsert" ELSE "issue",
                                                !.user = u]]
       /\ UNCHANGED <<members, owner, address, cookie, upset, sessionOf>>

\* Find the user by address, or create one.
UpsertByEmail(f) ==
    /\ flow[f].pc = "upsert"
    /\ members' = members \cup {flow[f].email}
    /\ flow' = [flow EXCEPT ![f] = [@ EXCEPT !.pc = "create", !.user = flow[f].email]]
    /\ UNCHANGED <<owner, address, cookie, upset, sessionOf>>

\* Mutant: a row that is there is replaced.
CreateAccount_Upserts(f) ==
    /\ flow[f].pc = "create"
    /\ owner' = [owner EXCEPT ![flow[f].account] = flow[f].user]
    /\ To(f, "issue")
    /\ UNCHANGED <<members, address, cookie, upset, sessionOf>>

\* The account is unique: whoever comes second is answered 500.
CreateAccount(f) ==
    /\ flow[f].pc = "create"
    /\ \/ /\ owner[flow[f].account] = Nobody
          /\ owner' = [owner EXCEPT ![flow[f].account] = flow[f].user]
          /\ To(f, "issue")
       \/ owner[flow[f].account] # Nobody /\ To(f, "500") /\ UNCHANGED owner
    /\ UNCHANGED <<members, address, cookie, upset, sessionOf>>

\* The handler: a session for the user, and the state cookie is cleared, by
\* whichever flow it was set.
OpenGoogleSession(f) ==
    /\ flow[f].pc = "issue"
    /\ sessionOf' = [sessionOf EXCEPT ![flow[f].account] = @ \cup {flow[f].user}]
    /\ upset' = upset \cup ({cookie} \ {f, Nobody})
    /\ cookie' = Nobody
    /\ To(f, "signed in")
    /\ UNCHANGED <<members, owner, address>>

\* A call fails, or the API is restarted.
LoseFlow(f) ==
    /\ flow[f].pc \in {"find", "upsert", "create", "issue"}
    /\ To(f, "500")
    /\ UNCHANGED <<members, owner, address, cookie, upset, sessionOf>>

\* The user changes the account's address at Google.
ChangeAddress(a, e) ==
    /\ address[a] # e
    /\ address' = [address EXCEPT ![a] = e]
    /\ UNCHANGED <<members, owner, cookie, flow, upset, sessionOf>>

GoogleNext ==
    \/ \E f \in Flows :
           \/ SignIn(f) \/ FindAccount(f) \/ UpsertByEmail(f) \/ CreateAccount(f)
           \/ OpenGoogleSession(f) \/ LoseFlow(f)
           \/ \E a \in Accounts : Callback(f, a)
    \/ CookieExpires
    \/ \E a \in Accounts, e \in Addresses : ChangeAddress(a, e)

GoogleSpec == GoogleInit /\ [][GoogleNext]_googleVars

-----------------------------------------------------------------------------
\* Correctness.

\* A Google account always signs in the same user, whoever creates the account
\* first and whatever becomes of its address.
SameUserEachTime == \A a \in Accounts : sessionOf[a] \subseteq {owner[a]}

\* A callback is refused for its state only in a tab whose state the browser
\* lost: to another tab, to the end of another sign-in, or after ten minutes.
StateLossExplained == \A f \in Flows : flow[f].pc = "403" => f \in upset

\* What a sign-in with Google promises in every state.
GoogleInv == GoogleTypeOK /\ SameUserEachTime /\ StateLossExplained
=============================================================================
