---------------------------- MODULE SignInProofs -----------------------------
(***************************************************************************)
(* Theorems about the two ways to sign in.  GoogleSignIn, for any          *)
(* accounts, addresses and tabs: the callbacks of one new account may all  *)
(* pass the lookup that finds nothing; that they end up with one user      *)
(* rests on the row of the account, which is written once and read, or     *)
(* written, by whoever opens a session.  MagicLink, for any addresses,     *)
(* tabs, links, clicks and budgets: the row of a link is only ever read by *)
(* the step that finds it and updated without a condition by the step that *)
(* consumes it, so single use rests on what the clicks under way have      *)
(* read.                                                                   *)
(***************************************************************************)
EXTENDS MagicLink, GoogleSignIn, FiniteSetTheorems, TLAPS

-----------------------------------------------------------------------------
\* Google accounts.

USE GoogleNone, GoogleKnown

\* What each handler has read: its account, the address it goes by, and the
\* user it found or made; who may open a session has the account's owner.
FlowsOK ==
    \A f \in Flows :
        /\ flow[f].pc \in {"find", "upsert", "create", "issue"} =>
               flow[f].account \in Accounts /\ flow[f].email \in Addresses
        /\ flow[f].pc = "create" => flow[f].user # Nobody
        /\ flow[f].pc = "issue" =>
               flow[f].user # Nobody /\ flow[f].user = owner[flow[f].account]

\* A tab at Google has its state in the cookie, or has lost it.
ConsentOK == \A f \in Flows : flow[f].pc = "consent" => cookie = f \/ f \in upset

AccountsIInv == GoogleTypeOK /\ FlowsOK /\ ConsentOK /\ SameUserEachTime /\ StateLossExplained

\* Nobody has an account, and no tab is under way.
LEMMA AccountsInit == GoogleInit => AccountsIInv
BY DEF GoogleInit, AccountsIInv, GoogleTypeOK, FlowsOK, ConsentOK, SameUserEachTime,
       StateLossExplained, Start, Steps, Closed

\* Users are never deleted and accounts never change hands.
Grows ==
    /\ members \subseteq members' /\ members' \subseteq Addresses
    /\ owner' \in [Accounts -> members' \cup {Nobody}]
    /\ \A a \in Accounts : owner[a] # Nobody => owner'[a] = owner[a]

\* A flow that becomes r, beside flows that stay what they are.
LEMMA FlowMoves ==
    ASSUME AccountsIInv, NEW f \in Flows, NEW r \in Steps, flow' = [flow EXCEPT ![f] = r], Grows,
           r.user \in members' \cup {Nobody},
           r.pc \in {"find", "upsert", "create", "issue"} =>
               r.account \in Accounts /\ r.email \in Addresses,
           r.pc = "create" => r.user # Nobody,
           r.pc = "issue" => r.user # Nobody /\ r.user = owner'[r.account],
           address' \in [Accounts -> Addresses], cookie' \in Flows \cup {Nobody},
           upset' \subseteq Flows, sessionOf' \in [Accounts -> SUBSET members']
    PROVE  /\ GoogleTypeOK' /\ FlowsOK'
           /\ flow'[f] = r /\ \A g \in Flows \ {f} : flow'[g] = flow[g]
<1>1. flow \in [Flows -> Steps]
  BY DEF AccountsIInv, GoogleTypeOK
<1>2. /\ flow'[f] = r /\ \A g \in Flows \ {f} : flow'[g] = flow[g]
      /\ flow' \in [Flows -> Steps]
  BY <1>1
<1>3. \A g \in Flows : flow'[g].user \in members' \cup {Nobody}
  BY <1>2 DEF AccountsIInv, GoogleTypeOK, Grows
<1>4. GoogleTypeOK'
  BY <1>2, <1>3 DEF GoogleTypeOK, Grows
<1>5. FlowsOK'
  BY <1>2 DEF AccountsIInv, FlowsOK, Grows
<1> QED
  BY <1>2, <1>4, <1>5

\* Where no cookie and no tab at Google is touched.
LEMMA HandlerMoves ==
    ASSUME AccountsIInv, NEW f \in Flows, GoogleTypeOK', FlowsOK', Grows,
           flow[f].pc # "consent", flow'[f].pc \notin {"consent", "403"},
           \A g \in Flows \ {f} : flow'[g] = flow[g],
           UNCHANGED <<cookie, upset, sessionOf>>
    PROVE  AccountsIInv'
<1>1. ConsentOK' /\ StateLossExplained'
  BY DEF AccountsIInv, ConsentOK, StateLossExplained
<1>2. SameUserEachTime'
  <2> SUFFICES ASSUME NEW a \in Accounts, NEW u \in sessionOf[a]
               PROVE  u = owner'[a]
    BY DEF SameUserEachTime
  <2>1. u = owner[a] /\ u \in members
    BY DEF AccountsIInv, SameUserEachTime, GoogleTypeOK
  <2>2. u # Nobody
    BY <2>1 DEF AccountsIInv, GoogleTypeOK
  <2> QED
    BY <2>1, <2>2 DEF Grows
<1> QED
  BY <1>1, <1>2 DEF AccountsIInv

\* The tab gets the cookie, and whoever had it loses its state.
LEMMA StepSignIn ==
    ASSUME AccountsIInv, NEW f \in Flows, SignIn(f)
    PROVE  AccountsIInv'
<1> DEFINE r == [Start EXCEPT !.pc = "consent"]
<1>1. /\ flow' = [flow EXCEPT ![f] = r] /\ cookie' = f
      /\ upset' = (upset \ {f}) \cup ({cookie} \ {f, Nobody})
      /\ UNCHANGED <<members, owner, address, sessionOf>>
  BY DEF SignIn
<1>2. r \in Steps /\ r.pc = "consent" /\ r.user = Nobody
  BY DEF Start, Steps
<1> HIDE DEF r
<1>3. Grows /\ upset' \subseteq Flows
  BY <1>1 DEF AccountsIInv, GoogleTypeOK, Grows
<1>4. /\ GoogleTypeOK' /\ FlowsOK'
      /\ flow'[f] = r /\ \A g \in Flows \ {f} : flow'[g] = flow[g]
  BY <1>1, <1>2, <1>3, FlowMoves DEF AccountsIInv, GoogleTypeOK
<1>5. ConsentOK'
  <2> SUFFICES ASSUME NEW g \in Flows, flow'[g].pc = "consent"
               PROVE  cookie' = g \/ g \in upset'
    BY DEF ConsentOK
  <2>1. CASE g = f
    BY <1>1, <2>1
  <2>2. CASE g # f
    BY <1>1, <1>4, <2>2 DEF AccountsIInv, ConsentOK
  <2> QED
    BY <2>1, <2>2
<1>6. StateLossExplained'
  BY <1>1, <1>2, <1>4 DEF AccountsIInv, StateLossExplained
<1>7. SameUserEachTime'
  BY <1>1 DEF AccountsIInv, SameUserEachTime
<1> QED
  BY <1>4, <1>5, <1>6, <1>7 DEF AccountsIInv

\* The state in the cookie is void.
LEMMA StepCookieExpires ==
    ASSUME AccountsIInv, CookieExpires
    PROVE  AccountsIInv'
<1>1. /\ cookie # Nobody /\ upset' = upset \cup {cookie} /\ cookie' = Nobody
      /\ UNCHANGED <<members, owner, address, flow, sessionOf>>
  BY DEF CookieExpires
<1>2. GoogleTypeOK'
  BY <1>1 DEF AccountsIInv, GoogleTypeOK
<1>3. FlowsOK' /\ SameUserEachTime'
  BY <1>1 DEF AccountsIInv, FlowsOK, SameUserEachTime
<1>4. ConsentOK' /\ StateLossExplained'
  BY <1>1 DEF AccountsIInv, ConsentOK, StateLossExplained
<1> QED
  BY <1>2, <1>3, <1>4 DEF AccountsIInv

\* Google sends the browser back.
LEMMA StepCallback ==
    ASSUME AccountsIInv, NEW f \in Flows, NEW a \in Accounts, Callback(f, a)
    PROVE  AccountsIInv'
<1>1. /\ flow[f].pc = "consent" /\ flow[f] \in Steps
      /\ flow[f].user \in members \cup {Nobody}
      /\ UNCHANGED <<members, owner, address, cookie, upset, sessionOf>>
  BY DEF Callback, AccountsIInv, GoogleTypeOK
<1>2. Grows
  BY <1>1 DEF AccountsIInv, GoogleTypeOK, Grows
<1>3. PICK r \in Steps : /\ flow' = [flow EXCEPT ![f] = r]
                         /\ r.user = flow[f].user
                         /\ \/ r.pc = "403" /\ cookie # f
                            \/ r.pc = "401"
                            \/ r.pc = "find" /\ r.account = a /\ r.email = address[a]
  <2>1. CASE ~StateMatches(f) /\ To(f, "403")
    <3> DEFINE r == [flow[f] EXCEPT !.pc = "403"]
    <3>1. r \in Steps /\ r.pc = "403" /\ r.user = flow[f].user
      BY <1>1 DEF Steps, Closed
    <3> QED
      BY <2>1, <3>1 DEF To, StateMatches
  <2>2. CASE StateMatches(f) /\ To(f, "401")
    <3> DEFINE r == [flow[f] EXCEPT !.pc = "401"]
    <3>1. r \in Steps /\ r.pc = "401" /\ r.user = flow[f].user
      BY <1>1 DEF Steps, Closed
    <3> QED
      BY <2>2, <3>1 DEF To
  <2>3. CASE flow' = [flow EXCEPT ![f] = [@ EXCEPT !.pc = "find", !.account = a,
                                                   !.email = address[a]]]
    <3> DEFINE r == [flow[f] EXCEPT !.pc = "find", !.account = a, !.email = address[a]]
    <3>1. address[a] \in Addresses
      BY DEF AccountsIInv, GoogleTypeOK
    <3>2. /\ r \in Steps /\ r.pc = "find" /\ r.account = a /\ r.email = address[a]
          /\ r.user = flow[f].user
      BY <1>1, <3>1 DEF Steps
    <3> QED
      BY <2>3, <3>2
  <2> QED
    BY <2>1, <2>2, <2>3 DEF Callback
<1>4. /\ r.pc \notin {"upsert", "create", "issue"}
      /\ r.pc = "find" => r.account \in Accounts /\ r.email \in Addresses
  BY <1>3 DEF AccountsIInv, GoogleTypeOK
<1>5. /\ GoogleTypeOK' /\ FlowsOK'
      /\ flow'[f] = r /\ \A g \in Flows \ {f} : flow'[g] = flow[g]
  BY <1>1, <1>2, <1>3, <1>4, FlowMoves DEF AccountsIInv, GoogleTypeOK
<1>6. ConsentOK' /\ StateLossExplained'
  BY <1>1, <1>3, <1>5 DEF AccountsIInv, ConsentOK, StateLossExplained
<1>7. SameUserEachTime'
  BY <1>1 DEF AccountsIInv, SameUserEachTime
<1> QED
  BY <1>5, <1>6, <1>7 DEF AccountsIInv

\* The row of the account is read.
LEMMA StepFindAccount ==
    ASSUME AccountsIInv, NEW f \in Flows, FindAccount(f)
    PROVE  AccountsIInv'
<1> DEFINE a == flow[f].account
           r == [flow[f] EXCEPT !.pc = IF owner[a] = Nobody THEN "upsert" ELSE "issue",
                                !.user = owner[a]]
<1>1. /\ flow[f].pc = "find" /\ flow[f] \in Steps /\ a \in Accounts
      /\ flow[f].email \in Addresses /\ owner[a] \in members \cup {Nobody}
      /\ flow' = [flow EXCEPT ![f] = r]
      /\ UNCHANGED <<members, owner, address, cookie, upset, sessionOf>>
  BY DEF FindAccount, AccountsIInv, FlowsOK, GoogleTypeOK
<1>2. Grows
  BY <1>1 DEF AccountsIInv, GoogleTypeOK, Grows
<1>3. /\ r \in Steps /\ r.user = owner[a] /\ r.account = a /\ r.email = flow[f].email
      /\ r.pc = IF owner[a] = Nobody THEN "upsert" ELSE "issue"
  BY <1>1 DEF Steps, AccountsIInv, GoogleTypeOK
<1> HIDE DEF r
<1>4. /\ GoogleTypeOK' /\ FlowsOK'
      /\ flow'[f] = r /\ \A g \in Flows \ {f} : flow'[g] = flow[g]
  BY <1>1, <1>2, <1>3, FlowMoves DEF AccountsIInv, GoogleTypeOK
<1> QED
  BY <1>1, <1>2, <1>3, <1>4, HandlerMoves

\* The address has a user.
LEMMA StepUpsertByEmail ==
    ASSUME AccountsIInv, NEW f \in Flows, UpsertByEmail(f)
    PROVE  AccountsIInv'
<1> DEFINE r == [flow[f] EXCEPT !.pc = "create", !.user = flow[f].email]
<1>1. /\ flow[f].pc = "upsert" /\ flow[f] \in Steps /\ flow[f].account \in Accounts
      /\ flow[f].email \in Addresses
      /\ flow' = [flow EXCEPT ![f] = r] /\ members' = members \cup {flow[f].email}
      /\ UNCHANGED <<owner, address, cookie, upset, sessionOf>>
  BY DEF UpsertByEmail, AccountsIInv, FlowsOK, GoogleTypeOK
<1>2. Grows /\ sessionOf' \in [Accounts -> SUBSET members']
  BY <1>1 DEF AccountsIInv, GoogleTypeOK, Grows
<1>3. /\ r \in Steps /\ r.pc = "create" /\ r.user = flow[f].email
      /\ r.account = flow[f].account /\ r.email = flow[f].email
  BY <1>1 DEF Steps
<1> HIDE DEF r
<1>4. /\ GoogleTypeOK' /\ FlowsOK'
      /\ flow'[f] = r /\ \A g \in Flows \ {f} : flow'[g] = flow[g]
  BY <1>1, <1>2, <1>3, FlowMoves DEF AccountsIInv, GoogleTypeOK
<1> QED
  BY <1>1, <1>2, <1>3, <1>4, HandlerMoves

\* The account gets its owner, or had one.
LEMMA StepCreateAccount ==
    ASSUME AccountsIInv, NEW f \in Flows, CreateAccount(f)
    PROVE  AccountsIInv'
<1> DEFINE a == flow[f].account
<1>1. /\ flow[f].pc = "create" /\ flow[f] \in Steps /\ a \in Accounts
      /\ flow[f].email \in Addresses /\ flow[f].user \in members /\ flow[f].user # Nobody
      /\ UNCHANGED <<members, address, cookie, upset, sessionOf>>
  BY DEF CreateAccount, AccountsIInv, FlowsOK, GoogleTypeOK
<1>2. CASE /\ owner[a] = Nobody /\ To(f, "issue")
           /\ owner' = [owner EXCEPT ![a] = flow[f].user]
  <2> DEFINE r == [flow[f] EXCEPT !.pc = "issue"]
  <2>1. /\ r \in Steps /\ r.pc = "issue" /\ r.user = flow[f].user /\ r.account = a
        /\ r.email = flow[f].email /\ flow' = [flow EXCEPT ![f] = r]
    BY <1>1, <1>2 DEF Steps, To
  <2>2. Grows /\ owner'[a] = flow[f].user
    BY <1>1, <1>2 DEF AccountsIInv, GoogleTypeOK, Grows
  <2> HIDE DEF r
  <2>3. /\ GoogleTypeOK' /\ FlowsOK'
        /\ flow'[f] = r /\ \A g \in Flows \ {f} : flow'[g] = flow[g]
    BY <1>1, <2>1, <2>2, FlowMoves DEF AccountsIInv, GoogleTypeOK
  <2> QED
    BY <1>1, <2>1, <2>2, <2>3, HandlerMoves
<1>3. CASE To(f, "500") /\ UNCHANGED owner
  <2> DEFINE r == [flow[f] EXCEPT !.pc = "500"]
  <2>1. /\ r \in Steps /\ r.pc = "500" /\ r.user = flow[f].user
        /\ flow' = [flow EXCEPT ![f] = r]
    BY <1>1, <1>3 DEF Steps, Closed, To
  <2>2. Grows
    BY <1>1, <1>3 DEF AccountsIInv, GoogleTypeOK, Grows
  <2> HIDE DEF r
  <2>3. /\ GoogleTypeOK' /\ FlowsOK'
        /\ flow'[f] = r /\ \A g \in Flows \ {f} : flow'[g] = flow[g]
    BY <1>1, <2>1, <2>2, FlowMoves DEF AccountsIInv, GoogleTypeOK
  <2> QED
    BY <1>1, <2>1, <2>2, <2>3, HandlerMoves
<1> QED
  BY <1>2, <1>3 DEF CreateAccount

\* A session for the owner, and the cookie is gone.
LEMMA StepOpenGoogleSession ==
    ASSUME AccountsIInv, NEW f \in Flows, OpenGoogleSession(f)
    PROVE  AccountsIInv'
<1> DEFINE a == flow[f].account
           r == [flow[f] EXCEPT !.pc = "signed in"]
<1>1. /\ flow[f].pc = "issue" /\ flow[f] \in Steps /\ a \in Accounts
      /\ flow[f].user \in members /\ flow[f].user = owner[a]
      /\ flow' = [flow EXCEPT ![f] = r]
      /\ sessionOf' = [sessionOf EXCEPT ![a] = @ \cup {flow[f].user}]
      /\ upset' = upset \cup ({cookie} \ {f, Nobody}) /\ cookie' = Nobody
      /\ UNCHANGED <<members, owner, address>>
  BY DEF OpenGoogleSession, To, AccountsIInv, FlowsOK, GoogleTypeOK
<1>2. r \in Steps /\ r.pc = "signed in" /\ r.user = flow[f].user
  BY <1>1 DEF Steps, Closed
<1> HIDE DEF r
<1>3. Grows /\ upset' \subseteq Flows /\ sessionOf' \in [Accounts -> SUBSET members']
  BY <1>1 DEF AccountsIInv, GoogleTypeOK, Grows
<1>4. /\ GoogleTypeOK' /\ FlowsOK'
      /\ flow'[f] = r /\ \A g \in Flows \ {f} : flow'[g] = flow[g]
  BY <1>1, <1>2, <1>3, FlowMoves DEF AccountsIInv, GoogleTypeOK
<1>5. ConsentOK' /\ StateLossExplained'
  BY <1>1, <1>2, <1>4 DEF AccountsIInv, ConsentOK, StateLossExplained
<1>6. SameUserEachTime'
  BY <1>1 DEF AccountsIInv, SameUserEachTime, GoogleTypeOK
<1> QED
  BY <1>4, <1>5, <1>6 DEF AccountsIInv

\* A handler ends without a session.
LEMMA StepLoseFlow ==
    ASSUME AccountsIInv, NEW f \in Flows, LoseFlow(f)
    PROVE  AccountsIInv'
<1> DEFINE r == [flow[f] EXCEPT !.pc = "500"]
<1>1. /\ flow[f].pc # "consent" /\ flow[f] \in Steps
      /\ flow[f].user \in members \cup {Nobody} /\ flow' = [flow EXCEPT ![f] = r]
      /\ UNCHANGED <<members, owner, address, cookie, upset, sessionOf>>
  BY DEF LoseFlow, To, AccountsIInv, GoogleTypeOK
<1>2. r \in Steps /\ r.pc = "500" /\ r.user = flow[f].user
  BY <1>1 DEF Steps, Closed
<1> HIDE DEF r
<1>3. Grows
  BY <1>1 DEF AccountsIInv, GoogleTypeOK, Grows
<1>4. /\ GoogleTypeOK' /\ FlowsOK'
      /\ flow'[f] = r /\ \A g \in Flows \ {f} : flow'[g] = flow[g]
  BY <1>1, <1>2, <1>3, FlowMoves DEF AccountsIInv, GoogleTypeOK
<1> QED
  BY <1>1, <1>2, <1>3, <1>4, HandlerMoves

\* Only what Google will say the next time is changed.
LEMMA StepChangeAddress ==
    ASSUME AccountsIInv, NEW a \in Accounts, NEW e \in Addresses, ChangeAddress(a, e)
    PROVE  AccountsIInv'
<1>1. /\ address' = [address EXCEPT ![a] = e]
      /\ UNCHANGED <<members, owner, cookie, flow, upset, sessionOf>>
  BY DEF ChangeAddress
<1>2. GoogleTypeOK'
  BY <1>1 DEF AccountsIInv, GoogleTypeOK
<1>3. FlowsOK' /\ ConsentOK' /\ SameUserEachTime' /\ StateLossExplained'
  BY <1>1 DEF AccountsIInv, FlowsOK, ConsentOK, SameUserEachTime, StateLossExplained
<1> QED
  BY <1>2, <1>3 DEF AccountsIInv

\* Every step preserves AccountsIInv.
LEMMA AccountsNext ==
    ASSUME AccountsIInv, [GoogleNext]_googleVars
    PROVE  AccountsIInv'
<1>1. CASE UNCHANGED googleVars
  <2>1. UNCHANGED <<members, owner, address, cookie, flow, upset, sessionOf>>
    BY <1>1 DEF googleVars
  <2> QED
    BY <2>1 DEF AccountsIInv, GoogleTypeOK, FlowsOK, ConsentOK, SameUserEachTime, StateLossExplained
<1> QED
  BY <1>1, StepSignIn, StepCookieExpires, StepCallback, StepFindAccount, StepUpsertByEmail,
     StepCreateAccount, StepOpenGoogleSession, StepLoseFlow, StepChangeAddress
     DEF GoogleNext

-----------------------------------------------------------------------------

\* The inductive invariant of signing in with Google.
THEOREM AccountsInvariance == GoogleSpec => []AccountsIInv
BY AccountsInit, AccountsNext, PTL DEF GoogleSpec

\* An account signs in one user, and a tab is refused only after it lost its
\* state, however many tabs sign in at once.
THEOREM GoogleSound == GoogleSpec => []GoogleInv
<1>1. AccountsIInv => GoogleInv
  BY DEF AccountsIInv, GoogleInv
<1> QED
  BY <1>1, AccountsInvariance, PTL

-----------------------------------------------------------------------------
\* Magic links.

USE MagicNone, MagicBefore, MagicMaxOf

\* What the handlers and the rows need beyond their types.
RequestsOK ==
    \A t \in Tabs :
        /\ request[t].pc # "idle" => request[t].email \in Emails
        /\ request[t].pc = "consume" => request[t].n \in 1..4
        /\ request[t].pc = "send" => /\ request[t].link \in Links
                                     /\ link[request[t].link].email # None
ClicksOK ==
    \A c \in Clicks : click[c].pc # "idle" =>
        /\ click[c].link \in Links
        /\ link[click[c].link].email # None
MailsOK == \A l \in Links : link[l].mailed => link[l].email # None

\* A click that may open a session of l.
Active(c, l) == click[c].link = l /\ click[c].pc \in {"consume", "upsert", "issue"}

\* As long as no two clicks found l unconsumed, one of them at most is active;
\* once a session is opened none is, and the row says that it is consumed.
OneClick ==
    \A l \in Links \ raced :
        /\ \A c, d \in Clicks : Active(c, l) /\ Active(d, l) => c = d
        /\ opened[l] \in {0, 1}
        /\ opened[l] = 1 => link[l].consumed /\ \A c \in Clicks : ~Active(c, l)
        /\ \A c \in Clicks : Active(c, l) /\ click[c].pc # "consume" => link[l].consumed

\* Who comes late finds a link that stays dead.
LateFind == \A c \in Clicks : click[c].pc = "find" /\ click[c].late => Dead(click[c].link)

Counts == opened \in [Links -> Nat] /\ raced \subseteq Links

LinksIInv ==
    /\ MagicTypeOK /\ Counts /\ RequestsOK /\ ClicksOK /\ MailsOK
    /\ OneClick /\ LateFind /\ DeadLinksStayDead

\* No two tabs, clicks or links exist at first.
LEMMA LinksInit == MagicInit => LinksIInv
<1> SUFFICES ASSUME MagicInit
             PROVE  LinksIInv
  OBVIOUS
<1>1. MagicTypeOK
  BY DEF MagicInit, MagicTypeOK, Idle, Unclicked, NoLink, Pages, Requests, Keys, Kinds, Max
<1>2. Counts /\ RequestsOK /\ ClicksOK /\ MailsOK
  BY DEF MagicInit, Counts, RequestsOK, ClicksOK, MailsOK, Idle, Unclicked, NoLink
<1>3. OneClick /\ LateFind /\ DeadLinksStayDead
  BY DEF MagicInit, OneClick, Active, LateFind, DeadLinksStayDead, Unclicked
<1> QED
  BY <1>1, <1>2, <1>3 DEF LinksIInv

-----------------------------------------------------------------------------
\* The request for a link.

\* A step of a tab that touches no link and no click.
LEMMA TabStep ==
    ASSUME LinksIInv, MagicTypeOK', RequestsOK', UNCHANGED <<link, click, opened, raced>>
    PROVE  LinksIInv'
BY DEF LinksIInv, Counts, ClicksOK, MailsOK, OneClick, Active, LateFind, Dead, DeadLinksStayDead

\* A request that becomes r, while every row that was somebody's stays so.
LEMMA RequestMoves ==
    ASSUME LinksIInv, NEW t \in Tabs, NEW r \in Requests, request' = [request EXCEPT ![t] = r],
           r.pc # "idle" => r.email \in Emails,
           r.pc = "consume" => r.n \in 1..4,
           r.pc = "send" => r.link \in Links /\ link'[r.link].email # None,
           \A l \in Links : link[l].email # None => link'[l].email # None
    PROVE  /\ request' \in [Tabs -> Requests] /\ RequestsOK'
           /\ request'[t] = r /\ \A s \in Tabs \ {t} : request'[s] = request[s]
<1>1. request \in [Tabs -> Requests]
  BY DEF LinksIInv, MagicTypeOK
<1>2. request'[t] = r /\ \A s \in Tabs \ {t} : request'[s] = request[s]
  BY <1>1
<1>3. RequestsOK'
  BY <1>2 DEF LinksIInv, RequestsOK
<1> QED
  BY <1>1, <1>2, <1>3

\* A handler that goes on to a step which needs no more than the one before.
LEMMA HandlerGoesOn ==
    ASSUME LinksIInv, NEW t \in Tabs, NEW pc \in {"global", "create", "ok", "429", "503", "lost"},
           request[t].pc # "idle", Goto(t, pc),
           UNCHANGED <<users, ends, page, link, click, opened, raced>>,
           used' \in [Keys -> Nat], \A k \in Keys : used'[k] <= Max[k]
    PROVE  LinksIInv'
<1> DEFINE r == [request[t] EXCEPT !.pc = pc]
<1>1. request' = [request EXCEPT ![t] = r]
  BY DEF Goto
<1>2. request[t] \in Requests /\ request[t].email \in Emails
  BY DEF LinksIInv, MagicTypeOK, RequestsOK
<1>3. r \in Requests /\ r.pc = pc /\ r.email \in Emails
  BY <1>2 DEF Requests
<1> HIDE DEF r
<1>4. /\ request' \in [Tabs -> Requests] /\ RequestsOK'
      /\ request'[t] = r /\ \A s \in Tabs \ {t} : request'[s] = request[s]
  BY <1>1, <1>3, RequestMoves
<1>5. MagicTypeOK'
  BY <1>3, <1>4 DEF LinksIInv, MagicTypeOK
<1> QED
  BY <1>4, <1>5, TabStep

\* Requests do not mind what happens elsewhere.
LEMMA RequestsStay ==
    ASSUME LinksIInv, UNCHANGED request,
           \A l \in Links : link[l].email # None => link'[l].email # None
    PROVE  RequestsOK'
BY DEF LinksIInv, RequestsOK

\* The page asks for a link.
LEMMA StepSubmit ==
    ASSUME LinksIInv, NEW t \in Tabs, NEW e \in Emails, NEW bot \in BOOLEAN, Submit(t, e, bot)
    PROVE  LinksIInv'
<1> DEFINE r == [pc |-> IF bot THEN "ok" ELSE "consume", email |-> e, bot |-> bot,
                 n |-> 1, link |-> None]
           p == [shows |-> "sending", email |-> e]
<1>1. /\ request' = [request EXCEPT ![t] = r] /\ page' = [page EXCEPT ![t] = p]
      /\ UNCHANGED <<users, used, ends, link, click, opened, raced>>
  BY DEF Submit, budgets
<1>2. /\ r.pc # "idle" /\ r.pc # "send" /\ r.email \in Emails /\ r.n \in 1..4
      /\ r \in Requests
  BY DEF Requests
<1>3. p.shows = "sending" /\ p \in [shows : Pages, email : Emails \cup {None}]
  BY DEF Pages
<1> HIDE DEF r, p
<1>4. /\ request' \in [Tabs -> Requests] /\ RequestsOK'
      /\ request'[t] = r /\ \A s \in Tabs \ {t} : request'[s] = request[s]
  BY <1>1, <1>2, RequestMoves
<1>5. MagicTypeOK'
  BY <1>1, <1>2, <1>3, <1>4 DEF LinksIInv, MagicTypeOK
<1> QED
  BY <1>1, <1>4, <1>5, TabStep

\* The budget taken next is a budget, with a maximum.
LEMMA BudgetKeys ==
    ASSUME NEW e \in Emails, NEW n \in 1..4
    PROVE  /\ BudgetsOf(e)[n] \in Keys /\ Global \in Keys
           /\ Len(BudgetsOf(e)) = 4
<1>1. n = 1 \/ n = 2 \/ n = 3 \/ n = 4
  OBVIOUS
<1>2. /\ <<"magicLink", e>> \in Keys /\ <<"magicLinkEmailDaily", e>> \in Keys
      /\ <<"magicLinkIp", None>> \in Keys /\ <<"magicLinkIpDaily", None>> \in Keys
      /\ <<"magicLinkGlobalDaily", None>> \in Keys
  BY DEF Keys, Kinds
<1> QED
  BY <1>1, <1>2 DEF BudgetsOf, Global

\* Every key has a kind, and its maximum is that of the kind.
LEMMA MaxType == Max \in [Keys -> Nat \ {0}]
<1>1. ASSUME NEW k \in Keys
      PROVE  k[1] \in Kinds
  BY <1>1 DEF Keys, Kinds
<1>2. \A k \in Keys : MaxOf[k[1]] \in Nat \ {0}
  BY <1>1
<1> QED
  BY <1>2 DEF Max

\* Taking from a budget keeps its type and its maximum.
LEMMA TakeKeeps ==
    ASSUME used \in [Keys -> Nat], \A j \in Keys : used[j] <= Max[j],
           NEW k \in Keys, Take(k)
    PROVE  used' \in [Keys -> Nat] /\ \A j \in Keys : used'[j] <= Max[j]
<1>1. used[k] < Max[k] /\ used' = [used EXCEPT ![k] = @ + 1]
  BY DEF Take, Budget!Consume, Budget!Within
<1>2. Max[k] \in Nat /\ used[k] \in Nat
  BY MaxType
<1>3. used[k] + 1 \in Nat /\ used[k] + 1 <= Max[k]
  BY <1>1, <1>2
<1> QED
  BY <1>1, <1>3

\* The next of the four budgets is taken, or is spent.
LEMMA StepConsumeBudget ==
    ASSUME LinksIInv, NEW t \in Tabs, ConsumeBudget(t)
    PROVE  LinksIInv'
<1> DEFINE k == BudgetsOf(request[t].email)[request[t].n]
<1>1. /\ request[t].pc = "consume" /\ request[t].email \in Emails /\ request[t].n \in 1..4
      /\ request[t] \in Requests
      /\ UNCHANGED <<users, ends, page, link, click, opened, raced>>
  BY DEF ConsumeBudget, LinksIInv, RequestsOK, MagicTypeOK
<1>2. k \in Keys /\ Len(BudgetsOf(request[t].email)) = 4
  BY <1>1, BudgetKeys
<1>3. CASE /\ Take(k)
           /\ request' = [request EXCEPT
                  ![t].pc = IF request[t].n = 4 THEN "global" ELSE "consume",
                  ![t].n = IF request[t].n = 4 THEN 0 ELSE request[t].n + 1]
  <2> HIDE DEF k
  <2> DEFINE r == [request[t] EXCEPT !.pc = IF request[t].n = 4 THEN "global" ELSE "consume",
                                     !.n = IF request[t].n = 4 THEN 0 ELSE request[t].n + 1]
  <2>1. used' \in [Keys -> Nat] /\ \A j \in Keys : used'[j] <= Max[j]
    BY <1>2, <1>3, TakeKeeps DEF LinksIInv, MagicTypeOK
  <2>2. request' = [request EXCEPT ![t] = r]
    BY <1>3
  <2>3. /\ r \in Requests /\ r.pc \in {"global", "consume"} /\ r.email \in Emails
        /\ r.pc = "consume" => r.n \in 1..4
    <3>1. CASE request[t].n = 4
      <4>1. r = [request[t] EXCEPT !.pc = "global", !.n = 0]
        BY <3>1
      <4> HIDE DEF r
      <4> DEFINE zero == 0
      <4>0. zero \in 0..4 /\ r = [request[t] EXCEPT !.pc = "global", !.n = zero]
        BY <4>1
      <4> HIDE DEF zero
      <4>2. r \in Requests
        BY <1>1, <4>0 DEF Requests
      <4>3. r.pc = "global" /\ r.email = request[t].email
        BY <1>1, <4>1 DEF Requests
      <4> QED
        BY <1>1, <4>2, <4>3
    <3>2. CASE request[t].n # 4
      <4>1. request[t].n + 1 \in 1..4
        BY <1>1, <3>2
      <4>2. r = [request[t] EXCEPT !.pc = "consume", !.n = request[t].n + 1]
        BY <3>2
      <4> HIDE DEF r
      <4>3. request[t].n + 1 \in 0..4
        BY <4>1
      <4> QED
        BY <1>1, <4>1, <4>2, <4>3 DEF Requests
    <3> QED
      BY <3>1, <3>2
  <2> HIDE DEF r
  <2>4. /\ request' \in [Tabs -> Requests] /\ RequestsOK'
        /\ request'[t] = r /\ \A s \in Tabs \ {t} : request'[s] = request[s]
    BY <1>1, <2>2, <2>3, RequestMoves
  <2>5. MagicTypeOK'
    BY <1>1, <2>1, <2>3, <2>4 DEF LinksIInv, MagicTypeOK
  <2> QED
    BY <1>1, <2>4, <2>5, TabStep
<1>4. CASE Goto(t, "429") /\ UNCHANGED used
  BY <1>1, <1>4, HandlerGoesOn DEF LinksIInv, MagicTypeOK
<1> QED
  BY <1>2, <1>3, <1>4 DEF ConsumeBudget

\* The budget of the whole service is taken, or is spent.
LEMMA StepConsumeGlobal ==
    ASSUME LinksIInv, NEW t \in Tabs, ConsumeGlobal(t)
    PROVE  LinksIInv'
<1>1. /\ request[t].pc # "idle"
      /\ UNCHANGED <<users, ends, page, link, click, opened, raced>>
  BY DEF ConsumeGlobal
<1>2. Global \in Keys
  BY DEF Global, Keys, Kinds
<1>3. CASE Take(Global) /\ Goto(t, "create")
  <2>1. used' \in [Keys -> Nat] /\ \A j \in Keys : used'[j] <= Max[j]
    BY <1>2, <1>3, TakeKeeps DEF LinksIInv, MagicTypeOK
  <2> QED
    BY <1>1, <1>3, <2>1, HandlerGoesOn
<1>4. CASE Goto(t, "ok") /\ UNCHANGED used
  BY <1>1, <1>4, HandlerGoesOn DEF LinksIInv, MagicTypeOK
<1> QED
  BY <1>3, <1>4 DEF ConsumeGlobal

\* A handler that dies, or an answer that is lost.
LEMMA StepLoseRequest ==
    ASSUME LinksIInv, NEW t \in Tabs, LoseRequest(t)
    PROVE  LinksIInv'
<1>1. /\ request[t].pc # "idle" /\ Goto(t, "lost")
      /\ UNCHANGED <<users, used, ends, page, link, click, opened, raced>>
  BY DEF LoseRequest, budgets
<1> QED
  BY <1>1, HandlerGoesOn DEF LinksIInv, MagicTypeOK

\* The page shows the answer.
LEMMA StepReceiveAnswer ==
    ASSUME LinksIInv, NEW t \in Tabs, ReceiveAnswer(t)
    PROVE  LinksIInv'
<1>1. UNCHANGED <<users, used, ends, link, click, opened, raced>>
  BY DEF ReceiveAnswer, budgets
<1> DEFINE s == CASE request[t].pc = "ok" -> "inbox"
                  [] request[t].pc = "429" -> "limited"
                  [] OTHER -> "failed"
           r == IF request[t].pc = "ok" THEN [request[t] EXCEPT !.pc = "idle"] ELSE Idle
<1>2. /\ request[t].pc # "idle"
      /\ page' = [page EXCEPT ![t].shows = s]
      /\ request' = [request EXCEPT ![t] = r]
  BY DEF ReceiveAnswer, LinksIInv, MagicTypeOK
<1>3. s \in Pages /\ s # "sending"
  BY DEF Pages
<1>4. r.pc = "idle" /\ r \in Requests
  <2>1. request[t] \in Requests
    BY DEF LinksIInv, MagicTypeOK
  <2> QED
    BY <2>1 DEF Idle, Requests
<1> HIDE DEF s, r
<1>5. /\ request' \in [Tabs -> Requests] /\ RequestsOK'
      /\ request'[t] = r /\ \A u \in Tabs \ {t} : request'[u] = request[u]
  BY <1>1, <1>2, <1>4, RequestMoves
<1>6. MagicTypeOK'
  BY <1>1, <1>2, <1>3, <1>4, <1>5 DEF LinksIInv, MagicTypeOK
<1> QED
  BY <1>1, <1>5, <1>6, TabStep

\* The form again, and nothing under way.
LEMMA StepDifferentAddress ==
    ASSUME LinksIInv, NEW t \in Tabs, DifferentAddress(t)
    PROVE  LinksIInv'
<1> DEFINE p == [shows |-> "form", email |-> None]
<1>1. /\ request' = [request EXCEPT ![t] = Idle] /\ page' = [page EXCEPT ![t] = p]
      /\ UNCHANGED <<users, used, ends, link, click, opened, raced>>
  BY DEF DifferentAddress, budgets
<1>2. Idle \in Requests /\ Idle.pc = "idle"
  BY DEF Idle, Requests
<1>3. p.shows = "form" /\ p \in [shows : Pages, email : Emails \cup {None}]
  BY DEF Pages
<1> HIDE DEF p
<1>4. /\ request' \in [Tabs -> Requests] /\ RequestsOK'
      /\ request'[t] = Idle /\ \A s \in Tabs \ {t} : request'[s] = request[s]
  BY <1>1, <1>2, RequestMoves
<1>5. MagicTypeOK'
  BY <1>1, <1>2, <1>3, <1>4 DEF LinksIInv, MagicTypeOK
<1> QED
  BY <1>1, <1>4, <1>5, TabStep

\* A window ends and the next one starts from nothing.
LEMMA StepRenewBudget ==
    ASSUME LinksIInv, NEW k \in Keys, RenewBudget(k)
    PROVE  LinksIInv'
<1>1. /\ UNCHANGED <<users, page, request, link, click, opened, raced>>
      /\ used' = [used EXCEPT ![k] = 0]
      /\ ends[k] = 0 /\ ends' = [ends EXCEPT ![k] = @ + 1]
  BY DEF RenewBudget, Budget!Renew
<1>2. RequestsOK'
  BY <1>1, RequestsStay
<1>3. used' \in [Keys -> Nat] /\ \A j \in Keys : used'[j] <= Max[j]
  <2>1. used \in [Keys -> Nat] /\ \A j \in Keys : used[j] <= Max[j]
    BY DEF LinksIInv, MagicTypeOK
  <2>2. 0 <= Max[k]
    BY MaxType
  <2> QED
    BY <1>1, <2>1, <2>2
<1>4. ends' \in [Keys -> 0..1]
  BY <1>1 DEF LinksIInv, MagicTypeOK
<1>5. MagicTypeOK'
  BY <1>1, <1>3, <1>4 DEF LinksIInv, MagicTypeOK
<1> QED
  BY <1>1, <1>2, <1>5, TabStep

\* A row is written for an address; the row was nobody's.
LEMMA StepCreateToken ==
    ASSUME LinksIInv, NEW t \in Tabs, NEW l \in Links, CreateToken(t, l)
    PROVE  LinksIInv'
<1>1. /\ request[t].pc = "create" /\ request[t].email \in Emails /\ link[l].email = None
      /\ link' = [link EXCEPT ![l].email = request[t].email]
      /\ request' = [request EXCEPT ![t].pc = "send", ![t].link = l]
      /\ UNCHANGED <<users, used, ends, page, click, opened, raced>>
  BY DEF CreateToken, LinksIInv, RequestsOK, budgets
<1>2. /\ \A m \in Links : /\ link'[m].consumed = link[m].consumed
                          /\ link'[m].expired = link[m].expired
                          /\ link'[m].mailed = link[m].mailed
                          /\ link[m].email # None => link'[m].email = link[m].email
      /\ link'[l].email # None
  BY <1>1 DEF LinksIInv, MagicTypeOK
<1> DEFINE r == [request[t] EXCEPT !.pc = "send", !.link = l]
<1>3a. request' = [request EXCEPT ![t] = r] /\ request[t] \in Requests
  BY <1>1 DEF LinksIInv, MagicTypeOK
<1>3b. r \in Requests /\ r.pc = "send" /\ r.email \in Emails /\ r.link = l
  BY <1>1, <1>3a DEF Requests
<1> HIDE DEF r
<1>4. /\ request' \in [Tabs -> Requests] /\ RequestsOK'
      /\ request'[t] = r /\ \A s \in Tabs \ {t} : request'[s] = request[s]
  BY <1>2, <1>3a, <1>3b, RequestMoves
<1>3. MagicTypeOK'
  BY <1>1, <1>3b, <1>4 DEF LinksIInv, MagicTypeOK
<1>5. ClicksOK' /\ MailsOK'
  BY <1>1, <1>2 DEF LinksIInv, ClicksOK, MailsOK
<1>6. LateFind'
  BY <1>1, <1>2 DEF LinksIInv, LateFind, Dead, ClicksOK
<1>7. OneClick' /\ DeadLinksStayDead' /\ Counts'
  BY <1>1, <1>2 DEF LinksIInv, OneClick, Active, DeadLinksStayDead, Counts
<1> QED
  BY <1>3, <1>4, <1>5, <1>6, <1>7 DEF LinksIInv

\* The mail is sent, or the provider refuses it.
LEMMA StepSendMail ==
    ASSUME LinksIInv, NEW t \in Tabs, SendMail(t)
    PROVE  LinksIInv'
<1>1. /\ request[t].pc = "send" /\ request[t].link \in Links
      /\ link[request[t].link].email # None
      /\ UNCHANGED <<users, used, ends, page, click, opened, raced>>
  BY DEF SendMail, LinksIInv, RequestsOK, budgets
<1>2. CASE Goto(t, "503") /\ UNCHANGED link
  BY <1>1, <1>2, HandlerGoesOn DEF LinksIInv, MagicTypeOK
<1>3. CASE link' = [link EXCEPT ![request[t].link].mailed = TRUE] /\ Goto(t, "ok")
  <2>1. \A m \in Links : /\ link'[m].consumed = link[m].consumed
                         /\ link'[m].expired = link[m].expired
                         /\ link'[m].mailed => link[m].mailed \/ m = request[t].link
                         /\ link'[m].email = link[m].email
    BY <1>1, <1>3 DEF LinksIInv, MagicTypeOK
  <2> DEFINE r == [request[t] EXCEPT !.pc = "ok"]
  <2>2. request' = [request EXCEPT ![t] = r] /\ request[t] \in Requests
    BY <1>3 DEF Goto, LinksIInv, MagicTypeOK
  <2>3. r \in Requests /\ r.pc = "ok" /\ r.email \in Emails
    BY <1>1, <2>2 DEF Requests, LinksIInv, RequestsOK
  <2> HIDE DEF r
  <2>6. /\ request' \in [Tabs -> Requests] /\ RequestsOK'
        /\ request'[t] = r /\ \A s \in Tabs \ {t} : request'[s] = request[s]
    BY <2>1, <2>2, <2>3, RequestMoves
  <2>7. MagicTypeOK'
    BY <1>1, <1>3, <2>3, <2>6 DEF LinksIInv, MagicTypeOK
  <2>4. ClicksOK' /\ MailsOK' /\ LateFind'
    BY <1>1, <2>1 DEF LinksIInv, ClicksOK, MailsOK, LateFind, Dead
  <2>5. OneClick' /\ DeadLinksStayDead' /\ Counts'
    BY <1>1, <2>1 DEF LinksIInv, OneClick, Active, DeadLinksStayDead, Counts
  <2> QED
    BY <2>4, <2>5, <2>6, <2>7 DEF LinksIInv
<1> QED
  BY <1>2, <1>3 DEF SendMail

-----------------------------------------------------------------------------
\* The click.

\* A click that is done with.
LEMMA ClickEnds ==
    ASSUME LinksIInv, NEW c \in Clicks, click' = [click EXCEPT ![c] = Unclicked],
           UNCHANGED <<users, used, ends, page, request, link, raced>>,
           \/ UNCHANGED opened
           \/ /\ click[c].pc = "issue"
              /\ opened' = [opened EXCEPT ![click[c].link] = @ + 1]
    PROVE  LinksIInv'
<1>1. /\ click' \in [Clicks -> [pc : {"idle", "find", "consume", "upsert", "issue"},
                                link : Links \cup {None}, late : BOOLEAN]]
      /\ click'[c].pc = "idle" /\ ~click'[c].late
      /\ \A d \in Clicks \ {c} : click'[d] = click[d]
  BY DEF LinksIInv, MagicTypeOK, Unclicked
<1>2. MagicTypeOK' /\ RequestsOK' /\ MailsOK'
  BY <1>1 DEF LinksIInv, MagicTypeOK, RequestsOK, MailsOK
<1>3. ClicksOK' /\ LateFind' /\ DeadLinksStayDead'
  BY <1>1 DEF LinksIInv, ClicksOK, LateFind, Dead, DeadLinksStayDead
<1>4. Counts'
  BY DEF LinksIInv, Counts
<1>5. \A l \in Links, d \in Clicks : Active(d, l)' => d # c /\ Active(d, l)
  BY <1>1 DEF Active
<1>6. OneClick'
  <2> SUFFICES ASSUME NEW l \in Links \ raced
               PROVE  /\ \A d, e \in Clicks : Active(d, l)' /\ Active(e, l)' => d = e
                      /\ opened'[l] \in {0, 1}
                      /\ opened'[l] = 1 =>
                             link[l].consumed /\ \A d \in Clicks : ~Active(d, l)'
                      /\ \A d \in Clicks :
                             Active(d, l)' /\ click'[d].pc # "consume" => link[l].consumed
    BY DEF OneClick
  <2>1. /\ \A d, e \in Clicks : Active(d, l)' /\ Active(e, l)' => d = e
        /\ \A d \in Clicks :
               Active(d, l)' /\ click'[d].pc # "consume" => link[l].consumed
    BY <1>1, <1>5 DEF LinksIInv, OneClick
  <2>2. CASE opened'[l] = opened[l]
    BY <1>5, <2>1, <2>2 DEF LinksIInv, OneClick
  <2>3. CASE opened'[l] # opened[l]
    <3>1. click[c].link = l /\ click[c].pc = "issue" /\ opened'[l] = opened[l] + 1
      BY <2>3 DEF LinksIInv, Counts
    <3>2. Active(c, l)
      BY <3>1 DEF Active
    <3>3. opened[l] = 0 /\ link[l].consumed
      BY <3>1, <3>2 DEF LinksIInv, OneClick
    <3>4. \A d \in Clicks : ~Active(d, l)'
      BY <1>5, <3>2 DEF LinksIInv, OneClick
    <3> QED
      BY <2>1, <3>1, <3>3, <3>4
  <2> QED
    BY <2>2, <2>3
<1> QED
  BY <1>2, <1>3, <1>4, <1>6 DEF LinksIInv

\* A mailed link is opened.
LEMMA StepClickLink ==
    ASSUME LinksIInv, NEW c \in Clicks, NEW l \in Links, ClickLink(c, l)
    PROVE  LinksIInv'
<1> DEFINE q == [pc |-> "find", link |-> l, late |-> Dead(l)]
<1>1. /\ click[c].pc = "idle" /\ link[l].mailed /\ click' = [click EXCEPT ![c] = q]
      /\ UNCHANGED <<users, used, ends, page, request, link, opened, raced>>
  BY DEF ClickLink, budgets
<1>2. q.pc = "find" /\ q.link = l /\ q.late = Dead(l) /\ q.late \in BOOLEAN
  BY DEF Dead, LinksIInv, MagicTypeOK
<1>3. q \in [pc : {"idle", "find", "consume", "upsert", "issue"},
             link : Links \cup {None}, late : BOOLEAN]
  BY <1>2
<1> HIDE DEF q
<1>4. click'[c] = q /\ \A d \in Clicks \ {c} : click'[d] = click[d]
  BY <1>1 DEF LinksIInv, MagicTypeOK
<1>5. MagicTypeOK' /\ RequestsOK' /\ MailsOK' /\ Counts'
  BY <1>1, <1>3 DEF LinksIInv, MagicTypeOK, RequestsOK, MailsOK, Counts
<1>6. ClicksOK' /\ LateFind' /\ DeadLinksStayDead'
  <2>1. ClicksOK'
    BY <1>1, <1>2, <1>4 DEF LinksIInv, ClicksOK, MailsOK
  <2>2. LateFind'
    BY <1>1, <1>2, <1>4 DEF LinksIInv, LateFind, Dead
  <2>3. DeadLinksStayDead'
    BY <1>2, <1>4 DEF LinksIInv, DeadLinksStayDead
  <2> QED
    BY <2>1, <2>2, <2>3
<1>7. \A m \in Links, d \in Clicks : Active(d, m)' => d # c /\ Active(d, m)
  BY <1>2, <1>4 DEF Active
<1>8. OneClick'
  BY <1>1, <1>4, <1>7 DEF LinksIInv, OneClick
<1> QED
  BY <1>5, <1>6, <1>8 DEF LinksIInv

\* A click that goes on to pc, and what it does to the row.
LEMMA ClickMoves ==
    ASSUME LinksIInv, NEW c \in Clicks, NEW pc \in {"consume", "upsert", "issue"}, Step(c, pc)
    PROVE  /\ click' \in [Clicks -> [pc : {"idle", "find", "consume", "upsert", "issue"},
                                     link : Links \cup {None}, late : BOOLEAN]]
           /\ click'[c].pc = pc /\ click'[c].link = click[c].link
           /\ click'[c].late = click[c].late
           /\ \A d \in Clicks \ {c} : click'[d] = click[d]
BY DEF LinksIInv, MagicTypeOK, Step

\* The row is read; whoever finds it beside another click has raced.
LEMMA StepFindLink ==
    ASSUME LinksIInv, NEW c \in Clicks, FindLink(c)
    PROVE  LinksIInv'
<1> DEFINE l == click[c].link
<1>1. /\ click[c].pc = "find" /\ l \in Links
      /\ UNCHANGED <<users, used, ends, page, request, link, opened>>
  BY DEF FindLink, LinksIInv, ClicksOK, budgets
<1>2. CASE ~Redeemable(l)
  BY <1>1, <1>2, ClickEnds DEF FindLink, Step
<1>3. CASE Redeemable(l)
  <2>0. /\ Step(c, "consume") /\ ~link[l].consumed /\ ~link[l].expired
        /\ raced' = IF Found(l) # {} THEN raced \cup {l} ELSE raced
    BY <1>3 DEF FindLink, Redeemable
  <2>1. /\ click' \in [Clicks -> [pc : {"idle", "find", "consume", "upsert", "issue"},
                                  link : Links \cup {None}, late : BOOLEAN]]
        /\ click'[c].pc = "consume" /\ click'[c].link = l /\ click'[c].late = click[c].late
        /\ \A d \in Clicks \ {c} : click'[d] = click[d]
    BY <2>0, ClickMoves
  <2>2. ~click[c].late
    BY <1>1, <2>0 DEF LinksIInv, LateFind, Dead, ClicksOK
  <2>3. MagicTypeOK' /\ RequestsOK' /\ MailsOK' /\ Counts'
    BY <1>1, <2>0, <2>1 DEF LinksIInv, MagicTypeOK, RequestsOK, MailsOK, Counts
  <2>4. ClicksOK' /\ LateFind' /\ DeadLinksStayDead'
    BY <1>1, <2>1, <2>2 DEF LinksIInv, ClicksOK, LateFind, Dead, DeadLinksStayDead
  <2>5. \A m \in Links, d \in Clicks : Active(d, m)' => Active(d, m) \/ (d = c /\ m = l)
    BY <2>1 DEF Active
  <2>6. \A m \in Links, d \in Clicks :
            Active(d, m)' /\ click'[d].pc # "consume" => Active(d, m) /\ click[d].pc # "consume"
    BY <2>1 DEF Active
  <2>7. ASSUME NEW d \in Clicks, Active(d, l), l \notin raced'
        PROVE  FALSE
    <3>1. click[d].pc # "consume"
      BY <2>0, <2>7 DEF Found, Active
    <3>2. l \notin raced
      BY <2>0, <2>7
    <3> QED
      BY <1>1, <2>0, <2>7, <3>1, <3>2 DEF LinksIInv, OneClick
  <2>8. OneClick'
    <3> SUFFICES ASSUME NEW m \in Links \ raced'
                 PROVE  /\ \A d, e \in Clicks : Active(d, m)' /\ Active(e, m)' => d = e
                        /\ opened[m] \in {0, 1}
                        /\ opened[m] = 1 =>
                               link[m].consumed /\ \A d \in Clicks : ~Active(d, m)'
                        /\ \A d \in Clicks :
                               Active(d, m)' /\ click'[d].pc # "consume" => link[m].consumed
      BY <1>1 DEF OneClick
    <3>1. m \in Links \ raced
      BY <2>0
    <3>2. CASE m = l
      BY <1>1, <2>0, <2>5, <2>6, <2>7, <3>1, <3>2 DEF LinksIInv, OneClick
    <3>3. CASE m # l
      BY <2>5, <2>6, <3>1, <3>3 DEF LinksIInv, OneClick
    <3> QED
      BY <3>2, <3>3
  <2> QED
    BY <2>3, <2>4, <2>8 DEF LinksIInv
<1> QED
  BY <1>2, <1>3

\* The row is consumed, whether or not it was.
LEMMA StepConsumeLink ==
    ASSUME LinksIInv, NEW c \in Clicks, ConsumeLink(c)
    PROVE  LinksIInv'
<1> DEFINE l == click[c].link
<1>1. /\ click[c].pc = "consume" /\ l \in Links /\ Step(c, "upsert")
      /\ link' = [link EXCEPT ![l].consumed = TRUE]
      /\ UNCHANGED <<users, used, ends, page, request, opened, raced>>
  BY DEF ConsumeLink, LinksIInv, ClicksOK, budgets
<1>2. /\ click' \in [Clicks -> [pc : {"idle", "find", "consume", "upsert", "issue"},
                                link : Links \cup {None}, late : BOOLEAN]]
      /\ click'[c].pc = "upsert" /\ click'[c].link = l /\ click'[c].late = click[c].late
      /\ \A d \in Clicks \ {c} : click'[d] = click[d]
  BY <1>1, ClickMoves
<1>3. /\ \A m \in Links : /\ link[m].consumed => link'[m].consumed
                          /\ link'[m].expired = link[m].expired
                          /\ link'[m].mailed = link[m].mailed
                          /\ link'[m].email = link[m].email
      /\ link'[l].consumed
  BY <1>1 DEF LinksIInv, MagicTypeOK
<1>4. MagicTypeOK' /\ RequestsOK' /\ MailsOK' /\ Counts'
  <2>1. MagicTypeOK'
    BY <1>1, <1>2 DEF LinksIInv, MagicTypeOK
  <2>2. RequestsOK'
    BY <1>1, <1>3, RequestsStay
  <2>3. MailsOK' /\ Counts'
    BY <1>1, <1>3 DEF LinksIInv, MailsOK, Counts
  <2> QED
    BY <2>1, <2>2, <2>3
<1>5. ClicksOK' /\ LateFind' /\ DeadLinksStayDead'
  BY <1>1, <1>2, <1>3 DEF LinksIInv, ClicksOK, LateFind, Dead, DeadLinksStayDead
<1>6. \A m \in Links, d \in Clicks : Active(d, m)' <=> Active(d, m)
  BY <1>1, <1>2 DEF Active
<1>7. OneClick'
  BY <1>1, <1>2, <1>3, <1>6 DEF LinksIInv, OneClick, Active
<1> QED
  BY <1>4, <1>5, <1>7 DEF LinksIInv

\* The address has a user.
LEMMA StepUpsertUser ==
    ASSUME LinksIInv, NEW c \in Clicks, UpsertUser(c)
    PROVE  LinksIInv'
<1> DEFINE l == click[c].link
<1>1. /\ click[c].pc = "upsert" /\ l \in Links /\ link[l].email # None /\ Step(c, "issue")
      /\ users' = users \cup {link[l].email}
      /\ UNCHANGED <<used, ends, page, request, link, opened, raced>>
  BY DEF UpsertUser, LinksIInv, ClicksOK, budgets
<1>2. /\ click' \in [Clicks -> [pc : {"idle", "find", "consume", "upsert", "issue"},
                                link : Links \cup {None}, late : BOOLEAN]]
      /\ click'[c].pc = "issue" /\ click'[c].link = l /\ click'[c].late = click[c].late
      /\ \A d \in Clicks \ {c} : click'[d] = click[d]
  BY <1>1, ClickMoves
<1>3. MagicTypeOK' /\ RequestsOK' /\ MailsOK' /\ Counts'
  BY <1>1, <1>2 DEF LinksIInv, MagicTypeOK, RequestsOK, MailsOK, Counts
<1>4. ClicksOK' /\ LateFind' /\ DeadLinksStayDead'
  BY <1>1, <1>2 DEF LinksIInv, ClicksOK, LateFind, Dead, DeadLinksStayDead
<1>5. \A m \in Links, d \in Clicks : Active(d, m)' <=> Active(d, m)
  BY <1>1, <1>2 DEF Active
<1>6. OneClick'
  BY <1>1, <1>2, <1>5 DEF LinksIInv, OneClick
<1> QED
  BY <1>3, <1>4, <1>6 DEF LinksIInv

\* Time passes for a link.
LEMMA StepExpireLink ==
    ASSUME LinksIInv, NEW l \in Links, ExpireLink(l)
    PROVE  LinksIInv'
<1>1. /\ link' = [link EXCEPT ![l].expired = TRUE]
      /\ UNCHANGED <<users, used, ends, page, request, click, opened, raced>>
  BY DEF ExpireLink, budgets
<1>2. \A m \in Links : /\ link'[m].consumed = link[m].consumed
                       /\ link[m].expired => link'[m].expired
                       /\ link'[m].mailed = link[m].mailed
                       /\ link'[m].email = link[m].email
  BY <1>1 DEF LinksIInv, MagicTypeOK
<1>3. MagicTypeOK' /\ RequestsOK' /\ MailsOK' /\ Counts'
  <2>1. MagicTypeOK'
    BY <1>1 DEF LinksIInv, MagicTypeOK
  <2>2. RequestsOK'
    BY <1>1, <1>2, RequestsStay
  <2>3. MailsOK' /\ Counts'
    BY <1>1, <1>2 DEF LinksIInv, MailsOK, Counts
  <2> QED
    BY <2>1, <2>2, <2>3
<1>4. ClicksOK' /\ LateFind' /\ DeadLinksStayDead'
  BY <1>1, <1>2 DEF LinksIInv, ClicksOK, LateFind, Dead, DeadLinksStayDead
<1>5. OneClick'
  BY <1>1, <1>2 DEF LinksIInv, OneClick, Active
<1> QED
  BY <1>3, <1>4, <1>5 DEF LinksIInv

-----------------------------------------------------------------------------

\* Every step preserves LinksIInv.
LEMMA LinksNext ==
    ASSUME LinksIInv, [MagicNext]_<<users, magicVars>>
    PROVE  LinksIInv'
<1>1. CASE UNCHANGED <<users, magicVars>>
  <2>1. UNCHANGED <<users, used, ends, page, request, link, click, opened, raced>>
    BY <1>1 DEF magicVars
  <2>2. MagicTypeOK'
    BY <2>1 DEF LinksIInv, MagicTypeOK
  <2>3. RequestsOK'
    BY <2>1, RequestsStay
  <2> QED
    BY <2>1, <2>2, <2>3, TabStep
<1>2. ASSUME NEW c \in Clicks, OpenSession(c) \/ LoseClick(c)
      PROVE  LinksIInv'
  BY <1>2, ClickEnds DEF OpenSession, LoseClick, Step, budgets
<1> QED
  BY <1>1, <1>2, StepSubmit, StepConsumeBudget, StepConsumeGlobal, StepLoseRequest,
     StepReceiveAnswer, StepDifferentAddress, StepRenewBudget, StepCreateToken,
     StepSendMail, StepClickLink, StepFindLink, StepConsumeLink, StepUpsertUser,
     StepExpireLink DEF MagicNext

\* The inductive invariant of signing in by mail.
THEOREM LinksInvariance == MagicSpec => []LinksIInv
BY LinksInit, LinksNext, PTL DEF MagicSpec

\* auth.service.ts:128, "single-use": a link opens a second session only when
\* two clicks found it before either consumed it.
THEOREM SingleUseUnlessRaced == MagicSpec => []ReuseNeedsRace
<1>1. LinksIInv => ReuseNeedsRace
  BY DEF LinksIInv, OneClick, Counts, ReuseNeedsRace
<1> QED
  BY <1>1, LinksInvariance, PTL

\* A click that comes after a link was consumed or has expired opens nothing.
COROLLARY DeadLinks == MagicSpec => []DeadLinksStayDead
BY LinksInvariance, PTL DEF LinksIInv

-----------------------------------------------------------------------------
\* Mails.  The login page says "check your inbox" to nobody in vain, and no
\* budget lets more mails out than it has had windows for.  The second is a
\* count of the mails and of the requests that have passed the budget and not
\* mailed yet, which what was taken always covers.

USE MagicFinite


\* What an answer of 200 stands for.
Served(r, e) ==
    \/ r.link # None /\ link[r.link].mailed /\ link[r.link].email = e
    \/ r.link = None /\ r.n = 0

\* The request of a tab is for the address on its page, and its link too.
InboxAt(t) ==
    LET r == request[t]
    IN /\ r.pc # "idle" => page[t].email = r.email
       /\ r.pc \in {"consume", "global", "create"} => r.link = None
       /\ r.pc \in {"global", "create"} => r.n = 0
       /\ r.pc = "send" => link[r.link].email = r.email
       /\ r.pc = "ok" /\ ~r.bot => Served(r, r.email)
       /\ page[t].shows = "inbox" /\ ~r.bot => Served(r, page[t].email)
InboxOK == \A t \in Tabs : InboxAt(t)

\* Requests that have passed budget k and may still mail.
HasPassed(r, k) ==
    \/ r.pc = "consume" /\ \E i \in 1..4 : i < r.n /\ BudgetsOf(r.email)[i] = k
    \/ r.pc \in {"global", "create", "send"} /\ \E i \in 1..4 : BudgetsOf(r.email)[i] = k
    \/ r.pc \in {"create", "send"} /\ k = Global
Past(k) == {t \in Tabs : HasPassed(request[t], k)}

\* The links mailed on budget k.
MailedOn(k) == {l \in Links : link[l].mailed /\ (k[2] = None \/ link[l].email = k[2])}

\* What was taken from a budget covers its mails, sent and under way.
Covered(k) ==
    Cardinality(MailedOn(k)) + Cardinality(Past(k)) <= used[k] + Max[k] * ends[k]

-----------------------------------------------------------------------------
\* Rows.

\* A row that is somebody's stays theirs, and a mail is not taken back.
RowsKeep ==
    \A l \in Links : /\ link[l].email # None => link'[l].email = link[l].email
                     /\ link[l].mailed => link'[l].mailed

\* No step breaks it.
LEMMA RowsStay ==
    ASSUME LinksIInv, [MagicNext]_<<users, magicVars>>
    PROVE  RowsKeep
<1>1. CASE UNCHANGED link
  BY <1>1 DEF RowsKeep
<1>3. ASSUME NEW t \in Tabs, NEW l \in Links, CreateToken(t, l)
      PROVE  RowsKeep
  BY <1>3 DEF CreateToken, RowsKeep, LinksIInv, MagicTypeOK
<1>4. ASSUME NEW t \in Tabs, SendMail(t)
      PROVE  RowsKeep
  BY <1>4 DEF SendMail, RowsKeep, LinksIInv, MagicTypeOK
<1>5. ASSUME NEW c \in Clicks, ConsumeLink(c)
      PROVE  RowsKeep
  BY <1>5 DEF ConsumeLink, RowsKeep, LinksIInv, MagicTypeOK
<1>6. ASSUME NEW l \in Links, ExpireLink(l)
      PROVE  RowsKeep
  BY <1>6 DEF ExpireLink, RowsKeep, LinksIInv, MagicTypeOK
<1> QED
  BY <1>1, <1>3, <1>4, <1>5, <1>6
     DEF MagicNext, magicVars, Submit, ConsumeBudget, ConsumeGlobal, LoseRequest,
         ReceiveAnswer, DifferentAddress, RenewBudget, ClickLink, FindLink, UpsertUser,
         OpenSession, LoseClick

-----------------------------------------------------------------------------
\* The inbox.

\* A tab that no step touches.
LEMMA InboxStays ==
    ASSUME LinksIInv, RowsKeep, NEW t \in Tabs, InboxAt(t),
           request'[t] = request[t], page'[t] = page[t]
    PROVE  InboxAt(t)'
<1>1. request[t] \in Requests /\ (request[t].link # None => request[t].link \in Links)
  BY DEF LinksIInv, MagicTypeOK, Requests
<1>2. request[t].pc = "send" => request[t].link \in Links /\ link[request[t].link].email # None
  BY DEF LinksIInv, RequestsOK
<1>3. \A e : Served(request[t], e) => Served(request[t], e)'
  BY <1>1 DEF Served, RowsKeep, LinksIInv, MailsOK
<1> QED
  BY <1>2, <1>3 DEF InboxAt, RowsKeep

\* One tab's request goes on.
LEMMA InboxOfOne ==
    ASSUME LinksIInv, InboxOK, RowsKeep, NEW t \in Tabs, InboxAt(t)',
           \A s \in Tabs \ {t} : request'[s] = request[s] /\ page'[s] = page[s]
    PROVE  InboxOK'
BY InboxStays DEF InboxOK

\* A handler that goes on to pc and nowhere else.
LEMMA InboxGoto ==
    ASSUME LinksIInv, NEW t \in Tabs, NEW pc, Goto(t, pc)
    PROVE  /\ request'[t] = [request[t] EXCEPT !.pc = pc]
           /\ request[t] \in Requests
           /\ \A s \in Tabs \ {t} : request'[s] = request[s]
BY DEF Goto, LinksIInv, MagicTypeOK

\* The steps of a tab.
LEMMA InboxTabStep ==
    ASSUME LinksIInv, InboxOK, RowsKeep, NEW t \in Tabs,
           \/ \E e \in Emails, bot \in BOOLEAN : Submit(t, e, bot)
           \/ ConsumeBudget(t) \/ ConsumeGlobal(t) \/ SendMail(t) \/ LoseRequest(t)
           \/ \E l \in Links : CreateToken(t, l)
           \/ ReceiveAnswer(t) \/ DifferentAddress(t)
    PROVE  InboxOK'
<1>0. /\ InboxAt(t) /\ request[t] \in Requests
      /\ page[t].shows = "sending" <=> request[t].pc # "idle"
  BY DEF InboxOK, LinksIInv, MagicTypeOK
<1>1. ASSUME NEW e \in Emails, NEW bot \in BOOLEAN, Submit(t, e, bot)
      PROVE  InboxOK'
  <2>1. /\ request'[t].pc = (IF bot THEN "ok" ELSE "consume") /\ request'[t].email = e
        /\ request'[t].bot = bot /\ request'[t].link = None
        /\ page'[t].shows = "sending" /\ page'[t].email = e
        /\ \A s \in Tabs \ {t} : request'[s] = request[s] /\ page'[s] = page[s]
    BY <1>1 DEF Submit, LinksIInv, MagicTypeOK
  <2>2. InboxAt(t)'
    BY <2>1 DEF InboxAt
  <2> QED
    BY <2>1, <2>2, InboxOfOne
<1>2. CASE ConsumeBudget(t)
  <2>1. /\ request[t].pc = "consume" /\ page' = page /\ request'[t].email = request[t].email
        /\ request'[t].bot = request[t].bot /\ request'[t].link = request[t].link
        /\ \/ request'[t].pc = "global" /\ request'[t].n = 0
           \/ request'[t].pc = "consume"
           \/ request'[t].pc = "429"
        /\ \A s \in Tabs \ {t} : request'[s] = request[s]
    <3>1. /\ request[t].pc = "consume" /\ page' = page /\ request[t].email \in Emails
      BY <1>2 DEF ConsumeBudget, LinksIInv, RequestsOK
    <3>2. CASE request' = [request EXCEPT
                   ![t].pc = IF request[t].n = Len(BudgetsOf(request[t].email))
                             THEN "global" ELSE "consume",
                   ![t].n = IF request[t].n = Len(BudgetsOf(request[t].email))
                            THEN 0 ELSE request[t].n + 1]
      BY <3>1, <3>2, <1>0 DEF Requests, LinksIInv, MagicTypeOK
    <3>3. CASE Goto(t, "429")
      BY <3>1, <3>3, <1>0 DEF Goto, Requests, LinksIInv, MagicTypeOK
    <3> QED
      BY <1>2, <3>1, <3>2, <3>3 DEF ConsumeBudget
  <2>2. InboxAt(t)'
    BY <1>0, <2>1 DEF InboxAt
  <2> QED
    BY <2>1, <2>2, InboxOfOne
<1>3. CASE ConsumeGlobal(t) \/ LoseRequest(t)
  <2>1. /\ page' = page
        /\ \/ request[t].pc = "global" /\ (Goto(t, "create") \/ Goto(t, "ok"))
           \/ request[t].pc # "idle" /\ Goto(t, "lost")
    BY <1>3 DEF ConsumeGlobal, LoseRequest
  <2>2. PICK pc \in {"create", "ok", "lost"} :
            /\ Goto(t, pc)
            /\ pc # "lost" => request[t].pc = "global"
            /\ request[t].pc # "idle"
    BY <2>1
  <2>3. /\ request'[t] = [request[t] EXCEPT !.pc = pc]
        /\ \A s \in Tabs \ {t} : request'[s] = request[s]
    BY <2>2, InboxGoto
  <2>4. /\ request'[t].pc = pc /\ request'[t].email = request[t].email
        /\ request'[t].bot = request[t].bot /\ request'[t].link = request[t].link
        /\ request'[t].n = request[t].n
    BY <1>0, <2>3 DEF Requests
  <2>5. InboxAt(t)'
    BY <1>0, <2>1, <2>2, <2>4 DEF InboxAt, Served
  <2> QED
    BY <2>1, <2>3, <2>5, InboxOfOne
<1>4. CASE SendMail(t)
  <2>1. /\ page' = page /\ request[t].pc = "send" /\ request[t].link \in Links
    BY <1>4 DEF SendMail, LinksIInv, RequestsOK
  <2>2. PICK pc \in {"ok", "503"} :
            Goto(t, pc) /\ (pc = "ok" => link'[request[t].link].mailed)
    BY <1>4, <2>1 DEF SendMail, LinksIInv, MagicTypeOK
  <2>3. /\ request'[t] = [request[t] EXCEPT !.pc = pc]
        /\ \A s \in Tabs \ {t} : request'[s] = request[s]
    BY <2>2, InboxGoto
  <2>4. /\ request'[t].pc = pc /\ request'[t].email = request[t].email
        /\ request'[t].bot = request[t].bot /\ request'[t].link = request[t].link
    BY <1>0, <2>3 DEF Requests
  <2>5. /\ link'[request[t].link].email = request[t].email /\ request[t].link # None
        /\ page[t].email = request[t].email /\ page[t].shows = "sending"
    <3>1. link[request[t].link].email = request[t].email /\ page[t].email = request[t].email
      BY <1>0, <2>1 DEF InboxAt
    <3>2. link[request[t].link].email # None
      BY <2>1 DEF LinksIInv, RequestsOK
    <3>3. link'[request[t].link].email = link[request[t].link].email
      BY <2>1, <3>2 DEF RowsKeep
    <3>4. request[t].link # None /\ page[t].shows = "sending"
      BY <1>0, <2>1
    <3> QED
      BY <3>1, <3>3, <3>4
  <2>6. InboxAt(t)'
    BY <2>1, <2>2, <2>4, <2>5 DEF InboxAt, Served
  <2> QED
    BY <2>1, <2>3, <2>6, InboxOfOne
<1>5. ASSUME NEW l \in Links, CreateToken(t, l)
      PROVE  InboxOK'
  <2>1. /\ page' = page /\ request[t].pc = "create"
        /\ link' = [link EXCEPT ![l].email = request[t].email]
        /\ request' = [request EXCEPT ![t].pc = "send", ![t].link = l]
    BY <1>5 DEF CreateToken
  <2>2. /\ request'[t].pc = "send" /\ request'[t].email = request[t].email
        /\ request'[t].link = l /\ link'[l].email = request[t].email
        /\ \A s \in Tabs \ {t} : request'[s] = request[s]
    BY <1>0, <2>1 DEF Requests, LinksIInv, MagicTypeOK
  <2>3. InboxAt(t)'
    BY <1>0, <2>1, <2>2 DEF InboxAt
  <2> QED
    BY <2>1, <2>2, <2>3, InboxOfOne
<1>6. CASE ReceiveAnswer(t)
  <2>1. /\ request[t].pc # "idle" /\ link' = link
        /\ page'[t].email = page[t].email
        /\ page'[t].shows = "inbox" => request[t].pc = "ok"
        /\ request[t].pc = "ok" => request'[t] = [request[t] EXCEPT !.pc = "idle"]
        /\ request[t].pc # "ok" => request'[t] = Idle
        /\ \A s \in Tabs \ {t} : request'[s] = request[s] /\ page'[s] = page[s]
    BY <1>6 DEF ReceiveAnswer, LinksIInv, MagicTypeOK
  <2>2. CASE request[t].pc = "ok"
    <3>1. /\ request'[t].pc = "idle" /\ request'[t].bot = request[t].bot
          /\ request'[t].link = request[t].link /\ request'[t].n = request[t].n
      BY <1>0, <2>1, <2>2 DEF Requests
    <3>2. InboxAt(t)'
      BY <1>0, <2>1, <2>2, <3>1 DEF InboxAt, Served
    <3> QED
      BY <2>1, <3>2, InboxOfOne
  <2>3. CASE request[t].pc # "ok"
    <3>1. InboxAt(t)'
      BY <2>1, <2>3 DEF InboxAt, Idle
    <3> QED
      BY <2>1, <3>1, InboxOfOne
  <2> QED
    BY <2>2, <2>3
<1>7. CASE DifferentAddress(t)
  <2>1. /\ request'[t] = Idle /\ page'[t].shows = "form"
        /\ \A s \in Tabs \ {t} : request'[s] = request[s] /\ page'[s] = page[s]
    BY <1>7 DEF DifferentAddress, LinksIInv, MagicTypeOK
  <2>2. InboxAt(t)'
    BY <2>1 DEF InboxAt, Idle
  <2> QED
    BY <2>1, <2>2, InboxOfOne
<1> QED
  BY <1>1, <1>2, <1>3, <1>4, <1>5, <1>6, <1>7

\* Every step preserves InboxOK.
LEMMA NextInbox ==
    ASSUME LinksIInv, InboxOK, [MagicNext]_<<users, magicVars>>
    PROVE  InboxOK'
<1>1. RowsKeep
  BY RowsStay
<1>2. CASE UNCHANGED <<page, request>>
  BY <1>1, <1>2, InboxStays DEF InboxOK
<1> QED
  BY <1>1, <1>2, InboxTabStep
     DEF MagicNext, magicVars, RenewBudget, ClickLink, FindLink, ConsumeLink, UpsertUser,
         OpenSession, LoseClick, ExpireLink

-----------------------------------------------------------------------------
\* The count.

\* All of it is finite.
LEMMA CountsFinite ==
    ASSUME NEW k
    PROVE  /\ IsFiniteSet(MailedOn(k)) /\ Cardinality(MailedOn(k)) \in Nat
           /\ IsFiniteSet(Past(k)) /\ Cardinality(Past(k)) \in Nat
<1>1. MailedOn(k) \in SUBSET Links /\ Past(k) \in SUBSET Tabs
  BY DEF MailedOn, Past
<1>2. IsFiniteSet(MailedOn(k)) /\ IsFiniteSet(Past(k))
  BY <1>1, FS_Subset
<1> QED
  BY <1>2, FS_CardinalityType

\* The same of the next state.
LEMMA CountsFiniteNext ==
    ASSUME NEW k
    PROVE  /\ IsFiniteSet(MailedOn(k)') /\ Cardinality(MailedOn(k)') \in Nat
           /\ IsFiniteSet(Past(k)') /\ Cardinality(Past(k)') \in Nat
<1>1. MailedOn(k)' \in SUBSET Links /\ Past(k)' \in SUBSET Tabs
  BY DEF MailedOn, Past
<1>2. IsFiniteSet(MailedOn(k)') /\ IsFiniteSet(Past(k)')
  BY <1>1, FS_Subset
<1> QED
  BY <1>2, FS_CardinalityType

\* Numbers of budgets.
LEMMA BudgetNumbers ==
    ASSUME LinksIInv, NEW k \in Keys
    PROVE  used[k] \in Nat /\ Max[k] \in Nat /\ used[k] <= Max[k] /\ ends[k] \in 0..1
BY MaxType DEF LinksIInv, MagicTypeOK

\* Where neither the mails nor the requests grow.
LEMMA CoverStays ==
    ASSUME LinksIInv, NEW k \in Keys, Covered(k), used'[k] = used[k], ends'[k] = ends[k],
           MailedOn(k)' \subseteq MailedOn(k), Past(k)' \subseteq Past(k)
    PROVE  Covered(k)'
<1>1. /\ Cardinality(MailedOn(k)') <= Cardinality(MailedOn(k))
      /\ Cardinality(Past(k)') <= Cardinality(Past(k))
  BY CountsFinite, FS_Subset
<1>2. /\ Cardinality(MailedOn(k)') \in Nat /\ Cardinality(MailedOn(k)) \in Nat
      /\ Cardinality(Past(k)') \in Nat /\ Cardinality(Past(k)) \in Nat
  BY CountsFinite, CountsFiniteNext
<1>3. CASE ends[k] = 0
  BY <1>1, <1>2, <1>3, BudgetNumbers DEF Covered
<1>4. CASE ends[k] = 1
  BY <1>1, <1>2, <1>4, BudgetNumbers DEF Covered
<1> QED
  BY <1>3, <1>4, BudgetNumbers

\* One request takes its share.
LEMMA CoverTakes ==
    ASSUME LinksIInv, NEW k \in Keys, Covered(k), used'[k] = used[k] + 1, ends'[k] = ends[k],
           MailedOn(k)' \subseteq MailedOn(k),
           NEW t, Past(k)' \subseteq Past(k) \cup {t}
    PROVE  Covered(k)'
<1>1. /\ Cardinality(MailedOn(k)') <= Cardinality(MailedOn(k))
      /\ Cardinality(Past(k)') <= Cardinality(Past(k)) + 1
  <2>1. /\ IsFiniteSet(Past(k) \cup {t})
        /\ Cardinality(Past(k) \cup {t}) <= Cardinality(Past(k)) + 1
    <3>1. Cardinality(Past(k) \cup {t}) =
              IF t \in Past(k) THEN Cardinality(Past(k)) ELSE Cardinality(Past(k)) + 1
      BY CountsFinite, FS_AddElement
    <3>2. Cardinality(Past(k)) \in Nat /\ IsFiniteSet(Past(k) \cup {t})
      BY CountsFinite, FS_AddElement
    <3> QED
      BY <3>1, <3>2
  <2>2. Cardinality(Past(k)') <= Cardinality(Past(k) \cup {t})
    BY <2>1, FS_Subset
  <2>3. Cardinality(MailedOn(k)') <= Cardinality(MailedOn(k))
    BY CountsFinite, FS_Subset
  <2>4. Cardinality(Past(k) \cup {t}) \in Nat
    BY <2>1, FS_CardinalityType
  <2> QED
    BY <2>1, <2>2, <2>3, <2>4, CountsFinite, CountsFiniteNext
<1>2. /\ Cardinality(MailedOn(k)') \in Nat /\ Cardinality(MailedOn(k)) \in Nat
      /\ Cardinality(Past(k)') \in Nat /\ Cardinality(Past(k)) \in Nat
  BY CountsFinite, CountsFiniteNext
<1>3. CASE ends[k] = 0
  BY <1>1, <1>2, <1>3, BudgetNumbers DEF Covered
<1>4. CASE ends[k] = 1
  BY <1>1, <1>2, <1>4, BudgetNumbers DEF Covered
<1> QED
  BY <1>3, <1>4, BudgetNumbers

\* A request becomes a mail.
LEMMA CoverMails ==
    ASSUME LinksIInv, NEW k \in Keys, Covered(k), used'[k] = used[k], ends'[k] = ends[k],
           NEW l, MailedOn(k)' \subseteq MailedOn(k) \cup {l},
           NEW t \in Past(k), Past(k)' \subseteq Past(k) \ {t}
    PROVE  Covered(k)'
<1>1. /\ IsFiniteSet(MailedOn(k) \cup {l})
      /\ Cardinality(MailedOn(k) \cup {l}) <= Cardinality(MailedOn(k)) + 1
  <2>1. Cardinality(MailedOn(k) \cup {l}) =
            IF l \in MailedOn(k) THEN Cardinality(MailedOn(k))
                                 ELSE Cardinality(MailedOn(k)) + 1
    BY CountsFinite, FS_AddElement
  <2>2. Cardinality(MailedOn(k)) \in Nat /\ IsFiniteSet(MailedOn(k) \cup {l})
    BY CountsFinite, FS_AddElement
  <2> QED
    BY <2>1, <2>2
<1>2. /\ IsFiniteSet(Past(k) \ {t})
      /\ Cardinality(Past(k) \ {t}) = Cardinality(Past(k)) - 1
  BY CountsFinite, FS_RemoveElement
<1>3. /\ Cardinality(MailedOn(k)') <= Cardinality(MailedOn(k) \cup {l})
      /\ Cardinality(Past(k)') <= Cardinality(Past(k) \ {t})
  BY <1>1, <1>2, FS_Subset
<1>4. Cardinality(MailedOn(k) \cup {l}) \in Nat /\ Cardinality(Past(k) \ {t}) \in Nat
  BY <1>1, <1>2, FS_CardinalityType
<1>5. /\ Cardinality(MailedOn(k)') \in Nat /\ Cardinality(MailedOn(k)) \in Nat
      /\ Cardinality(Past(k)') \in Nat /\ Cardinality(Past(k)) \in Nat
  BY CountsFinite, CountsFiniteNext
<1>6. Cardinality(MailedOn(k)') + Cardinality(Past(k)')
          <= Cardinality(MailedOn(k)) + Cardinality(Past(k))
  BY <1>1, <1>2, <1>3, <1>4, <1>5
<1>7. CASE ends[k] = 0
  BY <1>5, <1>6, <1>7, BudgetNumbers DEF Covered
<1>8. CASE ends[k] = 1
  BY <1>5, <1>6, <1>8, BudgetNumbers DEF Covered
<1> QED
  BY <1>7, <1>8, BudgetNumbers

\* A window ends: what was taken in it was at most its maximum.
LEMMA CoverRenews ==
    ASSUME LinksIInv, NEW k \in Keys, Covered(k), RenewBudget(k)
    PROVE  Covered(k)'
<1>1. /\ used'[k] = 0 /\ ends[k] = 0 /\ ends'[k] = 1
      /\ MailedOn(k)' = MailedOn(k) /\ Past(k)' = Past(k)
  BY DEF RenewBudget, Budget!Renew, MailedOn, Past, HasPassed, LinksIInv, MagicTypeOK
<1>2. Cardinality(MailedOn(k)) \in Nat /\ Cardinality(Past(k)) \in Nat
  BY CountsFinite
<1> QED
  BY <1>1, <1>2, BudgetNumbers DEF Covered

-----------------------------------------------------------------------------
\* Who has passed what.

\* The budgets of an address, and no other, are those of its four keys and the
\* service's.
LEMMA KeysOfRequest ==
    ASSUME NEW e \in Emails, NEW k \in Keys, k[2] = None \/ k[2] = e
    PROVE  k = Global \/ \E i \in 1..4 : BudgetsOf(e)[i] = k
<1>1. /\ BudgetsOf(e)[1] = <<"magicLink", e>> /\ BudgetsOf(e)[2] = <<"magicLinkIp", None>>
      /\ BudgetsOf(e)[3] = <<"magicLinkEmailDaily", e>>
      /\ BudgetsOf(e)[4] = <<"magicLinkIpDaily", None>>
  BY DEF BudgetsOf
<1>2. /\ 1 \in 1..4 /\ 2 \in 1..4 /\ 3 \in 1..4 /\ 4 \in 1..4
  OBVIOUS
<1>3. CASE k \in {"magicLink", "magicLinkEmailDaily"} \X Emails
  <2>1. k = <<k[1], e>> /\ k[1] \in {"magicLink", "magicLinkEmailDaily"}
    BY <1>3
  <2> QED
    BY <1>1, <1>2, <2>1
<1>4. CASE k \in (Kinds \ {"magicLink", "magicLinkEmailDaily"}) \X {None}
  <2>1. k = <<k[1], None>>
        /\ k[1] \in {"magicLinkIp", "magicLinkIpDaily", "magicLinkGlobalDaily"}
    BY <1>4 DEF Kinds
  <2> QED
    BY <1>1, <1>2, <2>1 DEF Global
<1> QED
  BY <1>3, <1>4 DEF Keys

\* A tab whose request goes on is the only one whose place may change.
LEMMA PastOfOne ==
    ASSUME NEW k, NEW t \in Tabs, \A s \in Tabs \ {t} : request'[s] = request[s]
    PROVE  /\ Past(k)' \subseteq Past(k) \cup {t}
           /\ HasPassed(request[t], k) \/ ~HasPassed(request'[t], k)
                  => Past(k)' \subseteq Past(k)
           /\ ~HasPassed(request'[t], k) => Past(k)' \subseteq Past(k) \ {t}
BY DEF Past, HasPassed

\* No step but a request's mails anything.
LEMMA MailsStay ==
    ASSUME LinksIInv, NEW k,
           \A l \in Links : link'[l].mailed =>
               link[l].mailed /\ link'[l].email = link[l].email
    PROVE  MailedOn(k)' \subseteq MailedOn(k)
BY DEF MailedOn

CoveredAll == \A k \in Keys : Covered(k)

\* Steps that mail nothing and take nothing.
LEMMA CoverQuiet ==
    ASSUME LinksIInv, CoveredAll, UNCHANGED <<used, ends>>,
           \A l \in Links : link'[l].mailed =>
               link[l].mailed /\ link'[l].email = link[l].email,
           \/ UNCHANGED request
           \/ \E t \in Tabs :
                  /\ \A s \in Tabs \ {t} : request'[s] = request[s]
                  /\ \A k \in Keys : HasPassed(request'[t], k) => HasPassed(request[t], k)
    PROVE  CoveredAll'
<1> SUFFICES ASSUME NEW k \in Keys
             PROVE  Covered(k)'
  BY DEF CoveredAll
<1>1. Past(k)' \subseteq Past(k)
  <2>1. CASE UNCHANGED request
    BY <2>1 DEF Past, HasPassed
  <2>2. CASE \E t \in Tabs :
                /\ \A s \in Tabs \ {t} : request'[s] = request[s]
                /\ \A j \in Keys : HasPassed(request'[t], j) => HasPassed(request[t], j)
    BY <2>2, PastOfOne
  <2> QED
    BY <2>1, <2>2
<1> QED
  BY <1>1, MailsStay, CoverStays DEF CoveredAll

\* One that takes from k0 and passes nothing else.
LEMMA CoverOneTakes ==
    ASSUME LinksIInv, CoveredAll, NEW k0 \in Keys, Take(k0), UNCHANGED <<ends, link>>, NEW t \in Tabs,
           \A s \in Tabs \ {t} : request'[s] = request[s],
           \A k \in Keys \ {k0} : HasPassed(request'[t], k) => HasPassed(request[t], k)
    PROVE  CoveredAll'
<1> SUFFICES ASSUME NEW k \in Keys
             PROVE  Covered(k)'
  BY DEF CoveredAll
<1>1. used' = [used EXCEPT ![k0] = @ + 1]
  BY DEF Take, Budget!Consume
<1>2. MailedOn(k)' \subseteq MailedOn(k)
  BY DEF MailedOn
<1>3. CASE k = k0
  <2>1. used'[k] = used[k] + 1 /\ ends'[k] = ends[k]
    BY <1>1, <1>3 DEF LinksIInv, MagicTypeOK
  <2>2. Past(k)' \subseteq Past(k) \cup {t}
    BY PastOfOne
  <2> QED
    BY <1>2, <2>1, <2>2, CoverTakes DEF CoveredAll
<1>4. CASE k # k0
  <2>1. used'[k] = used[k] /\ ends'[k] = ends[k]
    BY <1>1, <1>4 DEF LinksIInv, MagicTypeOK
  <2>2. Past(k)' \subseteq Past(k)
    BY <1>4, PastOfOne
  <2> QED
    BY <1>2, <2>1, <2>2, CoverStays DEF CoveredAll
<1> QED
  BY <1>3, <1>4

-----------------------------------------------------------------------------
\* Every step of a request is covered.

\* The four budgets of an address, in order.
LEMMA CoverConsumeBudget ==
    ASSUME LinksIInv, CoveredAll, NEW t \in Tabs, ConsumeBudget(t)
    PROVE  CoveredAll'
<1> DEFINE e == request[t].email
           n == request[t].n
           k0 == BudgetsOf(e)[n]
<1>1. /\ request[t].pc = "consume" /\ e \in Emails /\ n \in 1..4 /\ request[t] \in Requests
      /\ UNCHANGED <<ends, link>>
  BY DEF ConsumeBudget, LinksIInv, RequestsOK, MagicTypeOK
<1>2. k0 \in Keys /\ Len(BudgetsOf(e)) = 4
  BY <1>1, BudgetKeys
<1>3. CASE Goto(t, "429") /\ UNCHANGED used
  <2>1. request'[t].pc = "429" /\ \A s \in Tabs \ {t} : request'[s] = request[s]
    BY <1>1, <1>3 DEF Goto, LinksIInv, MagicTypeOK, Requests
  <2>2. \A k \in Keys : ~HasPassed(request'[t], k)
    BY <2>1 DEF HasPassed
  <2> QED
    BY <1>1, <1>3, <2>1, <2>2, CoverQuiet
<1>4. CASE /\ Take(k0)
           /\ request' = [request EXCEPT ![t].pc = IF n = 4 THEN "global" ELSE "consume",
                                         ![t].n = IF n = 4 THEN 0 ELSE n + 1]
  <2>1. /\ request'[t].pc = IF n = 4 THEN "global" ELSE "consume"
        /\ request'[t].n = IF n = 4 THEN 0 ELSE n + 1
        /\ request'[t].email = e
        /\ \A s \in Tabs \ {t} : request'[s] = request[s]
    BY <1>1, <1>4 DEF LinksIInv, MagicTypeOK, Requests
  <2>2. ASSUME NEW k \in Keys \ {k0}, HasPassed(request'[t], k)
        PROVE  HasPassed(request[t], k)
    <3>1. PICK i \in 1..4 : BudgetsOf(e)[i] = k /\ i <= n
      <4>1. CASE n = 4
        BY <2>1, <2>2, <4>1 DEF HasPassed
      <4>2. CASE n # 4
        <5>1. /\ request'[t].pc = "consume" /\ request'[t].n = n + 1
          BY <2>1, <4>2
        <5>2. PICK i \in 1..4 : BudgetsOf(e)[i] = k /\ i < n + 1
          BY <2>1, <2>2, <5>1 DEF HasPassed
        <5> QED
          BY <1>1, <5>2
      <4> QED
        BY <4>1, <4>2
    <3>2. i # n
      BY <2>2, <3>1
    <3>3. i < n
      BY <1>1, <3>1, <3>2
    <3> QED
      BY <1>1, <3>1, <3>3 DEF HasPassed
  <2> HIDE DEF k0
  <2> QED
    BY <1>1, <1>2, <1>4, <2>1, <2>2, CoverOneTakes
<1> QED
  BY <1>2, <1>3, <1>4 DEF ConsumeBudget

\* The budget of the whole service.
LEMMA CoverConsumeGlobal ==
    ASSUME LinksIInv, CoveredAll, NEW t \in Tabs, ConsumeGlobal(t)
    PROVE  CoveredAll'
<1>1. request[t].pc = "global" /\ request[t] \in Requests /\ UNCHANGED <<ends, link>>
  BY DEF ConsumeGlobal, LinksIInv, MagicTypeOK
<1>2. Global \in Keys
  BY DEF Global, Keys, Kinds
<1>3. CASE Goto(t, "ok") /\ UNCHANGED used
  <2>1. request'[t].pc = "ok" /\ \A s \in Tabs \ {t} : request'[s] = request[s]
    BY <1>1, <1>3 DEF Goto, LinksIInv, MagicTypeOK, Requests
  <2>2. \A k \in Keys : ~HasPassed(request'[t], k)
    BY <2>1 DEF HasPassed
  <2> QED
    BY <1>1, <1>3, <2>1, <2>2, CoverQuiet
<1>4. CASE Take(Global) /\ Goto(t, "create")
  <2>1. /\ request'[t].pc = "create" /\ request'[t].email = request[t].email
        /\ \A s \in Tabs \ {t} : request'[s] = request[s]
    BY <1>1, <1>4 DEF Goto, LinksIInv, MagicTypeOK, Requests
  <2>2. \A k \in Keys \ {Global} : HasPassed(request'[t], k) => HasPassed(request[t], k)
    BY <1>1, <2>1 DEF HasPassed
  <2> QED
    BY <1>1, <1>2, <1>4, <2>1, <2>2, CoverOneTakes
<1> QED
  BY <1>3, <1>4 DEF ConsumeGlobal

\* The mail: it counts on every budget of its address that its request passed.
LEMMA CoverSendMail ==
    ASSUME LinksIInv, InboxOK, CoveredAll, NEW t \in Tabs, SendMail(t)
    PROVE  CoveredAll'
<1> DEFINE e == request[t].email
           l == request[t].link
<1>1. /\ request[t].pc = "send" /\ request[t] \in Requests /\ e \in Emails /\ l \in Links
      /\ link[l].email = e /\ UNCHANGED <<used, ends>>
  BY DEF SendMail, LinksIInv, MagicTypeOK, RequestsOK, InboxOK, InboxAt, budgets
<1>2. ASSUME NEW pc \in {"ok", "503"}, Goto(t, pc)
      PROVE  /\ \A s \in Tabs \ {t} : request'[s] = request[s]
             /\ \A k \in Keys : ~HasPassed(request'[t], k)
  <2>1. request'[t].pc = pc /\ \A s \in Tabs \ {t} : request'[s] = request[s]
    BY <1>1, <1>2 DEF Goto, LinksIInv, MagicTypeOK, Requests
  <2> QED
    BY <2>1 DEF HasPassed
<1>3. CASE Goto(t, "503") /\ UNCHANGED link
  BY <1>1, <1>2, <1>3, CoverQuiet
<1>4. CASE link' = [link EXCEPT ![l].mailed = TRUE] /\ Goto(t, "ok")
  <2> SUFFICES ASSUME NEW k \in Keys
               PROVE  Covered(k)'
    BY DEF CoveredAll
  <2>1. /\ \A s \in Tabs \ {t} : request'[s] = request[s]
        /\ ~HasPassed(request'[t], k)
    BY <1>2, <1>4
  <2>2. Past(k)' \subseteq Past(k) \ {t}
    BY <2>1, PastOfOne
  <2>3. \A m \in Links : /\ link'[m].email = link[m].email
                         /\ link'[m].mailed => link[m].mailed \/ m = l
    BY <1>1, <1>4 DEF LinksIInv, MagicTypeOK
  <2>4. CASE k[2] = None \/ k[2] = e
    <3>1. HasPassed(request[t], k)
      BY <1>1, <2>4, KeysOfRequest DEF HasPassed
    <3>2. t \in Past(k)
      BY <3>1 DEF Past
    <3>3. MailedOn(k)' \subseteq MailedOn(k) \cup {l}
      BY <2>3 DEF MailedOn
    <3> QED
      BY <1>1, <2>2, <3>2, <3>3, CoverMails DEF CoveredAll
  <2>5. CASE k[2] # None /\ k[2] # e
    <3>1. MailedOn(k)' \subseteq MailedOn(k)
      BY <1>1, <2>3, <2>5 DEF MailedOn
    <3> QED
      BY <1>1, <2>2, <3>1, CoverStays DEF CoveredAll
  <2> QED
    BY <2>4, <2>5
<1> QED
  BY <1>3, <1>4 DEF SendMail

\* The other steps of a tab.
LEMMA CoverTabQuiet ==
    ASSUME LinksIInv, CoveredAll, NEW t \in Tabs,
           \/ \E e \in Emails, bot \in BOOLEAN : Submit(t, e, bot)
           \/ LoseRequest(t) \/ ReceiveAnswer(t) \/ DifferentAddress(t)
    PROVE  CoveredAll'
<1>1. /\ UNCHANGED <<used, ends, link>>
      /\ \A s \in Tabs \ {t} : request'[s] = request[s]
      /\ \/ request'[t].pc \in {"ok", "lost", "idle"}
         \/ request'[t].pc = "consume" /\ request'[t].n = 1
  BY DEF Submit, LoseRequest, ReceiveAnswer, DifferentAddress, Goto, Idle, budgets,
         LinksIInv, MagicTypeOK, Requests
<1>2. \A k \in Keys : ~HasPassed(request'[t], k)
  BY <1>1 DEF HasPassed
<1> QED
  BY <1>1, <1>2, CoverQuiet

\* A new row has not been mailed.
LEMMA CoverCreateToken ==
    ASSUME LinksIInv, CoveredAll, NEW t \in Tabs, NEW l \in Links, CreateToken(t, l)
    PROVE  CoveredAll'
<1>1. /\ UNCHANGED <<used, ends>> /\ request[t].pc = "create" /\ link[l].email = None
      /\ link' = [link EXCEPT ![l].email = request[t].email]
      /\ request'[t].pc = "send" /\ request'[t].email = request[t].email
      /\ \A s \in Tabs \ {t} : request'[s] = request[s]
  BY DEF CreateToken, budgets, LinksIInv, MagicTypeOK, Requests
<1>2. \A k \in Keys : HasPassed(request'[t], k) => HasPassed(request[t], k)
  BY <1>1 DEF HasPassed
<1>3. ~link[l].mailed
  BY <1>1 DEF LinksIInv, MailsOK
<1>4. \A m \in Links : link'[m].mailed => link[m].mailed /\ link'[m].email = link[m].email
  BY <1>1, <1>3 DEF LinksIInv, MagicTypeOK
<1> QED
  BY <1>1, <1>2, <1>4, CoverQuiet

\* A window ends, for one budget.
LEMMA CoverRenewBudget ==
    ASSUME LinksIInv, CoveredAll, NEW k0 \in Keys, RenewBudget(k0)
    PROVE  CoveredAll'
<1> SUFFICES ASSUME NEW k \in Keys
             PROVE  Covered(k)'
  BY DEF CoveredAll
<1>1. CASE k = k0
  BY <1>1, CoverRenews DEF CoveredAll
<1>2. CASE k # k0
  <2>1. /\ used'[k] = used[k] /\ ends'[k] = ends[k]
        /\ MailedOn(k)' \subseteq MailedOn(k) /\ Past(k)' \subseteq Past(k)
    BY <1>2 DEF RenewBudget, Budget!Renew, LinksIInv, MagicTypeOK, MailedOn, Past, HasPassed
  <2> QED
    BY <2>1, CoverStays DEF CoveredAll
<1> QED
  BY <1>1, <1>2

\* Clicks and the age of links.
LEMMA CoverLinkSteps ==
    ASSUME LinksIInv, CoveredAll, UNCHANGED <<used, ends, request>>,
           \/ UNCHANGED link
           \/ \E c \in Clicks : ConsumeLink(c)
           \/ \E l \in Links : ExpireLink(l)
    PROVE  CoveredAll'
<1>1. \A m \in Links : link'[m].mailed => link[m].mailed /\ link'[m].email = link[m].email
  <2>1. CASE UNCHANGED link
    BY <2>1
  <2>2. ASSUME NEW c \in Clicks, ConsumeLink(c), NEW m \in Links, link'[m].mailed
        PROVE  link[m].mailed /\ link'[m].email = link[m].email
    BY <2>2 DEF ConsumeLink, LinksIInv, MagicTypeOK
  <2>3. ASSUME NEW l \in Links, ExpireLink(l), NEW m \in Links, link'[m].mailed
        PROVE  link[m].mailed /\ link'[m].email = link[m].email
    BY <2>3 DEF ExpireLink, LinksIInv, MagicTypeOK
  <2> QED
    BY <2>1, <2>2, <2>3
<1> QED
  BY <1>1, CoverQuiet

\* Every step preserves the count.
LEMMA NextCovered ==
    ASSUME LinksIInv, InboxOK, CoveredAll, [MagicNext]_<<users, magicVars>>
    PROVE  CoveredAll'
<1>1. CASE UNCHANGED <<users, magicVars>>
  BY <1>1, CoverLinkSteps DEF magicVars
<1>2. ASSUME NEW c \in Clicks,
             \/ \E l \in Links : ClickLink(c, l)
             \/ FindLink(c) \/ ConsumeLink(c) \/ UpsertUser(c) \/ OpenSession(c) \/ LoseClick(c)
      PROVE  CoveredAll'
  <2>1. /\ UNCHANGED <<used, ends, request>>
        /\ UNCHANGED link \/ ConsumeLink(c)
    BY <1>2 DEF ClickLink, FindLink, ConsumeLink, UpsertUser, OpenSession, LoseClick, budgets
  <2> QED
    BY <2>1, CoverLinkSteps
<1>3. ASSUME NEW l \in Links, ExpireLink(l)
      PROVE  CoveredAll'
  <2>1. UNCHANGED <<used, ends, request>>
    BY <1>3 DEF ExpireLink, budgets
  <2> QED
    BY <1>3, <2>1, CoverLinkSteps
<1> QED
  BY <1>1, <1>2, <1>3, CoverConsumeBudget, CoverConsumeGlobal, CoverSendMail, CoverTabQuiet,
     CoverCreateToken, CoverRenewBudget DEF MagicNext

\* Nothing is mailed and nothing taken at first.
LEMMA InitCovered == MagicInit => InboxOK /\ CoveredAll
<1> SUFFICES ASSUME MagicInit
             PROVE  InboxOK /\ CoveredAll
  OBVIOUS
<1>1. InboxOK
  BY DEF MagicInit, InboxOK, InboxAt, Idle
<1>2. ASSUME NEW k \in Keys
      PROVE  Covered(k)
  <2>1. MailedOn(k) = {} /\ Past(k) = {}
    BY DEF MagicInit, MailedOn, Past, HasPassed, NoLink, Idle
  <2>2. used[k] = 0 /\ ends[k] = 0 /\ Max[k] \in Nat
    BY MaxType DEF MagicInit
  <2>3. Cardinality({}) = 0
    BY FS_EmptySet
  <2> QED
    BY <2>1, <2>2, <2>3 DEF Covered
<1> QED
  BY <1>1, <1>2 DEF CoveredAll

\* The count covers what MailsWithinBudgets promises.
LEMMA CoveredSuffices ==
    ASSUME LinksIInv, CoveredAll
    PROVE  MailsWithinBudgets
<1> SUFFICES ASSUME NEW k \in Keys
             PROVE  Mails(IF k[2] = None THEN Emails ELSE {k[2]}) <= Max[k] * (ends[k] + 1)
  BY DEF MailsWithinBudgets
<1>1. {l \in Links : link[l].mailed
                     /\ link[l].email \in (IF k[2] = None THEN Emails ELSE {k[2]})}
          \subseteq MailedOn(k)
  BY DEF MailedOn
<1>2. Mails(IF k[2] = None THEN Emails ELSE {k[2]}) <= Cardinality(MailedOn(k))
  BY <1>1, CountsFinite, FS_Subset DEF Mails
<1>3. Mails(IF k[2] = None THEN Emails ELSE {k[2]}) \in Nat
  BY <1>1, CountsFinite, FS_Subset, FS_CardinalityType DEF Mails
<1>4. Covered(k)
  BY DEF CoveredAll
<1>5. CASE ends[k] = 0
  BY <1>2, <1>3, <1>4, <1>5, CountsFinite, BudgetNumbers DEF Covered
<1>6. CASE ends[k] = 1
  BY <1>2, <1>3, <1>4, <1>6, CountsFinite, BudgetNumbers DEF Covered
<1> QED
  BY <1>5, <1>6, BudgetNumbers

\* Everything a link, an inbox and the budgets promise, in every state: dead
\* links open nothing, "check your inbox" is true, and no budget lets more
\* mails out than it has had windows for.
THEOREM MagicSound == MagicSpec => []MagicInv
<1> DEFINE J == LinksIInv /\ InboxOK /\ CoveredAll
<1>1. MagicInit => J
  BY LinksInit, InitCovered
<1>2. J /\ [MagicNext]_<<users, magicVars>> => J'
  BY LinksNext, NextInbox, NextCovered
<1>3. J => MagicInv
  <2> SUFFICES ASSUME J
               PROVE  MagicInv
    OBVIOUS
  <2>1. MagicTypeOK /\ DeadLinksStayDead /\ MailsOK
    BY DEF LinksIInv
  <2>2. InboxTruth
    BY <2>1 DEF InboxTruth, InboxOK, InboxAt, Served, MailsOK
  <2> QED
    BY <2>1, <2>2, CoveredSuffices DEF MagicInv
<1> QED
  BY <1>1, <1>2, <1>3, PTL DEF MagicSpec
=============================================================================
