----------------------------- MODULE MagicLink -----------------------------
(***************************************************************************)
(* Signing in by mail: the login page (apps/web/app/login), the request    *)
(* for a link with its budgets and its mail, and the click that redeems it *)
(* (apps/api/src/modules/auth).  Every awaited call of a handler is a step *)
(* of its own, so requests and clicks interleave and the API may die       *)
(* between any two of them.                                                *)
(*                                                                         *)
(* The budgets are those of Window, which RateLimit implements.            *)
(***************************************************************************)
EXTENDS Naturals, Sequences, FiniteSets

CONSTANTS
    Emails,    \* addresses; a user is known by its address
    Before,    \* those that have a user already
    Tabs,      \* login pages open
    Links,     \* links the model may create
    Clicks,    \* slots for requests that redeem a link
    MaxOf,     \* rule.max by kind of budget
    MaxEnds,   \* bounds the model: how many budgets see a window end, once each
    None

\* rate-limit.constants.ts, by the key each rule is counted under.
Kinds == {"magicLink", "magicLinkIp", "magicLinkEmailDaily", "magicLinkIpDaily",
          "magicLinkGlobalDaily"}

ASSUME MagicNone == None \notin Emails \cup Links
ASSUME MagicBefore == Before \subseteq Emails
ASSUME MagicMaxOf == MaxOf \in [Kinds -> Nat \ {0}]
ASSUME MagicFinite == IsFiniteSet(Tabs) /\ IsFiniteSet(Links)
ASSUME MagicMaxEnds == MaxEnds \in Nat

VARIABLES
    users,    \* rows of User
    used,     \* what was taken from each budget in its window
    ends,     \* history: how many of its windows are over
    page,     \* what each tab shows
    request,  \* the POST each tab has in flight
    link,     \* rows of LoginToken, and whether they were mailed
    click,    \* the GETs that redeem a link
    opened,   \* history: how often a link opened a session
    raced     \* history: links that two clicks found unconsumed

budgets == <<used, ends>>
magicVars == <<used, ends, page, request, link, click, opened, raced>>

Keys == {"magicLink", "magicLinkEmailDaily"} \X Emails
        \cup (Kinds \ {"magicLink", "magicLinkEmailDaily"}) \X {None}
Max == [k \in Keys |-> MaxOf[k[1]]]

\* requestMagicLink: the budgets that answer 429, in the order they are taken.
BudgetsOf(e) ==
    << <<"magicLink", e>>, <<"magicLinkIp", None>>,
       <<"magicLinkEmailDaily", e>>, <<"magicLinkIpDaily", None>> >>
Global == <<"magicLinkGlobalDaily", None>>

Budget == INSTANCE Window WITH through <- used

Idle == [pc |-> "idle", email |-> None, bot |-> FALSE, n |-> 0, link |-> None]
Unclicked == [pc |-> "idle", link |-> None, late |-> FALSE]
NoLink == [email |-> None, mailed |-> FALSE, consumed |-> FALSE, expired |-> FALSE]
Pages == {"form", "sending", "inbox", "limited", "failed"}
Requests == [pc : {"idle", "consume", "global", "create", "send",
                   "ok", "429", "503", "lost"},
             email : Emails \cup {None}, bot : BOOLEAN, n : 0..4, link : Links \cup {None}]

MagicTypeOK ==
    /\ users \subseteq Emails
    /\ used \in [Keys -> Nat] /\ \A k \in Keys : used[k] <= Max[k]
    /\ ends \in [Keys -> 0..1]
    /\ page \in [Tabs -> [shows : Pages, email : Emails \cup {None}]]
    /\ request \in [Tabs -> Requests]
    /\ link \in [Links -> [email : Emails \cup {None}, mailed : BOOLEAN,
                           consumed : BOOLEAN, expired : BOOLEAN]]
    /\ click \in [Clicks -> [pc : {"idle", "find", "consume", "upsert", "issue"},
                             link : Links \cup {None}, late : BOOLEAN]]
    /\ \A t \in Tabs : page[t].shows = "sending" <=> request[t].pc # "idle"

MagicInit ==
    /\ users = Before
    /\ used = [k \in Keys |-> 0]
    /\ ends = [k \in Keys |-> 0]
    /\ page = [t \in Tabs |-> [shows |-> "form", email |-> None]]
    /\ request = [t \in Tabs |-> Idle]
    /\ link = [l \in Links |-> NoLink]
    /\ click = [c \in Clicks |-> Unclicked]
    /\ opened = [l \in Links |-> 0]
    /\ raced = {}

Goto(t, pc) == request' = [request EXCEPT ![t].pc = pc]
Step(c, pc) ==
    click' = [click EXCEPT ![c] = IF pc = "idle" THEN Unclicked ELSE [@ EXCEPT !.pc = pc]]

-----------------------------------------------------------------------------
\* The request for a link.

\* onSubmit: the button is off while a request is under way.  A bot fills the
\* honeypot, and its request goes no further.
Submit(t, e, bot) ==
    /\ page[t].shows \in {"form", "limited", "failed"}
    /\ page' = [page EXCEPT ![t] = [shows |-> "sending", email |-> e]]
    /\ request' = [request EXCEPT ![t] =
           [pc |-> IF bot THEN "ok" ELSE "consume", email |-> e, bot |-> bot,
            n |-> 1, link |-> None]]
    /\ UNCHANGED <<users, budgets, link, click, opened, raced>>

Take(k) == Budget!Consume(k)

\* The short and the daily budgets, one call each; the first that is spent
\* answers 429, and those before it stay taken.
ConsumeBudget(t) ==
    LET r == request[t]
        k == BudgetsOf(r.email)[r.n]
    IN /\ r.pc = "consume"
       /\ \/ /\ Take(k)
             /\ request' = [request EXCEPT
                    ![t].pc = IF r.n = Len(BudgetsOf(r.email)) THEN "global" ELSE "consume",
                    ![t].n = IF r.n = Len(BudgetsOf(r.email)) THEN 0 ELSE r.n + 1]
          \/ ~Budget!Within(k) /\ Goto(t, "429") /\ UNCHANGED used
       /\ UNCHANGED <<users, ends, page, link, click, opened, raced>>

\* The budget of the whole service: once it is spent nothing is sent, and the
\* answer is the same.
ConsumeGlobal(t) ==
    /\ request[t].pc = "global"
    /\ \/ Take(Global) /\ Goto(t, "create")
       \/ ~Budget!Within(Global) /\ Goto(t, "ok") /\ UNCHANGED used
    /\ UNCHANGED <<users, ends, page, link, click, opened, raced>>

CreateToken(t, l) ==
    /\ request[t].pc = "create"
    /\ link[l].email = None
    /\ link' = [link EXCEPT ![l].email = request[t].email]
    /\ request' = [request EXCEPT ![t].pc = "send", ![t].link = l]
    /\ UNCHANGED <<users, budgets, page, click, opened, raced>>

\* Mutant: a failure to send is not reported.
SendMail_Swallows(t) ==
    /\ request[t].pc = "send"
    /\ \E sent \in BOOLEAN :
           /\ link' = [link EXCEPT ![request[t].link].mailed = sent]
           /\ Goto(t, "ok")
    /\ UNCHANGED <<users, budgets, page, click, opened, raced>>

\* sendMagicLink: the provider takes the mail or refuses it.
SendMail(t) ==
    /\ request[t].pc = "send"
    /\ \/ link' = [link EXCEPT ![request[t].link].mailed = TRUE] /\ Goto(t, "ok")
       \/ Goto(t, "503") /\ UNCHANGED link
    /\ UNCHANGED <<users, budgets, page, click, opened, raced>>

\* The API is restarted, or the connection lost, in the middle of a request.
LoseRequest(t) ==
    /\ request[t].pc \in {"consume", "global", "create", "send"}
    /\ Goto(t, "lost")
    /\ UNCHANGED <<users, budgets, page, link, click, opened, raced>>

\* Mutant: a request without an answer is made again.
ReceiveAnswer_Retries(t) ==
    /\ request[t].pc \in {"ok", "429", "503", "lost"}
    /\ IF request[t].pc = "lost"
       THEN /\ request' = [request EXCEPT ![t] = [@ EXCEPT !.pc = "consume", !.n = 1, !.link = None]]
            /\ UNCHANGED page
       ELSE /\ Goto(t, "idle")
            /\ page' = [page EXCEPT ![t].shows = IF request[t].pc = "ok" THEN "inbox" ELSE "failed"]
    /\ UNCHANGED <<users, budgets, link, click, opened, raced>>

\* The page shows the answer: 429 and every other failure differ only in words.
ReceiveAnswer(t) ==
    /\ request[t].pc \in {"ok", "429", "503", "lost"}
    /\ page' = [page EXCEPT ![t].shows =
                   CASE request[t].pc = "ok" -> "inbox"
                     [] request[t].pc = "429" -> "limited"
                     [] OTHER -> "failed"]
    /\ request' = [request EXCEPT ![t] = IF @.pc = "ok" THEN [@ EXCEPT !.pc = "idle"] ELSE Idle]
    /\ UNCHANGED <<users, budgets, link, click, opened, raced>>

\* "Use a different address".
DifferentAddress(t) ==
    /\ page[t].shows = "inbox"
    /\ page' = [page EXCEPT ![t] = [shows |-> "form", email |-> None]]
    /\ request' = [request EXCEPT ![t] = Idle]
    /\ UNCHANGED <<users, budgets, link, click, opened, raced>>

RenewBudget(k) ==
    /\ used[k] > 0 /\ ends[k] = 0 /\ Cardinality({j \in Keys : ends[j] > 0}) < MaxEnds
    /\ Budget!Renew(k)
    /\ ends' = [ends EXCEPT ![k] = @ + 1]
    /\ UNCHANGED <<users, page, request, link, click, opened, raced>>

-----------------------------------------------------------------------------
\* The click on a link.

Dead(l) == link[l].email = None \/ link[l].consumed \/ link[l].expired

\* A mailed link is opened, in whatever tab, as often as somebody likes.
ClickLink(c, l) ==
    /\ click[c].pc = "idle"
    /\ link[l].mailed
    /\ click' = [click EXCEPT ![c] = [pc |-> "find", link |-> l, late |-> Dead(l)]]
    /\ UNCHANGED <<users, budgets, page, request, link, opened, raced>>

\* Clicks that have found l unconsumed and not consumed it yet.
Found(l) == {c \in Clicks : click[c].link = l /\ click[c].pc = "consume"}

\* Otherwise 401, for a consumed link, or 410.
Redeemable(l) == ~link[l].consumed /\ ~link[l].expired

FindLink(c) ==
    LET l == click[c].link
    IN /\ click[c].pc = "find"
       /\ Step(c, IF Redeemable(l) THEN "consume" ELSE "idle")
       /\ raced' = IF Redeemable(l) /\ Found(l) # {} THEN raced \cup {l} ELSE raced
       /\ UNCHANGED <<users, budgets, page, request, link, opened>>

\* Mutant: nothing is stored.
ConsumeLink_NotStored(c) ==
    /\ click[c].pc = "consume"
    /\ Step(c, "upsert")
    /\ UNCHANGED <<users, budgets, page, request, link, opened, raced>>

\* The update names the row and nothing else: it succeeds on a consumed row too.
ConsumeLink(c) ==
    /\ click[c].pc = "consume"
    /\ link' = [link EXCEPT ![click[c].link].consumed = TRUE]
    /\ Step(c, "upsert")
    /\ UNCHANGED <<users, budgets, page, request, opened, raced>>

UpsertUser(c) ==
    /\ click[c].pc = "upsert"
    /\ users' = users \cup {link[click[c].link].email}
    /\ Step(c, "issue")
    /\ UNCHANGED <<budgets, page, request, link, opened, raced>>

\* The handler's issueSession, cookies and redirect.
OpenSession(c) ==
    LET l == click[c].link
    IN /\ click[c].pc = "issue"
       /\ opened' = [opened EXCEPT ![l] = @ + 1]
       /\ Step(c, "idle")
       /\ UNCHANGED <<users, budgets, page, request, link, raced>>

LoseClick(c) ==
    /\ click[c].pc \in {"find", "consume", "upsert", "issue"}
    /\ Step(c, "idle")
    /\ UNCHANGED <<users, budgets, page, request, link, opened, raced>>

\* Fifteen minutes have passed.
ExpireLink(l) ==
    /\ link[l].email # None /\ ~link[l].expired
    /\ link' = [link EXCEPT ![l].expired = TRUE]
    /\ UNCHANGED <<users, budgets, page, request, click, opened, raced>>

-----------------------------------------------------------------------------

MagicNext ==
    \/ \E t \in Tabs :
           \/ \E e \in Emails, bot \in BOOLEAN : Submit(t, e, bot)
           \/ ConsumeBudget(t) \/ ConsumeGlobal(t) \/ SendMail(t) \/ LoseRequest(t)
           \/ \E l \in Links : CreateToken(t, l)
           \/ ReceiveAnswer(t) \/ DifferentAddress(t)
    \/ \E k \in Keys : RenewBudget(k)
    \/ \E c \in Clicks :
           \/ \E l \in Links : ClickLink(c, l)
           \/ FindLink(c) \/ ConsumeLink(c) \/ UpsertUser(c) \/ OpenSession(c) \/ LoseClick(c)
    \/ \E l \in Links : ExpireLink(l)

MagicSpec == MagicInit /\ [][MagicNext]_<<users, magicVars>>

\* A handler that runs goes on until it answers or is lost, and an answer is shown.
MagicFairness ==
    \A t \in Tabs :
        WF_<<users, magicVars>>(\/ ConsumeBudget(t) \/ ConsumeGlobal(t) \/ SendMail(t)
                                \/ LoseRequest(t) \/ ReceiveAnswer(t))

-----------------------------------------------------------------------------
\* Correctness.

\* "single-use" and "valid for 15 minutes", as far as they go: a click that
\* comes after a link was consumed or has expired opens no session, whatever
\* else is under way.
DeadLinksStayDead ==
    \A c \in Clicks : click[c].late => click[c].pc \notin {"consume", "upsert", "issue"}

\* A link opens a second session only for clicks that both read the row before
\* either of them consumed it.
ReuseNeedsRace == \A l \in Links : opened[l] > 1 => l \in raced

\* "Check your inbox" (login/page.tsx:44) is shown to a person only when a link
\* was mailed to that address, or when the service's own budget was spent; and
\* nothing is mailed but a link of somebody's.
InboxTruth ==
    /\ \A t \in Tabs : page[t].shows = "inbox" /\ ~request[t].bot =>
           \/ /\ request[t].link # None
              /\ link[request[t].link].mailed
              /\ link[request[t].link].email = page[t].email
           \/ request[t].link = None /\ request[t].n = 0
    /\ \A l \in Links : link[l].mailed => link[l].email # None

\* However requests overlap with each other and with the ends of windows, no
\* budget of an address, of the client or of the service lets more mails out
\* than it has had windows for.
Mails(S) == Cardinality({l \in Links : link[l].mailed /\ link[l].email \in S})
MailsWithinBudgets ==
    \A k \in Keys :
        Mails(IF k[2] = None THEN Emails ELSE {k[2]}) <= Max[k] * (ends[k] + 1)

\* What a link, an inbox and the budgets promise in every state.
MagicInv == MagicTypeOK /\ DeadLinksStayDead /\ InboxTruth /\ MailsWithinBudgets

\* The page never waits for ever.
PageAnswers == \A t \in Tabs : (page[t].shows = "sending") ~> (page[t].shows # "sending")

-----------------------------------------------------------------------------
\* What the repository says of a link, and two clicks at once break.

\* auth.service.ts:128, "Consume a magic-link token (single-use, 15-min TTL)".
SingleUse == \A l \in Links : opened[l] <= 1
=============================================================================
