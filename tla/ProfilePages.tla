---------------------------- MODULE ProfilePages ----------------------------
(***************************************************************************)
(* Changing one's own name and username in the web client: the form in the *)
(* settings, the one on the profile card and the one that claims a first   *)
(* username, over the "me" query, and the public profile pages that Next   *)
(* renders once and keeps (ISR, with the data cache beneath), which a      *)
(* saved change has to bust.                                               *)
(*                                                                         *)
(* The user is signed in and saves one form at a time.  The API answers    *)
(* with what Postgres has: its own cache is module ProfileCache.  Another  *)
(* tab of the user may change the profile, and busts the pages as well.    *)
(***************************************************************************)
EXTENDS Naturals, QueryCache

CONSTANTS
    Names,        \* display names
    MyHandles,    \* usernames that are free or the user's
    TakenHandles, \* usernames of others
    AccountsBefore, \* what the user may be called at first
    MaxSaves, MaxPages, MaxOthers,  \* bound the model
    Nameless,     \* no username yet
    Gone,         \* a page that says 404
    Invalid,      \* a field that the form refuses
    Keep,         \* a field that is not sent
    NoPage, NoSave, NoForm, NoRender

ASSUME PagesHandles == MyHandles \cap TakenHandles = {}
ASSUME PagesBefore == AccountsBefore \subseteq [name: Names, handle: MyHandles \cup {Nameless}]

VARIABLES
    account,   \* the user in Postgres
    me,        \* the query ["me"]
    site,      \* for every username the page Next keeps and a render of it
    at,        \* the page shown and the one the router is going to
    card,      \* ProfileHeader: the name it was rendered with and its copy of it
    form,      \* the form on screen
    save,      \* the mutation in flight
    used,      \* so far: saves, page changes, and what goes on elsewhere, which
               \* is pages rendered and changes in other tabs
    meWhy      \* history: me may be out of date

profileVars == <<account, me, site, at, card, form, save, used, meWhy>>

Screens == {"home", "settings", "welcome", "missing"}
Fields == {"name", "handle"}
Accounts == [name: Names, handle: MyHandles \cup {Nameless}]
Renders == [found: Names \cup {Gone}, raced: BOOLEAN]
Forms ==
    [on: {"card", "settings", "welcome"}, name: Names \cup {Invalid},
     handle: MyHandles \cup TakenHandles \cup {Invalid},
     typed: SUBSET Fields, drifted: SUBSET Fields]
Saves ==
    [body: [Fields -> Names \cup MyHandles \cup TakenHandles \cup {Keep}],
     from: {"card", "settings", "welcome"}, here: BOOLEAN,
     stage: {"sent", "applied", "saved", "busted"}, handle: MyHandles \cup {Invalid},
     answer: Accounts \cup {Absent}, changed: SUBSET MyHandles, paths: SUBSET MyHandles]

\* A path is not a username; what stands for nothing is nothing else.
ASSUME ProfileNone ==
    /\ (Names \cup MyHandles \cup TakenHandles) \cap {Invalid, Keep, Absent, Gone, Nameless, NoPage} = {}
    /\ MyHandles \cap Screens = {}
    /\ Invalid # Keep /\ Gone # Absent /\ Absent \notin Accounts
    /\ NoRender \notin Renders /\ NoForm \notin Forms /\ NoSave \notin Saves

\* What GET /users/:username finds.
Content(h) == IF account.handle = h THEN account.name ELSE Gone

ProfilePagesTypeOK ==
    /\ account \in Accounts
    /\ me.data \in Accounts \cup {Absent} /\ me.fetch.read \in Accounts \cup {Absent}
    /\ DOMAIN site = MyHandles
    /\ \A h \in MyHandles :
        /\ site[h].page \in Names \cup {Gone, Absent}
        /\ site[h].render \in Renders \cup {NoRender}
        /\ site[h].stale => site[h].page # Absent
    /\ at \in [page: Screens \cup MyHandles, going: MyHandles \cup {NoPage}]
    /\ card \in [given: Names, name: Names, late: BOOLEAN]
    /\ form \in Forms \cup {NoForm} /\ save \in Saves \cup {NoSave}
    /\ form # NoForm => form.on = (IF at.page \in MyHandles THEN "card" ELSE at.page)
    /\ save # NoSave => /\ save.here => form # NoForm /\ form.on = save.from
                        /\ \A x \in Fields : save.body[x] # Invalid

NoCard == [given |-> CHOOSE n \in Names : TRUE, name |-> CHOOSE n \in Names : TRUE, late |-> FALSE]

ProfilePagesInit ==
    /\ account \in AccountsBefore
    /\ me = Begin(NewQuery)
    /\ site = [h \in MyHandles |-> [page |-> Absent, render |-> NoRender, stale |-> FALSE]]
    /\ at = [page |-> "home", going |-> NoPage]
    /\ card = NoCard
    /\ form = NoForm
    /\ save = NoSave
    /\ used = [saves |-> 0, pages |-> 0, others |-> 0]
    /\ meWhy = FALSE

\* The history of me: wrong only after an event of its own, until it is right.
MeMayErr(event) ==
    meWhy' = ((meWhy \/ event) /\ (me'.fetch.on \/ save' # NoSave \/ me'.data # account'))

-----------------------------------------------------------------------------
\* Pages that Next keeps.

\* Somebody asks for the page: a page that is not kept, or is 60 s old, is
\* rendered, after the API was asked.
Render(h) ==
    /\ site[h].render = NoRender
    /\ used.others < MaxOthers /\ used' = [used EXCEPT !.others = @ + 1]
    /\ site' = [site EXCEPT ![h].render = [found |-> Content(h), raced |-> FALSE]]
    /\ UNCHANGED <<account, me, at, card, form, save, meWhy>>
RenderStores(h) ==
    /\ site[h].render # NoRender
    /\ site' = [site EXCEPT ![h] = [page |-> site[h].render.found, render |-> NoRender,
                                    stale |-> site[h].render.raced]]
    /\ UNCHANGED <<account, me, at, card, form, save, used, meWhy>>

\* stale and raced are history: no bust is to come for this page, or for the
\* one being rendered.
Unbusted(st, hs) ==
    [h \in MyHandles |-> IF h \notin hs THEN st[h] ELSE
        [st[h] EXCEPT !.stale = st[h].page # Absent,
                      !.render = IF @ = NoRender THEN @ ELSE [@ EXCEPT !.raced = TRUE]]]
\* revalidatePath forgets the page; a render under way goes on.
Busted(st, hs) ==
    [h \in MyHandles |-> IF h \notin hs THEN st[h] ELSE
        [page |-> Absent, stale |-> FALSE,
         render |-> IF st[h].render = NoRender THEN NoRender
                    ELSE [st[h].render EXCEPT !.raced = TRUE]]]

-----------------------------------------------------------------------------
\* Forms.

\* The values a form compares with: the card's own copy, or me.
Current(on, c, m) ==
    IF on = "card" THEN [name |-> c.name, handle |-> at.page]
    ELSE [name |-> m.name, handle |-> IF m.handle = Nameless THEN Invalid ELSE m.handle]

NewForm(on, cur) ==
    [on |-> on, name |-> cur.name, handle |-> cur.handle, typed |-> {}, drifted |-> {}]

\* drifted is history: what the form compares with has left the field behind.
Drift(f, old, new) ==
    [f EXCEPT !.drifted = @ \cup {x \in Fields : new[x] # old[x] /\ new[x] # f[x]}]

\* SettingsForm waits for me; the page keeps it when me changes.
FormOnMe(p, f, m) ==
    IF p = "welcome" /\ f = NoForm
    THEN NewForm("welcome", [name |-> Invalid, handle |-> Invalid])
    ELSE IF p = "settings" /\ m.data # Absent
    THEN IF f = NoForm THEN NewForm("settings", Current("settings", card, m.data))
         ELSE Drift(f, Current("settings", card, me.data), Current("settings", card, m.data))
    ELSE f

\* Leaving a page: its forms are gone, what they sent goes on.
Left == IF save = NoSave THEN NoSave
        ELSE IF ~save.here THEN save
        ELSE [save EXCEPT !.here = FALSE,
                          !.handle = IF save.from = "settings"
                                     THEN Current("settings", card, me.data).handle ELSE @]

\* A link; /welcome opens for anybody.  A profile is shown when its page is there.
GoTo(p) ==
    /\ p # at.page /\ used.pages < MaxPages
    /\ used' = [used EXCEPT !.pages = @ + 1]
    /\ UNCHANGED <<account, site>>
    /\ IF p \in MyHandles
       THEN at' = [at EXCEPT !.going = p] /\ UNCHANGED <<me, card, form, save, meWhy>>
       ELSE /\ at' = [page |-> p, going |-> NoPage]
            /\ \E aged \in BOOLEAN : me' = IF aged \/ MustFetch(me) THEN Begin(me) ELSE me
            /\ form' = FormOnMe(p, NoForm, me)
            /\ card' = NoCard
            /\ save' = Left
            /\ MeMayErr(FALSE)

\* late is history: the card shows a name that is not the user's any more.
ArriveAt ==
    /\ at.going # NoPage
    /\ LET h == at.going
           p == site[h].page
       IN
        /\ p # Absent
        /\ at' = [page |-> IF p = Gone THEN "missing" ELSE h, going |-> NoPage]
        /\ IF at.page = h /\ p # Gone
           THEN LET c == [given |-> p, name |-> IF p # card.given THEN p ELSE card.name,
                          late |-> IF p # card.given THEN p # account.name ELSE card.late] IN
                /\ card' = c
                /\ form' = IF form = NoForm THEN form
                           ELSE Drift(form, Current("card", card, me), Current("card", c, me))
                /\ UNCHANGED save
           ELSE /\ card' = IF p = Gone THEN NoCard
                           ELSE [given |-> p, name |-> p, late |-> p # Content(h)]
                /\ form' = NoForm
                /\ save' = Left
    /\ UNCHANGED <<account, me, site, used, meWhy>>

\* ProfileHeader.
IsOwnCard == IF me.data = Absent \/ at.page \notin MyHandles THEN FALSE ELSE me.data.handle = at.page
ClickEdit ==
    /\ IsOwnCard /\ form = NoForm
    /\ form' = NewForm("card", Current("card", card, me))
    /\ UNCHANGED <<account, me, site, at, card, save, used, meWhy>>
Saving == save # NoSave /\ save.here
CancelForm ==
    /\ form # NoForm /\ form.on = "card" /\ ~Saving
    /\ form' = NoForm
    /\ UNCHANGED <<account, me, site, at, card, save, used, meWhy>>

\* Once per field, which bounds the model.
TypeField(x, value) ==
    /\ form # NoForm /\ form[x] # value /\ x \notin form.typed
    /\ form.on = "welcome" => x = "handle"
    /\ form' = [form EXCEPT ![x] = value, !.typed = @ \cup {x}]
    /\ UNCHANGED <<account, me, site, at, card, save, used, meWhy>>

\* Mutant: every field is sent.
BuildUpdate_Everything(f, cur) == [name |-> f.name, handle |-> f.handle]
\* settings/form.ts: the fields that differ.
BuildUpdate(f, cur) ==
    [x \in Fields |-> IF f[x] = cur[x] THEN Keep ELSE f[x]]
Body ==
    IF form.on = "welcome" THEN [name |-> Keep, handle |-> form.handle]
    ELSE BuildUpdate(form, Current(form.on, card, me.data))
CanSubmit ==
    /\ form # NoForm
    /\ form.handle # Invalid /\ (form.on = "welcome" \/ form.name # Invalid)
    /\ \E x \in Fields : Body[x] # Keep

Submit ==
    /\ save = NoSave /\ used.saves < MaxSaves
    /\ CanSubmit
    /\ used' = [used EXCEPT !.saves = @ + 1]
    /\ save' = [body |-> Body, from |-> form.on, here |-> TRUE, stage |-> "sent",
                handle |-> IF form.on = "card" THEN at.page ELSE Invalid,
                answer |-> Absent, changed |-> {}, paths |-> {}]
    /\ UNCHANGED <<account, me, site, at, card, form, meWhy>>

-----------------------------------------------------------------------------
\* What becomes of it.

\* UsersService.updateMe.
Updated == [x \in Fields |-> IF save.body[x] = Keep THEN account[x] ELSE save.body[x]]
ServerSaves ==
    /\ save # NoSave /\ save.stage = "sent" /\ save.body.handle \notin TakenHandles
    /\ \A x \in Fields : save.body[x] # Invalid
    /\ account' = Updated
    /\ save' = [save EXCEPT !.stage = "applied", !.answer = Updated,
                            !.changed = {account.handle, Updated.handle} \cap MyHandles]
    /\ card' = IF at.page \in MyHandles
                THEN [card EXCEPT !.late = @ \/ card.name # Updated.name] ELSE card
    /\ UNCHANGED <<me, site, at, form, used>>
    /\ MeMayErr(FALSE)

\* The answer reaches the client.
AnswerSet == SetQueryData(me, save.answer)
MeAfterSave == Invalidate(AnswerSet, TRUE)

\* WelcomePage: home, and nothing is busted; a fetch of me goes on.
ClaimSucceeds ==
    /\ save # NoSave /\ save.stage = "applied" /\ save.from = "welcome"
    /\ me' = AnswerSet
    /\ at' = [page |-> "home", going |-> NoPage]
    /\ form' = NoForm
    /\ save' = NoSave
    /\ site' = Unbusted(site, save.changed)
    /\ card' = NoCard
    /\ UNCHANGED <<account, used>>
    /\ MeMayErr(me.fetch.on)

\* SettingsForm, ProfileEditForm: me is set and asked for again.  The paths are
\* those of the last render: by now the settings may know the new username.
SaveSucceeds ==
    /\ save # NoSave /\ save.stage = "applied" /\ save.from # "welcome"
    /\ me' = MeAfterSave
    /\ LET handle == IF save.from = "settings" /\ save.here
                     THEN Current("settings", card, me.data).handle ELSE save.handle IN
        save' = [save EXCEPT !.stage = "saved", !.handle = handle,
                             !.paths = {handle, save.answer.handle} \cap MyHandles]
    /\ form' = IF form = NoForm THEN form ELSE FormOnMe(at.page, form, me')
    /\ UNCHANGED <<account, site, at, card, used>>
    /\ MeMayErr(FALSE)

\* Mutant: the new path only.
RevalidateProfile_New ==
    /\ save # NoSave /\ save.stage = "saved"
    /\ site' = Busted(site, {save.answer.handle} \cap MyHandles)
    /\ save' = [save EXCEPT !.stage = "busted"]
    /\ UNCHANGED <<account, me, at, card, form, used, meWhy>>
\* The server action.
RevalidateProfile ==
    /\ save # NoSave /\ save.stage = "saved"
    /\ site' = Busted(site, save.paths)
    /\ save' = [save EXCEPT !.stage = "busted"]
    /\ UNCHANGED <<account, me, at, card, form, used, meWhy>>

CardSaved(name) == [card EXCEPT !.name = name]

\* onSaved: also of a card that is gone, and then it moves the user from
\* wherever they are.
SaveDone ==
    /\ save # NoSave /\ save.stage = "busted"
    /\ save' = NoSave
    /\ site' = Unbusted(site, save.changed \ save.paths)
    /\ IF save.from = "card"
       THEN /\ at' = [at EXCEPT !.going = IF save.answer.handle # save.handle
                                          THEN save.answer.handle
                                          ELSE IF at.page \in MyHandles /\ @ = NoPage
                                          THEN at.page ELSE @]
            /\ IF save.here
               THEN /\ form' = NoForm
                    /\ card' = [CardSaved(save.answer.name) EXCEPT
                                   !.late = save.answer.name # account.name]
               ELSE UNCHANGED <<form, card>>
       ELSE UNCHANGED <<at, form, card>>
    /\ UNCHANGED <<account, me, used, meWhy>>

\* 409, 401, a request or an answer that is lost, or a server action that
\* fails: the form shows an error, also for a change that was made.
SaveFails ==
    /\ save # NoSave
    /\ save' = NoSave
    /\ site' = IF save.stage = "busted" THEN Unbusted(site, save.changed \ save.paths)
               ELSE Unbusted(site, save.changed)
    /\ UNCHANGED <<account, me, at, card, form, used>>
    /\ MeMayErr(save.stage = "applied")

\* Another tab.
OtherTab ==
    /\ used.others < MaxOthers /\ used' = [used EXCEPT !.others = @ + 1]
    /\ account' \in [name: Names, handle: MyHandles] /\ account' # account
    /\ site' = Busted(site, {account.handle, account'.handle} \cap MyHandles)
    /\ card' = IF at.page \in MyHandles
                THEN [card EXCEPT !.late = @ \/ card.name # account'.name] ELSE card
    /\ UNCHANGED <<me, at, form, save>>
    /\ MeMayErr(TRUE)

MeRead ==
    /\ me.fetch.on /\ me.fetch.read = Absent
    /\ me' = ServerReads(me, account)
    /\ UNCHANGED <<account, site, at, card, form, save, used>>
    /\ MeMayErr(FALSE)
MeLands ==
    /\ CanLand(me)
    /\ me' = Landed(me)
    /\ form' = FormOnMe(at.page, form, me')
    /\ UNCHANGED <<account, site, at, card, save, used>>
    /\ MeMayErr(FALSE)

ProfilePagesNext ==
    \/ ArriveAt \/ ClickEdit \/ CancelForm \/ Submit
    \/ ServerSaves \/ ClaimSucceeds \/ SaveSucceeds \/ RevalidateProfile \/ SaveDone \/ SaveFails
    \/ OtherTab \/ MeRead \/ MeLands
    \/ \E p \in {"home", "settings", "welcome"} \cup MyHandles : GoTo(p)
    \/ \E n \in Names \cup {Invalid} : TypeField("name", n)
    \/ \E h \in MyHandles \cup TakenHandles \cup {Invalid} : TypeField("handle", h)
    \/ \E h \in MyHandles : Render(h) \/ RenderStores(h)

ProfilePagesSpec == ProfilePagesInit /\ [][ProfilePagesNext]_profileVars

-----------------------------------------------------------------------------
\* Correctness.

\* "After a successful PATCH /me the client calls this to bust the affected
\* paths immediately (both the old and new username when the handle changes)"
\* (revalidate-profile.ts:10): once nothing is being saved no page that is kept
\* is wrong, unless it was being rendered when it was busted, or nobody busted
\* it: a username was claimed, an answer was lost, the server action failed, or
\* the settings had heard of the new username before the answer.
PagesFreshOrExplained ==
    save = NoSave => \A h \in MyHandles :
        site[h].page \in {Absent, Content(h)} \/ site[h].stale

\* "only the fields that actually changed" (settings/form.ts:40): a field is
\* sent when the user typed it, or when the profile changed under the form,
\* which is then taken for a change of the user's and undoes the other one.
PatchIsMinimal ==
    [][(save = NoSave /\ save' # NoSave) => \A x \in Fields :
          save'.body[x] # Keep => x \in form.typed \cup form.drifted]_profileVars

\* "Local mirror of the server-rendered identity so an inline edit reflects
\* instantly, before the revalidated page reaches us" (ProfileHeader.tsx:37):
\* once nothing is being saved the card shows the name as it is, and no page
\* that arrives later takes it back, unless it was out of date itself or the
\* name was changed, or its saving failed, elsewhere.
CardShowsSaved ==
    (save = NoSave /\ at.page \in MyHandles /\ account.handle = at.page) =>
        card.name = account.name \/ card.late

\* me is what Postgres has once it is not being fetched and is not marked for
\* a refetch; only another tab, a lost answer and a fetch that was under way
\* when the first username was claimed leave it behind.
MeExplained ==
    (~me.fetch.on /\ ~me.outdated /\ ~me.lapsed /\ save = NoSave) =>
        me.data = account \/ meWhy

\* What the pages that show or edit a profile promise in every state.
ProfilePagesInv ==
    ProfilePagesTypeOK /\ PagesFreshOrExplained /\ CardShowsSaved /\ MeExplained
=============================================================================
