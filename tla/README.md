# A TLA+ model of Traveller

Traveller is a map of the countries you and your friends have visited: a Next.js
client (`apps/web`), a NestJS API (`apps/api`), Postgres through Prisma, Redis.
This directory holds TLA+ specifications of the parts in which several actors
touch the same state, TLC configurations that check them on small instances, and
TLAPS proofs for every size.

    tlc -workers 2 -config MCGroups.cfg MCGroups     # one run
    tlapm GroupsProofs.tla                           # one module of proofs

## The system

| Part | State | Operations | Talks to | Module |
| --- | --- | --- | --- | --- |
| Groups API (`modules/groups`) | `Group`, `GroupMember` rows | create, rename, remove, rotate invite, add, remove, join | Postgres | Groups |
| Sessions (`token.service.ts`, `auth.controller.ts`) | `RefreshToken` rows | issue, rotate, revoke family | Postgres, cookies | Sessions |
| Browser session (`web/lib/api-client.ts`) | cookie jar, calls in flight | apiFetch with refresh and retry, log out | Sessions | BrowserSession |
| Profile cache (`profile-cache`, `users`, `stats`, `visits`, `follows`) | Redis entries, `User`, `VisitedCountry`, `Follow` rows | cached reads, invalidating writes | Postgres, Redis | ProfileCache |
| Rate limits (`rate-limit`) | Redis counters | hit, consume, tryConsume | Redis | RateLimit, Window |
| Magic links (`auth.service.ts`, `app/login`) | `LoginToken`, `User` rows, the login page | request a link, verify it | rate limits, Sessions, mail | MagicLink |
| Google sign-in (`google.controller.ts`, `google.strategy.ts`) | `OauthAccount`, `User` rows, state cookie | redirect, callback, upsert | Google, Sessions | GoogleSignIn |
| Visits on the map page (`lib/visits`, `CountryPanel`, toasts) | TanStack Query cache, visible toasts | optimistic tick, edit, undo, rollback, refetch | API | Visits |
| Friends (`lib/social`, `components/social`) | five kinds of query | follow, unfollow, search | API | Follows |
| Group pages (`lib/groups`, `components/groups`) | three queries, the rename form | seven mutations | Groups API | GroupPages |
| Profile pages and forms (`app/[username]`, settings, welcome) | page cache, `me`, form state | render, revalidate, save | Profile cache | ProfilePages |
| Theme (`lib/theme.ts`, `theme-store`, `ThemeAutoSync`) | preference, override, timer | toggle, sync, init script | localStorage | Theme |
| Map canvas (`MapCanvas`, `MapView`, `map-store`) | map style, filters, projection, feature state | load, swap theme, filter, hover, click | query caches, theme | MapCanvas, MapView |
| Statistics (`stats.logic`, `group-stats.logic`, `web/lib/stats`, `compare`) | none | pure functions | | CountryStats, GroupStats |
| Country lists (`CountryPanel.tsx`, `ProfileCountries.tsx`) | filter, search, folds | filter, search, fold, mark | Visits | CountryPanel, ProfileList |
| Daylight, layout, wiring, mail transport, generated data, deployment | | | | none |

What is hard in it:

- *Interleaving.* Every API handler is an async function without a transaction
  around it (`insertMember` has one, READ COMMITTED), and several instances may
  run: anything can happen between two awaits. In the browser every mutation, its
  rollback and the refetch that follows work on one cache.
- *Failure.* A deploy kills the API between two calls; Postgres and Redis are
  separate, and a write to one is not undone when the other refuses; an answer is
  lost after its handler has run; a mail is not sent.
- *Ordering.* Answers reach the browser in any order and all tabs share a cookie
  jar and a storage. MapLibre's events come in between React's effects.
- *Time.* Cookies, tokens, cache entries and rate-limit windows expire; the theme
  switches by the hour.
- *Staleness.* Forms, cards and pages keep a copy of what they were rendered with.

`PROJECT.json` lists the hazards with their lines and the properties that look
for each.

## What makes each part correct

- Groups: the owner is a member; members have handles; limits hold, or are
  exceeded by overlapping requests only; a retired invite admits nobody who comes
  later; only the owner manages, only the owner or oneself removes; no handler
  acts on something it read that is no longer true.
- Sessions: an answered rotation is complete; an ended session stays ended.
- Browser: the jar holds a usable token until the user leaves, the session
  expires, a failure reaches a handler, or refreshes overlap; a logout that is
  alone leaves nothing; every call returns.
- Profile cache: whatever is stale is about to be deleted, was stored by an
  overlapping reader, lost its DEL to a failure, or belongs to a user who was
  renamed between a mutation's lookup and its write; nothing stale stays.
- Rate limits: a window admits at most `max`, warns once, and is renewed.
- Sign-in: a dead link opens nothing, "check your inbox" is true, mails stay
  within the budgets; one Google account is one user.
- Client caches (Visits, Follows, GroupPages, ProfilePages): a change shows at
  once, and when nothing is under way the page shows what the server has; what
  can still make it wrong is named, case by case, by the history of the model.
- Forms: only what the user typed is sent.
- Map: what is drawn follows from the props, whatever order style, theme and
  props come in.
- Theme: no flash, overrides stick, auto follows the clock, a reload changes
  nothing.
- Statistics and lists: two implementations agree, parts add up to wholes, counts
  and messages are true.

## The modules

In the modules of the API each action is one awaited call of a handler (one SQL
statement, one Redis command), because that is what the database orders;
everything a handler does between two awaits belongs to the step before. `pc` in a
handler's record is the statement it runs next, its other fields are the
handler's local variables, and a handler that throws answers and disappears. In
the modules of the client each action is one event that React or the query
client handles in one turn: a click, an answer, a timer, an effect.
`PROJECT.json` maps every definition to its lines.

A variable marked *history* is no state of the program. It records what a
property needs to know of the past: which exception of a promise has occurred.

### API

**Groups** models `groups.service.ts` with the controller's endpoints as the
`Start...` actions. `handle` is `User.username`; `owner`, `name`, `code`,
`members` are the columns and rows of `Group` and `GroupMember` by group id;
`live` are the rows that exist. `issued`, `retired` and a request's `late` are
history: which codes were ever drawn, which a rotation or deletion withdrew, and
whether a join's code was already withdrawn when it arrived. `RowsOK` is what
Postgres enforces (foreign keys, the unique code). `isPublic` has no endpoint and
is the constant `Public`. Reads answer and change nothing; they are left out, and
so is the detail view with which mutations end.

**Sessions** models `token.service.ts`, `refresh-token.logic.ts` and the
refresh and logout handlers. A row of `RefreshToken` is a token with a `family`;
`revoked` and `expired` are its two dates. `Promise.all` of a rotation is the
field `todo`: both calls are under way and each commits by itself. `DbFails` is
an error of one call, `Crash` the end of the process. Clients may present any
token at any time.

**BrowserSession** EXTENDS Sessions with the only client there is: `access` and
`cookie` are the jar, `call` the state of each apiFetch call. Set-Cookie applies
when an answer arrives (`ApplyCookies`), the loop of `apiFetch` is `TryAgain`. A
call whose connection breaks (`CutOff`) leaves its handler running. The history
`session` says whether the user still wants to be logged in, `disturbed` whether
anything happened that the code does not claim to survive; `current` is the family of the
last sign-in, which the promises are about. Calls that find a valid access cookie
change nothing here; a second sign-in over an open session is left out.

**ProfileCache** models the cache-aside protocol. `profile:{name}` and
`stats:{name}` are read and filled by the same steps and deleted by one DEL, so
one entry per username stands for either. The contents of a profile are a
`version` that every public change increments, which is all that staleness can
tell apart; a reader's answer is read from Postgres in one step. What happened to
an entry is history: `raced`, it was out of date when it was stored; `lost`, a
mutation that made it so ended before its DEL; `renamed`, the user took another
username between that mutation's lookup and its write. A mutation's `saw` is the
username it looked up.

**RateLimit** models `rate-limit.service.ts`. INCR and EXPIRE are two awaited
calls: the request that gets 1 from INCR is in `hit` until it has set the expiry.
Every other request decides on the number INCR returned and is one step.
`admitted`, `warned` and `orphaned` are history. **Window** is what a limit
promises: a counter in which taking, letting through and starting anew are
atomic. `ImplementsWindow` is the refinement (`INSTANCE Window WITH used <- ...`),
under which INCR takes from the budget and the answer lets through.

**MagicLink** models `requestMagicLink` and `verifyMagicLink` with the login page
that calls them. A request takes the four budgets of an address and an IP, in
order, then the service's own, which is refused silently; stores the token; and
mails it. Its budgets are an instance of Window. `page` is what a tab shows,
`request` its POST, `click` a GET that redeems a link. Requests are lost with
their connection or with the process, a budget's window may end, a link expires.
`raced`, `opened`, `ends` are history.

**GoogleSignIn** models the redirect with its state cookie, which all tabs of a
browser share, the callback that compares it, and `upsertGoogleUser`: find the
account, else upsert the user, else create the account, with other callbacks in
between. Google is external; what matters of it is that an account keeps its id
and may change its address.

### Client

**QueryCache** is one query of TanStack Query, a library, modelled from how
`apps/web` uses it: `cancelQueries` reverts to the state before the fetch,
`invalidateQueries` starts a fetch anew when the query is on screen and has data,
and joins a first fetch. Follows, GroupPages and ProfilePages build on it.

**Visits** models `use-visits.ts` with the country panel, the detail sheet and
the toasts that start its mutations: `Mutate` is `onMutate` (cancel, snapshot,
optimistic change), `ServerWrites` the handler, `Succeed`/`Fail` the answer with
rollback and `onSettled`. A refetch reads the rows in one step and lands in
another. Toasts without an action differ only in their text and are one toast.

**Follows** models `use-follow.ts`: one mutation changes the search results, the
following list and a profile, and invalidates the map's overlay. `page`, `tab`
and the debounced search decide which queries are on screen.

**GroupPages** models `use-groups.ts` and the screens over it: list, group,
landing page of an invite. The server's side of a request is one step, as Groups'
handlers do it; other members and other tabs are `Elsewhere`. `why` is history,
a set of causes per view: overlap, a lost answer, a change elsewhere.

**ProfilePages** models the three forms that change a name or a username, the
server action that revalidates the pages of the old and the new username, and
Next's page cache as a page kept and a render under way for each username.

**Theme** models `theme.ts`, the store of every tab, the script that paints
before React, the timer and the check when a tab is shown again. Time is in hours.

**MapCanvas** is the component that owns the MapLibre map, with its effects and
the map's events; **MapView** EXTENDS it with the pages that render it and the
store that outlives it: selection, mode, comparison, prompt. The user's countries
change by a click on the map in edit mode, by the checkbox of a panel's row and by
the detail sheet in any mode, and by what the visits query is answered
(`VisitsLand`).

**CountryStats** holds the arithmetic as operators: `ComputeCountryStats` of the
API and `ComputeStats` of the client side by side, the statistics of a group, the
filters of the lists. **GroupStats**, **CountryPanel** and **ProfileList** are the
screens that show them while the maps change. How a search matches a name is the
constant `Matches`.

`MCx` EXTENDS `x` with the symmetry set or the constants its `.cfg` files need.
Three of them put several modules that share no state into one run: a first
choice (`door`, `part`) selects which of them a behaviour is about, and the
others stay at their initial values, so the sizes add up and do not multiply.
Operators named `Action_Something` are mutants: plausible bugs in `Action` that
each property is shown to notice; nothing uses them otherwise.

## What the runs check

Each run's properties are conjunctions of named parts where one component has
several; the part says which promise it is and quotes it.

| Run | Instance | Shows |
| --- | --- | --- |
| `groups` | 3 users (1 private), 2 groups, 2 names, 2 codes, 2 requests, room for 2 members and 1 owned group | `IInv` (`OwnerIsMember`, `MembersHaveHandles`, `HandlersOK`), `RetiredInviteNeverAdmits`, `OvershootBounded`, `OnlyOwnerOrSelfRemoves`, `OnlyOwnerManages` |
| `sessions` | 4 tokens, 2 families, 2 requests, database errors and crashes | `AnswerAfterRotation`, `EndedStaysEnded` |
| `browser` | 4 tokens, 1 family, 2 handlers, 2 calls, 1 retry, every failure | `BrowserInv` (`CookieUsable`), `OneLiveToken`, `LogoutEnds`, `CallsReturn` |
| `cache` | 2 users, 2 usernames, 1 reader, 2 writers (visits, follows, profile updates), failing Redis, crashes | `CacheInv` (`StaleExplained`) |
| `cache_fresh` | 1 user, 2 usernames, 1 reader, 2 writers, failures | `StaleGoes` with overlapping renames and lost invalidations |
| `limit` | budgets of 2 and 1, 2 opening calls, counts to 4, crashes | `IInv` (`OneWarning`, `ExpiryComes`), `Budget`, `Renewed`, and the refinement `ImplementsWindow` |
| `signin` | 1 mail address, 2 links, budgets of 1 and 2, one window that ends; 2 tabs, or 1 tab and 2 clicks, or 2 Google flows with 1 account and 2 addresses | `MagicInv` (`DeadLinksStayDead`, `InboxTruth`, `MailsWithinBudgets`), `GoogleInv` (`SameUserEachTime`, `StateLossExplained`), `ReuseNeedsRace`, `PageAnswers` |
| `visits` | 2 countries, 2 details, 2 mutations in flight, 3 made, 2 toasts | `VisitsInv` (`CancelKeepsList`, `OptimisticShown`), `Reconciled`, `EventuallyReconciled` |
| `undo` | as `visits` | violation of `UndoRestores` |
| `pages` | friends: 2 travellers, 2 follows; groups: 2 travellers, 2 names, 2 requests, 1 change elsewhere; profile: 2 names, 2 free usernames, 1 taken, 1 save, 2 renders or changes elsewhere | `FollowsInv` (`ViewsReconciled`, `ViewsAgree`), `GroupPagesInv` (`GroupExplained`, `ListExplained`), `ProfilePagesInv` (`PagesFreshOrExplained`, `CardShowsSaved`, `MeExplained`), `RenamesAreTyped`, `PatchIsMinimal` |
| `lists` | map: a country of the user's, one of the friend's, a shape that is no country; theme: days of 4 hours, 2 tabs, 2 choices, 7 hours; statistics and lists: 3 countries on 2 of 3 continents and a dropped code, 3 members, 4 changes; 4 searches | `ThemeInv` (`NoFlash`, `OverrideSticks`, `AutoFollowsClock`, `ReloadKeepsTheme`), `GroupStatsInv` (`StatsAddUp`, `PopularLedByShared`, `LeaderboardRanks`, `HighlightOnMap`, `StatsAgree`), `PanelInv` (`CountsTrue`, `SearchShowsMatches`, `EmptyMessageTrue`), `ListInv` (`ListCountsTrue`, `ListMessageTrue`), `FoldAllDoes`, `MapInv` (`ColoursNeverStack`, `ProjectionFollows`, `LoggedOutMapIsBare`), `CanvasShowsProps`, `LitIsPointedAt` |
| `browser_overlap` | 4 tokens, 2 calls, 2 retries, no failure | violation of `KeepsSession` |

Why these bounds: the races of this code are between two actors, one that has
read and one that writes, so two slots reach them; a third party (the owner of
the group, the member removed, the user followed) is a third user. Limits are as
small as lets an overshoot happen: with room for two, a group of one lets two
inserts pass the count. A rotation uses a token, so four tokens allow three
generations or two overlapping rotations. Two mutations in flight and a third
afterwards reach every overlap of snapshot, rollback and refetch. Half a day of
four hours keeps both switches and midnight apart. Supplies of tokens, codes and
links are finite, and so is what users do (`MaxMade`, `MaxFollows`, `MaxRequests`,
`MaxSaves`, `MaxChoices`, `MaxChanges`): there a behaviour may end, and those
configurations do not check for deadlock. `MaxVersion` and `MaxCount` cap
counters; an entry can be two versions behind, and a count can exceed its budget
by two. In `cache` both users are public, so that each can follow the other, and
an entry can be wrong because of either. An unfollow takes the steps of a follow
and is left to the proof. `cache_fresh` asks of one user's entry
only that it ends, which needs no second user.

## Where the repository says something else

Two runs expect a violation, each of what the code or its documents say.

- `browser_overlap`: "a 401/403 from refresh is a genuine logout"
  (`api-client.ts:102`). Every call that gets a 401 refreshes on its own; of two
  with one cookie the second counts as a replay, its family is revoked and the
  user is logged out.
- `undo`: the toast's Undo restores the year and note (`CountryPanel.tsx:39`).
  Toasts collapse by their text (`toast-store.ts:42`), so a country removed again
  while the toast of its first removal is up keeps that toast, and Undo restores
  the older details.

The other disagreements are definitions beside the properties. Naming one as an
INVARIANT in the configuration of its module gives the counterexample.

| Definition | What the repository says | What the code does |
| --- | --- | --- |
| `Groups.MemberLimitHolds` | a group holds at most 50 (`group.schema.ts:6`) | count and insert are two statements; overlapping inserts exceed it |
| `ProfileCache.ReadersSeeChanges` | readers see changes immediately (`profile-cache.service.ts:14`) | a reader stores an old snapshot after the DEL |
| `RateLimit.ExpirySet` | the expiry is set when the window opens (`rate-limit.service.ts:14`) | a second call sets it, and may never come |
| `MagicLink.SingleUse` | single-use (`auth.service.ts:128`) | two clicks that both read the row before either consumes it each open a session |
| `MapView.ModeLasts` | without storage the mode lasts until reload (`map-mode.ts:37`) | a visit to another page mounts the map anew, and the mode is read from the storage that is not there |
| `MapCanvas.ControlReflectsMap` | the control toggles the projection (`docs/tasks/08-ux-improvements.md:21`), now or on load (`MapCanvas.tsx:156`) | `isStyleLoaded()` is false also while a loaded map is busy, and then nothing applies it |

Others have no definition of their own but appear as the exception a property
makes:

- An error of the database in a refresh clears the cookies as a 401 does
  (`disturbed` in BrowserSession).
- A logout whose access cookie has expired does not know the session and revokes
  nothing (`session = "left"`).
- A browser that blocks storage is painted dark at any hour and then follows the
  clock (`NoFlash`).
- A rename that falls between the lookup and the write of another mutation lets
  that mutation delete the old username's entry and leave the new one's
  (`renamed` in ProfileCache).
- Claiming the first username neither busts the page of that username nor
  refetches `me` when a fetch was under way (`PagesFreshOrExplained`,
  `MeExplained`).
- A form that was mounted before the profile changed elsewhere sends the old
  value back (`form.drifted`); so does the rename form of a group
  (`editor.drifted`).
- The answer of a group's change that arrives last wins, not the newest
  (`GroupExplained`).

## Fairness

Users, clocks and failures are under no obligation anywhere.

- `BrowserSession`: weak fairness of each call's own steps and of each handler's
  steps and answer. Event loop and server run on; a step that is enabled is
  eventually taken. A crash counts as an answer that never comes: the browser sees
  the connection close. `SendRefresh` is strongly fair, because handler slots are
  few in the model only: a call that waits for one gets it some time.
- `ProfileCache`: Redis expires an entry with a time to live. Nothing else is
  needed: staleness ends without the help of readers or writers.
- `RateLimit`: Redis expires a key with a time to live, and a call that opened a
  window sets the expiry or fails. Nobody has to send requests.
- `MagicLink`: a handler that runs goes on until it answers or is lost, and an
  answer is shown.
- `Visits`: a request reads or writes, and then ends with an answer or an error.

## What is proved

Proofs hold for every number of users, groups, tokens, links, tabs, requests,
countries and shapes, under the named assumptions of the modules: `None` and its
like are no other constant, limits are positive, bounds are numbers, some
constants are subsets of others, and users, groups, tabs, links, requests and
countries are finitely many where something is counted.

`GroupsProofs` shows `Spec => []IInv`. None of the invariants that matter is
inductive: a delete is safe because of what its handler checked two statements
ago, and that must still be true. `IInv` therefore joins `TypeOK`, `RowsOK`,
`OwnerIsMember` and `MembersHaveHandles` with `HandlersOK`: what each handler in
flight has read and still relies on. The proof separates the two ways that could
break. `KnowledgeStable`: no write of another handler falsifies it, because
owners of a live group do not change, ids and codes are not reused and usernames
are never given back (`Evolves`). `HandlersStable` with one lemma per kind of
step: the handler's own step establishes what its next statement needs.
`RetiredInviteNeverAdmits` and `HandlersOK` follow at once. `MemberOvershoot` is a
counting argument on top: with `n` members and `k` handlers between count and
insert, `n + k <= MemberLimit + N - 1`, since a handler passes the count only
while `n < MemberLimit` and the others can be at most `N - 1` then. `Overshoot`
does the same for the groups a user owns and joins both to `OvershootBounded`.

The two action properties, `OnlyOwnerOrSelfRemoves` and `OnlyOwnerManages`, come
from `IInv` as well: the handler that is about to write knows the owner, and the
owner of a live group never changes between its check and its write. Steps that
only read or only insert are shown harmless once (`HarmlessSteps`,
`InsertsHarmless`); the rest is one lemma per write.

`SessionsProofs` shows `TypeOK` with `Sound`: for every handler, which of its two
writes are done and what therefore is in the table. From it
`AnswerAfterRotation` is immediate and `EndedStaysEnded` is an argument per step:
rows only gain `revoked`; the one step that adds a live row is `RotateCreate`,
and its handler is in `Rotating`, so the family had not ended.

The second half of the module composes this with the browser. `Refines` shows that every step of
BrowserSession is a step of Sessions or leaves the API alone, so the invariant of
the handlers holds here without a second proof (`BrowserIsClient`: BrowserSession
implements Sessions). `Extra` says what one jar adds:
handlers and cookies belong to the session of the last sign-in (`AllOurs`); every
waiting call has a handler of its own (`CallsWait`); while nothing is disturbed
one refresh at a time is under way, and a call waits for it (`OneRefresh`), no
token but its two is live (`LiveOnes`), and the good one is in the jar or on its
way there (`OpenGood`); a logout that is alone revokes everything (`LogoutAlone`)
and what is still under way afterwards can do no harm (`LoggedOut`). `BrowserInv`,
`OneLiveToken` and `LogoutEnds` are consequences, for any number of sign-ins,
where the run has one.

`RateLimitProofs` shows `IInv`, in which `Openings` says that a window has one
opening call at most and `Shares` that the share of that call is set aside until
it decides. `Budget` and the refinement follow: under the mapping, INCR is
`Take`, a decision is `Admit`, the expiry is the new window, and every other step
stutters.

`SignInProofs` shows, of MagicLink, the types, what handlers have read, and
`OneClick`: as
long as no two clicks found a link unconsumed, one of them at most is between its
lookup and its session. That gives `ReuseNeedsRace` and `DeadLinksStayDead`.
Then come the mails: the links mailed on a budget and the requests
that have passed it and not mailed yet are together covered by what was taken, in
this window and in those that are over (`Covered`), and an answer of 200 stands
for a mail or for the service's own budget (`InboxOK`). `MagicInv` follows.

Of GoogleSignIn it shows `GoogleInv`. A flow that is about to open a session
has the owner of its account (`FlowsOK`), whichever callback wrote the row, since
the row is written once and a callback that loses answers 500; a tab at Google has
its state in the cookie or has lost it (`ConsentOK`).

`ProfileCacheProofs` shows `CacheInv` (`StaleIsExplained`) for every number of
readers and writers, whatever overlaps and whatever fails. `StaleExplained` alone
is not inductive: a mutation must not write under a username it will not delete.
The invariant therefore adds what each mutation knows (`WritersOK`): until it
writes it will delete the username it looked up. So its write is visible under
that username, or the entry it will miss is marked `renamed`; from then on
`StaleExplained` itself says that what it will delete does not change.

`VisitsProofs` shows `VisitsInv` and `Reconciled`. No snapshot and no
answer is compared with anything when it overwrites the list; that the page ends
up right rests on every settled mutation starting a fetch anew. So the invariant
follows the fetch: one that may overwrite a change in flight is known to that
change (`FetchDisturbs`), what it has read is current once no mutation is in
flight (`FetchCurrent`), and then so is the list (`Settled`).

`PagesProofs` is about the pages that ask the API. It begins with QueryCache:
whatever is fetched, every call of the library keeps a query a query
(`QueriesClosed`), and a query is *faithful* to an answer `A` when what it shows
unmarked, and what is on its way to it unmarked, is in `A` (`FaithfulKept`). The
three components then say from when to when a query need not be faithful.

- Follows (`FollowsSound`): a request makes the profile it is about and the
  lists wrong until it settles, and settling marks them all. So
  `ViewsFaithful` speaks of the queries no request in flight has yet to settle,
  and `CleanQuiet` keeps fetches out of the way of a request nothing overlapped.
- GroupPages (`GroupPagesSound`, `RenamesTyped`): while `why.group` is FALSE at
  most one request or fetch is about the group, so what it has read or was
  answered is the group as it is (`GroupKnown`); the list is out of step only with
  a change that was made and not yet heard of (`MineKnown`); the rename form holds
  the name on screen until the user types or the name changes (`EditorKnown`).
- ProfilePages (`ProfilePagesSound`, `PatchSendsTyped`): a page that is kept, or
  under way, is right or marked, except between a change of the profile and the
  bust of that page (`SiteKnown`, `AwaitsBust`); `me` is out of step only with an
  answer on its way (`MeKnown`); a field left alone holds what the form compares
  it with (`FormKnown`), which is why a save sends nothing else.

`ScreensProofs` is about what the client computes on its own.

- CountryPanel, ProfileList: the types suffice, and counting does the rest.
  `FoldAllSound` is an action property: it holds from any set of folded regions.
- GroupStats (`StatsSound`): every country of a group is one member's own or has
  several visitors, and lies on one continent; the sums follow from `DisjointSum`:
  sets with nothing in common have as many elements as they have together. That
  is induction over a finite set, done by a smallest counterexample
  (`SmallestSet`), because the library's induction theorems cannot be
  instantiated here. `SortedIs` counts the elements before each one and shows
  that everybody gets a number of their own, so leaderboard and popular countries
  are complete and in order. The proof found a condition the runs could not:
  the percentage tells all countries from all but one only while there are fewer
  than 2000 of them (`StatsPrecision`; the list has 249).
- Theme (`ThemeSound`): `ThemeIInv` says of every tab that its timer and its
  override end at the same next switch (`TabSane`); of a tab that may rely on the
  storage, that it is the theme of the hour until its timer is due (`TabTimely`)
  and that its override and the stored one are the same (`TabBacked`). Which
  tabs may rely on it, `writer` says: two tabs that choose in turn do not agree,
  and the code does not claim that they do. The arithmetic is that hours count on
  and begin anew (`NextHour`) and that the hour's theme stays until the next
  switch (`UntilSwitch`).
- MapView over MapCanvas (`MapSound`, `CanvasTrue`, `LightTrue`): what the page
  adds is that the props of the user's own map are those the queries and the store
  say (`PropsOK`); what the map adds is what holds before its style has loaded
  (`BeforeLoad`).

The runs `pages` and `lists` check the same modules side by side; the theorems are
about each module's own specification (`FollowsSpec`, `PagesSpec`,
`ProfilePagesSpec`, `PanelSpec`, `ListSpec`, `StatsSpec`, `ThemeSpec`, `MapSpec`),
which those runs interleave with nothing else.

Only model-checked: liveness (`StaleGoes`, `Renewed`, `PageAnswers`, `CallsReturn`,
`EventuallyReconciled`), because this prover has no rules for fairness.

## Abstractions

- An answer is lost only after its handler has run, or the request never reached
  it; a request that is half-sent is the second.
- A public profile is read from Postgres in one step. In the code it is one
  `findFirst` that includes visits and counts; where Prisma makes several queries
  of it, the oldest of them decides the version.
- The service's cache of profiles (ProfileCache) and Next's cache of pages
  (ProfilePages) are separate modules: in ProfilePages the API answers with what
  Postgres has. What passes from the first to the second is at most as old as
  `StaleGoes` allows.
- A user saves one profile form at a time, as the buttons allow in one tab;
  another tab is a change elsewhere.
- The local clock does not jump: no daylight saving.
- A browser that refuses `window.sessionStorage` itself: the map's effects read it
  outside the `try` of the helpers (`MapCanvas.tsx:161`, `:340`) and would throw.
  The storage that is modelled takes nothing and returns nothing.
- Random values (tokens, codes, state) never repeat; hashes are the values.
- Names of countries sort as their codes do.

## Not modelled

- Daylight and the drawing of maps and share images: floating-point geometry
  without state; what the model has of them is that the night layer is there.
- The map's tooltip, camera and the flight to a country: they only read. This is
  why the map canvas is listed as partly modelled.
- Page layout, styles, icons: rendering of what the caches hold.
- Server bootstrap, configuration, CSRF guard and mail transport: wiring and I/O.
- Generated data, the seed, geographic scripts and deployment: static, run once.
- Reads of the API that change nothing: a user's groups, an invite's preview,
  follow lists and the search of travellers.

## What could come next

An atomic specification of groups, one step per request, that Groups implements
but for the two limits; ProfilePages over ProfileCache with both caches in one
behaviour.
