------------------------------- MODULE Visits -------------------------------
(***************************************************************************)
(* The visits of the signed-in user on the map page: the list the query    *)
(* cache holds (apps/web/lib/visits), the clicks of the country panel and  *)
(* the detail sheet that change it before the server answers, the refetch  *)
(* that reconciles it, and the Undo a removal leaves in the toasts.        *)
(*                                                                         *)
(* A list maps a country to its details (year and note), or to None where  *)
(* it is not visited.  Requests in flight reach the server in any order.   *)
(***************************************************************************)
EXTENDS Naturals, Sequences, FiniteSets

CONSTANTS
    Codes,      \* countries
    Details,    \* years and notes a visit may carry
    Plain,      \* neither year nor note: what a tick stores
    Slots,      \* mutations in flight at a time
    MaxToasts,  \* MAX_TOASTS
    MaxMade,    \* bounds the model: mutations made
    Starts,     \* lists the user may have at first
    None,       \* not visited; no query running; no mutation; no Undo
    Absent      \* no list has been fetched yet

ASSUME VisitsPlain == Plain \in Details
ASSUME VisitsStarts == Starts \subseteq [Codes -> Details \cup {None}]
ASSUME VisitsToasts == MaxToasts \in Nat /\ MaxToasts > 1   \* slice(-0) would keep all
ASSUME VisitsMade == MaxMade \in Nat

VARIABLES
    me,      \* what useMe knows: "loading", "in" or "out"
    server,  \* the user's rows in Postgres
    cache,   \* the query's data
    fetch,   \* its request: the rows read and the data to revert to
    stale,   \* history: the last refetch failed
    ops,     \* mutations in flight
    toasts,  \* the visible toasts, oldest first
    made     \* mutations made so far

vars == <<me, server, cache, fetch, stale, ops, toasts, made>>

Lists == [Codes -> Details \cup {None}]
Fetches == [read: Lists \cup {Absent}, revert: Lists \cup {Absent}]
Empty == [c \in Codes |-> None]

\* clean is history: no fetch, rollback or newer change of the country came
\* since.
Mutations == [code: Codes, details: Details \cup {None}, applied: BOOLEAN,
              previous: Lists \cup {Absent}, clean: BOOLEAN]
Toasts == {t \in [msg: Codes \cup {"error"}, undo: Details \cup {None}] :
              t.undo # None => t.msg \in Codes}

ASSUME VisitsNone == /\ None \notin Details \cup Fetches \cup Mutations
                     /\ Absent \notin Lists

InFlight == {m \in Slots : ops[m] # None}

\* "Capped so a runaway error loop can't fill the screen", and no message twice.
ToastsOK ==
    /\ toasts \in Seq(Toasts)
    /\ Len(toasts) <= MaxToasts
    /\ \A i, j \in DOMAIN toasts : toasts[i].msg = toasts[j].msg => i = j

TypeOK ==
    /\ me \in {"loading", "in", "out"}
    /\ server \in Lists
    /\ cache \in Lists \cup {Absent}
    /\ fetch \in Fetches \cup {None}
    /\ stale \in BOOLEAN
    /\ ops \in [Slots -> Mutations \cup {None}]
    /\ ToastsOK
    /\ me # "in" => cache = Absent /\ fetch = None
    /\ made \in 0..MaxMade

Init ==
    /\ me = "loading"
    /\ server \in Starts
    /\ cache = Absent
    /\ fetch = None
    /\ stale = FALSE
    /\ ops = [m \in Slots |-> None]
    /\ toasts = <<>>
    /\ made = 0

-----------------------------------------------------------------------------
\* TanStack Query, as the hooks use it.

\* cancelQueries: the state goes back to what it was when the fetch began.
CancelQueries == IF fetch = None THEN cache ELSE fetch.revert

\* setQueryData ignores undefined.
SetQueryData(data) == IF data = Absent THEN cache ELSE data

StartFetch(data) == [read |-> Absent, revert |-> data]

\* Mutant: a refetch under way is joined, not cancelled.
InvalidateQueries_Joins(data) == IF fetch # None THEN fetch ELSE StartFetch(data)
\* invalidateQueries: a new fetch replaces one under way, unless there is no
\* data yet.
InvalidateQueries(data) ==
    IF fetch # None /\ data = Absent THEN fetch ELSE StartFetch(data)

\* A fetch that starts will overwrite what is in flight.
Disturb(o, which) == [m \in Slots |-> IF o[m] # None /\ which[m]
                                      THEN [o[m] EXCEPT !.clean = FALSE] ELSE o[m]]

-----------------------------------------------------------------------------
\* visits-cache.ts

Base(list) == IF list = Absent THEN Empty ELSE list
ApplyUpsert(list, c, d) == [Base(list) EXCEPT ![c] = d]
ApplyDelete(list, c) == [Base(list) EXCEPT ![c] = None]
FindVisit(list, c) == Base(list)[c]

\* What the panel and the sheet show: nothing while logged out.
Visible(c) == IF me = "in" THEN FindVisit(cache, c) ELSE None

-----------------------------------------------------------------------------
\* toast-store.ts

\* A message that is still visible is not raised again: the older toast stays,
\* with its own action.
PushToast(ts, t) ==
    IF \E i \in DOMAIN ts : ts[i].msg = t.msg THEN ts
    ELSE Append(SubSeq(ts, IF Len(ts) < MaxToasts THEN 1 ELSE Len(ts) - MaxToasts + 2,
                       Len(ts)), t)
Without(ts, i) == SubSeq(ts, 1, i - 1) \o SubSeq(ts, i + 1, Len(ts))
ErrorToast == [msg |-> "error", undo |-> None]

\* The five seconds are over, or the user closes it.
DismissToast(i) ==
    /\ toasts' = Without(toasts, i)
    /\ UNCHANGED <<me, server, cache, fetch, stale, ops, made>>

-----------------------------------------------------------------------------
\* use-visits.ts

\* useMe answers; useVisitsQuery is enabled by a user.
MeAnswers ==
    /\ me = "loading"
    /\ \/ me' = "in" /\ fetch' = StartFetch(cache)
       \/ me' = "out" /\ fetch' = fetch
    /\ UNCHANGED <<server, cache, stale, ops, toasts, made>>

\* Mutant: the queries are not cancelled.
Mutate_NoCancel(m, c, d) ==
    /\ me = "in" /\ ops[m] = None /\ made < MaxMade
    /\ made' = made + 1
    /\ cache' = [Base(cache) EXCEPT ![c] = d]
    /\ ops' = [Disturb(ops, [n \in Slots |-> n \in InFlight /\ ops[n].code = c])
               EXCEPT ![m] = [code |-> c, details |-> d, applied |-> FALSE,
                              previous |-> cache, clean |-> TRUE]]
    /\ UNCHANGED <<me, server, stale, fetch>>
\* onMutate of both mutations; a deletion's details are None.
Mutate(m, c, d) ==
    /\ me = "in" /\ ops[m] = None /\ made < MaxMade
    /\ made' = made + 1
    /\ fetch' = None
    /\ cache' = IF d = None THEN ApplyDelete(CancelQueries, c)
                            ELSE ApplyUpsert(CancelQueries, c, d)
    /\ ops' = [Disturb(ops, [n \in Slots |-> n \in InFlight /\ ops[n].code = c])
               EXCEPT ![m] = [code |-> c, details |-> d, applied |-> FALSE,
                              previous |-> CancelQueries, clean |-> TRUE]]
    /\ UNCHANGED <<me, server, stale>>

\* VisitsService.upsert and remove, behind the write budget.
ServerWrites(m) ==
    /\ ops[m] # None /\ ~ops[m].applied
    /\ server' = [server EXCEPT ![ops[m].code] = ops[m].details]
    /\ ops' = [ops EXCEPT ![m].applied = TRUE]
    /\ UNCHANGED <<me, cache, fetch, stale, toasts, made>>

\* Mutant: only a failure reconciles.
Settle_NoInvalidate(m, data, failed) ==
    /\ cache' = data
    /\ fetch' = IF failed THEN InvalidateQueries(data) ELSE fetch
    /\ ops' = Disturb([ops EXCEPT ![m] = None], [n \in Slots |-> TRUE])
    /\ UNCHANGED <<me, server, stale, made>>
\* onSettled.
Settle(m, data, failed) ==
    /\ cache' = data
    /\ fetch' = InvalidateQueries(data)
    /\ ops' = Disturb([ops EXCEPT ![m] = None], [n \in Slots |-> TRUE])
    /\ UNCHANGED <<me, server, stale, made>>

Succeed(m) ==
    /\ ops[m] # None /\ ops[m].applied
    /\ Settle(m, cache, FALSE)
    /\ UNCHANGED toasts

\* onError: a refusal before the write, or an answer lost after it.
Fail(m) ==
    /\ ops[m] # None
    /\ Settle(m, SetQueryData(ops[m].previous), TRUE)
    /\ toasts' = PushToast(toasts, ErrorToast)

\* The server reads the list for the query.
FetchReads ==
    /\ fetch # None /\ fetch.read = Absent
    /\ fetch' = [fetch EXCEPT !.read = server]
    /\ UNCHANGED <<me, server, cache, stale, ops, toasts, made>>

FetchLands ==
    /\ fetch # None /\ fetch.read # Absent
    /\ cache' = fetch.read
    /\ fetch' = None
    /\ stale' = FALSE
    /\ UNCHANGED <<me, server, ops, toasts, made>>

\* Both attempts failed (retry: 1): the data stays.
FetchFails ==
    /\ fetch # None
    /\ fetch' = None
    /\ stale' = TRUE
    /\ UNCHANGED <<me, server, cache, ops, toasts, made>>

\* The page is mounted again after staleTime, or the network is back.
Refetch ==
    /\ me = "in" /\ fetch = None
    /\ fetch' = StartFetch(cache)
    /\ ops' = Disturb(ops, [n \in Slots |-> TRUE])
    /\ UNCHANGED <<me, server, cache, stale, toasts, made>>

-----------------------------------------------------------------------------
\* What the user clicks.

\* useUpsertVisit and useDeleteVisit.
UpsertVisit(m, c, d) == Mutate(m, c, d)
DeleteVisit(m, c) == Mutate(m, c, None)

\* useMapVisits.toggle: a tick stores no details.
Toggle(m, c) ==
    IF Visible(c) = None THEN UpsertVisit(m, c, Plain) ELSE DeleteVisit(m, c)

\* The checkbox of a row: a removal offers Undo.
RowToggle(m, c) ==
    /\ Toggle(m, c)
    /\ toasts' = IF Visible(c) = None THEN toasts
                 ELSE PushToast(toasts, [msg |-> c, undo |-> Visible(c)])

\* The form of the sheet, whatever year and note it holds.
SheetSave(m, c, d) == UpsertVisit(m, c, d) /\ UNCHANGED toasts

\* "Remove from visited" on the sheet offers no Undo.
SheetUnmark(m, c) == Visible(c) # None /\ DeleteVisit(m, c) /\ UNCHANGED toasts

\* The action of a toast: the save of handleToggle's closure.
Undo(m, i) ==
    /\ toasts[i].undo # None
    /\ UpsertVisit(m, toasts[i].msg, toasts[i].undo)
    /\ toasts' = Without(toasts, i)

Next ==
    \/ MeAnswers \/ FetchReads \/ FetchLands \/ FetchFails \/ Refetch
    \/ \E i \in DOMAIN toasts : DismissToast(i)
    \/ \E m \in Slots :
        \/ ServerWrites(m) \/ Succeed(m) \/ Fail(m)
        \/ \E c \in Codes : RowToggle(m, c) \/ SheetUnmark(m, c)
        \/ \E c \in Codes, d \in Details : SheetSave(m, c, d)
        \/ \E i \in DOMAIN toasts : Undo(m, i)

Spec == Init /\ [][Next]_vars

\* Requests end, with an answer or an error; nobody has to click.
FairSpec ==
    /\ Spec
    /\ WF_vars(FetchReads) /\ WF_vars(FetchLands \/ FetchFails)
    /\ \A m \in Slots : WF_vars(ServerWrites(m)) /\ WF_vars(Succeed(m) \/ Fail(m))

-----------------------------------------------------------------------------
\* Correctness.

Quiet == InFlight = {} /\ fetch = None

\* "roll back on error, and reconcile with the server on settle"
\* (use-visits.ts:36): once nothing is under way the page shows what the
\* server has, however writes, rollbacks and refetches interleaved, unless
\* the last refetch failed.
Reconciled == Quiet /\ ~stale /\ cache # Absent => cache = server

\* Cancelling a refetch never changes what the user sees: the data has not
\* changed since the fetch began.
CancelKeepsList == fetch # None => fetch.revert = cache

\* "the map/panel recolor instantly": a change is visible until it settles,
\* unless a fetch, a rollback or a newer change of the country came after it.
OptimisticShown ==
    \A m \in InFlight : ops[m].clean => FindVisit(cache, ops[m].code) = ops[m].details

\* What the page shows while changes are under way.
VisitsInv == TypeOK /\ CancelKeepsList /\ OptimisticShown

\* Whatever the user does, the page ends up with what the server has, or with
\* a refetch that failed.
EventuallyReconciled ==
    (cache # server /\ me = "in") ~> (cache = server \/ stale)

-----------------------------------------------------------------------------
\* What the panel says of Undo and a toast that collapses breaks.

\* CountryPanel.tsx:39, "Unmarking offers an Undo that restores the year and
\* note": after a row is unticked, a toast is there whose Undo holds the
\* details that this click removed.
UndoRestores ==
    [][\A m \in Slots, c \in Codes :
          RowToggle(m, c) /\ Visible(c) # None =>
              \E i \in DOMAIN toasts' : toasts'[i] = [msg |-> c, undo |-> Visible(c)]]_vars
=============================================================================
