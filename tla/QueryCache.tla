----------------------------- MODULE QueryCache -----------------------------
(***************************************************************************)
(* One query of TanStack Query v5, as the hooks of apps/web use it.  The   *)
(* library is not part of the repository: this is what its calls do to the *)
(* data of a query, whether the data counts as outdated, and the request   *)
(* that fetches it.                                                        *)
(*                                                                         *)
(* late and lapsed are history: the request was under way when the query   *)
(* was invalidated and was not started again; the data came from such a    *)
(* request.                                                                *)
(***************************************************************************)
CONSTANT Absent    \* no data

NoFetch == [on |-> FALSE, read |-> Absent, before |-> Absent, late |-> FALSE]

NewQuery == [data |-> Absent, outdated |-> FALSE, lapsed |-> FALSE, fetch |-> NoFetch]

\* A fetch under way is joined.
Begin(q) ==
    IF q.fetch.on THEN q
    ELSE [q EXCEPT !.fetch = [on |-> TRUE, read |-> Absent, late |-> FALSE,
                              before |-> [data |-> q.data, outdated |-> q.outdated]]]

\* refetchOnMount fetches what there is nothing to show for or is outdated;
\* anything else once staleTime is over.
MustFetch(q) == q.data = Absent \/ q.outdated

\* cancelQueries: back to the state before the fetch.
CancelQuery(q) ==
    IF q.fetch.on
    THEN [q EXCEPT !.data = q.fetch.before.data, !.outdated = q.fetch.before.outdated,
                   !.fetch = NoFetch]
    ELSE q

\* setQueryData ignores undefined.
SetQueryData(q, data) ==
    IF data = Absent THEN q ELSE [q EXCEPT !.data = data, !.outdated = FALSE]

\* invalidateQueries: a query on screen is fetched anew, but a first fetch
\* under way is joined; any other is fetched when it is mounted.
Invalidate(q, active) ==
    IF active /\ ~(q.fetch.on /\ q.data = Absent)
    THEN Begin([q EXCEPT !.outdated = TRUE, !.fetch = NoFetch])
    ELSE [q EXCEPT !.outdated = TRUE, !.fetch.late = q.fetch.on]

\* The server reads the answer; it arrives; or the request has failed for good.
ServerReads(q, answer) == [q EXCEPT !.fetch.read = answer]
CanLand(q) == q.fetch.on /\ q.fetch.read # Absent
Landed(q) ==
    [data |-> q.fetch.read, outdated |-> FALSE, lapsed |-> q.fetch.late, fetch |-> NoFetch]
FetchFailed(q) == [q EXCEPT !.outdated = TRUE, !.fetch = NoFetch]
=============================================================================
