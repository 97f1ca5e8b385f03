---------------------------- MODULE CountryStats ----------------------------
(***************************************************************************)
(* The arithmetic on visited countries: a traveller's statistics, computed *)
(* once in the API (stats.logic.ts) and once in the web client             *)
(* (lib/stats.ts), those of a group (group-stats.logic.ts), and the lists  *)
(* of countries the client shows (country-filter.ts, country-list.ts).     *)
(*                                                                         *)
(* A country is its rank by code, which is its rank by name, too.          *)
(* Percentages and averages are in tenths.                                 *)
(***************************************************************************)
EXTENDS Integers, FiniteSets, Sequences, Functions

CONSTANTS
    Countries,      \* the canonical list
    ContinentOf,    \* the continent of each
    Continents,     \* the continents, in canonical order
    PopularLimit    \* GROUP_POPULAR_LIMIT

ASSUME StatsCountries == Countries \subseteq Nat /\ IsFiniteSet(Countries) /\ Countries # {}
ASSUME StatsContinents ==
    /\ IsFiniteSet(DOMAIN Continents)
    /\ ContinentOf \in [Countries -> {Continents[i] : i \in DOMAIN Continents}]
ASSUME StatsLimit == PopularLimit \in Nat
\* One decimal of a percentage tells all countries from all but one.
ASSUME StatsPrecision == Cardinality(Countries) < 2000

\* Math.round(10 * a / b)
Tenths(a, b) == (20 * a + b) \div (2 * b)

On(codes, continent) == {c \in codes \cap Countries : ContinentOf[c] = continent}

\* stats.logic.ts: codes that are not on the list do not count.
ComputeCountryStats(codes) ==
    LET valid == codes \cap Countries IN
    [countryCount |-> Cardinality(valid),
     worldPercent |-> Tenths(100 * Cardinality(valid), Cardinality(Countries)),
     continents |-> [k \in {Continents[i] : i \in DOMAIN Continents} |->
        [visited |-> Cardinality(On(valid, k)), total |-> Cardinality(On(Countries, k))]]]

\* lib/stats.ts: the same, for the owner's own map.
ComputeStats(codes) ==
    LET valid == codes \cap Countries IN
    [visited |-> Cardinality(valid),
     total |-> Cardinality(Countries),
     percent |-> Tenths(100 * Cardinality(valid), Cardinality(Countries)),
     continents |-> [i \in DOMAIN Continents |->
        [continent |-> Continents[i],
         visited |-> Cardinality(On(valid, Continents[i])),
         total |-> Cardinality(On(Countries, Continents[i]))]]]

\* profile/format.ts: the API's statistics in the client's shape.
StatsToWorldStats(stats) ==
    [visited |-> stats.countryCount,
     total |-> Cardinality(Countries),
     percent |-> stats.worldPercent,
     continents |-> [i \in DOMAIN Continents |->
        [continent |-> Continents[i],
         visited |-> stats.continents[Continents[i]].visited,
         total |-> stats.continents[Continents[i]].total]]]

-----------------------------------------------------------------------------
\* group-stats.logic.ts.  map holds the codes of every member; members are
\* ranked by username.

Visitors(map, c) == Cardinality({m \in DOMAIN map : c \in map[m]})
Union(map) == UNION {map[m] \cap Countries : m \in DOMAIN map}

SharedCodes(map) ==
    IF Cardinality(DOMAIN map) < 2 THEN {}
    ELSE {c \in Union(map) : Visitors(map, c) = Cardinality(DOMAIN map)}

\* The elements of S as before, a set of pairs, orders them.
SortedBy(S, before) ==
    [i \in 1..Cardinality(S) |->
        CHOOSE x \in S : Cardinality({y \in S : <<y, x>> \in before}) = i - 1]

\* Two visitors at least, most visitors first, then by code.
Several(map) == {c \in Union(map) : Visitors(map, c) >= 2}
MoreVisited(map) ==
    {p \in Countries \X Countries :
        \/ Visitors(map, p[1]) > Visitors(map, p[2])
        \/ Visitors(map, p[1]) = Visitors(map, p[2]) /\ p[1] < p[2]}
\* Mutant: the cut comes before the sort.
Popular_CutFirst(map) ==
    SortedBy({c \in Several(map) : Cardinality({d \in Several(map) : d < c}) < PopularLimit},
             MoreVisited(map))
Popular(map) ==
    LET sorted == SortedBy(Several(map), MoreVisited(map))
    IN SubSeq(sorted, 1, IF Len(sorted) < PopularLimit THEN Len(sorted) ELSE PopularLimit)

UniqueCount(map, m) == Cardinality({c \in map[m] \cap Countries : Visitors(map, c) = 1})

\* Most countries first, then by username.
Travelled(map, m) == Cardinality(map[m] \cap Countries)
MoreTravelled(map) ==
    {p \in (DOMAIN map) \X (DOMAIN map) :
        \/ Travelled(map, p[1]) > Travelled(map, p[2])
        \/ Travelled(map, p[1]) = Travelled(map, p[2]) /\ p[1] < p[2]}
Leaderboard(map) == SortedBy(DOMAIN map, MoreTravelled(map))

ComputeGroupStats(map) ==
    LET visits == SumFunction([m \in DOMAIN map |-> Travelled(map, m)])
        whole == ComputeCountryStats(Union(map))
    IN [countryCount |-> whole.countryCount,
        worldPercent |-> whole.worldPercent,
        continents |-> whole.continents,
        averageCount |-> IF DOMAIN map = {} THEN 0 ELSE Tenths(visits, Cardinality(DOMAIN map)),
        countryCodes |-> Union(map),
        sharedCodes |-> SharedCodes(map),
        popular |-> Popular(map),
        members |-> Leaderboard(map)]

-----------------------------------------------------------------------------
\* country-filter.ts.  A query is what it matches: All for a blank one.

FilterByStatus(codes, visited, status) ==
    CASE status = "all" -> codes
      [] status = "visited" -> codes \cap visited
      [] status = "unvisited" -> codes \ visited

\* The continents that are not empty and the countries of each; their order is
\* layout.
GroupByContinent(codes) ==
    LET listed == {Continents[i] : i \in DOMAIN Continents}
    IN [k \in {k \in listed : On(codes, k) # {}} |-> On(codes, k)]

\* country-list.ts: without the viewer's own codes only "all" makes sense.
ProfileCounts(theirs, mine, unknown) ==
    [all |-> Cardinality(theirs \cap Countries),
     shared |-> IF unknown THEN 0 ELSE Cardinality(theirs \cap Countries \cap mine),
     new |-> IF unknown THEN 0 ELSE Cardinality((theirs \cap Countries) \ mine)]
ProfilePicked(theirs, mine, unknown, filter) ==
    CASE filter = "all" -> theirs \cap Countries
      [] filter = "shared" -> IF unknown THEN {} ELSE theirs \cap Countries \cap mine
      [] filter = "new" -> IF unknown THEN {} ELSE (theirs \cap Countries) \ mine
=============================================================================
