----------------------------- MODULE GroupStats -----------------------------
(***************************************************************************)
(* The page of a group (GroupScreen.tsx) over the statistics of its        *)
(* members' maps: members come and go and mark countries, and the viewer   *)
(* picks a member whose countries the map lights up.                       *)
(*                                                                         *)
(* The page shows one answer of the API at a time; the model takes the     *)
(* next one as soon as something changes.  When it does is module          *)
(* GroupPages.                                                             *)
(***************************************************************************)
EXTENDS CountryStats

CONSTANTS
    Joiners,       \* who may be in the group, ranked by username
    Founder,       \* its owner
    Codes,         \* what Postgres may hold: countries, and codes no longer listed
    MapsBefore,    \* the maps the joiners may have at first
    MaxChanges,    \* bounds the model: marks, joins and departures
    NobodyFocused

ASSUME StatsFounder == Joiners \subseteq Nat /\ IsFiniteSet(Joiners) /\ Founder \in Joiners
ASSUME StatsCodes == Codes \subseteq Nat /\ Countries \subseteq Codes
ASSUME StatsBefore == MapsBefore \subseteq [Joiners -> SUBSET Codes] /\ MaxChanges \in Nat
ASSUME StatsNobody == NobodyFocused \notin Joiners

VARIABLES
    maps,     \* the countries of every traveller
    joined,   \* the members of the group
    focused,  \* GroupView: whom the map shows
    changes   \* changes so far

statsVars == <<maps, joined, focused, changes>>

GroupStatsTypeOK ==
    /\ maps \in [Joiners -> SUBSET Codes]
    /\ joined \in SUBSET Joiners /\ Founder \in joined
    /\ focused \in Joiners \cup {NobodyFocused}
    /\ changes \in 0..MaxChanges

StatsInit ==
    /\ maps \in MapsBefore
    /\ joined = {Founder}
    /\ focused = NobodyFocused
    /\ changes = 0

\* What GET /groups/:id reads: the maps of the members.
Members(in, of) == [m \in in |-> of[m]]
ShownMaps == Members(joined, maps)

Count == changes < MaxChanges /\ changes' = changes + 1

MarkCountry(m, c) ==
    /\ Count /\ c \in Countries \ maps[m]
    /\ maps' = [maps EXCEPT ![m] = @ \cup {c}]
    /\ UNCHANGED <<joined, focused>>
UnmarkCountry(m, c) ==
    /\ Count /\ c \in maps[m] \cap Countries
    /\ maps' = [maps EXCEPT ![m] = @ \ {c}]
    /\ UNCHANGED <<joined, focused>>
JoinGroup(m) ==
    /\ Count /\ m \notin joined
    /\ joined' = joined \cup {m}
    /\ UNCHANGED <<maps, focused>>
LeaveGroup(m) ==
    /\ Count /\ m \in joined /\ m # Founder
    /\ joined' = joined \ {m}
    /\ UNCHANGED <<maps, focused>>

\* Leaderboard and MemberRow: a click on who is in focus ends it.
Focus(m) ==
    /\ m \in joined
    /\ focused' = IF focused = m THEN NobodyFocused ELSE m
    /\ UNCHANGED <<maps, joined, changes>>
\* The legend's button, there whenever somebody was picked.
Unfocus ==
    /\ focused # NobodyFocused
    /\ focused' = NobodyFocused
    /\ UNCHANGED <<maps, joined, changes>>

StatsNext ==
    \/ Unfocus
    \/ \E m \in Joiners : JoinGroup(m) \/ LeaveGroup(m) \/ Focus(m)
    \/ \E m \in Joiners, c \in Countries : MarkCountry(m, c) \/ UnmarkCountry(m, c)

StatsSpec == StatsInit /\ [][StatsNext]_statsVars

\* groups/format.ts: a member who is gone is not lit.
GroupMapLayers(group, shown, who) ==
    IF who \in DOMAIN shown
    THEN [visited |-> group.countryCodes, highlight |-> shown[who] \cap Countries, label |-> who]
    ELSE [visited |-> group.countryCodes, highlight |-> group.sharedCodes, label |-> NobodyFocused]

-----------------------------------------------------------------------------
\* Correctness.

\* "each member's count of countries nobody else in the group has"
\* (group-stats.logic.ts:25): every country of the group is one member's own or
\* has several visitors, the continents add up to the whole, and the whole is
\* full or empty only when the map is.
StatsAddUp ==
    LET stats == ComputeGroupStats(ShownMaps)
        own == [m \in joined |-> UniqueCount(ShownMaps, m)]
        on == [k \in DOMAIN stats.continents |-> stats.continents[k].visited]
    IN /\ stats.countryCount = SumFunction(own) + Cardinality(Several(ShownMaps))
       /\ stats.countryCount = SumFunction(on)
       /\ stats.worldPercent = 0 <=> stats.countryCodes = {}
       /\ stats.worldPercent = 1000 <=> stats.countryCodes = Countries

\* "the intersection" and "countries visited by 2+ members (most members first,
\* then by code)": a group of one shares nothing; the countries everybody has
\* been to lead the list of popular ones; and the cut drops none that has more
\* visitors than one it keeps.
PopularLedByShared ==
    LET map == ShownMaps
        stats == ComputeGroupStats(map)
        p == stats.popular
        kept == {p[i] : i \in DOMAIN p}
    IN /\ stats.sharedCodes = IF joined = {Founder} THEN {}
                              ELSE {c \in Countries : \A m \in joined : c \in maps[m]}
       /\ \A i \in DOMAIN p : p[i] \in stats.sharedCodes
                                => \A j \in 1..i : p[j] \in stats.sharedCodes
       /\ Len(p) < PopularLimit => stats.sharedCodes \subseteq kept
       /\ \A c \in kept, d \in Countries \ kept :
              /\ Visitors(map, c) >= 2
              /\ Len(p) < PopularLimit => Visitors(map, d) < 2
              /\ \/ Visitors(map, d) < Visitors(map, c)
                 \/ (Visitors(map, d) = Visitors(map, c) /\ c < d)

\* "sorted most-travelled first (ties: username)": everybody is listed once, and
\* the order depends on the maps and the names alone, not on who joined when.
LeaderboardRanks ==
    LET board == ComputeGroupStats(ShownMaps).members IN
    /\ {board[i] : i \in DOMAIN board} = joined /\ Len(board) = Cardinality(joined)
    /\ \A i, j \in DOMAIN board : i < j =>
        LET a == Cardinality(maps[board[i]] \cap Countries)
            b == Cardinality(maps[board[j]] \cap Countries)
        IN a > b \/ (a = b /\ board[i] < board[j])

\* "the group's union, with a focused member's countries (or, with nobody
\* focused, the countries everyone has been to) drawn in the highlight colour":
\* whatever is lit is on the group's map, also after the member in focus left.
HighlightOnMap ==
    LET layers == GroupMapLayers(ComputeGroupStats(ShownMaps), ShownMaps, focused) IN
    /\ layers.highlight \subseteq layers.visited
    /\ layers.label # NobodyFocused => layers.label \in joined

\* The owner's own map and the public profile (or the group page) show the same
\* numbers, though each has its own copy of the arithmetic (stats.ts:46,
\* stats.logic.ts:22), codes that were dropped from the list included.
StatsAgree ==
    \A m \in Joiners :
        ComputeStats(maps[m]) = StatsToWorldStats(ComputeCountryStats(maps[m]))

\* What the statistics of a group promise for any maps of its members.
GroupStatsInv ==
    /\ GroupStatsTypeOK /\ StatsAddUp /\ PopularLedByShared
    /\ LeaderboardRanks /\ HighlightOnMap /\ StatsAgree
=============================================================================
