---------------------------- MODULE ProfileList -----------------------------
(***************************************************************************)
(* The list of countries of a public profile (ProfileCountries.tsx over    *)
(* country-list.ts): open or closed, and, for a viewer who is signed in    *)
(* and whose own visits are known, narrowed to those both have been to or  *)
(* those the viewer has not.                                               *)
(***************************************************************************)
EXTENDS CountryStats

CONSTANT Unknown   \* no visits of the viewer to compare with

VARIABLES
    theirs,    \* the countries of the profile
    onlooker,  \* useMe: "loading", "out", "own" profile or "other"
    mine,      \* useVisitsQuery(comparing)
    countryList  \* open or not, and the filter

listVars == <<theirs, onlooker, mine, countryList>>

ListFilters == {"all", "shared", "new"}

ProfileListTypeOK ==
    /\ theirs \in SUBSET Countries
    /\ onlooker \in {"loading", "out", "own", "other"}
    /\ mine \in (SUBSET Countries) \cup {Unknown}
    /\ countryList \in [open: BOOLEAN, filter: ListFilters]
    /\ countryList.filter # "all" => onlooker # "loading"

ListInit ==
    /\ theirs \in SUBSET Countries
    /\ onlooker = "loading" /\ mine = Unknown
    /\ countryList = [open |-> FALSE, filter |-> "all"]

\* myCodes: only on somebody else's profile.
Comparing == onlooker = "other"
NoCodes == ~Comparing \/ mine = Unknown
MyCodes == IF NoCodes THEN {} ELSE mine

\* Mutant: the filter stays in force.
ShownFilter_Stays == countryList.filter
\* The filter of the tabs, which are there with myCodes only.
ShownFilter == IF NoCodes THEN "all" ELSE countryList.filter

Listed == ProfilePicked(theirs, MyCodes, NoCodes, ShownFilter)
ListCounts == ProfileCounts(theirs, MyCodes, NoCodes)
\* The message looks at the filter itself, not at the one in force.
ListMessage ==
    IF ListCounts.all = 0 THEN "none marked"
    ELSE IF countryList.filter = "shared" THEN "none in common" ELSE "everywhere they have"

MeKnown ==
    /\ onlooker = "loading"
    /\ onlooker' \in {"out", "own", "other"}
    /\ UNCHANGED <<theirs, mine, countryList>>
\* The visits arrive, or change under the list.
MyVisits ==
    /\ Comparing
    /\ mine' \in SUBSET Countries
    /\ UNCHANGED <<theirs, onlooker, countryList>>
\* Logging out sets the query of the user to null, and the visits, whatever their
\* query still holds, are those of nobody; the session may also be found to be
\* over.
SignedOut ==
    /\ onlooker \in {"own", "other"}
    /\ onlooker' = "out" /\ mine' = Unknown
    /\ UNCHANGED <<theirs, countryList>>
\* The page is rendered anew around the open list.
TheirVisits ==
    /\ theirs' \in SUBSET Countries
    /\ UNCHANGED <<onlooker, mine, countryList>>
ToggleList ==
    /\ countryList' = [countryList EXCEPT !.open = ~@]
    /\ UNCHANGED <<theirs, onlooker, mine>>
PickFilter(f) ==
    /\ countryList.open /\ ~NoCodes
    /\ countryList' = [countryList EXCEPT !.filter = f]
    /\ UNCHANGED <<theirs, onlooker, mine>>

ListNext ==
    \/ MeKnown \/ MyVisits \/ SignedOut \/ TheirVisits \/ ToggleList
    \/ \E f \in ListFilters : PickFilter(f)

\* The list on its own.
ListSpec == ListInit /\ [][ListNext]_listVars

-----------------------------------------------------------------------------
\* Correctness.

\* "without them (logged out / own profile) only all makes sense and the other
\* counts are 0" (country-list.ts:19): the tabs count what they list, the two
\* narrower ones are the parts of the first, and with nothing to compare the
\* list is whole.
ListCountsTrue ==
    /\ Cardinality(Listed) = ListCounts[ShownFilter]
    /\ NoCodes => Listed = theirs /\ ListCounts.shared = 0 /\ ListCounts.new = 0
    /\ ~NoCodes => ListCounts.all = ListCounts.shared + ListCounts.new

\* The empty list says why it is empty (ProfileCountries.tsx:140), also when
\* the filter was picked by one who has logged out since.
ListMessageTrue ==
    (countryList.open /\ Listed = {}) =>
        CASE ListMessage = "none marked" -> theirs = {}
          [] ListMessage = "none in common" -> ~NoCodes /\ theirs \cap MyCodes = {}
          [] ListMessage = "everywhere they have" -> ~NoCodes /\ theirs \subseteq MyCodes

\* What the list of a profile promises in every state.
ListInv == ProfileListTypeOK /\ ListCountsTrue /\ ListMessageTrue
=============================================================================
