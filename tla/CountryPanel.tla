---------------------------- MODULE CountryPanel ----------------------------
(***************************************************************************)
(* The panel of countries beside the map (CountryPanel.tsx): a search, a   *)
(* filter by status, sections by continent that fold, and a checkbox per   *)
(* row.  What a checkbox sends is module Visits; here a mark is there at   *)
(* once, as it is on the page.                                             *)
(***************************************************************************)
EXTENDS CountryStats

CONSTANTS
    Searches,    \* what may be typed
    Blank,       \* nothing, or white space
    Matches      \* the countries each finds

ASSUME PanelSearches == /\ Blank \in Searches
                        /\ Matches \in [Searches -> SUBSET Countries]
                        /\ Matches[Blank] = Countries

VARIABLES
    viewing,   \* useMapVisits: "loading", "out" or "in"
    marked,    \* the viewer's visits, none before they are there
    panel,     \* search, status filter, open or not, folded regions
    prompted   \* the log-in prompt is up

panelVars == <<viewing, marked, panel, prompted>>

Statuses == {"all", "visited", "unvisited"}
Regions == {Continents[i] : i \in DOMAIN Continents}

PanelTypeOK ==
    /\ viewing \in {"loading", "out", "in"}
    /\ marked \in SUBSET Countries
    /\ viewing # "in" => marked = {}
    /\ panel \in [search: Searches, status: Statuses, open: {"untouched", "open", "closed"},
                  folded: SUBSET Regions]
    /\ prompted => viewing = "out"

PanelInit ==
    /\ viewing = "loading" /\ marked = {}
    /\ panel = [search |-> Blank, status |-> "all", open |-> "untouched", folded |-> {}]
    /\ prompted = FALSE

-----------------------------------------------------------------------------
\* What the panel shows.

Searching == panel.search # Blank
Filtered == FilterByStatus(Matches[panel.search], marked, panel.status)
Sections == GroupByContinent(Filtered)
Headings == DOMAIN Sections
AllFolded == Headings # {} /\ Headings \subseteq panel.folded

\* Mutant: a folded region stays folded.
SectionOpen_Folded(region) == region \notin panel.folded
\* A search opens every region.
SectionOpen(region) == Searching \/ region \notin panel.folded
PanelRows == {c \in Filtered : SectionOpen(ContinentOf[c])}

\* Of the whole list, not of what is filtered.
VisitedByContinent(region) == Cardinality(On(marked, region))

Counts == [all |-> Cardinality(Countries), visited |-> Cardinality(marked),
           unvisited |-> Cardinality(Countries) - Cardinality(marked)]

EmptyMessage ==
    IF Searching THEN "no matches"
    ELSE IF panel.status = "visited" /\ marked = {} THEN "nothing yet"
    ELSE IF panel.status = "unvisited" THEN "everywhere" ELSE "no matches"

-----------------------------------------------------------------------------

\* GET /auth/me has answered: from then on rows can be marked.
ViewerKnown ==
    /\ viewing = "loading"
    /\ viewing' \in {"out", "in"}
    /\ UNCHANGED <<marked, panel, prompted>>

\* GET /me/visits answers, at first or again, or a change is rolled back.
MarksLand ==
    /\ viewing = "in"
    /\ marked' \in SUBSET Countries
    /\ UNCHANGED <<viewing, panel, prompted>>

\* The header's logout: the visits are hidden.
ViewerLeaves ==
    /\ viewing = "in"
    /\ viewing' = "out" /\ marked' = {}
    /\ UNCHANGED <<panel, prompted>>

\* handleToggle: nothing before it is known who looks.
ToggleMark(c) ==
    /\ viewing # "loading"
    /\ IF viewing = "in"
       THEN marked' = (IF c \in marked THEN marked \ {c} ELSE marked \cup {c}) /\ UNCHANGED prompted
       ELSE prompted' = TRUE /\ UNCHANGED marked
    /\ UNCHANGED <<viewing, panel>>

PanelIs(f, value) ==
    /\ panel' = [panel EXCEPT ![f] = value]
    /\ UNCHANGED <<viewing, marked, prompted>>

\* CountrySearch, the pill, the cross and the filter tabs.
Search(s) == panel.open # "closed" /\ PanelIs("search", s)
OpenPanel == panel.open # "open" /\ PanelIs("open", "open")
CollapsePanel == panel.open # "closed" /\ PanelIs("open", "closed")
PickStatus(status) == panel.open # "closed" /\ PanelIs("status", status)

\* A heading: also during a search, which shows no difference.
ToggleRegion(region) ==
    /\ panel.open # "closed" /\ region \in Headings
    /\ PanelIs("folded", IF region \in panel.folded THEN panel.folded \ {region}
                         ELSE panel.folded \cup {region})

FoldAllOffered == panel.open # "closed" /\ ~Searching /\ Cardinality(Headings) > 1
\* Mutant: every heading is clicked.
FoldAll_EachHeading ==
    /\ FoldAllOffered
    /\ PanelIs("folded", (panel.folded \ Headings) \cup (Headings \ panel.folded))
\* Only the regions that are listed are remembered.
FoldAll ==
    /\ FoldAllOffered
    /\ PanelIs("folded", IF AllFolded THEN {} ELSE Headings)

PanelNext ==
    \/ ViewerKnown \/ MarksLand \/ ViewerLeaves \/ OpenPanel \/ CollapsePanel \/ FoldAll
    \/ \E c \in Countries : ToggleMark(c)
    \/ \E s \in Searches : Search(s)
    \/ \E status \in Statuses : PickStatus(status)
    \/ \E region \in Regions : ToggleRegion(region)

\* The panel on its own.
PanelSpec == PanelInit /\ [][PanelNext]_panelVars

-----------------------------------------------------------------------------
\* Correctness.

\* The count on each tab (CountryPanel.tsx:126) is the number of rows the tab
\* lists, and the bars of the headings add up to it, whatever is searched for,
\* filtered or folded.
CountsTrue ==
    /\ ~Searching => Cardinality(Filtered) = Counts[panel.status]
    /\ \A region \in Regions :
        VisitedByContinent(region) + Cardinality(On(Countries \ marked, region))
            = Cardinality(On(Countries, region))

\* "A search always shows its matches, even inside a folded region"
\* (CountryPanel.tsx:84).
SearchShowsMatches ==
    Searching => /\ PanelRows = Filtered
                 /\ panel.status = "all" => PanelRows = Matches[panel.search]

\* The empty list says why it is empty (CountryPanel.tsx:294): "You've been
\* everywhere" only to one who has, and "No matches" only during a search.
EmptyMessageTrue ==
    Filtered = {} => /\ EmptyMessage = "everywhere" <=> (marked = Countries /\ ~Searching)
                     /\ EmptyMessage = "no matches" <=> Searching

\* What the panel promises in every state.
PanelInv == PanelTypeOK /\ CountsTrue /\ SearchShowsMatches /\ EmptyMessageTrue

\* The button says "Collapse all" or "Expand all" (CountryPanel.tsx:205), and
\* that is what it does, however the regions were folded before, and then it
\* offers the opposite.
FoldAllDoes ==
    [][panel' # panel /\ FoldAll =>
           /\ PanelRows' = IF AllFolded THEN Filtered ELSE {}
           /\ AllFolded' = ~AllFolded]_panelVars
=============================================================================
