---------------------------- MODULE ScreensProofs ----------------------------
(***************************************************************************)
(* Theorems about what the web client computes on its own: the panel of    *)
(* countries, the list of a profile, the automatic theme, and the map; and *)
(* about the statistics of a group, which it shows.                        *)
(***************************************************************************)
EXTENDS MapView, Theme, CountryPanel, ProfileList, GroupStats, FiniteSetTheorems, SequenceTheorems,
        WellFoundedInduction, TLAPS

-----------------------------------------------------------------------------
\* Numbers of countries.

\* A part and what is left of it add up, for any countries.
LEMMA PartsAddUp ==
    ASSUME NEW A \in SUBSET Countries, NEW B
    PROVE  /\ Cardinality(A) \in Nat /\ Cardinality(A \cap B) \in Nat
           /\ Cardinality(A \ B) \in Nat
           /\ Cardinality(A) = Cardinality(A \cap B) + Cardinality(A \ B)
           /\ Cardinality(A) = 0 <=> A = {}
<1>1. IsFiniteSet(A)
  BY FS_Subset, StatsCountries
<1>2. IsFiniteSet(A \cap B) /\ IsFiniteSet(A \ B)
  BY <1>1, FS_Subset
<1>3. Cardinality(A \ B) = Cardinality(A) - Cardinality(A \cap B)
  BY <1>1, FS_Difference
<1> QED
  BY <1>1, <1>2, <1>3, FS_CardinalityType, FS_EmptySet

-----------------------------------------------------------------------------
\* CountryPanel.

\* What the filter and the search leave.
LEMMA FilteredIs ==
    ASSUME PanelTypeOK
    PROVE  /\ Filtered = CASE panel.status = "all" -> Matches[panel.search]
                           [] panel.status = "visited" -> Matches[panel.search] \cap marked
                           [] panel.status = "unvisited" -> Matches[panel.search] \ marked
           /\ Filtered \in SUBSET Countries
           /\ ~Searching => Matches[panel.search] = Countries
BY PanelSearches DEF PanelTypeOK, Filtered, FilterByStatus, Searching, Statuses

\* The regions the panel lists are those of the countries it lists.
LEMMA HeadingsAre ==
    ASSUME PanelTypeOK
    PROVE  /\ Headings = {k \in Regions : On(Filtered, k) # {}}
           /\ \A c \in Filtered : ContinentOf[c] \in Headings
<1>1. Headings = {k \in Regions : On(Filtered, k) # {}}
  BY DEF Headings, Sections, GroupByContinent, Regions
<1>2. ASSUME NEW c \in Filtered PROVE ContinentOf[c] \in Headings
  <2>1. c \in Countries /\ ContinentOf[c] \in Regions
    BY FilteredIs, StatsContinents DEF Regions
  <2>2. c \in On(Filtered, ContinentOf[c])
    BY <2>1 DEF On
  <2> QED
    BY <1>1, <2>1, <2>2
<1> QED
  BY <1>1, <1>2

\* The panel's types.
LEMMA PanelTyped == PanelSpec => []PanelTypeOK
<1>1. PanelInit => PanelTypeOK
  BY PanelSearches DEF PanelInit, PanelTypeOK, Statuses
<1>2. PanelTypeOK /\ [PanelNext]_panelVars => PanelTypeOK'
  <2> SUFFICES ASSUME PanelTypeOK, [PanelNext]_panelVars PROVE PanelTypeOK'
    OBVIOUS
  <2>1. CASE ViewerKnown \/ MarksLand \/ ViewerLeaves
    BY <2>1 DEF ViewerKnown, MarksLand, ViewerLeaves, PanelTypeOK
  <2>2. ASSUME NEW c \in Countries, ToggleMark(c) PROVE PanelTypeOK'
    BY <2>2 DEF ToggleMark, PanelTypeOK
  <2>3. ASSUME NEW s \in Searches, Search(s) PROVE PanelTypeOK'
    BY <2>3 DEF Search, PanelIs, PanelTypeOK
  <2>4. CASE OpenPanel \/ CollapsePanel
    BY <2>4 DEF OpenPanel, CollapsePanel, PanelIs, PanelTypeOK
  <2>5. ASSUME NEW status \in Statuses, PickStatus(status) PROVE PanelTypeOK'
    BY <2>5 DEF PickStatus, PanelIs, PanelTypeOK
  <2>6. ASSUME NEW region \in Regions, ToggleRegion(region) PROVE PanelTypeOK'
    BY <2>6 DEF ToggleRegion, PanelIs, PanelTypeOK
  <2>7. CASE FoldAll
    <3>1. Headings \in SUBSET Regions
      BY HeadingsAre
    <3>2. (IF AllFolded THEN {} ELSE Headings) \in SUBSET Regions
      BY <3>1
    <3> QED
      BY <2>7, <3>2 DEF FoldAll, PanelIs, PanelTypeOK
  <2>8. CASE UNCHANGED panelVars
    BY <2>8 DEF panelVars, PanelTypeOK
  <2> QED
    BY <2>1, <2>2, <2>3, <2>4, <2>5, <2>6, <2>7, <2>8 DEF PanelNext
<1> QED
  BY <1>1, <1>2, PTL DEF PanelSpec

\* The numbers on the tabs and headings, the search and the message.
LEMMA PanelPromises == PanelTypeOK => PanelInv
<1> SUFFICES ASSUME PanelTypeOK PROVE PanelInv
  OBVIOUS
<1>1. Countries # {} /\ marked \in SUBSET Countries /\ panel.status \in Statuses
  BY StatsCountries DEF PanelTypeOK
<1>2. CountsTrue
  <2>1. ASSUME ~Searching PROVE Cardinality(Filtered) = Counts[panel.status]
    <3>1. Countries \cap marked = marked
      BY <1>1
    <3>2. Cardinality(Countries) = Cardinality(marked) + Cardinality(Countries \ marked)
      BY <3>1, PartsAddUp
    <3>3. Cardinality(Countries) \in Nat /\ Cardinality(marked) \in Nat
          /\ Cardinality(Countries \ marked) \in Nat
      BY <1>1, PartsAddUp
    <3>4. Cardinality(Countries \ marked) = Cardinality(Countries) - Cardinality(marked)
      BY <3>2, <3>3
    <3> QED
      BY <1>1, <2>1, <3>1, <3>4, FilteredIs DEF Counts, Statuses
  <2>2. ASSUME NEW region \in Regions
        PROVE  VisitedByContinent(region) + Cardinality(On(Countries \ marked, region))
                   = Cardinality(On(Countries, region))
    <3>1. /\ On(Countries, region) \in SUBSET Countries
          /\ On(Countries, region) \cap marked = On(marked, region)
          /\ On(Countries, region) \ marked = On(Countries \ marked, region)
      BY <1>1 DEF On
    <3>2. Cardinality(On(Countries, region))
              = Cardinality(On(Countries, region) \cap marked) + Cardinality(On(Countries, region) \ marked)
      BY <3>1, PartsAddUp
    <3> QED
      BY <3>1, <3>2 DEF VisitedByContinent
  <2> QED
    BY <2>1, <2>2 DEF CountsTrue
<1>3. SearchShowsMatches
  BY FilteredIs DEF SearchShowsMatches, PanelRows, SectionOpen
<1>4. EmptyMessageTrue
  <2> SUFFICES ASSUME Filtered = {}
               PROVE  /\ EmptyMessage = "everywhere" <=> (marked = Countries /\ ~Searching)
                      /\ EmptyMessage = "no matches" <=> Searching
    BY DEF EmptyMessageTrue
  <2>1. CASE Searching
    BY <2>1 DEF EmptyMessage
  <2>2. CASE ~Searching
    BY <1>1, <2>2, FilteredIs DEF EmptyMessage, Statuses
  <2> QED
    BY <2>1, <2>2
<1> QED
  BY <1>2, <1>3, <1>4 DEF PanelInv

\* The count on a tab is the number of rows it lists, a search shows what it
\* finds in folded regions too, and the empty list says why it is empty
\* (CountryPanel.tsx:84, :126, :294): for any countries, searches and marks.
THEOREM PanelSound == PanelSpec => []PanelInv
BY PanelTyped, PanelPromises, PTL

\* "Collapse all" folds everything that is listed and "Expand all" shows
\* everything that is found (CountryPanel.tsx:205), however regions were folded
\* before, also regions the filter hides; then the button offers the opposite.
THEOREM FoldAllSound == PanelSpec => FoldAllDoes
<1>1. ASSUME PanelTypeOK, FoldAll
      PROVE  /\ PanelRows' = IF AllFolded THEN Filtered ELSE {}
             /\ AllFolded' = ~AllFolded
  <2>1. /\ panel.search = Blank /\ panel'.search = panel.search /\ panel'.status = panel.status
        /\ panel'.folded = IF AllFolded THEN {} ELSE Headings
        /\ marked' = marked
    BY <1>1 DEF FoldAll, FoldAllOffered, PanelIs, Searching, PanelTypeOK
  <2>2. Filtered' = Filtered
    BY <2>1 DEF Filtered, FilterByStatus
  <2>3. Headings' = Headings
    BY <2>2 DEF Headings, Sections, GroupByContinent, On
  <2>4. Headings # {}
    BY <1>1, FS_EmptySet DEF FoldAll, FoldAllOffered
  <2>5. \A c \in Filtered : ContinentOf[c] \in Headings
    BY <1>1, HeadingsAre
  <2>6. PanelRows' = {c \in Filtered : ContinentOf[c] \notin panel'.folded}
    BY <2>1, <2>2 DEF PanelRows, SectionOpen, Searching
  <2>7. AllFolded' = (Headings # {} /\ Headings \subseteq panel'.folded)
    BY <2>3 DEF AllFolded
  <2>8. CASE AllFolded
    BY <2>1, <2>4, <2>6, <2>7, <2>8
  <2>9. CASE ~AllFolded
    BY <2>1, <2>4, <2>5, <2>6, <2>7, <2>9
  <2> QED
    BY <2>8, <2>9
<1> QED
  BY <1>1, PanelTyped, PTL DEF PanelSpec, FoldAllDoes

-----------------------------------------------------------------------------
\* ProfileList.

\* The list's types.
LEMMA ListTyped == ListSpec => []ProfileListTypeOK
<1>1. ListInit => ProfileListTypeOK
  BY DEF ListInit, ProfileListTypeOK, ListFilters
<1>2. ProfileListTypeOK /\ [ListNext]_listVars => ProfileListTypeOK'
  <2> SUFFICES ASSUME ProfileListTypeOK, [ListNext]_listVars PROVE ProfileListTypeOK'
    OBVIOUS
  <2>1. CASE MeKnown \/ MyVisits \/ SignedOut \/ TheirVisits
    BY <2>1 DEF MeKnown, MyVisits, SignedOut, TheirVisits, Comparing, ProfileListTypeOK
  <2>2. CASE ToggleList
    <3>1. countryList'.open \in BOOLEAN /\ countryList'.filter = countryList.filter
          /\ countryList' \in [open: BOOLEAN, filter: ListFilters]
      BY <2>2 DEF ToggleList, ProfileListTypeOK
    <3> QED
      BY <2>2, <3>1 DEF ToggleList, ProfileListTypeOK
  <2>3. ASSUME NEW pick \in ListFilters, PickFilter(pick) PROVE ProfileListTypeOK'
    BY <2>3 DEF PickFilter, NoCodes, Comparing, ProfileListTypeOK
  <2>4. CASE UNCHANGED listVars
    BY <2>4 DEF listVars, ProfileListTypeOK
  <2> QED
    BY <2>1, <2>2, <2>3, <2>4 DEF ListNext
<1> QED
  BY <1>1, <1>2, PTL DEF ListSpec

\* What is listed, by the filter in force.
LEMMA ListedIs ==
    ASSUME ProfileListTypeOK
    PROVE  /\ theirs \cap Countries = theirs
           /\ NoCodes => Listed = theirs
           /\ ~NoCodes => Listed = CASE countryList.filter = "all" -> theirs
                                     [] countryList.filter = "shared" -> theirs \cap MyCodes
                                     [] countryList.filter = "new" -> theirs \ MyCodes
<1>1. theirs \cap Countries = theirs /\ countryList.filter \in ListFilters
  BY DEF ProfileListTypeOK
<1> QED
  BY <1>1 DEF Listed, ProfilePicked, ShownFilter, ListFilters

\* Counts and message, in every state of the list.
LEMMA ListPromises == ProfileListTypeOK => ListInv
<1> SUFFICES ASSUME ProfileListTypeOK PROVE ListInv
  OBVIOUS
<1>1. theirs \in SUBSET Countries /\ countryList.filter \in ListFilters
  BY DEF ProfileListTypeOK
<1>2. /\ ListCounts.all = Cardinality(theirs)
      /\ ListCounts.shared = IF NoCodes THEN 0 ELSE Cardinality(theirs \cap MyCodes)
      /\ ListCounts.new = IF NoCodes THEN 0 ELSE Cardinality(theirs \ MyCodes)
      /\ ListCounts = [all |-> ListCounts.all, shared |-> ListCounts.shared, new |-> ListCounts.new]
  BY ListedIs DEF ListCounts, ProfileCounts
<1>3. ListCountsTrue
  <2>1. Cardinality(Listed) = ListCounts[ShownFilter]
    BY <1>1, <1>2, ListedIs DEF ShownFilter, ListFilters
  <2>2. Cardinality(theirs) = Cardinality(theirs \cap MyCodes) + Cardinality(theirs \ MyCodes)
    BY <1>1, PartsAddUp
  <2> QED
    BY <1>2, <2>1, <2>2, ListedIs DEF ListCountsTrue
<1>4. ListMessageTrue
  <2>1. ListCounts.all = 0 <=> theirs = {}
    BY <1>1, <1>2, PartsAddUp
  <2> SUFFICES ASSUME Listed = {}
               PROVE  CASE ListMessage = "none marked" -> theirs = {}
                        [] ListMessage = "none in common" -> ~NoCodes /\ theirs \cap MyCodes = {}
                        [] ListMessage = "everywhere they have" -> ~NoCodes /\ theirs \subseteq MyCodes
    BY DEF ListMessageTrue
  <2>2. CASE theirs = {}
    BY <2>1, <2>2 DEF ListMessage
  <2>3. CASE theirs # {}
    <3>1. ~NoCodes /\ countryList.filter # "all"
      BY <1>1, <2>3, ListedIs DEF ListFilters
    <3>2. CASE countryList.filter = "shared"
      BY <2>1, <2>3, <3>1, <3>2, ListedIs DEF ListMessage
    <3>3. CASE countryList.filter = "new"
      <4>1. ListMessage = "everywhere they have"
        BY <2>1, <2>3, <3>3 DEF ListMessage
      <4>2. theirs \ MyCodes = {}
        BY <3>1, <3>3, ListedIs
      <4> QED
        BY <3>1, <4>1, <4>2
    <3> QED
      BY <1>1, <3>1, <3>2, <3>3 DEF ListFilters
  <2> QED
    BY <2>2, <2>3
<1> QED
  BY <1>3, <1>4 DEF ListInv

\* The tabs of a profile's list count what they list, the two narrower ones
\* are the parts of the first (country-list.ts:19), and the empty list says why
\* it is empty (ProfileCountries.tsx:140), for any countries, logouts included.
THEOREM ListSound == ListSpec => []ListInv
BY ListTyped, ListPromises, PTL

-----------------------------------------------------------------------------
\* Theme: hours.

\* Division leaves one remainder.
LEMMA OneRemainder ==
    ASSUME NEW d \in Nat \ {0}, NEW a \in Int, NEW b \in Int,
           NEW r \in 0..(d - 1), NEW s \in 0..(d - 1), d * a + r = d * b + s
    PROVE  r = s
<1>1. ASSUME NEW e \in Int, NEW g \in Int, e < g PROVE d * e + d <= d * g
  <2>1. d * (e + 1) <= d * g
    BY <1>1
  <2>2. d * (e + 1) = d * e + d
    OBVIOUS
  <2> QED
    BY <2>1, <2>2
<1>2. d * a \in Int /\ d * b \in Int
  OBVIOUS
<1>3. CASE a < b
  BY <1>1, <1>2, <1>3
<1>4. CASE b < a
  BY <1>1, <1>2, <1>4
<1> QED
  BY <1>2, <1>3, <1>4

\* An hour of the day is what is left of the days that are over.
LEMMA HourIs ==
    ASSUME NEW n \in Nat
    PROVE  Hour(n) \in 0..(HoursPerDay - 1) /\ Hour(n) <= n
<1>1. HoursPerDay \in Nat \ {0}
  BY ThemeHours
<1>2. Hour(n) \in 0..(HoursPerDay - 1)
  BY <1>1 DEF Hour
<1>3. n \div HoursPerDay \in Nat /\ n = HoursPerDay * (n \div HoursPerDay) + Hour(n)
  BY <1>1 DEF Hour
<1>4. HoursPerDay * (n \div HoursPerDay) \in Nat
  BY <1>1, <1>3
<1> QED
  BY <1>2, <1>3, <1>4

\* The days that are over.
LEMMA DaysOver ==
    ASSUME NEW n \in Nat
    PROVE  \E q \in Int : n = HoursPerDay * q + Hour(n)
<1>1. HoursPerDay \in Nat \ {0}
  BY ThemeHours
<1>2. n \div HoursPerDay \in Int /\ n = HoursPerDay * (n \div HoursPerDay) + Hour(n)
  BY <1>1 DEF Hour
<1> QED
  BY <1>2

\* Hours count on, and begin anew.
LEMMA NextHour ==
    ASSUME NEW n \in Nat
    PROVE  Hour(n + 1) = IF Hour(n) = HoursPerDay - 1 THEN 0 ELSE Hour(n) + 1
<1>1. HoursPerDay \in Nat \ {0} /\ 0 \in 0..(HoursPerDay - 1)
  BY ThemeHours
<1>2. PICK q \in Int : n = HoursPerDay * q + Hour(n)
  BY DaysOver
<1>3. PICK p \in Int : n + 1 = HoursPerDay * p + Hour(n + 1)
  BY DaysOver
<1>4. Hour(n) \in 0..(HoursPerDay - 1) /\ Hour(n + 1) \in 0..(HoursPerDay - 1)
  BY HourIs
<1>5. CASE Hour(n) = HoursPerDay - 1
  <2>1. q + 1 \in Int /\ HoursPerDay * (q + 1) = HoursPerDay * q + HoursPerDay
    BY <1>1
  <2>2. HoursPerDay * q \in Int
    BY <1>1
  <2>3. HoursPerDay * (q + 1) + 0 = n + 1
    BY <1>1, <1>2, <1>5, <2>1, <2>2
  <2>4. HoursPerDay * p + Hour(n + 1) = HoursPerDay * (q + 1) + 0
    BY <1>3, <2>3
  <2>5. Hour(n + 1) = 0
    BY <1>1, <1>4, <2>1, <2>4, OneRemainder
  <2> QED
    BY <1>5, <2>5
<1>6. CASE Hour(n) # HoursPerDay - 1
  <2>1. n + 1 = HoursPerDay * q + (Hour(n) + 1) /\ Hour(n) + 1 \in 0..(HoursPerDay - 1)
    BY <1>1, <1>2, <1>4, <1>6
  <2> QED
    BY <1>1, <1>3, <1>4, <1>6, <2>1, OneRemainder
<1> QED
  BY <1>5, <1>6

\* The next switch is ahead.
LEMMA SwitchAhead ==
    ASSUME NEW n \in Nat
    PROVE  NextSwitchAt(n) \in Nat /\ NextSwitchAt(n) > n
<1>1. Hour(n) \in 0..(HoursPerDay - 1) /\ Hour(n) <= n
  BY HourIs
<1> QED
  BY <1>1, ThemeHours DEF NextSwitchAt

\* The theme of the hour stays, and so does the next switch, until it.
LEMMA UntilSwitch ==
    ASSUME NEW n \in Nat, n + 1 < NextSwitchAt(n)
    PROVE  /\ NextSwitchAt(n + 1) = NextSwitchAt(n)
           /\ ThemeForHour(Hour(n + 1)) = ThemeForHour(Hour(n))
<1>1. Hour(n) \in 0..(HoursPerDay - 1) /\ Hour(n) <= n
  BY HourIs
<1>2. Hour(n + 1) = IF Hour(n) = HoursPerDay - 1 THEN 0 ELSE Hour(n) + 1
  BY NextHour
<1> QED
  BY <1>1, <1>2, ThemeHours DEF NextSwitchAt, ThemeForHour

-----------------------------------------------------------------------------
\* Theme: the inductive invariant.

TabRecords ==
    [phase: {"closed", "loaded", "open"}, theme: Themes, preference: Preferences,
     timer: Nat \cup {NoTimer}, visible: BOOLEAN, chosen: Overrides \cup {NoOverride}]
StoredRecords == [preference: Preferences, override: Overrides \cup {NoOverride}]

\* An override that is in force ends at the next switch; only a storage that
\* works ever holds one, and one that is blocked holds nothing.
StoreOK(s, t) ==
    /\ s \in StoredRecords
    /\ storage # "works" => s.override = NoOverride
    /\ storage = "blocked" => s.preference = "auto"
    /\ Valid(s.override, t) => s.override.until = NextSwitchAt(t)

\* The same of the override a tab chose; a timer that is not due is set for the
\* next switch; and a tab with a fixed preference shows it.
TabSane(x, t) ==
    /\ x \in TabRecords
    /\ x.timer # NoTimer <=> (x.phase = "open" /\ x.preference = "auto")
    /\ (x.phase # "closed" /\ x.preference # "auto") => (x.theme = x.preference /\ x.chosen = NoOverride)
    /\ Valid(x.chosen, t) => x.chosen.until = NextSwitchAt(t)
    /\ (x.timer # NoTimer /\ t < x.timer) => x.timer = NextSwitchAt(t)

\* A tab whose timer is not due shows the theme of the hour, unless it has an
\* override.
TabTimely(x, t) ==
    (x.phase = "open" /\ x.preference = "auto" /\ t < x.timer) =>
        (x.theme = ThemeForHour(Hour(t)) \/ Valid(x.chosen, t))

\* An override in force in the tab is shown and is the one in storage, and one
\* in storage is the tab's, unless its preference is fixed.
TabBacked(x, s, t) ==
    x.phase # "closed" =>
        /\ Valid(x.chosen, t) => s.override = x.chosen
        /\ (Valid(x.chosen, t) /\ x.phase = "open") => x.theme = x.chosen.theme
        /\ (Valid(s.override, t) /\ x.preference = "auto") => x.chosen = s.override

\* What holds of the tab w.
TabOK(x, w, s, t, last) ==
    /\ TabSane(x, t)
    /\ (storage = "blocked" \/ last = w) => TabTimely(x, t)
    /\ (storage = "works" /\ last = w) => TabBacked(x, s, t)

ThemeIInv ==
    /\ clock \in 0..LastHour
    /\ storage \in {"works", "full", "blocked"}
    /\ StoreOK(stored, clock)
    /\ tabs \in [Windows -> TabRecords]
    /\ \A w \in Windows : TabOK(tabs[w], w, stored, clock, writer)
    /\ writer \in Windows \cup {NoWindow}
    /\ choices \in 0..MaxChoices

\* The inductive invariant of the theme has its promises in it.
LEMMA ThemeIImplies == ThemeIInv => ThemeInv
<1> SUFFICES ASSUME ThemeIInv PROVE ThemeInv
  OBVIOUS
<1>1. /\ stored \in StoredRecords /\ tabs \in [Windows -> TabRecords]
      /\ clock \in 0..LastHour /\ storage \in {"works", "full", "blocked"}
      /\ writer \in Windows \cup {NoWindow} /\ choices \in 0..MaxChoices
      /\ storage # "works" => stored.override = NoOverride
      /\ storage = "blocked" => stored.preference = "auto"
  BY DEF ThemeIInv, StoreOK
<1>2. ASSUME NEW w \in Windows
      PROVE  /\ tabs[w] \in TabRecords /\ TabSane(tabs[w], clock)
             /\ (storage = "blocked" \/ writer = w) => TabTimely(tabs[w], clock)
             /\ (storage = "works" /\ writer = w) => TabBacked(tabs[w], stored, clock)
  BY <1>2 DEF ThemeIInv, TabOK, TabSane
<1>3. ThemeTypeOK
  BY <1>1, <1>2 DEF ThemeTypeOK, TabSane, TabRecords, StoredRecords
<1>4. NoFlash
  BY <1>1, ThemeNone DEF NoFlash, ThemeInitScript, ResolveTheme, ReadPreference, ReadOverride, Valid,
                         StoredRecords
<1>5. OverrideSticks
  BY <1>2 DEF OverrideSticks, TabBacked
<1>6. AutoFollowsClock
  <2> SUFFICES ASSUME NEW w \in Windows, Current(w), tabs[w].preference = "auto"
               PROVE  \/ tabs[w].theme = ThemeForHour(Hour(clock))
                      \/ Valid(tabs[w].chosen, clock)
                      \/ (storage # "blocked" /\ writer # w)
    BY DEF AutoFollowsClock
  <2>1. tabs[w].timer # NoTimer /\ tabs[w].phase = "open" /\ clock < tabs[w].timer
    BY <1>2 DEF Current, TabSane
  <2> QED
    BY <1>2, <2>1 DEF TabTimely
<1>7. ReloadKeepsTheme
  <2> SUFFICES ASSUME NEW w \in Windows, storage = "works", writer = w, Current(w),
                      tabs[w].preference = stored.preference
               PROVE  ThemeInitScript = tabs[w].theme
    BY DEF ReloadKeepsTheme
  <2>1. tabs[w].phase = "open"
    BY DEF Current
  <2>2. TabSane(tabs[w], clock) /\ TabTimely(tabs[w], clock) /\ TabBacked(tabs[w], stored, clock)
    BY <1>2
  <2>3. CASE stored.preference # "auto"
    BY <2>1, <2>2, <2>3 DEF ThemeInitScript, TabSane
  <2>4. CASE stored.preference = "auto" /\ Valid(stored.override, clock)
    BY <2>1, <2>2, <2>4 DEF ThemeInitScript, TabBacked
  <2>5. CASE stored.preference = "auto" /\ ~Valid(stored.override, clock)
    <3>1. clock < tabs[w].timer
      BY <2>1, <2>2, <2>5 DEF Current, TabSane
    <3>2. ~Valid(tabs[w].chosen, clock)
      BY <2>1, <2>2, <2>5 DEF TabBacked
    <3> QED
      BY <2>1, <2>2, <2>5, <3>1, <3>2 DEF ThemeInitScript, TabTimely
  <2> QED
    BY <2>3, <2>4, <2>5
<1> QED
  BY <1>3, <1>4, <1>5, <1>6, <1>7 DEF ThemeInv

\* Before any tab is open.
LEMMA ThemeIInit == ThemeInit => ThemeIInv
<1> SUFFICES ASSUME ThemeInit PROVE ThemeIInv
  OBVIOUS
<1>1. ClosedTab \in TabRecords /\ TabSane(ClosedTab, clock)
  BY DEF ClosedTab, TabRecords, TabSane, Themes, Preferences, Valid
<1>2. StoreOK(stored, clock)
  BY DEF ThemeInit, StoreOK, StoredRecords, Preferences, Themes, Valid
<1>3. ASSUME NEW w \in Windows PROVE TabOK(tabs[w], w, stored, clock, writer)
  <2>1. tabs[w] = ClosedTab
    BY DEF ThemeInit
  <2>2. TabTimely(ClosedTab, clock) /\ TabBacked(ClosedTab, stored, clock)
    BY DEF ClosedTab, TabTimely, TabBacked
  <2> QED
    BY <1>1, <2>1, <2>2 DEF TabOK
<1> QED
  BY <1>1, <1>2, <1>3, ThemeClock, ThemeBound DEF ThemeInit, ThemeIInv

-----------------------------------------------------------------------------
\* What the steps of Theme do.

\* The clock moves on.
LEMMA HourPasses ==
    ASSUME NEW n \in Nat
    PROVE  /\ \A s : StoreOK(s, n) => StoreOK(s, n + 1)
           /\ \A x, w, s, last :
                 StoreOK(s, n) /\ TabOK(x, w, s, n, last) => TabOK(x, w, s, n + 1, last)
<1>1. ASSUME NEW o \in Overrides \cup {NoOverride}, Valid(o, n) => o.until = NextSwitchAt(n)
      PROVE  /\ Valid(o, n + 1) => Valid(o, n)
             /\ Valid(o, n + 1) => n + 1 < NextSwitchAt(n) /\ o.until = NextSwitchAt(n + 1)
  <2>1. CASE o = NoOverride
    BY <2>1 DEF Valid
  <2>2. CASE o # NoOverride
    <3>1. o.until \in Nat
      BY <2>2 DEF Overrides
    <3> QED
      BY <1>1, <2>2, <3>1, UntilSwitch DEF Valid
  <2> QED
    BY <2>1, <2>2
<1>2. ASSUME NEW s, StoreOK(s, n) PROVE StoreOK(s, n + 1)
  BY <1>1, <1>2 DEF StoreOK, StoredRecords
<1>3. ASSUME NEW x, NEW w, NEW s, NEW last, TabOK(x, w, s, n, last), StoreOK(s, n)
      PROVE  TabOK(x, w, s, n + 1, last)
  <2>1. x \in TabRecords /\ TabSane(x, n)
    BY <1>3 DEF TabOK, TabSane
  <2>2. /\ Valid(x.chosen, n + 1) => Valid(x.chosen, n)
        /\ Valid(x.chosen, n + 1) => x.chosen.until = NextSwitchAt(n + 1)
    BY <1>1, <2>1 DEF TabSane, TabRecords
  <2>3. Valid(s.override, n + 1) => Valid(s.override, n)
    BY <1>1, <1>3 DEF StoreOK, StoredRecords
  <2>4. ASSUME x.timer # NoTimer, n + 1 < x.timer
        PROVE  n < x.timer /\ x.timer = NextSwitchAt(n) /\ n + 1 < NextSwitchAt(n)
    <3>1. x.timer \in Nat
      BY <2>1, <2>4 DEF TabRecords
    <3>2. n < x.timer
      BY <2>4, <3>1
    <3> QED
      BY <2>1, <2>4, <3>2 DEF TabSane
  <2>5. TabSane(x, n + 1)
    BY <2>1, <2>2, <2>4, UntilSwitch DEF TabSane
  <2>6. ASSUME TabTimely(x, n) PROVE TabTimely(x, n + 1)
    <3> SUFFICES ASSUME x.phase = "open", x.preference = "auto", n + 1 < x.timer
                 PROVE  x.theme = ThemeForHour(Hour(n + 1)) \/ Valid(x.chosen, n + 1)
      BY DEF TabTimely
    <3>1. n < x.timer /\ x.timer = NextSwitchAt(n) /\ n + 1 < NextSwitchAt(n)
      BY <2>1, <2>4 DEF TabSane
    <3>2. CASE x.theme = ThemeForHour(Hour(n))
      BY <3>1, <3>2, UntilSwitch
    <3>3. CASE Valid(x.chosen, n)
      BY <2>1, <3>1, <3>3 DEF TabSane, Valid
    <3> QED
      BY <2>6, <3>1, <3>2, <3>3 DEF TabTimely
  <2>7. ASSUME TabBacked(x, s, n) PROVE TabBacked(x, s, n + 1)
    BY <2>2, <2>3, <2>7 DEF TabBacked
  <2> QED
    BY <1>3, <2>5, <2>6, <2>7 DEF TabOK
<1> QED
  BY <1>2, <1>3

\* Clearing an override that has expired matters to nobody.
LEMMA ClearsNothing ==
    ASSUME ThemeIInv
    PROVE  /\ StoreOK(ClearsOverride, clock)
           /\ \A x, w, last :
                 TabOK(x, w, stored, clock, last) => TabOK(x, w, ClearsOverride, clock, last)
<1>1. stored \in StoredRecords /\ StoreOK(stored, clock)
  BY DEF ThemeIInv, StoreOK
<1>2. CASE ClearsOverride = stored
  BY <1>1, <1>2
<1>3. CASE ClearsOverride # stored
  <2>1. /\ ~Valid(stored.override, clock)
        /\ ClearsOverride \in {[preference |-> stored.preference, override |-> NoOverride]}
    BY <1>1, <1>3 DEF ClearsOverride, ReadOverride, WriteOverride, StoredRecords
  <2>2. StoreOK(ClearsOverride, clock)
    BY <1>1, <2>1 DEF StoreOK, StoredRecords, Valid
  <2>3. ASSUME NEW x, TabBacked(x, stored, clock) PROVE TabBacked(x, ClearsOverride, clock)
    BY <2>1, <2>3 DEF TabBacked, Valid
  <2> QED
    BY <2>2, <2>3 DEF TabOK
<1> QED
  BY <1>2, <1>3

\* A tab in auto mode that looks at clock and storage.
LEMMA SyncedOK ==
    ASSUME ThemeIInv, NEW w \in Windows, NEW x \in TabRecords, x.phase = "open", x.preference = "auto",
           Valid(x.chosen, clock) => x.chosen.until = NextSwitchAt(clock),
           (storage = "works" /\ writer = w) =>
               /\ Valid(x.chosen, clock) => stored.override = x.chosen
               /\ Valid(stored.override, clock) => x.chosen = stored.override
    PROVE  Synced(x) \in TabRecords /\ TabOK(Synced(x), w, stored, clock, writer)
<1>1. /\ clock \in Nat /\ StoreOK(stored, clock) /\ stored \in StoredRecords
      /\ storage \in {"works", "full", "blocked"}
  BY ThemeClock DEF ThemeIInv, StoreOK
<1> DEFINE theme == ResolveTheme("auto", ReadOverride(clock), clock)
<1>2. /\ storage = "works" /\ Valid(stored.override, clock) => theme = stored.override.theme
      /\ ~(storage = "works" /\ Valid(stored.override, clock)) => theme = ThemeForHour(Hour(clock))
  BY <1>1 DEF ResolveTheme, ReadOverride, StoreOK, Valid
<1>3. theme \in Themes
  BY <1>1, <1>2 DEF StoredRecords, Overrides, Valid, ThemeForHour, Themes
<1>4. NextSwitchAt(clock) \in Nat /\ NextSwitchAt(clock) # NoTimer
  BY <1>1, SwitchAhead, ThemeNone
<1>5. /\ Synced(x) \in TabRecords
      /\ Synced(x).phase = "open" /\ Synced(x).preference = "auto" /\ Synced(x).theme = theme
      /\ Synced(x).timer = NextSwitchAt(clock) /\ Synced(x).chosen = x.chosen
  BY <1>3, <1>4 DEF Synced, TabRecords
<1> HIDE DEF theme
<1>6. TabSane(Synced(x), clock)
  BY <1>4, <1>5 DEF TabSane
<1>7. (storage = "blocked" \/ writer = w) => TabTimely(Synced(x), clock)
  BY <1>2, <1>5 DEF TabTimely
<1>8. (storage = "works" /\ writer = w) => TabBacked(Synced(x), stored, clock)
  BY <1>2, <1>5 DEF TabBacked
<1> QED
  BY <1>5, <1>6, <1>7, <1>8 DEF TabOK

-----------------------------------------------------------------------------
\* Theme: the steps keep the invariant.

\* A tab looks, and the storage is as good as it was.
LEMMA TabLooks ==
    ASSUME ThemeIInv, NEW w \in Windows, NEW x \in TabRecords,
           TabOK(x, w, stored, clock, writer),
           tabs' = [tabs EXCEPT ![w] = x], stored' \in {stored, ClearsOverride},
           UNCHANGED <<clock, storage, writer, choices>>
    PROVE  ThemeIInv'
<1>1. /\ clock \in 0..LastHour /\ storage \in {"works", "full", "blocked"}
      /\ StoreOK(stored, clock) /\ tabs \in [Windows -> TabRecords]
      /\ \A v \in Windows : TabOK(tabs[v], v, stored, clock, writer)
      /\ writer \in Windows \cup {NoWindow} /\ choices \in 0..MaxChoices
  BY DEF ThemeIInv
<1>2. StoreOK(stored, clock)'
  <2>1. StoreOK(stored', clock)
    BY <1>1, ClearsNothing
  <2> QED
    BY <2>1 DEF StoreOK
<1>3. tabs' \in [Windows -> TabRecords]
  BY <1>1
<1>4. ASSUME NEW v \in Windows PROVE TabOK(tabs[v], v, stored, clock, writer)'
  <2>1. TabOK(tabs'[v], v, stored, clock, writer)
    BY <1>1
  <2>2. TabOK(tabs'[v], v, stored', clock, writer)
    BY <2>1, ClearsNothing
  <2> QED
    BY <2>2 DEF TabOK
<1> QED
  BY <1>1, <1>2, <1>3, <1>4 DEF ThemeIInv

\* A tab chooses, and is the last that did.
LEMMA TabChooses ==
    ASSUME ThemeIInv, NEW w \in Windows, NEW x \in TabRecords,
           StoreOK(stored', clock), TabOK(x, w, stored', clock, w),
           tabs' = [tabs EXCEPT ![w] = x], writer' = w,
           choices < MaxChoices, choices' = choices + 1, UNCHANGED <<clock, storage>>
    PROVE  ThemeIInv'
<1>1. /\ clock \in 0..LastHour /\ storage \in {"works", "full", "blocked"}
      /\ tabs \in [Windows -> TabRecords]
      /\ \A v \in Windows : TabOK(tabs[v], v, stored, clock, writer)
      /\ choices \in 0..MaxChoices
  BY DEF ThemeIInv
<1>2. StoreOK(stored, clock)'
  BY DEF StoreOK
<1>3. tabs' \in [Windows -> TabRecords] /\ choices' \in 0..MaxChoices
  BY <1>1, ThemeBound
<1>4. ASSUME NEW v \in Windows PROVE TabOK(tabs[v], v, stored, clock, writer)'
  <2>1. CASE v = w
    <3>1. TabOK(tabs'[v], v, stored', clock, w)
      BY <1>1, <2>1
    <3> QED
      BY <3>1 DEF TabOK
  <2>2. CASE v # w
    <3>1. TabOK(tabs'[v], v, stored, clock, writer)
      BY <1>1, <2>2
    <3>2. TabOK(tabs'[v], v, stored', clock, w)
      BY <2>2, <3>1 DEF TabOK
    <3> QED
      BY <3>2 DEF TabOK
  <2> QED
    BY <2>1, <2>2
<1> QED
  BY <1>1, <1>2, <1>3, <1>4 DEF ThemeIInv

\* What a tab is between steps.
LEMMA TabFacts ==
    ASSUME ThemeIInv, NEW w \in Windows
    PROVE  /\ tabs[w] \in TabRecords /\ TabSane(tabs[w], clock)
           /\ TabOK(tabs[w], w, stored, clock, writer)
           /\ (storage = "works" /\ writer = w) => TabBacked(tabs[w], stored, clock)
           /\ (storage = "blocked" \/ writer = w) => TabTimely(tabs[w], clock)
           /\ clock \in Nat /\ stored \in StoredRecords /\ StoreOK(stored, clock)
           /\ storage \in {"works", "full", "blocked"}
BY ThemeClock DEF ThemeIInv, TabOK, StoreOK

\* The start-up script reads what was stored.
LEMMA StepLoadPage == ASSUME ThemeIInv, NEW w \in Windows, LoadPage(w) PROVE ThemeIInv'
<1> DEFINE x == [ClosedTab EXCEPT
            !.phase = "loaded", !.theme = ThemeInitScript, !.preference = ReadPreference,
            !.chosen = IF ReadPreference = "auto" THEN ReadOverride(clock) ELSE NoOverride]
<1>1. stored \in StoredRecords /\ StoreOK(stored, clock) /\ storage \in {"works", "full", "blocked"}
  BY TabFacts
<1>2. ThemeInitScript \in Themes /\ ReadPreference \in Preferences
      /\ ReadOverride(clock) \in Overrides \cup {NoOverride}
  BY <1>1 DEF ThemeInitScript, ReadPreference, ReadOverride, StoredRecords, Overrides, Preferences, Themes,
              Valid, ThemeForHour
<1>3. /\ x.phase = "loaded" /\ x.theme = ThemeInitScript /\ x.preference = ReadPreference
      /\ x.chosen = IF ReadPreference = "auto" THEN ReadOverride(clock) ELSE NoOverride
      /\ x.timer = NoTimer /\ x \in TabRecords
  BY <1>2 DEF ClosedTab, TabRecords
<1>4. tabs' = [tabs EXCEPT ![w] = x] /\ stored' = stored /\ UNCHANGED <<clock, storage, writer, choices>>
  BY DEF LoadPage
<1> HIDE DEF x
<1>5. TabSane(x, clock)
  <2>1. x.preference # "auto" => x.theme = x.preference /\ x.chosen = NoOverride
    BY <1>3 DEF ThemeInitScript, ReadPreference
  <2>2. Valid(x.chosen, clock) => x.chosen.until = NextSwitchAt(clock)
    BY <1>1, <1>3 DEF ReadOverride, Valid, StoreOK
  <2> QED
    BY <1>3, <2>1, <2>2 DEF TabSane
<1>6. TabTimely(x, clock)
  BY <1>3 DEF TabTimely
<1>7. storage = "works" => TabBacked(x, stored, clock)
  BY <1>3 DEF TabBacked, ReadOverride, Valid
<1>8. TabOK(x, w, stored, clock, writer)
  BY <1>5, <1>6, <1>7 DEF TabOK
<1> QED
  BY <1>3, <1>4, <1>8, TabLooks

\* A tab that is closed promises nothing.
LEMMA StepCloseTab == ASSUME ThemeIInv, NEW w \in Windows, CloseTab(w) PROVE ThemeIInv'
<1>1. ClosedTab \in TabRecords /\ TabOK(ClosedTab, w, stored, clock, writer)
  BY DEF ClosedTab, TabRecords, TabOK, TabSane, TabTimely, TabBacked, Themes, Preferences, Valid
<1> QED
  BY <1>1, TabLooks DEF CloseTab

\* The page is hydrated, shown or hidden: a tab in auto mode may look at the
\* clock then.
LEMMA StepLook ==
    ASSUME ThemeIInv, NEW w \in Windows, Hydrate(w) \/ ShowTab(w) \/ HideTab(w) \/ TimerFires(w)
    PROVE  ThemeIInv'
<1>1. /\ tabs[w] \in TabRecords /\ TabSane(tabs[w], clock) /\ TabOK(tabs[w], w, stored, clock, writer)
      /\ (storage = "works" /\ writer = w) => TabBacked(tabs[w], stored, clock)
  BY TabFacts
<1>2. UNCHANGED <<clock, storage, writer, choices>>
  BY DEF Hydrate, ShowTab, HideTab, TimerFires
<1>3. ASSUME NEW x \in TabRecords, x.phase = "open", x.preference = "auto",
             tabs[w].preference = "auto", tabs[w].phase # "closed", x.chosen = tabs[w].chosen,
             tabs' = [tabs EXCEPT ![w] = Synced(x)], stored' = ClearsOverride
      PROVE  ThemeIInv'
  <2>1. Valid(x.chosen, clock) => x.chosen.until = NextSwitchAt(clock)
    BY <1>1, <1>3 DEF TabSane
  <2>2. (storage = "works" /\ writer = w) =>
               /\ Valid(x.chosen, clock) => stored.override = x.chosen
               /\ Valid(stored.override, clock) => x.chosen = stored.override
    BY <1>1, <1>3 DEF TabBacked
  <2>3. Synced(x) \in TabRecords /\ TabOK(Synced(x), w, stored, clock, writer)
    BY <1>3, <2>1, <2>2, SyncedOK
  <2> QED
    BY <1>2, <1>3, <2>3, TabLooks
<1>4. CASE Hydrate(w)
  <2> DEFINE x == [tabs[w] EXCEPT !.phase = "open"]
  <2>1. /\ tabs[w].phase = "loaded"
        /\ IF x.preference = "auto" THEN tabs' = [tabs EXCEPT ![w] = Synced(x)] /\ stored' = ClearsOverride
                                    ELSE tabs' = [tabs EXCEPT ![w] = x] /\ stored' = stored
    BY <1>4 DEF Hydrate
  <2>2. /\ x \in TabRecords /\ x.phase = "open" /\ x.preference = tabs[w].preference
        /\ x.chosen = tabs[w].chosen /\ x.timer = tabs[w].timer /\ x.theme = tabs[w].theme
    BY <1>1 DEF TabRecords
  <2> HIDE DEF x
  <2>3. CASE x.preference = "auto"
    BY <1>3, <2>1, <2>2, <2>3
  <2>4. CASE x.preference # "auto"
    <3>1. TabOK(x, w, stored, clock, writer)
      BY <1>1, <2>1, <2>2, <2>4 DEF TabOK, TabSane, TabTimely, TabBacked, Valid
    <3> QED
      BY <1>2, <2>1, <2>2, <2>4, <3>1, TabLooks
  <2> QED
    BY <2>3, <2>4
<1>5. CASE ShowTab(w)
  <2> DEFINE x == [tabs[w] EXCEPT !.visible = TRUE]
  <2>1. /\ tabs[w].phase = "open"
        /\ IF x.preference = "auto" THEN tabs' = [tabs EXCEPT ![w] = Synced(x)] /\ stored' = ClearsOverride
                                    ELSE tabs' = [tabs EXCEPT ![w] = x] /\ stored' = stored
    BY <1>5 DEF ShowTab
  <2>2. /\ x \in TabRecords /\ x.phase = tabs[w].phase /\ x.preference = tabs[w].preference
        /\ x.chosen = tabs[w].chosen /\ x.timer = tabs[w].timer /\ x.theme = tabs[w].theme
    BY <1>1 DEF TabRecords
  <2> HIDE DEF x
  <2>3. CASE x.preference = "auto"
    BY <1>3, <2>1, <2>2, <2>3
  <2>4. CASE x.preference # "auto"
    <3>1. TabOK(x, w, stored, clock, writer)
      BY <1>1, <2>2 DEF TabOK, TabSane, TabTimely, TabBacked
    <3> QED
      BY <1>2, <2>1, <2>2, <2>4, <3>1, TabLooks
  <2> QED
    BY <2>3, <2>4
<1>6. CASE HideTab(w)
  <2> DEFINE x == [tabs[w] EXCEPT !.visible = FALSE]
  <2>1. tabs' = [tabs EXCEPT ![w] = x] /\ stored' = stored
    BY <1>6 DEF HideTab
  <2>2. /\ x \in TabRecords /\ x.phase = tabs[w].phase /\ x.preference = tabs[w].preference
        /\ x.chosen = tabs[w].chosen /\ x.timer = tabs[w].timer /\ x.theme = tabs[w].theme
    BY <1>1 DEF TabRecords
  <2> HIDE DEF x
  <2>3. TabOK(x, w, stored, clock, writer)
    BY <1>1, <2>2 DEF TabOK, TabSane, TabTimely, TabBacked
  <2> QED
    BY <1>2, <2>1, <2>2, <2>3, TabLooks
<1>7. CASE TimerFires(w)
  <2>1. /\ tabs[w].timer # NoTimer
        /\ tabs' = [tabs EXCEPT ![w] = Synced(tabs[w])] /\ stored' = ClearsOverride
    BY <1>7 DEF TimerFires, Synced
  <2>2. tabs[w].phase = "open" /\ tabs[w].preference = "auto"
    BY <1>1, <2>1 DEF TabSane
  <2> QED
    BY <1>1, <1>3, <2>1, <2>2
<1> QED
  BY <1>4, <1>5, <1>6, <1>7

\* A choice in the picker.
LEMMA StepPick ==
    ASSUME ThemeIInv, NEW w \in Windows, NEW p \in Preferences, PickPreference(w, p)
    PROVE  ThemeIInv'
<1> DEFINE theme == ResolveTheme(p, NoOverride, clock)
           timer == IF p = tabs[w].preference THEN tabs[w].timer
                    ELSE IF p = "auto" THEN NextSwitchAt(clock) ELSE NoTimer
           x == [tabs[w] EXCEPT !.preference = p, !.theme = theme, !.timer = timer, !.chosen = NoOverride]
<1>1. /\ tabs[w].phase = "open" /\ choices < MaxChoices /\ choices' = choices + 1
      /\ stored' = WritePreference(p) /\ tabs' = [tabs EXCEPT ![w] = x]
      /\ writer' = w /\ UNCHANGED <<clock, storage>>
  BY DEF PickPreference
<1>2. /\ tabs[w] \in TabRecords /\ TabSane(tabs[w], clock) /\ clock \in Nat
      /\ stored \in StoredRecords /\ StoreOK(stored, clock) /\ storage \in {"works", "full", "blocked"}
  BY TabFacts
<1>3. theme \in Themes /\ (p = "auto" => theme = ThemeForHour(Hour(clock))) /\ (p # "auto" => theme = p)
  BY DEF ResolveTheme, Valid, ThemeForHour, Themes, Preferences
<1>4. NextSwitchAt(clock) \in Nat /\ NextSwitchAt(clock) # NoTimer
  BY <1>2, SwitchAhead, ThemeNone
<1>5. /\ timer \in Nat \cup {NoTimer} /\ (timer # NoTimer <=> p = "auto")
      /\ (timer # NoTimer /\ clock < timer) => timer = NextSwitchAt(clock)
  BY <1>1, <1>2, <1>4 DEF TabRecords, TabSane
<1> HIDE DEF theme, timer
<1>6. /\ x \in TabRecords /\ x.phase = "open" /\ x.preference = p /\ x.theme = theme /\ x.timer = timer
      /\ x.chosen = NoOverride
  BY <1>1, <1>2, <1>3, <1>5 DEF TabRecords
<1> HIDE DEF x
<1>7. StoreOK(stored', clock)
  BY <1>1, <1>2 DEF WritePreference, StoreOK, StoredRecords, Valid
<1>8. storage = "works" => stored'.override = NoOverride
  BY <1>1 DEF WritePreference
<1>9. TabOK(x, w, stored', clock, w)
  BY <1>3, <1>5, <1>6, <1>8 DEF TabOK, TabSane, TabTimely, TabBacked, Valid
<1> QED
  BY <1>1, <1>6, <1>7, <1>9, TabChooses

\* The toggle chooses the other theme, or overrides the clock.
LEMMA StepToggle == ASSUME ThemeIInv, NEW w \in Windows, ToggleTheme(w) PROVE ThemeIInv'
<1> DEFINE o == [theme |-> Opposite(tabs[w].theme), until |-> NextSwitchAt(clock)]
           x == [tabs[w] EXCEPT !.theme = o.theme, !.chosen = o]
<1>1. /\ tabs[w] \in TabRecords /\ TabSane(tabs[w], clock) /\ clock \in Nat
      /\ stored \in StoredRecords /\ StoreOK(stored, clock) /\ storage \in {"works", "full", "blocked"}
  BY TabFacts
<1>2. Opposite(tabs[w].theme) \in Themes
  BY DEF Opposite, Themes
<1>3. CASE tabs[w].preference # "auto"
  <2>1. PickPreference(w, Opposite(tabs[w].theme))
    BY <1>3 DEF ToggleTheme
  <2> QED
    BY <1>2, <2>1, StepPick DEF Preferences
<1>4. CASE tabs[w].preference = "auto"
  <2>1. /\ tabs[w].phase = "open" /\ choices < MaxChoices /\ choices' = choices + 1
        /\ stored' = WriteOverride(o) /\ tabs' = [tabs EXCEPT ![w] = x]
        /\ writer' = w /\ UNCHANGED <<clock, storage>>
    BY <1>4 DEF ToggleTheme
  <2>2. /\ o \in Overrides /\ o # NoOverride /\ o.until = NextSwitchAt(clock) /\ Valid(o, clock)
    BY <1>1, <1>2, SwitchAhead, ThemeNone DEF Overrides, Valid
  <2>3. o.theme \in Themes
    BY <1>2
  <2> HIDE DEF o
  <2>4. /\ x \in TabRecords /\ x.phase = "open" /\ x.preference = "auto" /\ x.theme = o.theme
        /\ x.timer = tabs[w].timer /\ x.chosen = o
    BY <1>1, <1>4, <2>1, <2>2, <2>3 DEF TabRecords
  <2> HIDE DEF x
  <2>5. StoreOK(stored', clock) /\ (storage = "works" => stored'.override = o)
    BY <1>1, <2>1, <2>2 DEF WriteOverride, StoreOK, StoredRecords
  <2>6. TabOK(x, w, stored', clock, w)
    BY <1>1, <1>4, <2>1, <2>2, <2>4, <2>5 DEF TabOK, TabSane, TabTimely, TabBacked
  <2> QED
    BY <2>1, <2>4, <2>5, <2>6, TabChooses
<1> QED
  BY <1>3, <1>4

\* An hour passes.
LEMMA StepHour == ASSUME ThemeIInv, PassHour PROVE ThemeIInv'
<1>1. /\ clock \in 0..LastHour /\ clock < LastHour /\ clock' = clock + 1
      /\ UNCHANGED <<storage, stored, tabs, writer, choices>>
  BY DEF PassHour, ThemeIInv
<1>2. clock \in Nat /\ clock' \in 0..LastHour
  BY <1>1, ThemeClock
<1>3. StoreOK(stored, clock + 1) /\ \A w \in Windows : TabOK(tabs[w], w, stored, clock + 1, writer)
  BY <1>2, HourPasses DEF ThemeIInv
<1>4. StoreOK(stored, clock)' /\ \A w \in Windows : TabOK(tabs[w], w, stored, clock, writer)'
  BY <1>1, <1>3 DEF StoreOK, TabOK
<1> QED
  BY <1>1, <1>2, <1>4 DEF ThemeIInv

\* One case for every action of the theme.
LEMMA ThemeINext == ThemeIInv /\ [ThemeNext]_themeVars => ThemeIInv'
<1> SUFFICES ASSUME ThemeIInv, [ThemeNext]_themeVars PROVE ThemeIInv'
  OBVIOUS
<1>1. CASE UNCHANGED themeVars
  <2>1. UNCHANGED <<clock, storage, stored, tabs, writer, choices>>
    BY <1>1 DEF themeVars
  <2>2. StoreOK(stored, clock)' /\ \A w \in Windows : TabOK(tabs[w], w, stored, clock, writer)'
    BY <2>1 DEF ThemeIInv, StoreOK, TabOK
  <2> QED
    BY <2>1, <2>2 DEF ThemeIInv
<1>2. CASE PassHour
  BY <1>2, StepHour
<1>3. ASSUME NEW w \in Windows,
             \/ LoadPage(w) \/ Hydrate(w) \/ CloseTab(w) \/ ToggleTheme(w)
             \/ TimerFires(w) \/ HideTab(w) \/ ShowTab(w)
             \/ \E p \in Preferences : PickPreference(w, p)
      PROVE  ThemeIInv'
  BY <1>3, StepLoadPage, StepLook, StepCloseTab, StepToggle, StepPick
<1> QED
  BY <1>1, <1>2, <1>3 DEF ThemeNext

\* No flash of the wrong theme, an override sticks until the next switch, auto
\* resumes then, and a reload changes nothing (theme.ts:10, :106): for any
\* number of tabs, hours and choices.
THEOREM ThemeSound == ThemeSpec => []ThemeInv
<1>1. ThemeIInv => ThemeInv
  BY ThemeIImplies
<1> QED
  BY <1>1, ThemeIInit, ThemeINext, PTL DEF ThemeSpec

-----------------------------------------------------------------------------
\* MapCanvas and MapView: the inductive invariant.

\* The filters of a style, whichever props they were set for.
LEMMA FiltersTyped ==
    ASSUME NEW m \in SUBSET Shapes, NEW t \in (SUBSET Shapes) \cup {None}, NEW iso \in Shapes \cup {None}
    PROVE  LET y == FiltersOf(m, t, iso) IN
           /\ y \in Filters /\ y.selected = iso
           /\ y.visited \cap y.friend = {} /\ y.overlap \cap (y.visited \cup y.friend) = {}
           /\ \A i \in Shapes \cup {None} : [y EXCEPT !.selected = i] = FiltersOf(m, t, i)
           /\ (m = {} /\ t \in {None, {}}) => y.visited \cup y.friend \cup y.overlap = {}
BY CanvasNone DEF FiltersOf, CompareFilters, PartitionCompare, Filters

\* The filters a new style starts with.
LEMMA NewStyleTyped ==
    /\ BuildMapStyle \in Filters
    /\ BuildMapStyle.visited \cap BuildMapStyle.friend = {}
    /\ BuildMapStyle.overlap \cap (BuildMapStyle.visited \cup BuildMapStyle.friend) = {}
BY DEF BuildMapStyle, Filters

\* The props of the user's own map are what the queries and the store say.
PropsOK ==
    OwnMap => visited = Visited(me, data) /\ friend = FriendVisited(me, compareWith, friendsMap)

\* Before the map is loaded: nothing is lit by a row before there is a style,
\* and a globe that no toggle met busy is drawn as one.
BeforeLoad ==
    /\ phase = "none" => lastHighlight = None
    /\ (phase # "loaded" /\ ~skipped /\ control = "globe") => drawn = "globe"

\* The parts by what they are about.
DrawingOK == ColoursNeverStack /\ CanvasShowsProps
ProjectionOK == ProjectionFollows /\ BeforeLoad
MapIInv == ViewTypeOK /\ DrawingOK /\ ProjectionOK /\ LitIsPointedAt /\ PropsOK

\* The inductive invariant of the map has its promises in it.
LEMMA MapIImplies == MapIInv => MapInv /\ CanvasShowsProps /\ LitIsPointedAt
<1> SUFFICES ASSUME MapIInv PROVE LoggedOutMapIsBare
  BY DEF MapIInv, MapInv, DrawingOK, ProjectionOK
<1>1. ASSUME phase = "loaded", OwnMap, me = "out"
      PROVE  shown.visited \cup shown.friend \cup shown.overlap = {}
  <2>1. visited = {} /\ friend \in {None, {}}
    BY <1>1 DEF MapIInv, PropsOK, Visited, FriendVisited
  <2>2. shown = FiltersOf(visited, friend, selected) /\ selected \in Shapes \cup {None}
    BY <1>1 DEF MapIInv, DrawingOK, CanvasShowsProps, ViewTypeOK, CanvasTypeOK
  <2> QED
    BY <2>1, <2>2, FiltersTyped
<1> QED
  BY <1>1 DEF LoggedOutMapIsBare

\* Before the style has loaded.
LEMMA MapIInit == MapInit => MapIInv
<1> SUFFICES ASSUME MapInit PROVE MapIInv
  OBVIOUS
<1>1. shown = BuildMapStyle /\ shown \in Filters
  BY NewStyleTyped DEF MapInit
<1>2. visited \in SUBSET Shapes
  BY ViewCodes DEF MapInit
<1>3. CanvasTypeOK
  BY <1>1, <1>2 DEF MapInit, CanvasTypeOK, ReadProjection, Projections
<1>4. ViewTypeOK
  BY <1>3, ViewNone DEF MapInit, ViewTypeOK, Projections
<1>5. ColoursNeverStack
  BY <1>1, NewStyleTyped DEF ColoursNeverStack
<1>6. CanvasShowsProps /\ ProjectionFollows /\ BeforeLoad /\ LitIsPointedAt
  BY DEF MapInit, CanvasShowsProps, ProjectionFollows, BeforeLoad, LitIsPointedAt
<1>7. PropsOK
  BY DEF MapInit, PropsOK, OwnMap, Visited, FriendVisited
<1> QED
  BY <1>4, <1>5, <1>6, <1>7 DEF MapIInv, DrawingOK, ProjectionOK

-----------------------------------------------------------------------------
\* MapCanvas and MapView: the steps keep the invariant.

\* The types, one by one.
LEMMA MapTypes ==
    ASSUME MapIInv
    PROVE  /\ visited \in SUBSET Shapes /\ friend \in (SUBSET Shapes) \cup {None}
           /\ selected \in Shapes \cup {None} /\ highlighted \in Shapes \cup {None}
           /\ hoveredIso \in Shapes \cup {None} /\ lastHighlight \in Shapes \cup {None}
           /\ phase \in {"none", "styled", "loaded"} /\ shown \in Filters
           /\ busy \in BOOLEAN /\ night \in BOOLEAN /\ toggleable \in BOOLEAN /\ skipped \in BOOLEAN
           /\ control \in Projections /\ drawn \in Projections
           /\ lit \in SUBSET Shapes /\ shared \in SUBSET Shapes
           /\ data \in SUBSET Canonical /\ data \in SUBSET Shapes
           /\ friendsMap \in {None, FriendCodes} /\ FriendCodes \in SUBSET Shapes
           /\ Canonical \in SUBSET Shapes /\ Mine \in SUBSET Canonical
BY ViewCodes DEF MapIInv, ViewTypeOK, CanvasTypeOK

\* A step in which only the map's own state changes, and neither what it shows
\* nor what is lit.
LEMMA MapOnItsOwn ==
    ASSUME MapIInv,
           \/ StyleArrives \/ Settles \/ MapWorks,
           UNCHANGED viewVars
    PROVE  MapIInv'
<1>1. /\ phase' \in {"none", "styled", "loaded"} /\ (phase' = "loaded" <=> phase = "loaded")
      /\ (phase' = "none" => phase = "none")
      /\ busy' \in BOOLEAN /\ night' \in BOOLEAN /\ (night => night')
      /\ UNCHANGED <<visited, friend, selected, highlighted, shown, toggleable, control, drawn, hover,
                     skipped, viewVars>>
  <2>1. phase \in {"none", "styled", "loaded"} /\ busy \in BOOLEAN /\ night \in BOOLEAN
    BY MapTypes
  <2>2. CASE StyleArrives
    BY <2>1, <2>2 DEF StyleArrives
  <2>3. CASE Settles
    BY <2>1, <2>3 DEF Settles
  <2>4. CASE MapWorks
    BY <2>1, <2>4 DEF MapWorks
  <2> QED
    BY <2>2, <2>3, <2>4
<1>2. ViewTypeOK'
  BY <1>1 DEF MapIInv, ViewTypeOK, CanvasTypeOK, viewVars, hover
<1>3. DrawingOK'
  BY <1>1 DEF MapIInv, DrawingOK, ColoursNeverStack, CanvasShowsProps
<1>4. ProjectionOK' /\ LitIsPointedAt'
  BY <1>1 DEF MapIInv, ProjectionOK, ProjectionFollows, BeforeLoad, LitIsPointedAt, hover
<1>5. PropsOK'
  BY <1>1 DEF MapIInv, PropsOK, OwnMap, Visited, FriendVisited, viewVars
<1> QED
  BY <1>2, <1>3, <1>4, <1>5 DEF MapIInv

\* The filters are set for the props as they are.
LEMMA MapIsFilled ==
    ASSUME MapIInv, Load \/ SwapTheme, UNCHANGED viewVars
    PROVE  MapIInv'
<1>1. /\ phase' \in {"styled", "loaded"} /\ shown' = FiltersOf(visited, friend, selected)
      /\ busy' = TRUE /\ night' = TRUE
      /\ UNCHANGED <<visited, friend, selected, highlighted, toggleable, control, hover, viewVars>>
  BY MapTypes DEF Load, SwapTheme, Reasserted
<1>2. shown' \in Filters
  BY <1>1, MapTypes, FiltersTyped
<1>3. drawn' \in Projections /\ skipped' \in BOOLEAN
  BY MapTypes DEF Load, SwapTheme, Restored
<1>4. ViewTypeOK'
  BY <1>1, <1>2, <1>3 DEF MapIInv, ViewTypeOK, CanvasTypeOK, viewVars, hover
<1>5. DrawingOK'
  BY <1>1, MapTypes, FiltersTyped DEF DrawingOK, ColoursNeverStack, CanvasShowsProps
<1>6. ProjectionOK'
  <2>1. CASE Load
    BY <1>1, <2>1, MapTypes DEF Load, MapIInv, ProjectionOK, ProjectionFollows, BeforeLoad
  <2>2. CASE SwapTheme
    BY <1>1, <2>2, MapTypes DEF SwapTheme, Restored, MapIInv, ProjectionOK, ProjectionFollows, BeforeLoad
  <2> QED
    BY <2>1, <2>2
<1>7. LitIsPointedAt'
  BY <1>1 DEF MapIInv, LitIsPointedAt, hover
<1>8. PropsOK'
  BY <1>1 DEF MapIInv, PropsOK, OwnMap, Visited, FriendVisited, viewVars
<1> QED
  BY <1>4, <1>5, <1>6, <1>7, <1>8 DEF MapIInv

\* The pointer or a row takes the light, and the other one may lose it.
LEMMA LightMoves ==
    ASSUME MapIInv, NEW iso \in Shapes \cup {None},
           SetHovered(iso) \/ SetHighlighted(iso), UNCHANGED viewVars
    PROVE  MapIInv'
<1>1. UNCHANGED <<visited, friend, selected, canvas, toggleable, skipped, viewVars>>
  BY DEF SetHovered, SetHighlighted
<1>2. /\ lit' \in SUBSET Shapes /\ shared' \in SUBSET Shapes
      /\ hoveredIso' \in Shapes \cup {None} /\ lastHighlight' \in Shapes \cup {None}
      /\ highlighted' \in Shapes \cup {None}
  BY MapTypes DEF SetHovered, SetHighlighted, Relit
<1>3. ViewTypeOK'
  BY <1>1, <1>2 DEF MapIInv, ViewTypeOK, CanvasTypeOK, viewVars, canvas
<1>4. DrawingOK'
  BY <1>1 DEF MapIInv, DrawingOK, ColoursNeverStack, CanvasShowsProps, canvas
<1>5. PropsOK'
  BY <1>1 DEF MapIInv, PropsOK, OwnMap, Visited, FriendVisited, viewVars
<1>6. LitIsPointedAt /\ (phase = "none" => lastHighlight = None)
  BY DEF MapIInv, ProjectionOK, BeforeLoad
<1>7. CASE SetHovered(iso)
  <2>1. LitIsPointedAt'
    BY <1>6, <1>7, MapTypes, CanvasNone DEF SetHovered, LitIsPointedAt
  <2>2. ProjectionOK'
    BY <1>1, <1>7 DEF SetHovered, MapIInv, ProjectionOK, ProjectionFollows, BeforeLoad, canvas
  <2> QED
    BY <1>3, <1>4, <1>5, <2>1, <2>2 DEF MapIInv
<1>8. CASE SetHighlighted(iso)
  <2>1. LitIsPointedAt'
    BY <1>6, <1>8, MapTypes, CanvasNone DEF SetHighlighted, Relit, LitIsPointedAt
  <2>2. ProjectionOK'
    BY <1>1, <1>8 DEF SetHighlighted, MapIInv, ProjectionOK, ProjectionFollows, BeforeLoad, canvas
  <2> QED
    BY <1>3, <1>4, <1>5, <2>1, <2>2 DEF MapIInv
<1> QED
  BY <1>7, <1>8

\* What the user or a query does to the props of the user's own map.
LEMMA PropsChange ==
    ASSUME MapIInv, OwnMap, Props, selected' = selected, highlighted' = highlighted,
           me' \in {"loading", "in", "out"}, data' \in SUBSET Canonical,
           friendsMap' \in {None, FriendCodes}, compareWith' \in BOOLEAN, mode' \in {"view", "edit"},
           prompt' \in BOOLEAN, UNCHANGED <<savedMode, savedProjection, keeps, chosen>>
    PROVE  MapIInv'
<1>1. /\ visited' = Visited(me', data') /\ friend' = FriendVisited(me', compareWith', friendsMap')
      /\ shown' = IF phase = "none" THEN shown ELSE FiltersOf(visited', friend', shown.selected)
      /\ busy' \in BOOLEAN
      /\ UNCHANGED <<phase, night, control, drawn, toggleable, hover, skipped>>
  BY MapTypes DEF Props, SetVisited
<1>2. /\ visited' \in SUBSET Shapes /\ friend' \in (SUBSET Shapes) \cup {None}
      /\ shown.selected \in Shapes \cup {None}
  <2>1. shown.selected \in Shapes \cup {None}
    BY MapTypes DEF Filters
  <2> QED
    BY <1>1, <2>1, MapTypes DEF Visited, FriendVisited
<1>3. shown' \in Filters
  BY <1>1, <1>2, MapTypes, FiltersTyped
<1>4. ViewTypeOK'
  BY <1>1, <1>2, <1>3, ViewNone DEF MapIInv, ViewTypeOK, CanvasTypeOK, hover
<1>5. DrawingOK'
  <2>1. ColoursNeverStack'
    BY <1>1, <1>2, FiltersTyped DEF MapIInv, DrawingOK, ColoursNeverStack
  <2>2. CanvasShowsProps'
    <3> SUFFICES ASSUME phase' = "loaded" PROVE shown' = FiltersOf(visited', friend', selected') /\ night'
      BY DEF CanvasShowsProps
    <3>1. phase = "loaded" /\ shown = FiltersOf(visited, friend, selected) /\ night
      BY <1>1 DEF MapIInv, DrawingOK, CanvasShowsProps
    <3>2. shown.selected = selected
      BY <3>1 DEF FiltersOf
    <3> QED
      BY <1>1, <3>1, <3>2
  <2> QED
    BY <2>1, <2>2 DEF DrawingOK
<1>6. ProjectionOK' /\ LitIsPointedAt'
  BY <1>1 DEF MapIInv, ProjectionOK, ProjectionFollows, BeforeLoad, LitIsPointedAt, hover
<1>7. PropsOK'
  BY <1>1 DEF PropsOK, Visited, FriendVisited
<1> QED
  BY <1>4, <1>5, <1>6, <1>7 DEF MapIInv

\* The props of the user's own map change.
LEMMA StepProps ==
    ASSUME MapIInv,
           \/ MeAnswers("in") \/ MeAnswers("out") \/ VisitsLand \/ Logout
           \/ FriendsMapAnswers \/ StopCompare \/ SheetMarks
    PROVE  MapIInv'
<1>1. /\ me \in {"loading", "in", "out"} /\ data \in SUBSET Canonical /\ prompt \in BOOLEAN
      /\ friendsMap \in {None, FriendCodes} /\ compareWith \in BOOLEAN /\ mode \in {"view", "edit"}
  BY DEF MapIInv, ViewTypeOK
<1>2. ASSUME NEW who \in {"in", "out"}, MeAnswers(who) PROVE MapIInv'
  BY <1>1, <1>2, PropsChange DEF MeAnswers, ReadMapMode
<1>3. CASE VisitsLand
  BY <1>1, <1>3, PropsChange DEF VisitsLand
<1>4. CASE Logout
  BY <1>1, <1>4, PropsChange DEF Logout
<1>5. CASE FriendsMapAnswers
  BY <1>1, <1>5, PropsChange DEF FriendsMapAnswers
<1>6. CASE StopCompare
  BY <1>1, <1>6, PropsChange DEF StopCompare
<1>7. CASE SheetMarks
  BY <1>1, <1>7, PropsChange DEF SheetMarks
<1> QED
  BY <1>2, <1>3, <1>4, <1>5, <1>6, <1>7

\* A checkbox of the panel changes them too, or shows the prompt.
LEMMA StepToggleRow == ASSUME MapIInv, NEW iso \in Canonical, ToggleRow(iso) PROVE MapIInv'
<1>1. /\ me \in {"loading", "in", "out"} /\ data \in SUBSET Canonical /\ prompt \in BOOLEAN
      /\ friendsMap \in {None, FriendCodes} /\ compareWith \in BOOLEAN /\ mode \in {"view", "edit"}
  BY DEF MapIInv, ViewTypeOK
<1>2. data' \in SUBSET Canonical /\ prompt' \in BOOLEAN
  BY <1>1 DEF ToggleRow, Toggled
<1> QED
  BY <1>1, <1>2, PropsChange DEF ToggleRow

\* The mode and the prompt do not reach the map.
LEMMA StepMode ==
    ASSUME MapIInv, HidePrompt \/ \E next \in {"view", "edit"} : ChooseMode(next)
    PROVE  MapIInv'
<1>1. /\ UNCHANGED <<canvasVars, me, data, friendsMap, compareWith, savedProjection, keeps>>
      /\ {mode', savedMode', chosen'} \subseteq {"view", "edit", None} /\ mode' # None
      /\ prompt' \in BOOLEAN /\ (~keeps => savedMode' = savedMode)
  BY ViewNone DEF HidePrompt, ChooseMode, MapIInv, ViewTypeOK
<1>2. ViewTypeOK'
  BY <1>1 DEF MapIInv, ViewTypeOK, CanvasTypeOK, canvasVars, canvas, hover
<1>3. DrawingOK' /\ ProjectionOK' /\ LitIsPointedAt'
  BY <1>1 DEF MapIInv, DrawingOK, ColoursNeverStack, CanvasShowsProps, ProjectionOK, ProjectionFollows,
              BeforeLoad, LitIsPointedAt, canvasVars, canvas, hover
<1>4. PropsOK'
  BY <1>1 DEF MapIInv, PropsOK, OwnMap, Visited, FriendVisited, canvasVars
<1> QED
  BY <1>2, <1>3, <1>4 DEF MapIInv

\* A click on the map, by the mode it finds.
LEMMA StepClick == ASSUME MapIInv, NEW iso \in Shapes, HandleCountryClick(iso) PROVE MapIInv'
<1>1. /\ OwnMap /\ phase # "none" /\ iso \in Canonical
      /\ selected' = iso /\ visited' = Visited(me, data') /\ friend' = friend
      /\ shown' = FiltersOf(visited', friend, iso)
      /\ busy' = TRUE /\ prompt' \in BOOLEAN
      /\ UNCHANGED <<me, friendsMap, compareWith, mode, savedMode, savedProjection, keeps, chosen,
                     highlighted, phase, night, control, drawn, toggleable, hover, skipped>>
  BY DEF HandleCountryClick, IsCountryCode, MapIInv, ViewTypeOK
<1>2. data' \in SUBSET Canonical
  <2>1. data \in SUBSET Canonical
    BY MapTypes
  <2> QED
    BY <1>1, <2>1 DEF HandleCountryClick, Toggled
<1>3. visited' \in SUBSET Shapes /\ shown' \in Filters /\ selected' \in Shapes \cup {None}
  <2>1. visited' \in SUBSET Shapes
    BY <1>1, <1>2, ViewCodes DEF Visited
  <2> QED
    BY <1>1, <2>1, MapTypes, FiltersTyped
<1>4. ViewTypeOK'
  BY <1>1, <1>2, <1>3 DEF MapIInv, ViewTypeOK, CanvasTypeOK, hover
<1>5. DrawingOK'
  <2>1. ColoursNeverStack'
    BY <1>1, <1>3, MapTypes, FiltersTyped DEF ColoursNeverStack
  <2>2. CanvasShowsProps'
    BY <1>1 DEF MapIInv, DrawingOK, CanvasShowsProps
  <2> QED
    BY <2>1, <2>2 DEF DrawingOK
<1>6. ProjectionOK' /\ LitIsPointedAt'
  BY <1>1 DEF MapIInv, ProjectionOK, ProjectionFollows, BeforeLoad, LitIsPointedAt, hover
<1>7. PropsOK'
  BY <1>1 DEF MapIInv, PropsOK, OwnMap, Visited, FriendVisited
<1> QED
  BY <1>4, <1>5, <1>6, <1>7 DEF MapIInv

\* The search and the panel select a country.
LEMMA StepPickCountry ==
    ASSUME MapIInv, NEW iso \in Canonical \cup {None}, PickCountry(iso)
    PROVE  MapIInv'
<1>1. /\ selected' = iso /\ iso \in Shapes \cup {None} /\ busy' \in BOOLEAN
      /\ shown' = IF phase = "none" THEN shown ELSE [shown EXCEPT !.selected = iso]
      /\ UNCHANGED <<visited, friend, highlighted, phase, night, control, drawn, toggleable, hover,
                     skipped, viewVars>>
  BY MapTypes DEF PickCountry, SetSelected
<1>2. /\ shown' \in Filters /\ shown'.visited = shown.visited /\ shown'.friend = shown.friend
      /\ shown'.overlap = shown.overlap
  BY <1>1, MapTypes DEF Filters
<1>3. ViewTypeOK'
  BY <1>1, <1>2 DEF MapIInv, ViewTypeOK, CanvasTypeOK, viewVars, hover
<1>4. ColoursNeverStack'
  BY <1>2 DEF MapIInv, DrawingOK, ColoursNeverStack
<1>5. CanvasShowsProps'
  <2>1. [FiltersOf(visited, friend, selected) EXCEPT !.selected = iso] = FiltersOf(visited, friend, iso)
    BY DEF FiltersOf
  <2> QED
    BY <1>1, <2>1 DEF MapIInv, DrawingOK, CanvasShowsProps
<1>6. ProjectionOK' /\ LitIsPointedAt'
  BY <1>1 DEF MapIInv, ProjectionOK, ProjectionFollows, BeforeLoad, LitIsPointedAt, hover
<1>7. PropsOK'
  BY <1>1 DEF MapIInv, PropsOK, OwnMap, Visited, FriendVisited, viewVars
<1> QED
  BY <1>3, <1>4, <1>5, <1>6, <1>7 DEF MapIInv, DrawingOK

\* The control of the projection.
LEMMA StepFlip == ASSUME MapIInv, FlipProjection PROVE MapIInv'
<1> DEFINE next == CHOOSE p \in Projections : p # control
<1>1. next \in Projections /\ next # control
  BY DEF Projections
<1>2. /\ control' = next /\ drawn' \in {drawn, next} /\ skipped' \in BOOLEAN
      /\ (~skipped' => drawn' = next) /\ busy' \in BOOLEAN
      /\ savedProjection' \in {savedProjection, next} /\ (~keeps => savedProjection' = savedProjection)
      /\ UNCHANGED <<visited, friend, selected, highlighted, phase, shown, night, toggleable, hover,
                     me, data, friendsMap, compareWith, mode, savedMode, keeps, prompt, chosen>>
  BY MapTypes DEF FlipProjection, ToggleProjection
<1> HIDE DEF next
<1>3. ViewTypeOK'
  BY <1>1, <1>2 DEF MapIInv, ViewTypeOK, CanvasTypeOK, hover
<1>4. DrawingOK' /\ LitIsPointedAt' /\ ProjectionOK'
  BY <1>2 DEF MapIInv, DrawingOK, ColoursNeverStack, CanvasShowsProps, LitIsPointedAt, ProjectionOK,
              ProjectionFollows, BeforeLoad, hover
<1>5. PropsOK'
  BY <1>2 DEF MapIInv, PropsOK, OwnMap, Visited, FriendVisited
<1> QED
  BY <1>3, <1>4, <1>5 DEF MapIInv

\* The page is left and the map mounted anew.
LEMMA StepReturn == ASSUME MapIInv, NEW comparing \in BOOLEAN, Return(comparing) PROVE MapIInv'
<1>1. /\ phase' = "none" /\ busy' = TRUE /\ shown' = BuildMapStyle /\ night' = FALSE
      /\ drawn' = "globe" /\ hoveredIso' = None /\ lastHighlight' = None /\ lit' = {}
      /\ skipped' = FALSE /\ shared' = {} /\ control' \in Projections
      /\ compareWith' \in BOOLEAN /\ mode' \in {"view", "edit"} /\ selected' \in {None, selected}
      /\ friend' = IF OwnMap THEN FriendVisited(me, compareWith', friendsMap) ELSE None
      /\ UNCHANGED <<visited, highlighted, toggleable, me, data, friendsMap, savedMode,
                     savedProjection, keeps, prompt, chosen>>
  <2>1. compareWith \in BOOLEAN /\ mode \in {"view", "edit"}
    BY DEF MapIInv, ViewTypeOK
  <2>2. compareWith' \in BOOLEAN /\ mode' \in {"view", "edit"} /\ selected' \in {None, selected}
    BY <2>1 DEF Return, ReadMapMode
  <2>3. control' \in Projections
    BY DEF Return, MountCanvas, ReadProjection, Projections
  <2> QED
    BY <2>2, <2>3 DEF Return, MountCanvas
<1>2. friend' \in (SUBSET Shapes) \cup {None}
  <2>1. friend' \in {None, {}, friendsMap}
    BY <1>1 DEF FriendVisited
  <2> QED
    BY <2>1, MapTypes
<1>3. ViewTypeOK'
  <2>1. shown' \in Filters
    BY <1>1, NewStyleTyped
  <2>2. CanvasTypeOK'
    BY <1>1, <1>2, <2>1, MapTypes DEF CanvasTypeOK, Projections
  <2> QED
    BY <1>1, <2>2, ViewNone DEF MapIInv, ViewTypeOK
<1>4. DrawingOK'
  BY <1>1, NewStyleTyped DEF DrawingOK, ColoursNeverStack, CanvasShowsProps
<1>5. ProjectionOK' /\ LitIsPointedAt'
  BY <1>1 DEF ProjectionOK, ProjectionFollows, BeforeLoad, LitIsPointedAt
<1>6. PropsOK'
  BY <1>1 DEF MapIInv, PropsOK, OwnMap, Visited, FriendVisited
<1> QED
  BY <1>3, <1>4, <1>5, <1>6 DEF MapIInv

\* One case for every action of the map.
LEMMA MapINext == MapIInv /\ [MapNext]_mapVars => MapIInv'
<1> SUFFICES ASSUME MapIInv, [MapNext]_mapVars PROVE MapIInv'
  OBVIOUS
<1>1. CASE UNCHANGED mapVars
  <2>1. UNCHANGED <<canvasVars, viewVars>>
    BY <1>1 DEF mapVars
  <2> QED
    BY <2>1 DEF MapIInv, ViewTypeOK, CanvasTypeOK, DrawingOK, ColoursNeverStack, CanvasShowsProps,
                ProjectionOK, ProjectionFollows, BeforeLoad, LitIsPointedAt, PropsOK, OwnMap, Visited,
                FriendVisited, canvasVars, viewVars, canvas, hover
<1>2. CASE CanvasNext /\ UNCHANGED viewVars
  BY <1>2, MapOnItsOwn, MapIsFilled, LightMoves DEF CanvasNext
<1>3. CASE \/ MeAnswers("in") \/ MeAnswers("out") \/ VisitsLand \/ Logout
           \/ FriendsMapAnswers \/ StopCompare \/ SheetMarks
  BY <1>3, StepProps
<1>4. CASE HidePrompt \/ \E next \in {"view", "edit"} : ChooseMode(next)
  BY <1>4, StepMode
<1>5. CASE FlipProjection
  BY <1>5, StepFlip
<1>6. ASSUME NEW iso \in Shapes, HandleCountryClick(iso) PROVE MapIInv'
  BY <1>6, StepClick
<1>7. ASSUME NEW iso \in Canonical \cup {None}, PickCountry(iso) PROVE MapIInv'
  BY <1>7, StepPickCountry
<1>8. ASSUME NEW iso \in Canonical \cup {None}, PointAtRow(iso) PROVE MapIInv'
  BY <1>8, LightMoves, ViewCodes DEF PointAtRow
<1>9. ASSUME NEW comparing \in BOOLEAN, Return(comparing) PROVE MapIInv'
  BY <1>9, StepReturn
<1>10. ASSUME NEW iso \in Canonical, ToggleRow(iso) PROVE MapIInv'
  BY <1>10, StepToggleRow
<1> QED
  BY <1>1, <1>2, <1>3, <1>4, <1>5, <1>6, <1>7, <1>8, <1>9, <1>10 DEF MapNext

\* The inductive invariant holds.
LEMMA MapInvariance == MapSpec => []MapIInv
BY MapIInit, MapINext, PTL DEF MapSpec

-----------------------------------------------------------------------------
\* MapCanvas and MapView: the theorems.

\* The colours never stack, the projection is the one the control shows unless
\* a toggle met a busy map, and logging out leaves the map bare of the user's
\* and the friend's countries: for any shapes, visits and friends.
THEOREM MapSound == MapSpec => []MapInv
BY MapInvariance, MapIImplies, PTL

\* A loaded map shows what its props say and a shaded night, whatever order
\* props, themes, clicks and the map's own events come in.
THEOREM CanvasTrue == MapSpec => []CanvasShowsProps
BY MapInvariance, MapIImplies, PTL

\* Only the country under the pointer and the one of a row are lit, and both
\* are, unless one took the light of the other.
THEOREM LightTrue == MapSpec => []LitIsPointedAt
BY MapInvariance, MapIImplies, PTL

-----------------------------------------------------------------------------
\* Sums and sorted lists.  Induction over finite sets is by a smallest
\* counterexample.

\* A set of parts of a finite set has one that has no other of them in it.
LEMMA SmallestSet ==
    ASSUME NEW S, IsFiniteSet(S), NEW T \in SUBSET SUBSET S, T # {}
    PROVE  \E x \in T : \A y \in T : ~(y \subseteq x /\ y # x)
<1>1. IsWellFoundedOn(StrictSubsetOrdering(S), SUBSET S)
  BY FS_StrictSubsetOrderingWellFounded, FS_FiniteSubsetsOfFinite
<1>2. PICK x \in T : \A y \in T : <<y, x>> \notin StrictSubsetOrdering(S)
  BY <1>1, WFMin
<1> QED
  BY <1>2 DEF StrictSubsetOrdering

\* it sums f over every part of S, one element at a time.
Sums(f, S, it) ==
    it = [s \in SUBSET S |->
            IF s = {} THEN 0 ELSE LET x == CHOOSE x \in s : TRUE IN f[x] + it[s \ {x}]]

\* What adds f[x] with every x, whichever is first, is the sum.
LEMMA SumIs ==
    ASSUME NEW S, IsFiniteSet(S), NEW f \in [S -> Nat], NEW h \in [SUBSET S -> Nat], h[{}] = 0,
           \A s \in SUBSET S : \A x \in s : h[s] = f[x] + h[s \ {x}]
    PROVE  SumFunction(f) = h[S]
<1> DEFINE it == CHOOSE it : Sums(f, S, it)
<1>1. DOMAIN f = S
  OBVIOUS
<1>2. SumFunction(f) = it[S]
  BY <1>1, Zenon DEF SumFunction, SumFunctionOnSet, FoldFunctionOnSet, MapThenFoldSet, Sums
<1>3. Sums(f, S, h)
  <2>1. ASSUME NEW s \in SUBSET S
        PROVE  h[s] = IF s = {} THEN 0
                      ELSE LET x == CHOOSE x \in s : TRUE IN f[x] + h[s \ {x}]
    <3>1. s # {} => (CHOOSE x \in s : TRUE) \in s
      OBVIOUS
    <3> QED
      BY <3>1
  <2> QED
    BY <2>1 DEF Sums
<1>4. Sums(f, S, it)
  BY <1>3
<1> HIDE DEF it
<1> DEFINE Step(s) == IF s = {} THEN 0 ELSE LET x == CHOOSE x \in s : TRUE IN f[x] + it[s \ {x}]
<1>5. ASSUME NEW s \in SUBSET S
      PROVE  it[s] = Step(s)
  BY <1>4, Zenon DEF Sums
<1>6. it[{}] = 0
  <2>1. {} \in SUBSET S /\ Step({}) = 0
    OBVIOUS
  <2> HIDE DEF Step
  <2> QED
    BY <1>5, <2>1
<1> DEFINE T == {s \in SUBSET S : it[s] # h[s]}
<1>7. ASSUME T # {} PROVE FALSE
  <2>1. PICK s \in T : \A r \in T : ~(r \subseteq s /\ r # s)
    <3>1. T \in SUBSET SUBSET S
      OBVIOUS
    <3> HIDE DEF T
    <3> QED
      BY <1>7, <3>1, SmallestSet
  <2>2. s # {} /\ s \in SUBSET S
    BY <2>1, <1>6
  <2>3. PICK x \in s : it[s] = f[x] + it[s \ {x}]
    <3>1. (CHOOSE x \in s : TRUE) \in s
      BY <2>2
    <3> QED
      BY <2>2, <3>1, <1>5
  <2>4. it[s \ {x}] = h[s \ {x}]
    BY <2>1, <2>2, <2>3
  <2> QED
    BY <2>1, <2>2, <2>3, <2>4
<1> QED
  BY <1>2, <1>7

\* Sets that have nothing in common have as many elements as they have together.
LEMMA DisjointSum ==
    ASSUME NEW S, IsFiniteSet(S), NEW C, IsFiniteSet(C), NEW own \in [S -> SUBSET C],
           \A x, y \in S : x # y => own[x] \cap own[y] = {},
           NEW f \in [S -> Nat], \A x \in S : f[x] = Cardinality(own[x])
    PROVE  SumFunction(f) = Cardinality(UNION {own[x] : x \in S})
<1> DEFINE All(s) == UNION {own[x] : x \in s}
           h == [s \in SUBSET S |-> Cardinality(All(s))]
<1>1. ASSUME NEW s \in SUBSET S
      PROVE  IsFiniteSet(All(s)) /\ Cardinality(All(s)) \in Nat
  <2>1. All(s) \in SUBSET C
    OBVIOUS
  <2> QED
    BY <2>1, FS_Subset, FS_CardinalityType
<1>2. h \in [SUBSET S -> Nat]
  BY <1>1
<1>3. h[{}] = 0
  <2>1. All({}) = {}
    OBVIOUS
  <2> QED
    BY <2>1, FS_EmptySet
<1>4. ASSUME NEW s \in SUBSET S, NEW x \in s
      PROVE  h[s] = f[x] + h[s \ {x}]
  <2>1. All(s) = own[x] \cup All(s \ {x}) /\ own[x] \cap All(s \ {x}) = {}
    OBVIOUS
  <2>2. s \ {x} \in SUBSET S /\ own[x] \in SUBSET C /\ f[x] = Cardinality(own[x])
    OBVIOUS
  <2>3. IsFiniteSet(own[x]) /\ Cardinality(own[x]) \in Nat
    BY <2>2, FS_Subset, FS_CardinalityType
  <2>4. IsFiniteSet(All(s \ {x})) /\ Cardinality(All(s \ {x})) \in Nat
    BY <1>1, <2>2
  <2> HIDE DEF All
  <2>5. Cardinality(own[x] \cup All(s \ {x}))
          = Cardinality(own[x]) + Cardinality(All(s \ {x})) - Cardinality(own[x] \cap All(s \ {x}))
    BY <2>3, <2>4, FS_Union
  <2>6. Cardinality(All(s)) = Cardinality(own[x]) + Cardinality(All(s \ {x})) - Cardinality({})
    BY <2>1, <2>5
  <2> QED
    BY <2>2, <2>3, <2>4, <2>6, FS_EmptySet
<1> HIDE DEF h
<1>5. SumFunction(f) = h[S]
  BY <1>2, <1>3, <1>4, SumIs
<1> QED
  BY <1>5 DEF h

\* before orders the elements of S, one after the other.
Orders(before, S) ==
    /\ \A x \in S : <<x, x>> \notin before
    /\ \A x, y \in S : x = y \/ <<x, y>> \in before \/ <<y, x>> \in before
    /\ \A x, y, z \in S : <<x, y>> \in before /\ <<y, z>> \in before => <<x, z>> \in before

\* Whoever has i before it is number i + 1, and everybody has a number.
LEMMA SortedIs ==
    ASSUME NEW S, IsFiniteSet(S), NEW before, Orders(before, S), NEW s, s = SortedBy(S, before)
    PROVE  /\ s \in [1..Cardinality(S) -> S] /\ Cardinality(S) \in Nat
           /\ \A x \in S : \E i \in 1..Cardinality(S) : s[i] = x
           /\ \A i, j \in 1..Cardinality(S) : i < j => <<s[i], s[j]>> \in before
<1> DEFINE n == Cardinality(S)
           Below(x) == {y \in S : <<y, x>> \in before}
           rank == [x \in S |-> Cardinality(Below(x))]
<1>1. n \in Nat
  BY FS_CardinalityType
<1>2. ASSUME NEW x \in S
      PROVE  IsFiniteSet(Below(x)) /\ rank[x] \in 0..(n - 1)
  <2>1. Below(x) \in SUBSET (S \ {x})
    BY DEF Orders
  <2>2. IsFiniteSet(S \ {x}) /\ Cardinality(S \ {x}) = n - 1
    BY FS_RemoveElement
  <2>3. IsFiniteSet(Below(x)) /\ Cardinality(Below(x)) <= n - 1
    BY <2>1, <2>2, FS_Subset
  <2> QED
    BY <1>1, <2>3, FS_CardinalityType
<1>3. ASSUME NEW x \in S, NEW y \in S, <<x, y>> \in before
      PROVE  rank[x] < rank[y]
  <2>1. Below(x) \in SUBSET Below(y) /\ Below(x) # Below(y)
    BY <1>3 DEF Orders
  <2>2. IsFiniteSet(Below(y)) /\ rank[x] \in 0..(n - 1) /\ rank[y] \in 0..(n - 1)
    BY <1>2
  <2>3. Cardinality(Below(x)) <= Cardinality(Below(y)) /\ Cardinality(Below(y)) # Cardinality(Below(x))
    BY <2>1, <2>2, FS_Subset
  <2> QED
    BY <1>1, <2>2, <2>3
<1> HIDE DEF rank
<1>4. \A x \in S : rank[x] \in 0..(n - 1)
  BY <1>2
<1>5. rank \in Injection(S, 0..(n - 1))
  <2>1. rank \in [S -> 0..(n - 1)]
    BY <1>4 DEF rank
  <2>2. ASSUME NEW x \in S, NEW y \in S, x # y PROVE rank[x] # rank[y]
    <3>1. <<x, y>> \in before \/ <<y, x>> \in before
      BY <2>2 DEF Orders
    <3>2. rank[x] < rank[y] \/ rank[y] < rank[x]
      BY <1>3, <3>1
    <3> QED
      BY <1>1, <1>4, <3>2
  <2> QED
    BY <2>1, <2>2 DEF Injection, IsInjective
<1>6. rank \in Surjection(S, 0..(n - 1))
  <2>1. IsFiniteSet(0..(n - 1)) /\ Cardinality(0..(n - 1)) = n
    BY <1>1, FS_Interval
  <2> QED
    BY <1>5, <2>1, FS_Injection
<1>7. ASSUME NEW i \in 1..n
      PROVE  s[i] \in S /\ rank[s[i]] = i - 1
  <2>1. i - 1 \in 0..(n - 1)
    BY <1>1
  <2>2. \E x \in S : rank[x] = i - 1
    BY <1>6, <2>1 DEF Surjection
  <2>3. \E x \in S : Cardinality(Below(x)) = i - 1
    BY <2>2 DEF rank
  <2>4. s[i] = CHOOSE x \in S : Cardinality(Below(x)) = i - 1
    BY DEF SortedBy
  <2>5. s[i] \in S /\ Cardinality(Below(s[i])) = i - 1
    BY <2>3, <2>4
  <2> QED
    BY <2>5 DEF rank
<1>8. s \in [1..n -> S]
  BY <1>7 DEF SortedBy
<1>9. ASSUME NEW x \in S PROVE \E i \in 1..n : s[i] = x
  <2>1. rank[x] + 1 \in 1..n
    BY <1>1, <1>4
  <2>2. s[rank[x] + 1] \in S /\ rank[s[rank[x] + 1]] = (rank[x] + 1) - 1
    BY <1>7, <2>1
  <2>3. rank[s[rank[x] + 1]] = rank[x]
    BY <1>1, <1>4, <2>2
  <2>4. s[rank[x] + 1] = x
    BY <1>5, <2>2, <2>3 DEF Injection, IsInjective
  <2> QED
    BY <2>1, <2>4
<1>10. ASSUME NEW i \in 1..n, NEW j \in 1..n, i < j PROVE <<s[i], s[j]>> \in before
  <2>1. s[i] \in S /\ s[j] \in S /\ rank[s[i]] = i - 1 /\ rank[s[j]] = j - 1
    BY <1>7
  <2>2. s[i] # s[j]
    BY <1>1, <1>10, <2>1
  <2>3. <<s[j], s[i]>> \notin before
    <3>1. ~(rank[s[j]] < rank[s[i]])
      BY <1>1, <1>10, <2>1
    <3> QED
      BY <1>3, <2>1, <3>1
  <2> QED
    BY <2>1, <2>2, <2>3 DEF Orders
<1> QED
  BY <1>1, <1>8, <1>9, <1>10

-----------------------------------------------------------------------------
\* GroupStats: the types, and what the numbers count.

\* The types.
LEMMA StatsTypes == StatsSpec => []GroupStatsTypeOK
<1>1. StatsInit => GroupStatsTypeOK
  BY StatsFounder, StatsBefore DEF StatsInit, GroupStatsTypeOK
<1>2. GroupStatsTypeOK /\ [StatsNext]_statsVars => GroupStatsTypeOK'
  <2> SUFFICES ASSUME GroupStatsTypeOK, [StatsNext]_statsVars PROVE GroupStatsTypeOK'
    OBVIOUS
  <2> USE StatsFounder, StatsCodes, StatsBefore DEF GroupStatsTypeOK
  <2>1. CASE UNCHANGED statsVars
    BY <2>1 DEF statsVars
  <2>2. CASE Unfocus
    BY <2>2 DEF Unfocus
  <2>0. Count => changes' \in 0..MaxChanges
    BY DEF Count
  <2>3. ASSUME NEW m \in Joiners, JoinGroup(m) \/ LeaveGroup(m) PROVE GroupStatsTypeOK'
    <3>1. Count /\ maps' = maps /\ focused' = focused
      BY <2>3 DEF JoinGroup, LeaveGroup
    <3>2. joined' \in SUBSET Joiners /\ Founder \in joined'
      BY <2>3 DEF JoinGroup, LeaveGroup
    <3> QED
      BY <2>0, <3>1, <3>2
  <2>4. ASSUME NEW m \in Joiners, Focus(m) PROVE GroupStatsTypeOK'
    BY <2>4 DEF Focus
  <2>5. ASSUME NEW m \in Joiners, NEW c \in Countries, MarkCountry(m, c) \/ UnmarkCountry(m, c)
        PROVE  GroupStatsTypeOK'
    <3>1. Count /\ joined' = joined /\ focused' = focused
      BY <2>5 DEF MarkCountry, UnmarkCountry
    <3>2. \E s \in SUBSET Codes : maps' = [maps EXCEPT ![m] = s]
      <4>1. maps[m] \cup {c} \in SUBSET Codes /\ maps[m] \ {c} \in SUBSET Codes
        OBVIOUS
      <4> QED
        BY <2>5, <4>1 DEF MarkCountry, UnmarkCountry
    <3>3. maps' \in [Joiners -> SUBSET Codes]
      BY <3>2
    <3> QED
      BY <2>0, <3>1, <3>3
  <2> QED
    BY <2>1, <2>2, <2>3, <2>4, <2>5 DEF StatsNext
<1> QED
  BY <1>1, <1>2, PTL DEF StatsSpec

\* The members whose maps are shown.
LEMMA ShownIs ==
    ASSUME GroupStatsTypeOK
    PROVE  /\ DOMAIN ShownMaps = joined /\ IsFiniteSet(joined) /\ joined # {}
           /\ \A m \in joined : ShownMaps[m] = maps[m] /\ maps[m] \in SUBSET Codes
           /\ Union(ShownMaps) \in SUBSET Countries
<1>1. DOMAIN ShownMaps = joined /\ \A m \in joined : ShownMaps[m] = maps[m]
  BY DEF ShownMaps, Members
<1>2. IsFiniteSet(joined)
  BY StatsFounder, FS_Subset DEF GroupStatsTypeOK
<1> QED
  BY <1>1, <1>2 DEF GroupStatsTypeOK, Union

\* How many have been to a country.
LEMMA VisitorsAre ==
    ASSUME GroupStatsTypeOK, NEW c
    PROVE  /\ Visitors(ShownMaps, c) \in Nat
           /\ Visitors(ShownMaps, c) <= Cardinality(joined) /\ Cardinality(joined) \in Nat
           /\ Visitors(ShownMaps, c) = Cardinality(joined) <=> \A m \in joined : c \in maps[m]
           /\ Visitors(ShownMaps, c) = 0 <=> \A m \in joined : c \notin maps[m]
           /\ \A m \in joined : c \in maps[m] =>
                 (Visitors(ShownMaps, c) = 1 <=> \A n \in joined : c \in maps[n] => n = m)
<1> DEFINE V == {m \in joined : c \in maps[m]}
<1>1. Visitors(ShownMaps, c) = Cardinality(V)
  <2>1. {m \in DOMAIN ShownMaps : c \in ShownMaps[m]} = V
    BY ShownIs
  <2> QED
    BY <2>1 DEF Visitors
<1>2. V \in SUBSET joined /\ IsFiniteSet(joined)
  BY ShownIs
<1>3. /\ IsFiniteSet(V) /\ Cardinality(V) <= Cardinality(joined)
      /\ Cardinality(joined) = Cardinality(V) => joined = V
  BY <1>2, FS_Subset
<1>4. Cardinality(V) \in Nat /\ Cardinality(joined) \in Nat
  BY <1>2, <1>3, FS_CardinalityType
<1>5. Cardinality(V) = 0 <=> V = {}
  BY <1>3, FS_EmptySet
<1>6. Cardinality(V) = 1 <=> \E m : V = {m}
  BY <1>3, FS_Singleton
<1>7. ASSUME NEW m \in joined, c \in maps[m]
      PROVE  Cardinality(V) = 1 <=> \A n \in joined : c \in maps[n] => n = m
  <2>1. m \in V
    BY <1>7
  <2>2. (\E n : V = {n}) <=> V = {m}
    BY <2>1
  <2>3. V = {m} <=> \A n \in joined : c \in maps[n] => n = m
    BY <2>1
  <2> QED
    BY <1>6, <2>2, <2>3
<1>8. V = joined <=> \A m \in joined : c \in maps[m]
  OBVIOUS
<1>9. V = {} <=> \A m \in joined : c \notin maps[m]
  OBVIOUS
<1> HIDE DEF V
<1>10. Cardinality(V) = Cardinality(joined) <=> V = joined
  BY <1>3
<1> QED
  BY <1>1, <1>3, <1>4, <1>5, <1>7, <1>8, <1>9, <1>10

\* The group's map: where anybody has been.
LEMMA UnionIs ==
    ASSUME GroupStatsTypeOK
    PROVE  /\ Union(ShownMaps) = {c \in Countries : Visitors(ShownMaps, c) >= 1}
           /\ Several(ShownMaps) = {c \in Countries : Visitors(ShownMaps, c) >= 2}
<1>1. ASSUME NEW c PROVE c \in Union(ShownMaps) <=> (c \in Countries /\ \E m \in joined : c \in maps[m])
  BY ShownIs DEF Union
<1>2. ASSUME NEW c
      PROVE  Visitors(ShownMaps, c) \in Nat
             /\ (Visitors(ShownMaps, c) >= 1 <=> \E m \in joined : c \in maps[m])
  <2>1. /\ Visitors(ShownMaps, c) \in Nat
        /\ Visitors(ShownMaps, c) = 0 <=> \A m \in joined : c \notin maps[m]
    BY VisitorsAre
  <2> QED
    BY <2>1
<1>3. Union(ShownMaps) = {c \in Countries : Visitors(ShownMaps, c) >= 1}
  BY <1>1, <1>2
<1>4. ASSUME NEW c PROVE c \in Several(ShownMaps) <=> (c \in Countries /\ Visitors(ShownMaps, c) >= 2)
  BY <1>2, <1>3 DEF Several
<1> QED
  BY <1>3, <1>4

\* The percentage is 0 for none and 100 for all only.
LEMMA RoundedOnce ==
    ASSUME NEW a \in Nat, NEW b \in Nat, 0 < b, b < 2000, a <= b
    PROVE  /\ Tenths(100 * a, b) = 0 <=> a = 0
           /\ Tenths(100 * a, b) = 1000 <=> a = b
<1> DEFINE p == 20 * (100 * a) + b
           d == 2 * b
           q == p \div d
           r == p % d
<1>1. p \in Nat /\ d \in Nat /\ d > 0 /\ p = 2000 * a + b
  OBVIOUS
<1>2. q \in Int /\ r \in 0..(d - 1) /\ p = d * q + r
  BY <1>1
<1>3. Tenths(100 * a, b) = q
  BY DEF Tenths
<1> HIDE DEF q, r
<1>4. 2000 * a + b = 2 * (b * q) + r /\ 0 <= r /\ r < 2 * b
  BY <1>1, <1>2
<1>5a. q \in Int /\ r \in Int
  BY <1>2
<1>5. ASSUME a = 0 PROVE q = 0
  BY <1>4, <1>5, <1>2, Z3
<1>6. ASSUME q = 0 PROVE a = 0
  BY <1>4, <1>6, <1>5a
<1>7. ASSUME q = 1000 PROVE a = b
  BY <1>4, <1>7, <1>5a
<1>8. ASSUME a = b PROVE q = 1000
  BY <1>4, <1>8, <1>2, Z3
<1> QED
  BY <1>3, <1>5, <1>6, <1>7, <1>8

-----------------------------------------------------------------------------
\* GroupStats: the promises.

\* What the statistics consist of.
LEMMA StatsAre ==
    ASSUME NEW map, NEW stats, stats = ComputeGroupStats(map)
    PROVE  /\ stats.countryCount = Cardinality(Union(map) \cap Countries)
           /\ stats.worldPercent = Tenths(100 * Cardinality(Union(map) \cap Countries), Cardinality(Countries))
           /\ DOMAIN stats.continents = {Continents[i] : i \in DOMAIN Continents}
           /\ \A k \in DOMAIN stats.continents :
                 stats.continents[k].visited = Cardinality(On(Union(map) \cap Countries, k))
           /\ stats.countryCodes = Union(map) /\ stats.sharedCodes = SharedCodes(map)
           /\ stats.popular = Popular(map) /\ stats.members = Leaderboard(map)
BY DEF ComputeGroupStats, ComputeCountryStats

\* Parts of the countries are finite.
LEMMA FiniteCountries ==
    ASSUME NEW A \in SUBSET Countries
    PROVE  IsFiniteSet(A) /\ Cardinality(A) \in Nat /\ Cardinality(A) <= Cardinality(Countries)
BY StatsCountries, FS_Subset, FS_CardinalityType

\* Countries by member and by continent add up, and so do the percentages.
LEMMA AddUp == GroupStatsTypeOK => StatsAddUp
<1> SUFFICES ASSUME GroupStatsTypeOK PROVE StatsAddUp
  OBVIOUS
<1> DEFINE map == ShownMaps
           stats == ComputeGroupStats(map)
           own == [m \in joined |-> UniqueCount(map, m)]
           on == [k \in DOMAIN stats.continents |-> stats.continents[k].visited]
           U == Union(map)
           One == {c \in Countries : Visitors(map, c) = 1}
           Own == [m \in joined |-> {c \in map[m] \cap Countries : Visitors(map, c) = 1}]
           K == {Continents[i] : i \in DOMAIN Continents}
           There == [k \in K |-> On(U, k)]
<1>1. /\ U \in SUBSET Countries /\ U \cap Countries = U
      /\ IsFiniteSet(joined) /\ \A m \in joined : map[m] = maps[m]
  BY ShownIs
<1>2. U = One \cup Several(map) /\ One \cap Several(map) = {} /\ Several(map) \in SUBSET Countries
  <2>1. \A c : Visitors(map, c) \in Nat
    BY VisitorsAre
  <2> QED
    BY <2>1, UnionIs
<1>3. stats.countryCount = SumFunction(own) + Cardinality(Several(map))
  <2>1. Own \in [joined -> SUBSET Countries]
    OBVIOUS
  <2>2. ASSUME NEW m \in joined, NEW n \in joined, m # n PROVE Own[m] \cap Own[n] = {}
    <3>1. ASSUME NEW c, c \in Own[m], c \in Own[n] PROVE FALSE
      <4>1. c \in maps[m] /\ c \in maps[n] /\ Visitors(map, c) = 1
        BY <1>1, <3>1
      <4>2. \A o \in joined : c \in maps[o] => o = m
        BY <4>1, VisitorsAre
      <4> QED
        BY <2>2, <4>1, <4>2
    <3> QED
      BY <3>1
  <2>3. ASSUME NEW m \in joined PROVE own[m] = Cardinality(Own[m]) /\ own[m] \in Nat
    <3>1. own[m] = Cardinality(Own[m])
      BY DEF UniqueCount
    <3>2. Own[m] \in SUBSET Countries
      BY <2>1
    <3> QED
      BY <3>1, <3>2, FiniteCountries
  <2>4. UNION {Own[m] : m \in joined} = One
    <3>1. ASSUME NEW c \in One PROVE \E m \in joined : c \in Own[m]
      <4>1. Visitors(map, c) = 1
        OBVIOUS
      <4>2. PICK m \in joined : c \in maps[m]
        BY <4>1, VisitorsAre
      <4> QED
        BY <1>1, <4>1, <4>2
    <3> QED
      BY <3>1
  <2>5. own \in [joined -> Nat]
    BY <2>3
  <2> HIDE DEF own, Own, One
  <2>6. SumFunction(own) = Cardinality(One)
    <3>1. IsFiniteSet(Countries)
      BY StatsCountries
    <3>2. SumFunction(own) = Cardinality(UNION {Own[m] : m \in joined})
      BY <1>1, <2>1, <2>2, <2>3, <2>5, <3>1, DisjointSum
    <3> QED
      BY <2>4, <3>2
  <2>7. One \in SUBSET Countries
    BY DEF One
  <2>8. /\ IsFiniteSet(One) /\ IsFiniteSet(Several(map))
        /\ Cardinality(One) \in Nat /\ Cardinality(Several(map)) \in Nat
    BY <1>2, <2>7, FiniteCountries
  <2>9. Cardinality(One \cup Several(map))
          = Cardinality(One) + Cardinality(Several(map)) - Cardinality(One \cap Several(map))
    BY <2>8, FS_Union
  <2>10. Cardinality(One \cap Several(map)) = 0
    BY <1>2, FS_EmptySet
  <2>11. stats.countryCount = Cardinality(U)
    BY <1>1, StatsAre
  <2> HIDE DEF stats, U
  <2> QED
    BY <1>2, <2>6, <2>8, <2>9, <2>10, <2>11
<1>4. stats.countryCount = SumFunction(on)
  <2>1. DOMAIN stats.continents = K
        /\ \A k \in K : stats.continents[k].visited = Cardinality(On(U, k))
    <3>1. DOMAIN stats.continents = K
          /\ \A k \in K : stats.continents[k].visited = Cardinality(On(U \cap Countries, k))
      BY StatsAre
    <3> HIDE DEF stats, U, K
    <3> QED
      BY <1>1, <3>1
  <2>2. There \in [K -> SUBSET Countries]
    BY DEF On
  <2>3. ASSUME NEW k \in K, NEW l \in K, k # l PROVE There[k] \cap There[l] = {}
    BY <2>3 DEF On
  <2>4. ASSUME NEW k \in K PROVE on[k] = Cardinality(There[k]) /\ on[k] \in Nat
    <3>1. on[k] = Cardinality(There[k])
      BY <2>1
    <3>2. There[k] \in SUBSET Countries
      BY <2>2
    <3> QED
      BY <3>1, <3>2, FiniteCountries
  <2>5. on \in [K -> Nat]
    BY <2>1, <2>4
  <2>6. UNION {There[k] : k \in K} = U
    <3>1. \A c \in U : ContinentOf[c] \in K /\ c \in On(U, ContinentOf[c])
      BY <1>1, StatsContinents DEF On
    <3>2. \A k \in K : There[k] \subseteq U
      BY DEF On
    <3> QED
      BY <3>1, <3>2
  <2>7. IsFiniteSet(K)
    <3> DEFINE g == [i \in DOMAIN Continents |-> Continents[i]]
    <3>1. g \in Surjection(DOMAIN Continents, K)
      BY DEF Surjection
    <3> HIDE DEF g, K
    <3> QED
      BY <3>1, StatsContinents, FS_Surjection
  <2>8. stats.countryCount = Cardinality(U)
    BY <1>1, StatsAre
  <2>9. IsFiniteSet(Countries)
    BY StatsCountries
  <2> HIDE DEF on, There, K, U
  <2>10. SumFunction(on) = Cardinality(UNION {There[k] : k \in K})
    BY <2>2, <2>3, <2>4, <2>5, <2>7, <2>9, DisjointSum
  <2> QED
    BY <2>6, <2>8, <2>10
<1>5. /\ stats.worldPercent = 0 <=> stats.countryCodes = {}
      /\ stats.worldPercent = 1000 <=> stats.countryCodes = Countries
  <2>1. /\ stats.worldPercent = Tenths(100 * Cardinality(U), Cardinality(Countries))
        /\ stats.countryCodes = U
    BY <1>1, StatsAre
  <2>2. /\ IsFiniteSet(U) /\ Cardinality(U) \in Nat /\ Cardinality(U) <= Cardinality(Countries)
        /\ IsFiniteSet(Countries) /\ Cardinality(Countries) \in Nat
    BY <1>1, FiniteCountries
  <2>3. Cardinality(Countries) # 0
    BY <2>2, StatsCountries, FS_EmptySet
  <2>4. Cardinality(U) = 0 <=> U = {}
    BY <2>2, FS_EmptySet
  <2>5. Cardinality(U) = Cardinality(Countries) <=> U = Countries
    BY <1>1, <2>2, FS_Subset
  <2> HIDE DEF stats, U
  <2>6. /\ Tenths(100 * Cardinality(U), Cardinality(Countries)) = 0 <=> Cardinality(U) = 0
        /\ Tenths(100 * Cardinality(U), Cardinality(Countries)) = 1000
             <=> Cardinality(U) = Cardinality(Countries)
    BY <2>2, <2>3, RoundedOnce, StatsPrecision
  <2> QED
    BY <2>1, <2>4, <2>5, <2>6
<1> QED
  BY <1>3, <1>4, <1>5, Zenon DEF StatsAddUp

\* More visitors first, then by code, is an order; so is the leaderboard's.
LEMMA RanksOrder ==
    ASSUME GroupStatsTypeOK
    PROVE  /\ Orders(MoreVisited(ShownMaps), Several(ShownMaps))
           /\ Orders(MoreTravelled(ShownMaps), joined)
           /\ \A c, d \in Countries : <<c, d>> \in MoreVisited(ShownMaps) <=>
                 \/ Visitors(ShownMaps, c) > Visitors(ShownMaps, d)
                 \/ Visitors(ShownMaps, c) = Visitors(ShownMaps, d) /\ c < d
           /\ \A m, n \in joined : <<m, n>> \in MoreTravelled(ShownMaps) <=>
                 \/ Cardinality(maps[m] \cap Countries) > Cardinality(maps[n] \cap Countries)
                 \/ Cardinality(maps[m] \cap Countries) = Cardinality(maps[n] \cap Countries) /\ m < n
<1>1. \A c \in Countries : Visitors(ShownMaps, c) \in Nat /\ c \in Nat
  BY VisitorsAre, StatsCountries
<1>2. \A c, d \in Countries : <<c, d>> \in MoreVisited(ShownMaps) <=>
        \/ Visitors(ShownMaps, c) > Visitors(ShownMaps, d)
        \/ Visitors(ShownMaps, c) = Visitors(ShownMaps, d) /\ c < d
  BY DEF MoreVisited
<1>3. Several(ShownMaps) \in SUBSET Countries
  BY UnionIs
<1>4. Orders(MoreVisited(ShownMaps), Several(ShownMaps))
  BY <1>1, <1>2, <1>3 DEF Orders
<1>5. \A m \in joined : m \in Nat /\ Cardinality(maps[m] \cap Countries) \in Nat
  <2>1. ASSUME NEW m \in joined PROVE Cardinality(maps[m] \cap Countries) \in Nat
    <3>1. maps[m] \cap Countries \in SUBSET Countries
      OBVIOUS
    <3> QED
      BY <3>1, FiniteCountries
  <2> QED
    BY <2>1, StatsFounder DEF GroupStatsTypeOK
<1>6. \A m, n \in joined : <<m, n>> \in MoreTravelled(ShownMaps) <=>
        \/ Cardinality(maps[m] \cap Countries) > Cardinality(maps[n] \cap Countries)
        \/ Cardinality(maps[m] \cap Countries) = Cardinality(maps[n] \cap Countries) /\ m < n
  <2>1. \A m \in joined : Travelled(ShownMaps, m) = Cardinality(maps[m] \cap Countries)
    BY ShownIs DEF Travelled
  <2>2. DOMAIN ShownMaps = joined
    BY ShownIs
  <2>3. MoreTravelled(ShownMaps) =
          {p \in joined \X joined :
              \/ Travelled(ShownMaps, p[1]) > Travelled(ShownMaps, p[2])
              \/ Travelled(ShownMaps, p[1]) = Travelled(ShownMaps, p[2]) /\ p[1] < p[2]}
    BY <2>2, Zenon DEF MoreTravelled
  <2>4. ASSUME NEW m \in joined, NEW n \in joined
        PROVE  <<m, n>> \in MoreTravelled(ShownMaps) <=>
                   \/ Travelled(ShownMaps, m) > Travelled(ShownMaps, n)
                   \/ Travelled(ShownMaps, m) = Travelled(ShownMaps, n) /\ m < n
    BY <2>3
  <2>5. ASSUME NEW m \in joined, NEW n \in joined
        PROVE  /\ Travelled(ShownMaps, m) = Cardinality(maps[m] \cap Countries)
               /\ Travelled(ShownMaps, n) = Cardinality(maps[n] \cap Countries)
    BY <2>1
  <2>6. ASSUME NEW m \in joined, NEW n \in joined
        PROVE  <<m, n>> \in MoreTravelled(ShownMaps) <=>
                   \/ Cardinality(maps[m] \cap Countries) > Cardinality(maps[n] \cap Countries)
                   \/ Cardinality(maps[m] \cap Countries) = Cardinality(maps[n] \cap Countries)
                        /\ m < n
    BY <2>4, <2>5
  <2> QED
    BY <2>6
<1>7. Orders(MoreTravelled(ShownMaps), joined)
  <2> DEFINE t(m) == Cardinality(maps[m] \cap Countries)
  <2>1. \A m \in joined : m \in Nat /\ t(m) \in Nat
    BY <1>5
  <2>2. \A m, n \in joined : <<m, n>> \in MoreTravelled(ShownMaps)
                                <=> t(m) > t(n) \/ (t(m) = t(n) /\ m < n)
    BY <1>6
  <2> HIDE DEF t
  <2> QED
    BY <2>1, <2>2 DEF Orders
<1> QED
  BY <1>2, <1>4, <1>6, <1>7

\* The leaderboard lists everybody, in order.
LEMMA Ranked == GroupStatsTypeOK => LeaderboardRanks
<1> SUFFICES ASSUME GroupStatsTypeOK PROVE LeaderboardRanks
  OBVIOUS
<1> DEFINE board == ComputeGroupStats(ShownMaps).members
<1>1. board = SortedBy(joined, MoreTravelled(ShownMaps))
  BY StatsAre, ShownIs DEF Leaderboard
<1> HIDE DEF board
<1>2. /\ board \in [1..Cardinality(joined) -> joined] /\ Cardinality(joined) \in Nat
      /\ \A m \in joined : \E i \in 1..Cardinality(joined) : board[i] = m
      /\ \A i, j \in 1..Cardinality(joined) : i < j => <<board[i], board[j]>> \in MoreTravelled(ShownMaps)
  BY <1>1, ShownIs, RanksOrder, SortedIs
<1>3. DOMAIN board = 1..Cardinality(joined) /\ Len(board) = Cardinality(joined)
  BY <1>2
<1>4. {board[i] : i \in DOMAIN board} = joined
  BY <1>2, <1>3
<1>5. ASSUME NEW i \in DOMAIN board, NEW j \in DOMAIN board, i < j
      PROVE  \/ Cardinality(maps[board[i]] \cap Countries) > Cardinality(maps[board[j]] \cap Countries)
             \/ Cardinality(maps[board[i]] \cap Countries) = Cardinality(maps[board[j]] \cap Countries)
                  /\ board[i] < board[j]
  BY <1>2, <1>3, <1>5, RanksOrder
<1> QED
  BY <1>3, <1>4, <1>5 DEF LeaderboardRanks, board

\* The countries everybody has been to.
LEMMA SharedIs ==
    ASSUME GroupStatsTypeOK
    PROVE  /\ SharedCodes(ShownMaps) = IF joined = {Founder} THEN {}
                                       ELSE {c \in Countries : \A m \in joined : c \in maps[m]}
           /\ SharedCodes(ShownMaps) \in SUBSET Several(ShownMaps)
           /\ \A c \in Countries : c \in SharedCodes(ShownMaps)
                 <=> joined # {Founder} /\ Visitors(ShownMaps, c) = Cardinality(joined)
<1>1. IsFiniteSet(joined) /\ Cardinality(joined) \in Nat /\ Founder \in joined /\ DOMAIN ShownMaps = joined
  BY ShownIs, FS_CardinalityType DEF GroupStatsTypeOK
<1>2. Cardinality(joined) # 0 /\ (Cardinality(joined) = 1 <=> joined = {Founder})
  BY <1>1, FS_EmptySet, FS_Singleton
<1>3. ASSUME NEW c
      PROVE  /\ Visitors(ShownMaps, c) \in Nat
             /\ Visitors(ShownMaps, c) = Cardinality(joined) <=> \A m \in joined : c \in maps[m]
  BY VisitorsAre
<1>4. ASSUME NEW c
      PROVE  c \in SharedCodes(ShownMaps) <=> /\ c \in Countries /\ joined # {Founder}
                                              /\ Visitors(ShownMaps, c) = Cardinality(joined)
  BY <1>1, <1>2, <1>3, UnionIs DEF SharedCodes
<1>5. ASSUME NEW c \in SharedCodes(ShownMaps) PROVE c \in Several(ShownMaps)
  BY <1>1, <1>2, <1>3, <1>4, UnionIs
<1> QED
  BY <1>3, <1>4, <1>5

\* The popular countries are the most visited ones, and the shared ones lead.
LEMMA SharedLead == GroupStatsTypeOK => PopularLedByShared
<1> SUFFICES ASSUME GroupStatsTypeOK PROVE PopularLedByShared
  OBVIOUS
<1> DEFINE map == ShownMaps
           stats == ComputeGroupStats(map)
           p == stats.popular
           kept == {p[i] : i \in DOMAIN p}
           S == Several(map)
           s == SortedBy(S, MoreVisited(map))
           n == Cardinality(S)
           k == IF n < PopularLimit THEN n ELSE PopularLimit
<1>1. S \in SUBSET Countries /\ IsFiniteSet(S) /\ \A c \in Countries : c \in S <=> Visitors(map, c) >= 2
  BY UnionIs, FiniteCountries
<1>2. /\ s \in [1..n -> S] /\ n \in Nat
      /\ \A c \in S : \E i \in 1..n : s[i] = c
      /\ \A i, j \in 1..n : i < j => <<s[i], s[j]>> \in MoreVisited(map)
  <2> HIDE DEF S, s
  <2>1. Orders(MoreVisited(map), S) /\ s = SortedBy(S, MoreVisited(map))
    BY RanksOrder DEF S, s
  <2> QED
    BY <1>1, <2>1, SortedIs
<1>3. p = SubSeq(s, 1, k) /\ stats.sharedCodes = SharedCodes(map)
  <2>1. Len(s) = n
    BY <1>2
  <2> QED
    BY <2>1, StatsAre DEF Popular
<1> HIDE DEF p, s, S, stats
<1>4. k \in 0..n /\ k \in Nat /\ k <= PopularLimit
  BY <1>2, StatsLimit
<1>5. Len(p) = k /\ DOMAIN p = 1..k /\ \A i \in 1..k : p[i] = s[i]
  <2>1. s \in Seq(S)
    BY <1>2
  <2>2. Len(s) = n
    BY <1>2
  <2> QED
    BY <1>2, <1>3, <1>4, <2>1, <2>2, SubSeqProperties
<1>6. \A c, d \in S : <<c, d>> \in MoreVisited(map) =>
         \/ Visitors(map, c) > Visitors(map, d)
         \/ Visitors(map, c) = Visitors(map, d) /\ c < d
  BY <1>1, RanksOrder
<1>7. \A c : Visitors(map, c) \in Nat /\ Visitors(map, c) <= Cardinality(joined)
  BY VisitorsAre
<1>8. Cardinality(joined) \in Nat
  BY VisitorsAre
<1>9. \A i \in 1..k : p[i] \in S /\ i \in 1..n /\ p[i] = s[i]
  BY <1>2, <1>4, <1>5
<1>10. \A c \in Countries : c \in SharedCodes(map)
           <=> joined # {Founder} /\ Visitors(map, c) = Cardinality(joined)
  BY SharedIs
<1>11. ASSUME NEW i \in DOMAIN p, p[i] \in stats.sharedCodes, NEW j \in 1..i
       PROVE  p[j] \in stats.sharedCodes
  <2>1. CASE j = i
    BY <1>11, <2>1
  <2>2. CASE j # i
    <3>1. j \in 1..k /\ i \in 1..k /\ j < i
      BY <1>4, <1>5, <2>2
    <3>2. p[i] \in S /\ p[j] \in S /\ <<p[j], p[i]>> \in MoreVisited(map)
      BY <1>2, <1>9, <3>1
    <3>3. Visitors(map, p[j]) >= Visitors(map, p[i])
      BY <1>6, <1>7, <3>2
    <3>4. joined # {Founder} /\ Visitors(map, p[i]) = Cardinality(joined)
      BY <1>1, <1>3, <1>10, <1>11, <3>2
    <3>5. Visitors(map, p[j]) = Cardinality(joined)
      BY <1>7, <1>8, <3>3, <3>4
    <3> QED
      BY <1>1, <1>3, <1>10, <3>2, <3>4, <3>5
  <2> QED
    BY <2>1, <2>2
<1>12. ASSUME Len(p) < PopularLimit PROVE kept = S
  <2>1. k = n
    BY <1>2, <1>5, <1>12, StatsLimit
  <2> QED
    BY <1>2, <1>5, <1>9, <2>1
<1>13. ASSUME NEW c \in kept, NEW d \in Countries \ kept
       PROVE  /\ Visitors(map, c) >= 2
              /\ Len(p) < PopularLimit => Visitors(map, d) < 2
              /\ \/ Visitors(map, d) < Visitors(map, c)
                 \/ (Visitors(map, d) = Visitors(map, c) /\ c < d)
  <2>1. PICK i \in 1..k : c = p[i]
    BY <1>5
  <2>2. c \in S /\ c = s[i] /\ i \in 1..n
    BY <1>9, <2>1
  <2>3. Visitors(map, c) >= 2
    BY <1>1, <2>2
  <2>4. d \notin S => Visitors(map, d) < 2
    BY <1>1, <1>7
  <2>5. CASE d \in S
    <3>1. PICK j \in 1..n : s[j] = d
      BY <1>2, <2>5
    <3>2. j \notin 1..k
      BY <1>5, <1>9, <3>1
    <3>3. i < j
      BY <1>2, <1>4, <2>1, <3>1, <3>2
    <3>4. <<c, d>> \in MoreVisited(map)
      BY <1>2, <2>2, <3>1, <3>3
    <3>5. ~(Len(p) < PopularLimit)
      BY <1>12, <2>5
    <3> QED
      BY <1>6, <1>7, <2>2, <2>3, <2>5, <3>4, <3>5
  <2>6. CASE d \notin S
    BY <1>7, <2>3, <2>4, <2>6
  <2> QED
    BY <2>5, <2>6
<1>14. stats.sharedCodes = (IF joined = {Founder} THEN {}
                            ELSE {c \in Countries : \A m \in joined : c \in maps[m]})
  BY <1>3, SharedIs
<1>15. Len(p) < PopularLimit => stats.sharedCodes \subseteq kept
  BY <1>3, <1>12, SharedIs DEF S
<1> QED
  BY <1>11, <1>13, <1>14, <1>15, Zenon DEF PopularLedByShared, p, stats

\* What is lit is on the map.
LEMMA LitOnMap == GroupStatsTypeOK => HighlightOnMap
<1> SUFFICES ASSUME GroupStatsTypeOK PROVE HighlightOnMap
  OBVIOUS
<1> DEFINE stats == ComputeGroupStats(ShownMaps)
           layers == GroupMapLayers(stats, ShownMaps, focused)
<1>1. stats.countryCodes = Union(ShownMaps) /\ stats.sharedCodes = SharedCodes(ShownMaps)
  BY StatsAre
<1>2. DOMAIN ShownMaps = joined
  BY ShownIs
<1>3. SharedCodes(ShownMaps) \subseteq Union(ShownMaps)
  BY SharedIs, UnionIs, VisitorsAre DEF Several
<1>4. \A m \in joined : ShownMaps[m] \cap Countries \subseteq Union(ShownMaps)
  BY <1>2 DEF Union
<1> HIDE DEF stats
<1>5. layers.highlight \subseteq layers.visited
  BY <1>1, <1>2, <1>3, <1>4 DEF GroupMapLayers
<1>6. layers.label # NobodyFocused => layers.label \in joined
  BY <1>2 DEF GroupMapLayers
<1> QED
  BY <1>5, <1>6 DEF HighlightOnMap, stats

\* The two copies of the arithmetic.
LEMMA CopiesAgree == StatsAgree
<1>1. ASSUME NEW codes PROVE ComputeStats(codes) = StatsToWorldStats(ComputeCountryStats(codes))
  BY DEF ComputeStats, StatsToWorldStats, ComputeCountryStats
<1> QED
  BY <1>1 DEF StatsAgree

\* The statistics of a group add up, by members and by continents; the
\* countries everybody has been to lead the popular ones and the cut is fair;
\* the leaderboard lists everybody in order; what is lit is on the map; client
\* and API agree (group-stats.logic.ts:28): for any countries, continents,
\* members and maps.
THEOREM StatsSound == StatsSpec => []GroupStatsInv
<1>1. GroupStatsTypeOK => GroupStatsInv
  BY AddUp, SharedLead, Ranked, LitOnMap, CopiesAgree DEF GroupStatsInv
<1> QED
  BY <1>1, StatsTypes, PTL
=============================================================================
