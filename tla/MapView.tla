------------------------------ MODULE MapView ------------------------------
(***************************************************************************)
(* The pages that render the map (apps/web/components/map/MapView.tsx and  *)
(* components/profile/ProfileMap.tsx) with the store they share            *)
(* (lib/stores/map-store.ts): selection, view and edit mode and its        *)
(* storage, comparing with a friend, the login prompt, and every control   *)
(* of the page that changes the user's countries.  The store outlives the  *)
(* map, which is mounted anew on every visit to the page.                  *)
(*                                                                         *)
(* How a change of the visits query meets refetches and rollbacks is the   *)
(* matter of Visits; here it is a new value of the query's data.           *)
(***************************************************************************)
EXTENDS MapCanvas

CONSTANTS
    Canonical,    \* the canonical countries among the shapes
    FriendCodes,  \* what the compared friend has visited
    Mine          \* what the owner of a profile has visited

ASSUME ViewCodes == Canonical \subseteq Shapes /\ FriendCodes \subseteq Canonical /\ Mine \subseteq Canonical
ASSUME ViewNone == None \notin {"view", "edit"}

VARIABLES
    me,           \* useMe: "loading", "in" or "out"
    data,         \* the visits query: the codes of the user, none before it answers
    friendsMap,   \* the friends-map query: the friend's codes, None until it answers
    compareWith,  \* a friend is compared with
    mode,         \* "view" or "edit"
    savedMode,    \* localStorage: a mode, or None
    savedProjection, \* sessionStorage: a projection, or None
    keeps,        \* the storage takes what is written: it is not full, nor private
    prompt,       \* loginPromptVisible
    chosen        \* history: the mode the user last chose on this page

viewVars == <<me, data, friendsMap, compareWith, mode, savedMode, savedProjection, keeps,
              prompt, chosen>>
mapVars == <<canvasVars, viewVars>>

ViewTypeOK ==
    /\ CanvasTypeOK
    /\ me \in {"loading", "in", "out"}
    /\ data \in SUBSET Canonical
    /\ friendsMap \in {None, FriendCodes}
    /\ compareWith \in BOOLEAN /\ prompt \in BOOLEAN /\ keeps \in BOOLEAN
    /\ {mode, savedMode, chosen} \subseteq {"view", "edit", None} /\ mode # None
    /\ savedProjection \in Projections \cup {None}
    /\ ~keeps => savedMode = None /\ savedProjection = None

-----------------------------------------------------------------------------
\* useMapVisits and MapView.

IsLoggedIn == me = "in"

\* The visited codes: none while logged out.
Visited(who, codes) == IF who = "in" THEN codes ELSE {}

\* Mutant: the friend compared with stays when the user goes.
FriendVisited_AfterLogout(who, comparing, answer) ==
    IF comparing THEN IF answer = None THEN {} ELSE answer ELSE None
\* The friend's codes: none before the query answers, no friend while logged
\* out.
FriendVisited(who, comparing, answer) ==
    IF comparing /\ who = "in" THEN IF answer = None THEN {} ELSE answer ELSE None

Props == SetVisited(Visited(me', data'), FriendVisited(me', compareWith', friendsMap'))

\* The read-only map of a profile renders its owner's codes, whoever looks.
OwnMap == ~toggleable

\* readMapMode, readProjection: defaults when nothing is stored.  A browser that
\* refuses the property window.sessionStorage itself is not modelled:
\* MapCanvas.tsx:161 and 340 read it outside the try of these helpers.
ReadMapMode == IF savedMode = "edit" THEN "edit" ELSE "view"
ReadProjection(saved) == IF saved = "mercator" THEN "mercator" ELSE "globe"

-----------------------------------------------------------------------------
MapInit ==
    /\ toggleable \in BOOLEAN
    /\ me = "loading"
    /\ data = {}
    /\ friendsMap = None /\ compareWith = FALSE
    /\ mode = "view" /\ prompt = FALSE
    /\ keeps \in BOOLEAN
    /\ savedMode \in IF keeps THEN {None, "edit"} ELSE {None}
    /\ savedProjection \in IF keeps THEN {None, "mercator"} ELSE {None}
    /\ chosen = None
    /\ visited = IF toggleable THEN Mine ELSE {}
    /\ friend = None /\ selected = None /\ highlighted = None
    /\ phase = "none" /\ busy = TRUE /\ shown = BuildMapStyle /\ night = FALSE
    /\ control = IF toggleable THEN ReadProjection(savedProjection) ELSE "globe"
    /\ drawn = "globe"
    /\ hoveredIso = None /\ lastHighlight = None /\ lit = {}
    /\ skipped = FALSE /\ shared = {}

\* useMe answers: MapModeToggle is mounted for a user and restores the mode, and
\* the visits query starts.
MeAnswers(who) ==
    /\ OwnMap /\ me = "loading"
    /\ me' = who
    /\ mode' = IF who = "in" THEN ReadMapMode ELSE mode
    /\ UNCHANGED <<data, friendsMap, compareWith, savedMode, savedProjection, keeps, prompt,
                   chosen, selected, highlighted>>
    /\ Props

\* The data of the visits query changes without a click on this page: its answer
\* lands, a refetch brings what another device did, a change that failed is
\* rolled back, an Undo saves.  What lands after a logout no page shows.
VisitsLand ==
    /\ OwnMap /\ IsLoggedIn
    /\ data' \in SUBSET Canonical
    /\ UNCHANGED <<me, friendsMap, compareWith, mode, savedMode, savedProjection, keeps,
                   prompt, chosen, selected, highlighted>>
    /\ Props

\* The header's logout: the user is null, the store keeps what it has.
Logout ==
    /\ OwnMap /\ IsLoggedIn
    /\ me' = "out"
    /\ UNCHANGED <<data, friendsMap, compareWith, mode, savedMode, savedProjection, keeps,
                   prompt, chosen, selected, highlighted>>
    /\ Props

\* The friends-map query, which only comparing enables.
FriendsMapAnswers ==
    /\ OwnMap /\ compareWith /\ IsLoggedIn /\ friendsMap = None
    /\ friendsMap' = FriendCodes
    /\ UNCHANGED <<me, data, compareWith, mode, savedMode, savedProjection, keeps, prompt,
                   chosen, selected, highlighted>>
    /\ Props

\* CompareLegend's exit button.
StopCompare ==
    /\ OwnMap /\ compareWith /\ IsLoggedIn
    /\ compareWith' = FALSE
    /\ UNCHANGED <<me, data, friendsMap, mode, savedMode, savedProjection, keeps, prompt,
                   chosen, selected, highlighted>>
    /\ Props

\* choose: a click on the switch, or the E key, which is there for a user only.
ChooseMode(next) ==
    /\ OwnMap /\ IsLoggedIn /\ mode # next
    /\ mode' = next /\ chosen' = next
    /\ savedMode' = IF keeps THEN next ELSE savedMode
    /\ UNCHANGED <<canvasVars, me, data, friendsMap, compareWith, savedProjection, keeps,
                   prompt>>

\* toggle, optimistic.
Toggled(iso) == IF iso \in data THEN data \ {iso} ELSE data \cup {iso}

IsCountryCode(iso) == iso \in Canonical

\* handleCountryClick: a country outside the canonical list is ignored, any
\* other is selected; in edit mode it is toggled too, or the login prompt
\* shown.
HandleCountryClick(iso) ==
    /\ OwnMap /\ phase # "none" /\ IsCountryCode(iso)
    /\ data' = IF mode = "edit" /\ IsLoggedIn THEN Toggled(iso) ELSE data
    /\ selected' = iso /\ visited' = Visited(me, data') /\ friend' = friend
    /\ shown' = FiltersOf(visited', friend, iso)
    /\ prompt' = (prompt \/ (mode = "edit" /\ me = "out"))
    /\ busy' = TRUE
    /\ UNCHANGED <<me, friendsMap, compareWith, mode, savedMode, savedProjection, keeps,
                   chosen, highlighted, phase, night, control, drawn, toggleable,
                   hover, skipped>>

\* handleToggle of the country panel: the checkbox of a row marks and unmarks in
\* either mode, once useMe has answered.
ToggleRow(iso) ==
    /\ OwnMap /\ me # "loading"
    /\ data' = IF IsLoggedIn THEN Toggled(iso) ELSE data
    /\ prompt' = (prompt \/ ~IsLoggedIn)
    /\ UNCHANGED <<me, friendsMap, compareWith, mode, savedMode, savedProjection, keeps,
                   chosen, selected, highlighted>>
    /\ Props

\* The detail sheet of the selected country saves it, or unmarks it if it was
\* visited.
SheetMarks ==
    /\ OwnMap /\ IsLoggedIn /\ selected \in Canonical
    /\ \/ data' = data \cup {selected}
       \/ selected \in data /\ data' = data \ {selected}
    /\ UNCHANGED <<me, friendsMap, compareWith, mode, savedMode, savedProjection, keeps,
                   prompt, chosen, selected, highlighted>>
    /\ Props

\* A row of the panel, or a country of the profile's list, is opened; the
\* card is closed with None.
PickCountry(iso) ==
    /\ toggleable => iso # None
    /\ iso # selected
    /\ SetSelected(iso)
    /\ UNCHANGED <<viewVars, visited, friend, highlighted>>

\* A row is pointed at or focused, or left.
PointAtRow(iso) ==
    /\ OwnMap
    /\ SetHighlighted(iso)
    /\ UNCHANGED viewVars

\* After six seconds, or at a click.
HidePrompt ==
    /\ prompt
    /\ prompt' = FALSE
    /\ UNCHANGED <<canvasVars, me, data, friendsMap, compareWith, mode, savedMode,
                   savedProjection, keeps, chosen>>

\* toggleProjection and persistProjection.
FlipProjection ==
    /\ ToggleProjection
    /\ savedProjection' = IF keeps THEN control' ELSE savedProjection
    /\ UNCHANGED <<me, data, friendsMap, compareWith, mode, savedMode, keeps, prompt,
                   chosen>>

\* To another page and back, starting to compare on the way or not: the store
\* and the queries are kept, the map is new, and the mode is read again.
Return(comparing) ==
    /\ compareWith' = (comparing \/ compareWith)
    /\ comparing => OwnMap /\ IsLoggedIn
    /\ mode' = IF IsLoggedIn /\ OwnMap THEN ReadMapMode ELSE mode
    /\ MountCanvas(IF toggleable THEN ReadProjection(savedProjection) ELSE "globe")
    /\ friend' = IF OwnMap THEN FriendVisited(me, compareWith', friendsMap) ELSE None
    /\ selected' = IF toggleable THEN None ELSE selected
    /\ UNCHANGED <<visited, highlighted, toggleable, me, data, friendsMap, savedMode,
                   savedProjection, keeps, prompt, chosen>>

MapNext ==
    \/ CanvasNext /\ UNCHANGED viewVars
    \/ MeAnswers("in") \/ MeAnswers("out") \/ VisitsLand \/ Logout
    \/ FriendsMapAnswers \/ StopCompare \/ SheetMarks \/ HidePrompt \/ FlipProjection
    \/ \E next \in {"view", "edit"} : ChooseMode(next)
    \/ \E iso \in Shapes : HandleCountryClick(iso)
    \/ \E iso \in Canonical : ToggleRow(iso)
    \/ \E iso \in Canonical \cup {None} : PickCountry(iso) \/ PointAtRow(iso)
    \/ \E comparing \in BOOLEAN : Return(comparing)

MapSpec == MapInit /\ [][MapNext]_mapVars

-----------------------------------------------------------------------------
\* Correctness.

\* Logging out clears the map of the user's and the friend's countries,
\* although the store still compares and the query still has its data.
LoggedOutMapIsBare ==
    phase = "loaded" /\ OwnMap /\ me = "out" =>
        shown.visited \cup shown.friend \cup shown.overlap = {}

\* The colours, the projection and the bare map of one who is logged out.
MapInv == ViewTypeOK /\ ColoursNeverStack /\ ProjectionFollows /\ LoggedOutMapIsBare

\* -------------------------------------------------------------------------
\* What map-mode.ts says of an unavailable storage and a new mount breaks.

\* map-mode.ts:37, "Storage unavailable - the mode lasts until reload".
ModeLasts == IsLoggedIn /\ chosen # None => mode = chosen
=============================================================================
