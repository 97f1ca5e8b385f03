----------------------------- MODULE MapCanvas -----------------------------
(***************************************************************************)
(* The component that owns the MapLibre map                                *)
(* (apps/web/components/map/MapCanvas.tsx): React's effects and the map's  *)
(* events both write to one imperative object that is not ready at first,  *)
(* is busy now and then, and forgets filters, night and projection when    *)
(* its style is swapped.                                                   *)
(*                                                                         *)
(* visited, friend, selected and highlighted are its props: whoever        *)
(* renders it changes them with the Set... actions.                        *)
(***************************************************************************)
EXTENDS FiniteSets

CONSTANTS
    Shapes,  \* countries drawn on the map
    None     \* no country; no friend compared with

ASSUME CanvasNone == None \notin Shapes

VARIABLES
    visited, friend, selected, highlighted,  \* the props
    phase,          \* the map's style: "none", "styled" or, once load fired, "loaded"
    busy,           \* the map is fetching or redrawing: isStyleLoaded() is false
    shown,          \* the filters of its layers
    night,          \* the night side is shaded
    toggleable,     \* showProjectionToggle, of the read-only profile map
    control,        \* the projection the toggle shows
    drawn,          \* the projection of the map
    hoveredIso,     \* the country under the pointer
    lastHighlight,  \* previousHighlightedRef
    lit,            \* countries with the hover feature state
    skipped,        \* history: a toggle found the map busy
    shared          \* history: countries one claimant unlit while the other pointed

canvas == <<phase, busy, shown, night, control, drawn>>
hover == <<hoveredIso, lastHighlight, lit, shared>>
canvasVars == <<visited, friend, selected, highlighted, canvas, hover, toggleable, skipped>>

Projections == {"globe", "mercator"}
Filters == [visited: SUBSET Shapes, friend: SUBSET Shapes, overlap: SUBSET Shapes,
            selected: Shapes \cup {None}]

CanvasTypeOK ==
    /\ visited \in SUBSET Shapes
    /\ friend \in (SUBSET Shapes) \cup {None}
    /\ {selected, highlighted, hoveredIso, lastHighlight} \subseteq Shapes \cup {None}
    /\ phase \in {"none", "styled", "loaded"}
    /\ shown \in Filters
    /\ {busy, night, toggleable, skipped} \subseteq BOOLEAN
    /\ {control, drawn} \subseteq Projections
    /\ lit \in SUBSET Shapes /\ shared \in SUBSET Shapes

-----------------------------------------------------------------------------
\* compare.ts, map-style.ts: a country is drawn by one layer.

PartitionCompare(mine, theirs) ==
    [visited |-> mine \ theirs, friend |-> theirs \ mine, overlap |-> mine \cap theirs]

CompareFilters(mine, theirs) ==
    IF theirs = None THEN [visited |-> mine, friend |-> {}, overlap |-> {}]
    ELSE PartitionCompare(mine, theirs)

\* What the layers show for the given props.
FiltersOf(mine, theirs, iso) ==
    LET fills == CompareFilters(mine, theirs)
    IN  [visited |-> fills.visited, friend |-> fills.friend, overlap |-> fills.overlap,
         selected |-> iso]

\* What a new style shows, whatever its palette.
BuildMapStyle == [visited |-> {}, friend |-> {}, overlap |-> {}, selected |-> None]

-----------------------------------------------------------------------------
\* The map, from how the component uses it.

\* The refs of a canvas just mounted; the projection is the tab's.
MountCanvas(projection) ==
    /\ phase' = "none" /\ busy' = TRUE
    /\ shown' = BuildMapStyle
    /\ night' = FALSE
    /\ control' = projection /\ drawn' = "globe"
    /\ hoveredIso' = None /\ lastHighlight' = None /\ lit' = {}
    /\ skipped' = FALSE /\ shared' = {}

\* The style is there: its layers can be found, its sources still load.
StyleArrives ==
    /\ phase = "none"
    /\ phase' = "styled"
    /\ UNCHANGED <<visited, friend, selected, highlighted, busy, shown, night,
                   toggleable, control, drawn, hover, skipped>>

\* Everything requested has arrived and is drawn.
Settles ==
    /\ busy /\ phase # "none"
    /\ busy' = FALSE
    /\ UNCHANGED <<visited, friend, selected, highlighted, phase, shown, night,
                   toggleable, control, drawn, hover, skipped>>

\* The camera moves (the idle globe spins) and tiles are fetched, or the
\* minute is over and the night is moved: applyDaylight.
MapWorks ==
    /\ ~busy /\ phase = "loaded"
    /\ busy' = TRUE
    /\ night' = TRUE
    /\ UNCHANGED <<visited, friend, selected, highlighted, phase, shown,
                   toggleable, control, drawn, hover, skipped>>

-----------------------------------------------------------------------------
\* The component.

\* load, which fires once, when the map is first complete: applyFilters.
Load ==
    /\ phase = "styled" /\ ~busy
    /\ phase' = "loaded" /\ busy' = TRUE
    /\ shown' = FiltersOf(visited, friend, selected)
    /\ night' = TRUE
    /\ drawn' = IF control = "globe" THEN drawn ELSE control
    /\ skipped' = (skipped /\ control = "globe")
    /\ UNCHANGED <<visited, friend, selected, highlighted, toggleable, control, hover>>

\* Mutant: the filters are left to the new style.
Reasserted_NotSet == BuildMapStyle
\* After setStyle, which empties the filters and goes back to the globe, the
\* theme effect sets both again.
Reasserted == FiltersOf(visited, friend, selected)
Restored == control

\* The theme effect; the night is refilled too.  Before there is a style it
\* only replaces the one on its way.
SwapTheme ==
    /\ phase # "none"
    /\ busy' = TRUE
    /\ shown' = Reasserted
    /\ night' = TRUE
    /\ drawn' = Restored
    /\ skipped' = FALSE
    /\ UNCHANGED <<visited, friend, selected, highlighted, phase, toggleable, control, hover>>

\* The effect on visited and friendVisited: nothing to filter before the style.
SetVisited(mine, theirs) ==
    /\ visited' = mine /\ friend' = theirs
    /\ shown' = IF phase = "none" THEN shown ELSE FiltersOf(mine, theirs, shown.selected)
    /\ busy' = (busy \/ <<mine, theirs>> # <<visited, friend>>)
    /\ UNCHANGED <<phase, night, control, drawn, toggleable, hover, skipped>>

\* The effect on selected.
SetSelected(iso) ==
    /\ selected' = iso
    /\ shown' = IF phase = "none" THEN shown ELSE [shown EXCEPT !.selected = iso]
    /\ busy' = (busy \/ iso # selected)
    /\ UNCHANGED <<phase, night, control, drawn, toggleable, hover, skipped>>

\* setHovered: the pointer enters another country, or leaves them.
SetHovered(iso) ==
    /\ phase # "none" /\ iso # hoveredIso
    /\ hoveredIso' = iso
    /\ lit' = (lit \ {hoveredIso}) \cup ({iso} \ {None})
    /\ shared' = (shared \cup ({hoveredIso} \cap {lastHighlight})) \ {iso, None}
    /\ UNCHANGED <<visited, friend, selected, highlighted, canvas, lastHighlight,
                   toggleable, skipped>>

\* Mutant: a row that is left stays lit.
Relit_Stays(iso) == IF iso = None THEN lit ELSE (lit \ {lastHighlight}) \cup {iso}
Relit(iso) == (lit \ {lastHighlight}) \cup ({iso} \ {None})

\* The effect on highlighted: a row of the panel lights its country, once
\* there is a style.
SetHighlighted(iso) ==
    /\ iso # highlighted
    /\ highlighted' = iso
    /\ IF phase = "none" THEN UNCHANGED <<lit, lastHighlight, shared>>
       ELSE /\ lit' = Relit(iso)
            /\ lastHighlight' = iso
            /\ shared' = (shared \cup ({lastHighlight} \cap {hoveredIso})) \ {iso, None}
    /\ UNCHANGED <<visited, friend, selected, canvas, hoveredIso, toggleable, skipped>>

\* toggleProjection, by the button only a read-only map has.
ToggleProjection ==
    LET next == CHOOSE p \in Projections : p # control
    IN  /\ toggleable
        /\ control' = next
        /\ IF ~busy THEN drawn' = next /\ skipped' = FALSE
                    ELSE UNCHANGED drawn /\ skipped' = TRUE
        /\ busy' = (busy \/ phase # "none")
        /\ UNCHANGED <<visited, friend, selected, highlighted, phase, shown, night,
                       toggleable, hover>>

CanvasNext ==
    \/ StyleArrives \/ Settles \/ MapWorks \/ Load \/ SwapTheme
    \/ \E iso \in Shapes \cup {None} : SetHovered(iso)

-----------------------------------------------------------------------------
\* Correctness.

\* However props, themes and the map's own events interleave, a loaded map
\* shows the visited, friend and overlap countries and the outline of its
\* props, and a shaded night.
CanvasShowsProps ==
    phase = "loaded" => shown = FiltersOf(visited, friend, selected) /\ night

\* "In compare mode each country lands in exactly one layer, so the three
\* colors never stack" (compare.ts:46), also while filters are replaced.
ColoursNeverStack ==
    /\ shown.visited \cap shown.friend = {}
    /\ shown.overlap \cap (shown.visited \cup shown.friend) = {}

\* The map is drawn in the projection its control shows, through loads and
\* theme swaps, unless a toggle found it busy.
ProjectionFollows == phase = "loaded" /\ ~skipped => drawn = control

\* Nothing stays lit that neither the pointer nor a row points at, and what
\* they point at is lit unless the other one took its light away.
LitIsPointedAt ==
    /\ lit \subseteq {hoveredIso, lastHighlight}
    /\ {hoveredIso, lastHighlight} \ {None} \subseteq lit \cup shared
    /\ lastHighlight \in {highlighted, None}

-----------------------------------------------------------------------------
\* What the component says of the projection and a busy map breaks.

\* docs/tasks/08-ux-improvements.md:21, the control "toggles projection globe -
\* flat (mercator) via MapLibre `setProjection`": a loaded map is drawn as its
\* control says.  MapCanvas.tsx:156-158 counts on the `load` event for a map
\* that is not ready, but that fires once.
ControlReflectsMap == phase = "loaded" => drawn = control
=============================================================================
