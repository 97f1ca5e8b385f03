------------------------------- MODULE Theme --------------------------------
(***************************************************************************)
(* The colour theme (apps/web/lib/theme.ts, theme-store.ts and             *)
(* ThemeAutoSync): the preference and the override in localStorage, which  *)
(* the tabs of a browser share, the store of each tab, the script that     *)
(* runs before the first paint, the timer of the automatic switch and the  *)
(* check when a tab is shown again.                                        *)
(*                                                                         *)
(* The clock counts hours of local time, without daylight saving; a timer  *)
(* fires in the hour it is set for or, in a background tab, later.         *)
(***************************************************************************)
EXTENDS Naturals

CONSTANTS
    Windows,         \* the open tabs
    HoursPerDay, DayStart, NightStart,   \* DAY_START_HOUR, NIGHT_START_HOUR
    FirstHours,      \* hours at which the model may begin
    LastHour,        \* bounds the clock
    MaxChoices,      \* bounds the model: toggles and settings
    NoOverride, NoTimer, NoWindow

ASSUME ThemeHours == /\ HoursPerDay \in Nat /\ NightStart \in 1..(HoursPerDay - 1)
                     /\ DayStart \in 0..(NightStart - 1)
ASSUME ThemeClock == LastHour \in Nat /\ FirstHours \subseteq 0..LastHour
ASSUME ThemeBound == MaxChoices \in Nat

VARIABLES
    clock,    \* hours since some midnight
    storage,  \* localStorage: it works, is full, or access is blocked
    stored,   \* the preference and the override in it
    tabs,     \* the store, timer and visibility of every tab
    writer,   \* history: the last tab to change a preference or override
    choices   \* toggles and settings so far

themeVars == <<clock, storage, stored, tabs, writer, choices>>

Themes == {"light", "dark"}
Preferences == Themes \cup {"auto"}
Overrides == [theme: Themes, until: Nat]

ASSUME ThemeNone ==
    NoOverride \notin Overrides /\ NoTimer \notin Nat /\ NoWindow \notin Windows

Hour(now) == now % HoursPerDay
Opposite(theme) == IF theme = "dark" THEN "light" ELSE "dark"

ThemeForHour(h) == IF h >= DayStart /\ h < NightStart THEN "light" ELSE "dark"

\* Strictly after now, over midnight if need be.
NextSwitchAt(now) ==
    now - Hour(now) + IF Hour(now) < DayStart THEN DayStart
                      ELSE IF Hour(now) < NightStart THEN NightStart
                      ELSE HoursPerDay + DayStart

\* chosen is history: the override this tab chose, or found when it was loaded.
ThemeTypeOK ==
    /\ clock \in 0..LastHour
    /\ storage \in {"works", "full", "blocked"}
    /\ stored.preference \in Preferences
    /\ stored.override \in Overrides \cup {NoOverride}
    /\ tabs \in [Windows -> [phase: {"closed", "loaded", "open"}, theme: Themes,
                             preference: Preferences, timer: Nat \cup {NoTimer},
                             visible: BOOLEAN, chosen: Overrides \cup {NoOverride}]]
    /\ \A w \in Windows :
        tabs[w].timer # NoTimer <=> tabs[w].phase = "open" /\ tabs[w].preference = "auto"
    /\ writer \in Windows \cup {NoWindow}
    /\ choices \in 0..MaxChoices

ClosedTab == [phase |-> "closed", theme |-> "dark", preference |-> "auto", timer |-> NoTimer,
              visible |-> TRUE, chosen |-> NoOverride]

ThemeInit ==
    /\ clock \in FirstHours
    /\ storage \in {"works", "full", "blocked"}
    /\ stored \in [preference: IF storage = "blocked" THEN {"auto"} ELSE {"auto", "dark"},
                   override: {NoOverride}]
    /\ tabs = [w \in Windows |-> ClosedTab]
    /\ writer = NoWindow
    /\ choices = 0

-----------------------------------------------------------------------------
\* localStorage: reads of a blocked one find nothing.

ReadPreference == IF storage = "blocked" THEN "auto" ELSE stored.preference

\* parseOverride drops what has expired.
Valid(override, now) == IF override = NoOverride THEN FALSE ELSE override.until > now
ReadOverride(now) ==
    IF storage = "blocked" \/ ~Valid(stored.override, now) THEN NoOverride ELSE stored.override

\* A write that throws leaves what comes after it undone.
WritePreference(p) ==
    CASE storage = "blocked" \/ (storage = "full" /\ p # "auto") -> stored
      [] OTHER -> [preference |-> p, override |-> NoOverride]
WriteOverride(o) ==
    CASE storage = "blocked" \/ (storage = "full" /\ o # NoOverride) -> stored
      [] OTHER -> [stored EXCEPT !.override = o]

ResolveTheme(preference, override, now) ==
    IF preference # "auto" THEN preference
    ELSE IF Valid(override, now) THEN override.theme
    ELSE ThemeForHour(Hour(now))

\* THEME_INIT_SCRIPT has its own copy of the rules; blocked storage throws.
ThemeInitScript ==
    IF storage = "blocked" THEN "dark"
    ELSE IF stored.preference # "auto" THEN stored.preference
    ELSE IF Valid(stored.override, clock) THEN stored.override.theme
    ELSE ThemeForHour(Hour(clock))

-----------------------------------------------------------------------------
\* The store and the component that keeps it current.

\* Mutant: the override is not read.
Synced_NoOverride(x) ==
    [x EXCEPT !.theme = ResolveTheme("auto", NoOverride, clock), !.timer = NextSwitchAt(clock)]
\* syncAuto and arm of ThemeAutoSync, for tab x.
Synced(x) ==
    [x EXCEPT !.theme = ResolveTheme("auto", ReadOverride(clock), clock),
              !.timer = NextSwitchAt(clock)]
ClearsOverride == IF ReadOverride(clock) = NoOverride THEN WriteOverride(NoOverride) ELSE stored

\* The page is loaded, or loaded again: the script, then the store.
LoadPage(w) ==
    /\ tabs' = [tabs EXCEPT ![w] = [ClosedTab EXCEPT
            !.phase = "loaded", !.theme = ThemeInitScript, !.preference = ReadPreference,
            !.chosen = IF ReadPreference = "auto" THEN ReadOverride(clock) ELSE NoOverride]]
    /\ UNCHANGED <<clock, storage, stored, writer, choices>>

\* The effect of ThemeAutoSync runs once the page is hydrated.
Hydrate(w) ==
    /\ tabs[w].phase = "loaded"
    /\ LET x == [tabs[w] EXCEPT !.phase = "open"] IN
        IF x.preference = "auto"
        THEN tabs' = [tabs EXCEPT ![w] = Synced(x)] /\ stored' = ClearsOverride
        ELSE tabs' = [tabs EXCEPT ![w] = x] /\ stored' = stored
    /\ UNCHANGED <<clock, storage, writer, choices>>

CloseTab(w) ==
    /\ tabs[w].phase # "closed"
    /\ tabs' = [tabs EXCEPT ![w] = ClosedTab]
    /\ UNCHANGED <<clock, storage, stored, writer, choices>>

\* setPreference in the settings; the effect runs again if the preference changed.
PickPreference(w, p) ==
    /\ tabs[w].phase = "open" /\ choices < MaxChoices
    /\ choices' = choices + 1
    /\ stored' = WritePreference(p)
    /\ tabs' = [tabs EXCEPT ![w] = [@ EXCEPT
            !.preference = p, !.theme = ResolveTheme(p, NoOverride, clock),
            !.timer = IF p = tabs[w].preference THEN tabs[w].timer
                      ELSE IF p = "auto" THEN NextSwitchAt(clock) ELSE NoTimer,
            !.chosen = NoOverride]]
    /\ writer' = w
    /\ UNCHANGED <<clock, storage>>

\* toggleTheme: a fixed preference flips, an automatic one is overridden until
\* the next switch.
ToggleTheme(w) ==
    /\ tabs[w].phase = "open" /\ choices < MaxChoices
    /\ LET x == tabs[w]
           o == [theme |-> Opposite(x.theme), until |-> NextSwitchAt(clock)] IN
        IF x.preference # "auto" THEN PickPreference(w, Opposite(x.theme))
        ELSE /\ choices' = choices + 1
             /\ stored' = WriteOverride(o)
             /\ tabs' = [tabs EXCEPT ![w] = [@ EXCEPT !.theme = o.theme, !.chosen = o]]
             /\ writer' = w
             /\ UNCHANGED <<clock, storage>>

TimerFires(w) ==
    /\ tabs[w].timer # NoTimer /\ clock >= tabs[w].timer
    /\ tabs' = [tabs EXCEPT ![w] = Synced(@)]
    /\ stored' = ClearsOverride
    /\ UNCHANGED <<clock, storage, writer, choices>>

HideTab(w) ==
    /\ tabs[w].phase = "open" /\ tabs[w].visible
    /\ tabs' = [tabs EXCEPT ![w] = [@ EXCEPT !.visible = FALSE]]
    /\ UNCHANGED <<clock, storage, stored, writer, choices>>

\* onVisible, which only listens in auto mode.
ShowTab(w) ==
    /\ tabs[w].phase = "open" /\ ~tabs[w].visible
    /\ LET x == [tabs[w] EXCEPT !.visible = TRUE] IN
        IF x.preference = "auto"
        THEN tabs' = [tabs EXCEPT ![w] = Synced(x)] /\ stored' = ClearsOverride
        ELSE tabs' = [tabs EXCEPT ![w] = x] /\ stored' = stored
    /\ UNCHANGED <<clock, storage, writer, choices>>

PassHour ==
    /\ clock < LastHour
    /\ clock' = clock + 1
    /\ UNCHANGED <<storage, stored, tabs, writer, choices>>

ThemeNext ==
    \/ PassHour
    \/ \E w \in Windows :
        \/ LoadPage(w) \/ Hydrate(w) \/ CloseTab(w) \/ ToggleTheme(w)
        \/ TimerFires(w) \/ HideTab(w) \/ ShowTab(w)
        \/ \E p \in Preferences : PickPreference(w, p)

\* The theme on its own.
ThemeSpec == ThemeInit /\ [][ThemeNext]_themeVars

-----------------------------------------------------------------------------
\* Correctness.

Current(w) == tabs[w].phase = "open" /\ (tabs[w].timer = NoTimer \/ clock < tabs[w].timer)

\* "no flash of the wrong theme" (theme.ts:106): what the script paints is what
\* the store would resolve, except that the script paints a blocked browser
\* dark at any hour and the store then follows the clock.
NoFlash ==
    \A w \in Windows : tabs[w].phase = "loaded" => \/ storage = "blocked"
        \/ ThemeInitScript = ResolveTheme(ReadPreference, ReadOverride(clock), clock)

\* "it sticks until the next scheduled day/night switch" (theme.ts:10): as long
\* as storage works and no other tab has written to it, no timer and no return
\* to the tab ends an override early.
OverrideSticks ==
    \A w \in Windows :
        (storage = "works" /\ writer = w /\ Valid(tabs[w].chosen, clock) /\ tabs[w].phase = "open")
            => tabs[w].theme = tabs[w].chosen.theme

\* "after which auto resumes": a tab in auto mode whose timer is not due shows
\* the theme of the hour, or an override that is still valid.
AutoFollowsClock ==
    \A w \in Windows : Current(w) /\ tabs[w].preference = "auto" =>
        \/ tabs[w].theme = ThemeForHour(Hour(clock))
        \/ Valid(tabs[w].chosen, clock)
        \/ (storage # "blocked" /\ writer # w)

\* "Actions keep DOM + localStorage in sync" (theme-store.ts:35): loading the
\* page again changes nothing while storage works and the tab is the last that
\* chose, unless another tab had fixed a preference before that choice, which
\* this tab has not heard of.
ReloadKeepsTheme ==
    \A w \in Windows :
        (storage = "works" /\ writer = w /\ Current(w) /\ tabs[w].preference = stored.preference)
            => ThemeInitScript = tabs[w].theme

\* What every tab's theme promises in every state.
ThemeInv ==
    ThemeTypeOK /\ NoFlash /\ OverrideSticks /\ AutoFollowsClock /\ ReloadKeepsTheme
=============================================================================
