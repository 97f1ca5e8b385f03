------------------------------ MODULE MCLists -------------------------------
(* Instances of the parts of the web client that work on what they have: a    *)
(* behaviour has one of them, and the others stay as they were.               *)
EXTENDS MapView, Theme, GroupStats, CountryPanel, ProfileList

CONSTANTS ownLand, friendLand, noLand

VARIABLE part

ThreeContinents == <<"Europe", "Asia", "Antarctica">>
TwoInEurope == [c \in 1..3 |-> IF c = 1 THEN "Asia" ELSE "Europe"]
\* A lone accent is not blank, but matches everything.
Finds == [s \in {"", "accent", "one", "none"} |->
            CASE s = "one" -> {1} [] s = "none" -> {} [] OTHER -> 1..3]
MapsOfThree == [{1, 2, 3} -> {{}, {1, 2}, {2, 3, 4}}]

\* On the map: a country of the user's, one of the friend's, and a shape that is
\* no country.
Land == {ownLand, friendLand}
Abroad == {friendLand}
Home == {ownLand}
Drawn == Land \cup {noLand}

Init ==
    /\ part \in {"map", "theme", "stats", "panel", "profile"}
    /\ MapInit /\ (part = "map" \/ ~(toggleable \/ keeps))
    /\ ThemeInit /\ (part = "theme" \/ (clock = 0 /\ storage = "blocked"))
    /\ StatsInit /\ (part = "stats" \/ \A m \in Joiners : maps[m] = {})
    /\ PanelInit
    /\ ListInit /\ (part = "profile" \/ theirs = {})
Next ==
    /\ \/ part = "map" /\ MapNext /\ UNCHANGED <<themeVars, statsVars, panelVars, listVars>>
       \/ part = "theme" /\ ThemeNext /\ UNCHANGED <<mapVars, statsVars, panelVars, listVars>>
       \/ part = "stats" /\ StatsNext /\ UNCHANGED <<mapVars, themeVars, panelVars, listVars>>
       \/ part = "panel" /\ PanelNext /\ UNCHANGED <<mapVars, themeVars, statsVars, listVars>>
       \/ part = "profile" /\ ListNext /\ UNCHANGED <<mapVars, themeVars, statsVars, panelVars>>
    /\ UNCHANGED part
Spec == Init /\ [][Next]_<<mapVars, themeVars, statsVars, panelVars, listVars, part>>
=============================================================================
