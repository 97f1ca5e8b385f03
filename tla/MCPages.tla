------------------------------ MODULE MCPages -------------------------------
(* Instances of the parts of the web client that talk to the API and have no  *)
(* state in common: a behaviour has one of them, and the others stay as they  *)
(* were.                                                                      *)
EXTENDS Follows, GroupPages, ProfilePages, TLC

CONSTANTS amy, joe, f1, f2, s1, s2
VARIABLE part

FollowedBefore == {{}, {amy}}
Club(owner, members) == [name |-> "Crew", code |-> 0, members |-> members, owner |-> owner]
ClubsBefore == {Missing, Club(Me, {Me, joe}), Club(joe, {joe}), Club(joe, {Me, joe})}
AnnsBefore == [name: {"Ann"}, handle: {"ann", Nameless}]
Slots == Permutations({f1, f2}) \cup Permutations({s1, s2})

Init ==
    /\ part \in {"friends", "groups", "profile"}
    /\ FollowsInit /\ (part = "friends" \/ (followed = {} /\ page = "map"))
    /\ PagesInit /\ (part = "groups" \/ (group = Missing /\ screen = "groups"))
    /\ ProfilePagesInit /\ (part = "profile" \/ account.handle = Nameless)
Next ==
    /\ \/ part = "friends" /\ FollowsNext /\ UNCHANGED <<pageVars, profileVars>>
       \/ part = "groups" /\ PagesNext /\ UNCHANGED <<followVars, profileVars>>
       \/ part = "profile" /\ ProfilePagesNext /\ UNCHANGED <<followVars, pageVars>>
    /\ UNCHANGED part
Spec == Init /\ [][Next]_<<followVars, pageVars, profileVars, part>>
=============================================================================
