------------------------------ MODULE MCSignIn ------------------------------
(* Instances of MagicLink and GoogleSignIn for TLC.  They have no state in    *)
(* common but the table of users, which only grows, and clicks need no more   *)
(* of the requests than the links they mailed: a behaviour has either         *)
(* requests in both tabs, or one tab and clicks, or Google sign-ins.          *)
EXTENDS MagicLink, GoogleSignIn, TLC

CONSTANT t1
VARIABLE door

Limits == [k \in Kinds |-> IF k \in {"magicLink", "magicLinkGlobalDaily"} THEN 1 ELSE 2]

Ask == MagicNext /\ \A c \in Clicks : click'[c] = Unclicked
Redeem == MagicNext /\ \A t \in Tabs \ {t1} : request'[t] = Idle

Init == MagicInit /\ GoogleInit /\ door \in {"ask", "redeem", "google"}
Next ==
    /\ \/ door = "ask" /\ Ask /\ UNCHANGED googleVars
       \/ door = "redeem" /\ Redeem /\ UNCHANGED googleVars
       \/ door = "google" /\ GoogleNext /\ UNCHANGED <<users, magicVars>>
    /\ UNCHANGED door
Spec ==
    /\ Init /\ [][Next]_<<users, magicVars, googleVars, door>>
    /\ MagicFairness
=============================================================================
