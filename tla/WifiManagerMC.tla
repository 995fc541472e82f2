--------------------------- MODULE WifiManagerMC ----------------------------
(***************************************************************************)
(* Constants for the runs of WifiManager.                                  *)
(***************************************************************************)
EXTENDS WifiManager

CONSTANTS A, B, C

TwoNets   == {A, B}
ThreeNets == {A, B, C}

Rec(s, p) == [ssid |-> s, pw |-> p, blocked |-> FALSE]

\* A network that works, tried first or last, and one whose password changed.
GoodAndBad == {[recs |-> <<Rec(A, Right), Rec(B, Wrong)>>, last |-> l] : l \in {A, B}}
Three      == {[recs |-> <<Rec(A, Wrong), Rec(B, Wrong), Rec(C, Right)>>, last |-> l] :
                 l \in {A, B, Empty}}

NoneOrTwo   == GoodAndBad \cup {[recs |-> <<>>, last |-> Empty]}

\* What the user types: the networks that are not saved, and a mistake.
TypedB  == {<<B, Right>>, <<B, Wrong>>}

NoCommand  == {}
AllKinds   == AllCommands
Forgetting == {"Pause", "Resume", "Forget"}
Connecting == {"ConnectNew", "ConnectSaved", "Disconnect", "UpdatePassword"}
Lossy      == {"Pause", "Resume", "ConnectSaved", "Forget"}

=============================================================================
