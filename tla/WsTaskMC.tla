------------------------------ MODULE WsTaskMC ------------------------------
(***************************************************************************)
(* Constants for the runs of WsTask.                                       *)
(***************************************************************************)
EXTENDS WsTask

CONSTANTS A, B, Com, Us, b1, b2

BothSymbols == {A, B}
BothRegions == {Com, Us}
TwoBlocks   == {b1, b2}

\* The watchlist found in flash: empty, or one symbol.
NoneOrOne == {<<>>, (0 :> A)}
One       == {(0 :> A)}
Two       == {(0 :> A) @@ (1 :> B)}

AllEdits   == {"Add", "Remove", "Move", "Region"}
Additions  == {"Add"}
Reordering == {"Move"}

=============================================================================
