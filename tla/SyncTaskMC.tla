----------------------------- MODULE SyncTaskMC -----------------------------
(***************************************************************************)
(* Constants for the runs of SyncTask.                                     *)
(***************************************************************************)
EXTENDS SyncTask, TLC

CONSTANTS A, B, Com, Us, b1, b2, b3

BothSymbols == {A, B}
BothRegions == {Com, Us}
ThreeBlocks == {b1, b2, b3}
TwoBlocks   == {b1, b2}

\* The watchlist found in flash: one symbol.
One == {(0 :> A)}

\* Two of them.
Two == {(0 :> A) @@ (1 :> B)}

\* A exists everywhere, B on one server only.
BOnlyCom == {<<A, Com>>, <<A, Us>>, <<B, Com>>}

BlockSymmetry == Permutations(ThreeBlocks)

AllEdits  == {"Add", "Remove", "Move", "Region"}
Growing   == {"Add", "Region"}
Reordering == {"Move"}

=============================================================================
