------------------------------- MODULE BootMC -------------------------------
(***************************************************************************)
(* Three releases, one of which crashes at start; a co-processor that is   *)
(* out of date, and slave_fw partitions with and without an image for it,  *)
(* one of them built under a text that is no version (git describe).       *)
(***************************************************************************)
EXTENDS Boot

Version(patch) == [major |-> 2, minor |-> 12, patch |-> patch]

MCSlaveImages ==
    {[holds |-> h, text |-> <<>>, version |-> Version(0)] : h \in {"nothing", "garbage"}}
    \cup {[holds |-> "image", text |-> t, version |-> Version(9)] :
            t \in {<<2, 12, 9>>, <<2, 12, 9, "dirty">>}}
MCSlaveVersions == {Version(8)}
=============================================================================
