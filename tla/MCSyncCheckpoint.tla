-------------------------- MODULE MCSyncCheckpoint --------------------------
(***************************************************************************)
(* The tree of MCChainState down to a2 and b2, all of it valid.  Signed    *)
(* checkpoints name blocks of both branches, so that some conflict, some   *)
(* are old, and one is on the branch with less trust; a1 is hardened.      *)
(***************************************************************************)
EXTENDS SyncCheckpoint, MCChainState

MCSigned == {r, a1, a3, b1, b2}
MCHardened == {g, a1}
MCBlockSync == {g, r, a1, a2, a3, b1, b2, b3}
=============================================================================
