---------------------------- MODULE MCWalletKeys ----------------------------
(***************************************************************************)
(* A pool of two keys (-keypool=1).                                        *)
(***************************************************************************)
EXTENDS WalletKeys

CONSTANTS h1
=============================================================================
