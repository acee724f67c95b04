----------------------------- MODULE MCMiner -----------------------------
(***************************************************************************)
(* A tree for Miner:                                                       *)
(*                                                                         *)
(*      g - r <<cr>> - a1 <<t>> - a2 <<x>>                                 *)
(*                   \ b1 << >> - b2 <<t, v>> - c3 <<u>>                   *)
(*                                                                         *)
(* t and u spend the same output of cr; v and x spend one of t's, w spends *)
(* v's and the other of t's.  Any of them may be received at any time.  c3 *)
(* is invalid above b2, but may become the best block in memory after a    *)
(* crash; a2 then outweighs it.                                            *)
(***************************************************************************)
EXTENDS Miner

CONSTANTS g, r, a1, a2, b1, b2, c3, cr, t, u, v, w, x, or, ot, os, ov

MCBlock == {g, r, a1, a2, b1, b2, c3}
MCTx == {cr, t, u, v, w, x}
MCOutpoint == {or, ot, os, ov}

MCParent == [y \in Block |->
    CASE y = g -> NoBlock [] y = r -> g [] y \in {a1, b1} -> r [] y = a2 -> a1
      [] y = b2 -> b1 [] y = c3 -> b2]

MCAncestors == [y \in Block |->
    CASE y = g -> {g} [] y = r -> {g, r} [] y \in {a1, b1} -> {g, r, y}
      [] y = a2 -> {g, r, a1, a2} [] y = b2 -> {g, r, b1, b2} [] y = c3 -> {g, r, b1, b2, c3}]

MCHeight == [y \in Block |-> Cardinality(MCAncestors[y]) - 1]

MCTrust == [y \in Block |->
    CASE y = g -> 0 [] y = r -> 1 [] y = b1 -> 2 [] y \in {a1, b2} -> 3
      [] y = c3 -> 4 [] y = a2 -> 5]

MCCreator == [o \in Outpoint |->
    CASE o = or -> cr [] o \in {ot, os} -> t [] o = ov -> v]

MCIns == [y \in Tx |->
    CASE y \in {t, u} -> {or} [] y \in {v, x} -> {ot} [] y = w -> {os, ov} [] OTHER -> {}]

MCVtx == [y \in Block |->
    CASE y = r -> <<cr>> [] y = a1 -> <<t>> [] y = a2 -> <<x>> [] y = b2 -> <<t, v>>
      [] y = c3 -> <<u>> [] OTHER -> << >>]

MCGenerated == {cr}
MCNone == {}
MCReward == Block
=============================================================================
