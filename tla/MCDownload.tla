---------------------------- MODULE MCDownload ----------------------------
(***************************************************************************)
(* A tree for Download:                                                    *)
(*                                                                         *)
(*      g - b1 - b2 s1 - b3                                                *)
(*            \                                                            *)
(*             a2 s1 - a3                                                  *)
(*                                                                         *)
(* The peer has the branch of b3, or nothing yet; a2 and a3 come from      *)
(* other connections.  a2 claims too much, AcceptBlock refuses a3, and a   *)
(* block outweighs the blocks that are before it in the order b1, b2, a2,  *)
(* b3, a3.                                                                 *)
(***************************************************************************)
EXTENDS Download

CONSTANTS g, a2, a3, b1, b2, b3, cr, s1, p1

MCBlock == {g, a2, a3, b1, b2, b3}
MCTx == {cr}
MCOutpoint == {}

MCParent == [y \in Block |->
    CASE y = g -> NoBlock [] y = b1 -> g [] y \in {b2, a2} -> b1
      [] y = a3 -> a2 [] y = b3 -> b2]

MCAncestors == [y \in Block |->
    CASE y = g -> {g} [] y = b3 -> {g, b1, b2, b3} [] y = a3 -> {g, b1, a2, a3}
      [] OTHER -> {g, b1, y}]

MCHeight == [y \in Block |-> Cardinality(MCAncestors[y]) - 1]

MCTrust == [y \in Block |->
    CASE y = g -> 0 [] y = b1 -> 1 [] y = b2 -> 2 [] y = a2 -> 3 [] y = b3 -> 4 [] y = a3 -> 5]

MCCreator == [o \in Outpoint |-> cr]
MCIns == [y \in Tx |-> {}]
MCVtx == [y \in Block |-> << >>]
MCGenerated == {cr}
MCReward == Block \ {a2}

MCProofOfStake == [y \in Block |-> IF y \in {a2, b2} THEN s1 ELSE NoStake]

MCStake == {s1}
MCUnacceptable == {a3}
MCPeerBest == {g, b3}
MCElsewhere == {a2, a3}
=============================================================================
