---------------------------- MODULE MCChainState ----------------------------
(***************************************************************************)
(* Block trees for ChainState.  t spends the coinbase of r, u spends it    *)
(* too, v spends t's output, w the coinbase of its own block.              *)
(*                                                                         *)
(*       g - r - a1 <<ca, t>> - a2 <<v>> - a3                              *)
(*             \ b1 << >>  -  b2 <<t, v>> - b3 <<u>> - b4                  *)
(*             \ d1 <<cd, w>>                                              *)
(*                                                                         *)
(* a2 spends in one block what a1 created, b2 creates and spends it, so a  *)
(* reorganization unwinds and replays the same transactions elsewhere.     *)
(* b3 is a double spend and d1 spends a coinbase that has not matured; the *)
(* reward of a3 is allowed only under the later rule.  The proof of stake  *)
(* b2 outweighs a2 by itself, so that b1 and b2 are a reorganization and   *)
(* b3 is what SetBestChain postpones.                                      *)
(***************************************************************************)
EXTENDS ChainState

CONSTANTS g, r, a1, a2, a3, b1, b2, b3, b4, d1,     \* blocks
          cr, ca, cd, t, u, v, w,                   \* transactions
          or, oa, od, ot                            \* outpoints

MCBlock == {g, r, a1, a2, a3, b1, b2, b3, b4, d1}
MCBlockSmall == {g, r, a1, a2, a3, b1, b2, b3}
MCBlockTiny == {g, r, a1, b1, b2, b3}
MCTx == {cr, ca, cd, t, u, v, w}
MCOutpoint == {or, oa, od, ot}

MCParent == [x \in Block |->
    CASE x = g -> NoBlock [] x = r -> g
      [] x = a1 -> r [] x = a2 -> a1 [] x = a3 -> a2
      [] x = b1 -> r [] x = b2 -> b1 [] x = b3 -> b2 [] x = b4 -> b3
      [] x = d1 -> r]

MCAncestors == [x \in Block |->
    CASE x = g -> {g} [] x = r -> {g, r}
      [] x = a1 -> {g, r, a1} [] x = a2 -> {g, r, a1, a2} [] x = a3 -> {g, r, a1, a2, a3}
      [] x = b1 -> {g, r, b1} [] x = b2 -> {g, r, b1, b2} [] x = b3 -> {g, r, b1, b2, b3}
      [] x = b4 -> {g, r, b1, b2, b3, b4}
      [] x = d1 -> {g, r, d1}]

MCHeight == [x \in Block |-> Cardinality(MCAncestors[x]) - 1]

MCTrust == [x \in Block |->
    CASE x = g -> 0 [] x = r -> 1
      [] x = a1 -> 2 [] x = a2 -> 3 [] x = a3 -> 6
      [] x = b1 -> 2 [] x = b2 -> 4 [] x = b3 -> 5 [] x = b4 -> 7
      [] x = d1 -> 5]

MCCreator == [o \in Outpoint |->
    CASE o = or -> cr [] o = oa -> ca [] o = od -> cd [] o = ot -> t]

MCIns == [x \in Tx |->
    CASE x \in {t, u} -> {or} [] x = v -> {ot} [] x = w -> {od} [] OTHER -> {}]

\* The tree of the picture.
MCVtx == [x \in Block |->
    CASE x = r -> <<cr>> [] x = a1 -> <<ca, t>> [] x = a2 -> <<v>>
      [] x = b2 -> <<t, v>> [] x = b3 -> <<u>> [] x = d1 -> <<cd, w>>
      [] OTHER -> << >>]

\* The same tree with no invalid block.
MCVtxValid == [x \in Block |-> IF x \in {b3, d1} THEN << >> ELSE MCVtx[x]]

MCGenerated == {cr, ca, cd}
MCRewardBefore == Block \ {a3}
MCRewardBeforeTiny == Block \ {b3}
MCRewardAll == Block
=============================================================================
