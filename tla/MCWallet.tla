------------------------------ MODULE MCWallet ------------------------------
(***************************************************************************)
(* A tree for the wallet.  All outputs but ot are the wallet's.  The       *)
(* coinstake s spends or, t spends it too; v spends what s pays, x spends  *)
(* the second output of cr and pays someone else, y spends that.           *)
(*                                                                         *)
(*       g - r <<cr>> - a1 <<s>> - a2 <<v, x>> - a3 <<y>>                  *)
(*                    \ b1 << >> - b2 <<x>>    - b3 <<t>>                  *)
(*                               \ c2 << >>                                *)
(*                                                                         *)
(* x is on both branches, s and t conflict.  c2 claims too much, so that a *)
(* reorganization to it from a2 is refused in the middle.                  *)
(***************************************************************************)
EXTENDS Wallet

CONSTANTS g, r, a1, a2, a3, b1, b2, b3, c2, \* blocks
          cr, s, t, v, x, y,                \* transactions
          or, oc, os, ov, ot                \* outpoints

MCBlock == {g, r, a1, a2, a3, b1, b2, b3, c2}
MCTx == {cr, s, t, v, x, y}
MCOutpoint == {or, oc, os, ov, ot}

MCParent == [z \in Block |->
    CASE z = g -> NoBlock [] z = r -> g
      [] z = a1 -> r [] z = a2 -> a1 [] z = a3 -> a2
      [] z = b1 -> r [] z \in {b2, c2} -> b1 [] z = b3 -> b2]

MCAncestors == [z \in Block |->
    CASE z = g -> {g} [] z = r -> {g, r}
      [] z = a1 -> {g, r, a1} [] z = a2 -> {g, r, a1, a2} [] z = a3 -> {g, r, a1, a2, a3}
      [] z = b1 -> {g, r, b1} [] z = b2 -> {g, r, b1, b2} [] z = b3 -> {g, r, b1, b2, b3}
      [] z = c2 -> {g, r, b1, c2}]

MCHeight == [z \in Block |-> Cardinality(MCAncestors[z]) - 1]

MCTrust == [z \in Block |->
    CASE z = g -> 0 [] z = r -> 1
      [] z = a1 -> 2 [] z = a2 -> 3 [] z = a3 -> 6
      [] z = b1 -> 2 [] z \in {b2, c2} -> 4 [] z = b3 -> 5]

MCCreator == [z \in Outpoint |->
    CASE z \in {or, oc} -> cr [] z = os -> s [] z = ov -> v [] z = ot -> x]

MCIns == [z \in Tx |->
    CASE z \in {s, t} -> {or} [] z = v -> {os} [] z = x -> {oc} [] z = y -> {ot} [] OTHER -> {}]

MCVtx == [z \in Block |->
    CASE z = r -> <<cr>> [] z = a1 -> <<s>> [] z = a2 -> <<v, x>> [] z = a3 -> <<y>>
      [] z = b2 -> <<x>> [] z = b3 -> <<t>> [] OTHER -> << >>]

MCGenerated == {cr, s}
MCReward == Block \ {c2}
MCMine == Outpoint \ {ot}
MCFirstOut == {or, os}
=============================================================================
