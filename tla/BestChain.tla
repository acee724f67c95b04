----------------------------- MODULE BestChain -----------------------------
(***************************************************************************)
(* What the chain state promises, without databases, loops or failures:    *)
(* the node learns blocks, and its best chain moves in one step from a     *)
(* valid chain to a valid chain with more trust, never to anything else.   *)
(* The steady node also gets there: it does not stay on its chain while it *)
(* knows a valid one with more trust.                                      *)
(***************************************************************************)
EXTENDS Ledger

CONSTANT Rule   \* the rewards allowed: TRUE when the later rule is known

VARIABLES known,  \* the blocks learned
          best    \* the last block of the best chain

vars == <<known, best>>

Init == known = {Genesis} /\ best = Genesis

Learn(b) ==
    /\ b \notin known
    /\ Parent[b] \in known
    /\ known' = known \cup {b}
    /\ best' = best

Switch(b) ==
    /\ b \in known
    /\ Trust[b] > Trust[best]
    /\ ValidChain(b, Rule)
    /\ best' = b
    /\ known' = known

Next == \E b \in Block : Learn(b) \/ Switch(b)

SafeSpec == Init /\ [][Next]_vars

Spec == SafeSpec /\ WF_vars(\E b \in Block : Switch(b))
=============================================================================
