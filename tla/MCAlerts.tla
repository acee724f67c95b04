------------------------------ MODULE MCAlerts ------------------------------
(***************************************************************************)
(* The authority s is dialled by m.  Of the two notices the first cancels  *)
(* every alert up to ID 2; three of the four alerts at most are sent.      *)
(***************************************************************************)
EXTENDS Alerts

CONSTANTS s, m, r1, r2, w1, w2

MCPair == {<<m, s>>}
MCCancelUpTo == [w \in Notice |-> IF w = w1 THEN 2 ELSE 0]
MCThreeSent == Cardinality({a \in Alert : nID[a] # 0}) <= 3
=============================================================================
