----------------------------- MODULE MCNetwork -----------------------------
(***************************************************************************)
(* One address; one slot for outbound connections and one for inbound.   *)
(***************************************************************************)
EXTENDS Network

CONSTANTS a1, d1
=============================================================================
