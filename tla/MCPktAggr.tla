------------------------------ MODULE MCPktAggr ------------------------------
(***************************************************************************)
(* Model of PktAggr: three peers, two short packets and an oversize one.   *)
(* With three peers a sequence can be complete, be broken after one packet *)
(* and be broken after two.                                                *)
(***************************************************************************)
EXTENDS PktAggr
=============================================================================
