----------------------------- MODULE MCSerLine -----------------------------
(* Models of SerLine: packets of one or two bytes, FRAMECHAR among them. *)
EXTENDS SerLine

ThreePackets == [k \in 1 .. 3 |-> {<<k>>, <<k, Frame>>, <<Frame, k>>}]
=============================================================================
