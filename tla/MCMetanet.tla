----------------------------- MODULE MCMetanet -----------------------------
(***************************************************************************)
(* Models of Metanet: players A and B, forwarder F between them, and C, a  *)
(* second forwarder.                                                       *)
(***************************************************************************)
EXTENDS Metanet, TLC

CONSTANTS A, B, C, F
LanStation == [m \in Machine |-> CASE m = A -> 2 [] m = B -> 1 [] m = C -> 3 [] m = F -> 0]
Chain == (A :> << <<F>> >>) @@ (F :> << <<A>>, <<B>> >>) @@ (B :> << <<F>> >>)
TwoForwarders == (A :> << <<F>> >>) @@ (F :> << <<A>>, <<C>> >>) @@ (C :> << <<F>>, <<B>> >>) @@ (B :> << <<C>> >>)
=============================================================================
