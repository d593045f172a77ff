---------------------------- MODULE MCSerDriver ----------------------------
(* Models of SerDriver: packets of one or two bytes, FRAMECHAR among them. *)
EXTENDS SerDriver

ThreePackets == <<{<<1>>, <<Frame, 1>>}, {<<2>>, <<2, Frame>>, <<Frame, 2>>}, {<<3>>, <<3, Frame>>}>>
OneSided == [p \in Player |-> IF p = 0 THEN 6 ELSE 2]
=============================================================================
