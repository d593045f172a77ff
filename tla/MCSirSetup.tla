----------------------------- MODULE MCSirSetup -----------------------------
(***************************************************************************)
(* Models of SirSetup.                                                     *)
(***************************************************************************)
EXTENDS SirSetup

\* Player 0's game sends both packets with tics and without, and floods its queue.
FloodFrom0 == [n \in Node |-> IF n = 0 THEN {Flood, Tic} ELSE {Tic}]
=============================================================================
