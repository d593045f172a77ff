------------------------------ MODULE MCUdpNet ------------------------------
(***************************************************************************)
(* Two drivers, in one game or in two, with a fault or a user who quits.   *)
(***************************************************************************)
EXTENDS UdpNet

CONSTANTS H, G
OneGame == [c \in Client |-> 1]
TwoGames == [c \in Client |-> IF c = H THEN 1 ELSE 3]
Fault == [flight |-> 2, faults |-> 1, quits |-> 0]
Restart == [flight |-> 1, faults |-> 0, quits |-> 1]
MCLimits == {Fault, Restart}
=============================================================================
