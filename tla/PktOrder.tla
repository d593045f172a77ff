------------------------------ MODULE PktOrder ------------------------------
(***************************************************************************)
(* What the game expects of a network driver it calls with CMD_SEND: each  *)
(* destination gets the packets addressed to it, each once and in the      *)
(* order of the calls.  A packet may be late, but is never overtaken, and  *)
(* the next packet for its destination pushes it out.                      *)
(***************************************************************************)
EXTENDS Sequences

CONSTANTS
  Dest,     \* nodes a packet can be addressed to
  Packets   \* contents of a packet

VARIABLES
  sent,      \* sent[d]: the packets the game has sent to d
  delivered  \* delivered[d]: the packets the link has carried to d

vars == <<sent, delivered>>

Init == /\ sent = [d \in Dest |-> <<>>]
        /\ delivered = [d \in Dest |-> <<>>]

\* The game sends p to d: all earlier packets to d have left, p itself
\* leaves now or later, and any other destination may catch up as well.
Send(d, p) ==
  /\ sent' = [sent EXCEPT ![d] = Append(@, p)]
  /\ \E leaves \in BOOLEAN, caughtUp \in SUBSET (Dest \ {d}) :
       delivered' = [e \in Dest |->
                       IF e = d THEN IF leaves THEN sent'[d] ELSE sent[d]
                       ELSE IF e \in caughtUp THEN sent[e] ELSE delivered[e]]

\* Everything that is owed is delivered.
CatchUp == /\ delivered' = sent
           /\ UNCHANGED sent

Next == (\E d \in Dest, p \in Packets : Send(d, p)) \/ CatchUp

Spec == Init /\ [][Next]_vars
FairSpec == Spec /\ WF_vars(CatchUp)

=============================================================================
