------------------------------ MODULE SirStart ------------------------------
(***************************************************************************)
(* The serial infrared driver from its start: arbitration (SirArb), and    *)
(* then, between the machines that have launched their games, the token    *)
(* passing of SirSetup, by the player numbers that arbitration has given.  *)
(* A game is taken to begin when all have launched.                        *)
(***************************************************************************)
EXTENDS SirSetup, SirArb

CONSTANT Continued   \* bound: the setups of which it is looked at how they go on to the end

VARIABLE playing     \* the game has begun

startVars == <<vars, arbVars, playing>>

StartInit == ArbInit /\ Init /\ playing = FALSE

Arbitrating == ~playing /\ UNCHANGED <<vars, playing>>
Continuing == playing /\ Paced /\ UNCHANGED <<arbVars, playing>>

\* All have launched, as the players 0 .. N - 1. Nothing of arbitration is used any more.
Begin ==
  /\ ~playing /\ setup \in Continued
  /\ AllPlay /\ {station[s].number : s \in Station} = Node
  /\ playing' = TRUE
  /\ station' = [s \in Station |-> Stopped] /\ unheard' = 0 /\ lastlost' = FALSE
  /\ UNCHANGED <<vars, setup>>

StartNext ==
  \/ ArbNext /\ Arbitrating
  \/ Begin
  \/ Next /\ Continuing

Goes(s) == setup \in Continued /\ s \in Station
Hears(s) == BeginLookForNodes(s) \/ Listen(s)
Leaves(s) == LastAnnounce(s) \/ LaunchDoom(s)

\* Users start the driver, its loop runs (much faster than packets come), seconds pass
\* and what is sent goes out; then as in SirSetup.
StartSpec ==
  /\ StartInit /\ [][StartNext]_startVars
  /\ WF_startVars(Begin)
  /\ \A s \in UNION {DOMAIN x.flags : x \in Continued} :
       /\ WF_startVars(Goes(s) /\ Hears(s) /\ Arbitrating)
       /\ []<>(Goes(s) => station[s].in = <<>>)
       /\ SF_startVars(Goes(s) /\ Leaves(s) /\ Arbitrating)
       /\ SF_startVars(Goes(s) /\ Announce(s) /\ Arbitrating)
       /\ WF_startVars(Goes(s) /\ Transmit(s, {}) /\ Arbitrating)
  /\ WF_startVars(Expire /\ Continuing)
  /\ WF_startVars((\E pkt \in HandedOn(0) \ {NoPacket} : CmdSend(0, pkt)) /\ Continuing)
  /\ \A n \in Node : /\ WF_startVars(Interrupt(n) /\ Continuing)
                     /\ WF_startVars(CmdGet(n, NoPacket) /\ Continuing)

-----------------------------------------------------------------------------
(***************************************************************************)
(* Properties of the whole; those of the parts are also checked.           *)
(***************************************************************************)

\* Arbitration ends with all games launched, and the numbers it gives make one ring for
\* the token: without that Begin never comes. Not if a last packet is lost, or two want
\* the same number.
AllLaunch == <>(playing \/ NobodyPlays \/ setup \notin Continued)
=============================================================================
