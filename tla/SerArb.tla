------------------------------- MODULE SerArb -------------------------------
(***************************************************************************)
(* Player arbitration of the serial and parallel drivers (net/serarb.c):   *)
(* two players, connected by a link that keeps packets in order and may    *)
(* lose some, tell each other a random ID and how far they have got; the   *)
(* lower ID is player 0.  A peer may be an original SERSETUP, which is     *)
(* external: it sends its player number, and changes it when it gets the   *)
(* same from the other side.                                               *)
(***************************************************************************)
EXTENDS Integers, Sequences

CONSTANTS
  Random,     \* IDs that MakeLocalID may draw, of 0 .. 999999
  MaxLink,    \* bound: packets on their way when a second passes
  MaxLosses   \* bound: packets lost

ForcedFirst == 0        \* MakeLocalID's ID with -player1
ForcedSecond == 999999  \* and with -player2

ASSUME RandomAssumption == Random \subseteq ForcedFirst .. ForcedSecond
ASSUME BoundsAssumption == MaxLink \in Nat \ {0} /\ MaxLosses \in Nat

Player == {0, 1}
Other(p) == 1 - p

VARIABLES
  old,           \* the players that run an original SERSETUP
  phase,         \* "off", "connected", "arbitrate", "game", "error"
  localid,       \* arb.localid
  consoleplayer, \* doomcom.consoleplayer
  stage,         \* arb.localstage
  new_protocol,  \* arb.new_protocol
  due,           \* now - arb.last_send_time >= CLOCKS_PER_SEC
  link,          \* link[p]: packets on their way to p
  losses,        \* packets lost so far
  lastlost       \* a packet of stage 2 or later is among them (history)

vars == <<old, phase, localid, consoleplayer, stage, new_protocol, due, link, losses, lastlost>>

\* InitArbitration, MakeLocalID, when a player starts.
Init ==
  /\ old \in {{}, {1}}
  /\ phase = [p \in Player |-> "off"]
  /\ localid \in [Player -> Random \cup {ForcedFirst, ForcedSecond}]
  /\ consoleplayer \in [Player -> Player]
  /\ \A p \in Player \ old : consoleplayer[p] = IF localid[p] = ForcedSecond THEN 1 ELSE 0
  /\ stage = [p \in Player |-> 0]
  /\ new_protocol = [p \in Player |-> p \notin old]
  /\ due = [p \in Player |-> FALSE]
  /\ link = [p \in Player |-> <<>>]
  /\ losses = 0 /\ lastlost = FALSE

-----------------------------------------------------------------------------
\* "ID%6s_%d" or "PLAY%i_%i", as PollArbitratePlayers builds it.
Announce(p, s, new, console) ==
  [new |-> new, id |-> IF new THEN localid[p] ELSE -1,
   player |-> IF new THEN -1 ELSE console, stage |-> s]

\* Mutant: the stage of the packet is not looked at.
NextStage_Count(pkt, console, s) == s + 1

\* Of two equal player numbers the original SERSETUP has to change its own.
NextStage(pkt, console, s) ==
  IF ~pkt.new /\ pkt.player = console THEN 1 ELSE pkt.stage + 1

\* The player number that two IDs give to the side of the first.
Ordered(mine, remote) == IF mine > remote THEN 1 ELSE 0

\* Mutant: a packet does not trigger a response.
Process_NoResponse(p, r, pkt) ==
  [r EXCEPT !.stage = NextStage(pkt, r.console, r.stage), !.new = pkt.new,
            !.console = IF pkt.new THEN Ordered(localid[p], pkt.id) ELSE r.console]

\* An iteration of ProcessPackets; a state of p is r. An original SERSETUP does
\* not know ID packets, and starts again when it changes its player number.
Process(p, r, pkt) ==
  IF p \notin old
    THEN [stage |-> NextStage(pkt, r.console, r.stage), due |-> TRUE, new |-> pkt.new,
          error |-> r.error \/ (pkt.new /\ pkt.id = localid[p]),
          console |-> IF pkt.new THEN Ordered(localid[p], pkt.id) ELSE r.console]
  ELSE IF pkt.new THEN r
  ELSE IF pkt.player = r.console
    THEN [stage |-> 0, due |-> TRUE, new |-> r.new, error |-> r.error, console |-> Other(r.console)]
    ELSE [stage |-> pkt.stage + 1, due |-> TRUE, new |-> r.new, error |-> r.error, console |-> r.console]

\* ProcessPackets: p's state after each of the packets.
Processed(p, r, pkts) ==
  LET after[k \in 0 .. Len(pkts)] == IF k = 0 THEN r ELSE Process(p, after[k - 1], pkts[k])
  IN after
ProcessPackets(p, r, pkts) == Processed(p, r, pkts)[Len(pkts)]

\* StartArbitratePlayers.
StartArbitratePlayers(p) ==
  /\ phase' = [phase EXCEPT ![p] = "arbitrate"]
  /\ UNCHANGED <<old, localid, consoleplayer, stage, new_protocol, due, link, losses, lastlost>>

\* The driver starts on a direct line. What has been sent to it before is lost.
Start(p) == phase[p] = "off" /\ StartArbitratePlayers(p)

\* What is sent now is kept for p: its driver runs, or has only to notice that its
\* modem has connected.
Hears(p) == phase[p] \in {"connected", "arbitrate"}

\* A second passes without a packet being sent.
Second(p) ==
  /\ phase[p] = "arbitrate" /\ ~due[p] /\ Len(link[0]) + Len(link[1]) < MaxLink
  /\ due' = [due EXCEPT ![p] = TRUE]
  /\ UNCHANGED <<old, phase, localid, consoleplayer, stage, new_protocol, link, losses, lastlost>>

\* PollArbitratePlayers with the first n packets having arrived: all of them are
\* processed, and if one was, or a second has passed, the state is sent.
\* Error() ends the program.
Poll(p, n) ==
  /\ phase[p] = "arbitrate" /\ stage[p] < 2 /\ n + (IF due[p] THEN 1 ELSE 0) > 0
  /\ LET now == [stage |-> stage[p], due |-> due[p], new |-> new_protocol[p],
                 console |-> consoleplayer[p], error |-> FALSE]
         r == ProcessPackets(p, now, SubSeq(link[p], 1, n))
         sent == IF r.due /\ ~r.error /\ Hears(Other(p))
                   THEN <<Announce(p, r.stage, r.new, r.console)>> ELSE <<>>
     IN /\ phase' = IF r.error THEN [phase EXCEPT ![p] = "error"] ELSE phase
        /\ stage' = [stage EXCEPT ![p] = r.stage]
        /\ new_protocol' = [new_protocol EXCEPT ![p] = r.new]
        /\ consoleplayer' = [consoleplayer EXCEPT ![p] = r.console]
        /\ due' = [due EXCEPT ![p] = FALSE]
        /\ link' = [link EXCEPT ![p] = SubSeq(@, n + 1, Len(@)), ![Other(p)] = @ \o sent]
  /\ UNCHANGED <<old, localid, losses, lastlost>>

\* PollArbitratePlayers at the end: what has arrived is flushed, and the game
\* starts; nothing of the arbitration is read any more.
Complete(p) ==
  /\ phase[p] = "arbitrate" /\ stage[p] >= 2
  /\ phase' = [phase EXCEPT ![p] = "game"]
  /\ link' = [link EXCEPT ![p] = <<>>]
  /\ UNCHANGED <<old, localid, consoleplayer, stage, new_protocol, due, losses, lastlost>>

\* The link loses a packet.
Lose(p) ==
  /\ link[p] # <<>> /\ losses < MaxLosses
  /\ link' = [link EXCEPT ![p] = Tail(@)]
  /\ losses' = losses + 1
  /\ lastlost' = (lastlost \/ Head(link[p]).stage >= 2)
  /\ UNCHANGED <<old, phase, localid, consoleplayer, stage, new_protocol, due>>

Next == \E p \in Player :
          \/ Start(p) \/ Second(p) \/ Complete(p) \/ Lose(p)
          \/ \E n \in 0 .. Len(link[p]) : Poll(p, n)

Spec == Init /\ [][Next]_vars

-----------------------------------------------------------------------------
(***************************************************************************)
(* Properties.                                                             *)
(***************************************************************************)

\* The types. A side never gets further than one stage beyond what it was told.
TypeOK ==
  /\ phase \in [Player -> {"off", "connected", "arbitrate", "game", "error"}]
  /\ consoleplayer \in [Player -> Player]
  /\ stage \in [Player -> 0 .. 3]
  /\ new_protocol \in [Player -> BOOLEAN] /\ due \in [Player -> BOOLEAN]
  /\ Len(link[0]) + Len(link[1]) <= MaxLink + 2
  /\ losses \in 0 .. MaxLosses /\ lastlost \in BOOLEAN

\* A side launches its game only after the other has heard of it, and then one is
\* player 0 and the other is player 1, also against an original SERSETUP that started
\* with the same number.
LaunchesTogether ==
  \A p \in Player : phase[p] = "game" =>
    /\ stage[Other(p)] > 0
    /\ consoleplayer[p] # consoleplayer[Other(p)]
=============================================================================
