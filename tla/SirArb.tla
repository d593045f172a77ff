------------------------------- MODULE SirArb -------------------------------
(***************************************************************************)
(* Arbitration of the serial infrared driver (net/sirsetup.c) before the   *)
(* game.  There is no token yet: a machine broadcasts once a second what   *)
(* it has found and what it was told, under a random station ID, adjusts   *)
(* to the others, and leaves with one last packet when all it knows of     *)
(* have found as many as they want.  Module SirStart composes it with the  *)
(* game.                                                                   *)
(*                                                                         *)
(* A packet is heard by every other machine as it is transmitted, except   *)
(* those that lose it, to noise or because two have transmitted at once.   *)
(***************************************************************************)
EXTENDS Integers, Sequences, FiniteSets, FiniteSetsExt, SequencesExt

CONSTANT Setups    \* what the users may choose, and bounds, see Setup

VARIABLES
  setup,      \* the setup; it does not change
  station,    \* station[s]: the driver with station ID s
  unheard,    \* packets that somebody has lost so far
  lastlost    \* the last packet of a machine that launches is among them (history)

arbVars == <<setup, station, unheard, lastlost>>

\* Each machine has a station ID, of which only the order matters, and its flags
\* -nodes, -player (-1 without) and -dup. FlushArbitrationPackets keeps the time in an
\* int: if it is wrapped there, it does not wait at all.
flags == setup.flags
Station == DOMAIN flags
Setup(ids) ==
  [flags : [ids -> [nodes : Nat \ {0}, player : {-1} \cup (Nat \ {0}), dup : Nat \ {0}]],
   wrapped : SUBSET ids,
   backlog : Nat,   \* bound: packets that wait at a machine when another is sent
   losses : Nat]    \* bound: packets lost

ASSUME SetupsAssumption ==
  \A s \in Setups :
    /\ IsFiniteSet(DOMAIN s.flags) /\ DOMAIN s.flags \subseteq Nat /\ s \in Setup(DOMAIN s.flags)
    /\ \A m \in DOMAIN s.flags : s.flags[m].player <= s.flags[m].nodes

\* The users know how many machines there are: no -nodes is more, and fewer machines are
\* never enough for all of them.
ASSUME NodesAssumption ==
  \A s \in Setups : \A ids \in (SUBSET DOMAIN s.flags) \ {{}} :
    IF ids = DOMAIN s.flags THEN \A m \in ids : s.flags[m].nodes <= Cardinality(ids)
                            ELSE \E m \in ids : s.flags[m].nodes > Cardinality(ids)

\* node_data of a machine, and what a setup packet says of its sender; the own is the
\* first. A player number is one less than -player.
Told(s) ==
  [id |-> s, wanted |-> flags[s].nodes, found |-> 1, dup |-> flags[s].dup,
   player |-> IF flags[s].player = -1 THEN -1 ELSE flags[s].player - 1]

\* The driver before LookForNodes, and at its beginning. In out, last marks the packet
\* that is sent before launching (history).
Stopped == [phase |-> "off", nodes |-> <<>>, out |-> <<>>, in |-> <<>>, number |-> -1]
Begun(s) == [Stopped EXCEPT !.phase = "arbitrate", !.nodes = <<Told(s)>>]

ArbInit ==
  /\ setup \in Setups
  /\ station = [s \in DOMAIN setup.flags |-> Stopped]
  /\ unheard = 0 /\ lastlost = FALSE

-----------------------------------------------------------------------------
(***************************************************************************)
(* Each operator is about the state r of the machine s.                    *)
(***************************************************************************)

\* NodeForStationID, 0 for -1; the own node is not looked at.
NodeForStationID(r, id) == Max({0} \cup {i \in 2 .. Len(r.nodes) : r.nodes[i].id = id})

\* "Adjusting to match": the own -nodes and -dup become those of a new node, if that is
\* more. -dup is compared with the own flag, also when it has been adjusted before.
Adjusted(s, own, pkt) ==
  [own EXCEPT !.wanted = IF pkt.wanted > @ THEN pkt.wanted ELSE @,
              !.dup = IF pkt.dup > flags[s].dup THEN pkt.dup ELSE @]

\* Both have the same -player.
Clash(r, pkt) == r.nodes[1].player # -1 /\ r.nodes[1].player = pkt.player

\* ProcessSetupPacket. Error() ends the program.
ProcessSetupPacket(s, r, pkt) ==
  LET n == NodeForStationID(r, pkt.id)
  IN IF n # 0 THEN [r EXCEPT !.nodes[n] = pkt]
     ELSE IF Clash(r, pkt) THEN [Stopped EXCEPT !.phase = "error"]
     ELSE [r EXCEPT !.nodes = Append([r.nodes EXCEPT ![1] = Adjusted(s, @, pkt)], pkt)]

\* Mutant: what the others have found is not looked at.
AllNodesReady_Own(r) == r.nodes[1].found = r.nodes[1].wanted

AllNodesReady(r) == \A i \in DOMAIN r.nodes : r.nodes[i].found = r.nodes[i].wanted

\* SendSetupPacket: how many nodes are known is noted when it is sent.
SendSetupPacket(r, last) ==
  LET own == [r.nodes[1] EXCEPT !.found = Len(r.nodes)]
  IN [r EXCEPT !.nodes[1] = own, !.out = Append(@, [pkt |-> own, last |-> last])]

\* Mutant: numbers that are asked for are not skipped.
AssignPlayerNumbers_NoSkip(r) ==
  LET own == r.nodes[1]
  IN IF own.player # -1 THEN own.player
     ELSE Cardinality({i \in DOMAIN r.nodes : r.nodes[i].player = -1 /\ r.nodes[i].id < own.id})

\* AssignPlayerNumbers: numbers that nobody has asked for go to the others in the order
\* of their IDs. Here, the own one.
AssignPlayerNumbers(r) ==
  LET own == r.nodes[1]
      free == (0 .. Len(r.nodes) - 1) \ {r.nodes[i].player : i \in DOMAIN r.nodes}
      lower == {i \in DOMAIN r.nodes : r.nodes[i].player = -1 /\ r.nodes[i].id < own.id}
  IN IF own.player # -1 THEN own.player
     ELSE CHOOSE p \in free : Cardinality({q \in free : q < p}) = Cardinality(lower)

-----------------------------------------------------------------------------
\* The user starts the driver.
BeginLookForNodes(s) ==
  /\ station[s].phase = "off"
  /\ station' = [station EXCEPT ![s] = Begun(s)]
  /\ UNCHANGED <<setup, unheard, lastlost>>

\* LookForNodes listens: it takes a packet.
Listen(s) ==
  /\ station[s].phase = "arbitrate" /\ station[s].in # <<>>
  /\ LET r == [station[s] EXCEPT !.in = Tail(@)]
     IN station' = [station EXCEPT ![s] = ProcessSetupPacket(s, r, Head(station[s].in))]
  /\ UNCHANGED <<setup, unheard, lastlost>>

\* LookForNodes, when a second has passed: what was sent before has long gone out.
Announce(s) ==
  /\ station[s].phase = "arbitrate" /\ station[s].in = <<>> /\ station[s].out = <<>>
  /\ \A d \in Station : Len(station[d].in) + Len(station[d].out) <= setup.backlog
  /\ station' = [station EXCEPT ![s] = SendSetupPacket(@, FALSE)]
  /\ UNCHANGED <<setup, unheard, lastlost>>

\* LookForNodes, when all nodes are ready.
LastAnnounce(s) ==
  /\ station[s].phase = "arbitrate" /\ station[s].in = <<>> /\ AllNodesReady(station[s])
  /\ station' = [station EXCEPT ![s] = [SendSetupPacket(@, TRUE) EXCEPT !.phase = "flush"]]
  /\ UNCHANGED <<setup, unheard, lastlost>>

\* Mutant: nothing is waited for.
Flushed_Always(s) == TRUE

\* FlushArbitrationPackets: the last packet has been transmitted (a second is enough),
\* unless the time is wrapped.
Flushed(s) == station[s].out = <<>> \/ s \in setup.wrapped

\* FlushArbitrationPackets and the rest of LookForNodes and main.
LaunchDoom(s) ==
  /\ station[s].phase = "flush" /\ Flushed(s)
  /\ station' = [station EXCEPT ![s].phase = "game", ![s].in = <<>>,
                                ![s].number = AssignPlayerNumbers(station[s])]
  /\ UNCHANGED <<setup, unheard, lastlost>>

\* SerialMoreTXData: in arbitration everybody transmits, in the game player 0, and those
\* to whom the token is handed from it.
MayTransmit(s) ==
  \/ station[s].phase \in {"arbitrate", "flush"}
  \/ station[s].phase = "game" /\ \A q \in 0 .. station[s].number - 1 :
       \E t \in Station : station[t].phase = "game" /\ station[t].number = q

\* The machine s transmits a packet, and those in lost do not hear it. In the game
\* GetPacket drops it.
Transmit(s, lost) ==
  LET hears == {d \in Station \ {s} : station[d].phase \in {"arbitrate", "flush"}}
      first == Head(station[s].out)
  IN /\ MayTransmit(s) /\ station[s].out # <<>> /\ lost \subseteq hears
     /\ unheard' = unheard + Cardinality(lost) /\ unheard' <= setup.losses
     /\ lastlost' = (lastlost \/ (first.last /\ lost # {}))
     /\ station' = [d \in Station |->
          IF d = s THEN [station[s] EXCEPT !.out = Tail(@)]
          ELSE IF d \in hears \ lost THEN [station[d] EXCEPT !.in = Append(@, first.pkt)]
          ELSE station[d]]
     /\ UNCHANGED setup

TransmitAny(s) == \E lost \in SUBSET Station : Transmit(s, lost)
ArbNext ==
  \E s \in Station : \/ BeginLookForNodes(s) \/ Listen(s) \/ Announce(s) \/ LastAnnounce(s)
                     \/ LaunchDoom(s) \/ TransmitAny(s)

-----------------------------------------------------------------------------
(***************************************************************************)
(* Properties.                                                             *)
(***************************************************************************)
Playing == {s \in Station : station[s].phase = "game"}

\* "all nodes have found all other nodes" (sirsetup.c:588): when a game is launched every
\* machine has found all the others, each once, and none has gone.
AllFoundAtLaunch ==
  \A s \in Playing, t \in Station :
    /\ station[t].phase \in {"arbitrate", "flush", "game"}
    /\ Len(station[t].nodes) = Cardinality(Station)
    /\ {station[t].nodes[i].id : i \in DOMAIN station[t].nodes} = Station

Numbers == {flags[s].dup : s \in Station}

\* The games have the player numbers 0, 1, ... as asked for, and adjusted they agree on
\* -nodes and -dup, in whatever order the machines heard of each other; not always on
\* -dup, when there are more than two of it.
GamesAgree ==
  \A s \in Playing :
    /\ \A t \in Playing : station[s].number = station[t].number => s = t
    /\ station[s].number \in 0 .. Cardinality(Station) - 1
    /\ flags[s].player # -1 => station[s].number = flags[s].player - 1
    /\ station[s].nodes[1].wanted = Cardinality(Station)
    /\ Cardinality(Numbers) <= 2 => station[s].nodes[1].dup = Max(Numbers)

\* Every game is launched; it may fail when a last packet, which nobody repeats, is lost,
\* or two want the same number.
AllPlay == Playing = Station
NobodyPlays ==
  lastlost \/ setup.wrapped # {} \/ \E s \in Station : station[s].phase = "error"
=============================================================================
