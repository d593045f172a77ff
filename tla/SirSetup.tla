------------------------------ MODULE SirSetup ------------------------------
(***************************************************************************)
(* The serial infrared driver in game (net/sirsetup.c): N players share a  *)
(* half-duplex medium by passing a transmit token around.  A node queues   *)
(* what its game sends, transmits the queue while it holds the token, and  *)
(* ends the last packet with a handoff to the next player.                 *)
(*                                                                         *)
(* The driver's callback runs with interrupts off (the INT instruction     *)
(* that calls it clears IF and no handler sets it again), and so does the  *)
(* serial ISR, so each is one step.  The medium is abstracted to symbols:  *)
(* the data of a packet, and the mark that ends it.  A symbol is heard by  *)
(* every other node as it is sent, except by those that lose it.  Corrupt  *)
(* data is assumed not to match the checksum of PacketReceived.            *)
(***************************************************************************)
EXTENDS Integers, Sequences

CONSTANTS
  N,                 \* doomcom.numplayers, and numnodes
  QueueLen,          \* QUEUE_LEN
  Kinds,             \* Kinds[n]: the lengths of the packets the game of n sends
  MaxTics,           \* bound: packets with tics each game sends
  MaxLosses,         \* bound: symbols that somebody loses
  MaxRegenerations   \* bound: takeovers by CheckTimeout that are counted

ASSUME NAssumption == N \in Nat /\ N >= 2
ASSUME QueueLenAssumption == QueueLen \in Nat /\ QueueLen >= 2
ASSUME KindsAssumption == Kinds \in [0 .. N - 1 -> SUBSET {1, 2}]
ASSUME BoundsAssumption == /\ MaxTics \in Nat
                           /\ MaxLosses \in Nat
                           /\ MaxRegenerations \in Nat \ {0}

Node == 0 .. N - 1       \* by player number
Broadcast == N           \* BROADCAST_DEST

\* The lengths the code tells apart: the empty packet of ReceivedHandoff, the
\* zero-tic packet the game floods the driver with, a packet with tics.
Empty == 0
Flood == 1
Tic == 2

Packet == [len : {Empty, Flood, Tic}, src : Node, dest : Node \cup {Broadcast},
           id : 0 .. MaxTics]
NoPacket == [len |-> Empty, src |-> 0, dest |-> 0, id |-> 0]

\* What goes over the medium: the data of a packet, and the mark that ends it,
\* FRAMECHAR_END_PACKET or a handoff to a player.  Nothing: no symbol.
Data(pkt) == [sym |-> "data", pkt |-> pkt, to |-> Broadcast]
End == [sym |-> "end", pkt |-> NoPacket, to |-> Broadcast]
Handoff(n) == [sym |-> "handoff", pkt |-> NoPacket, to |-> n]
Nothing == [sym |-> "nothing", pkt |-> NoPacket, to |-> Broadcast]
Symbol == {Data(pkt) : pkt \in Packet} \cup {End} \cup {Handoff(n) : n \in Node}

\* The bytes received since the last mark are none, those of one packet, or
\* others, which match no checksum.
NoBytes == [good |-> TRUE, pkt |-> NoPacket]
Corrupt == [good |-> FALSE, pkt |-> NoPacket]
Partial == [good : BOOLEAN, pkt : Packet]

VARIABLES
  node,         \* node[n]: the driver of player n, a NodeState
  tics,         \* tics[n]: packets with tics sent by the game of n (history)
  got,          \* got[n][m]: tics of m that the game of n got (history)
  losses,       \* symbols lost so far
  regenerated   \* takeovers by CheckTimeout so far, up to MaxRegenerations

vars == <<node, tics, got, losses, regenerated>>

NodeState ==
  [player : Node,                      \* doomcom.consoleplayer
   state : {"TRANSMIT", "WAIT"},
   expired : BOOLEAN,                  \* last_handoff_time is too long ago
   outque : Seq(Packet),               \* from tail to head
   begun : BOOLEAN,                    \* tx_offset is at the end of the first
   inque : Seq(Packet),                \* from tail to head, the valid packets
   partial : Partial,                  \* the packet at inque.head
   tx : Symbol \cup {Nothing},         \* serial_tx_buffer; Nothing: not transmitting
   receiving : BOOLEAN,                \* receive interrupts are on
   uart : Symbol \cup {Nothing}]       \* kept by the UART while they are off

Init ==
  /\ node = [n \in Node |->
       [player |-> n, state |-> IF n = 0 THEN "TRANSMIT" ELSE "WAIT",
        expired |-> TRUE, outque |-> <<>>, begun |-> FALSE,
        inque |-> <<>>, partial |-> NoBytes, tx |-> Nothing, receiving |-> TRUE, uart |-> Nothing]]
  /\ tics = [n \in Node |-> 0]
  /\ got = [n \in Node |-> [m \in Node |-> <<>>]]
  /\ losses = 0
  /\ regenerated = 0

\* Mutant: the ring is used to its last slot.
IsFull_LastSlot(queue) == Len(queue) = QueueLen

\* A ring of QUEUE_LEN slots holds one packet less.
IsFull(queue) == Len(queue) = QueueLen - 1

-----------------------------------------------------------------------------
(***************************************************************************)
(* Transmit: each operator gives the state r of a node after a call.       *)
(***************************************************************************)

\* SerialMoreTXData, called by the ISR or JumpStart when serial_tx_buffer has
\* been sent: the data of a packet first, then the mark that ends it.
SerialMoreTXData(r) ==
  LET done == [r EXCEPT !.outque = Tail(@), !.begun = FALSE]
  IN IF r.state = "WAIT" \/ r.outque = <<>> THEN [r EXCEPT !.tx = Nothing]
     ELSE IF Head(r.outque).len # Empty /\ ~r.begun
       THEN [r EXCEPT !.tx = Data(Head(r.outque)), !.begun = TRUE]
     ELSE IF Len(r.outque) = 1
       THEN [done EXCEPT !.tx = Handoff((r.player + 1) % N), !.state = "WAIT"]
       ELSE [done EXCEPT !.tx = End]

\* JumpStart restarts the transmitter if it has stopped.
JumpStart(r) == IF r.tx # Nothing THEN r ELSE SerialMoreTXData(r)

\* Mutant: the last packet is replaced by any other.
SendPacket_AnyLength(r, pkt) ==
  JumpStart([r EXCEPT !.outque = IF IsFull(@) THEN [@ EXCEPT ![Len(@)] = pkt]
                                              ELSE Append(@, pkt)])

\* SendPacket: when the queue is full, a longer packet replaces the last one.
SendPacket(r, pkt) ==
  LET last == Len(r.outque)
  IN IF ~IsFull(r.outque) THEN JumpStart([r EXCEPT !.outque = Append(@, pkt)])
     ELSE IF pkt.len > r.outque[last].len
       THEN JumpStart([r EXCEPT !.outque[last] = pkt])
       ELSE r

\* CheckTimeout finds that no handoff has come for too long.
TimedOut(r) == r.player = 0 /\ r.expired
TakesOver(r) == TimedOut(r) /\ r.state = "WAIT"

\* Mutant: the transmitter is not restarted.
CheckTimeout_NoJumpStart(r) ==
  IF TimedOut(r) THEN [r EXCEPT !.state = "TRANSMIT", !.expired = FALSE] ELSE r

CheckTimeout(r) ==
  IF TimedOut(r)
    THEN JumpStart([r EXCEPT !.state = "TRANSMIT", !.expired = FALSE])
    ELSE r

-----------------------------------------------------------------------------
(***************************************************************************)
(* Receive.                                                                *)
(***************************************************************************)

\* AddInByte for all the bytes of a packet: they are good if they are alone.
AddIn(r, pkt) ==
  [r EXCEPT !.partial = IF @ = NoBytes THEN [good |-> TRUE, pkt |-> pkt] ELSE Corrupt]

\* PacketReceived delivers good packets to this node.
Acceptable(r) == /\ r.partial.pkt.len # Empty
                 /\ r.partial.good
                 /\ r.partial.pkt.dest \in {Broadcast, r.player}

\* Mutant: the slot at the head is not cleared for the next packet.
PacketReceived_KeepBytes(r) ==
  IF Acceptable(r) /\ ~IsFull(r.inque)
    THEN [r EXCEPT !.inque = Append(@, r.partial.pkt)]
    ELSE [r EXCEPT !.partial = NoBytes, !.receiving = @ /\ (~Acceptable(r) \/ N > 2)]

\* PacketReceived; when it returns 0, DoReceiveByte stops receiving.
PacketReceived(r) ==
  IF Acceptable(r) /\ ~IsFull(r.inque)
    THEN [r EXCEPT !.inque = Append(@, r.partial.pkt), !.partial = NoBytes]
    ELSE [r EXCEPT !.partial = NoBytes, !.receiving = @ /\ (~Acceptable(r) \/ N > 2)]

\* ReceivedHandoff: a node with nothing to send sends an empty packet, to
\* hand the token on at once.
ReceivedHandoff(r) ==
  IF r.state # "WAIT" THEN r
    ELSE JumpStart([r EXCEPT !.state = "TRANSMIT", !.expired = FALSE,
                             !.outque = IF @ = <<>> THEN <<NoPacket>> ELSE @])

\* Mutant: the end of any packet hands the channel over.
SerialReceived_AnyMark(r, s) ==
  CASE s.sym = "data" -> AddIn(r, s.pkt)
    [] s.sym \in {"end", "handoff"} -> ReceivedHandoff(PacketReceived(r))
    [] OTHER -> r

\* SerialByteReceived for the bytes of a symbol, and DoReceiveByte.
SerialReceived(r, s) ==
  CASE s.sym = "data"    -> AddIn(r, s.pkt)
    [] s.sym = "end"     -> PacketReceived(r)
    [] s.sym = "handoff" -> IF s.to = r.player THEN ReceivedHandoff(PacketReceived(r))
                                               ELSE PacketReceived(r)
    [] OTHER             -> r

\* A symbol reaches a node.  With receive interrupts off it stays in the UART,
\* which has room for one: the next is an overrun.
Hear(r, s) == IF r.receiving THEN SerialReceived(r, s)
              ELSE IF r.uart = Nothing THEN [r EXCEPT !.uart = s]
              ELSE r

\* ResumeReceive, with what PollSerialReceive finds in the UART.
ResumeReceive(r) ==
  IF r.receiving THEN r
    ELSE SerialReceived([r EXCEPT !.receiving = TRUE, !.uart = Nothing], r.uart)

\* GetPacket, when there is a packet.
GetPacket(r) == ResumeReceive([r EXCEPT !.inque = Tail(@)])

-----------------------------------------------------------------------------
(***************************************************************************)
(* Steps.                                                                  *)
(***************************************************************************)

\* With one peer, the aggregation makes every packet a broadcast.
Destinations(n) == {Broadcast} \cup IF N > 2 THEN Node \ {n} ELSE {}

\* What n's game and the packet aggregation between it and SendPacket (module
\* PktAggr) may hand on during a call: nothing yet, a flood packet, or a packet
\* with tics.  A call that hands on several is several steps.
HandedOn(n) ==
  {NoPacket} \cup
  {pkt \in [len : Kinds[n], src : {n}, dest : Destinations(n), id : {0, tics[n] + 1}] :
     \/ pkt.len = Tic /\ pkt.id # 0 /\ tics[n] < MaxTics
     \/ pkt.len = Flood /\ pkt.id = 0 /\ pkt.dest = Broadcast}

HandOn(r, pkt) == IF pkt = NoPacket THEN r ELSE SendPacket(r, pkt)
CountTics(n, pkt) == tics' = IF pkt.len = Tic THEN [tics EXCEPT ![n] = @ + 1] ELSE tics

\* NetCallback(CMD_SEND): n's game sends a packet.
CmdSend(n, pkt) ==
  /\ pkt \in HandedOn(n)
  /\ CountTics(n, pkt)
  /\ node' = [node EXCEPT ![n] = HandOn(CheckTimeout(node[n]), pkt)]
  /\ regenerated' = IF TakesOver(node[n]) /\ regenerated < MaxRegenerations
                      THEN regenerated + 1 ELSE regenerated
  /\ UNCHANGED <<got, losses>>

\* NetCallback(CMD_GET): n's game polls for a packet; what the aggregation
\* held back is sent first.
CmdGet(n, pkt) ==
  LET r == HandOn(node[n], pkt)
  IN /\ pkt \in HandedOn(n)
     /\ CountTics(n, pkt)
     /\ IF r.inque = <<>>
          THEN node' = [node EXCEPT ![n] = r] /\ UNCHANGED got
          ELSE /\ node' = [node EXCEPT ![n] = GetPacket(r)]
               /\ LET new == Head(r.inque)
                  IN got' = IF new.len # Tic THEN got
                              ELSE [got EXCEPT ![n][new.src] = Append(@, new.id)]
     /\ UNCHANGED <<losses, regenerated>>

\* The serial ISR: n has sent the symbol in serial_tx_buffer, to be lost by
\* some of the others, and refills the buffer.
TxISR(n, lost) ==
  LET s == node[n].tx IN
  /\ s # Nothing
  /\ IF lost = {} THEN losses' = losses
                  ELSE losses < MaxLosses /\ losses' = losses + 1
  /\ node' = [m \in Node |-> IF m = n THEN SerialMoreTXData(node[n])
                             ELSE IF m \in lost THEN node[m]
                             ELSE Hear(node[m], s)]
  /\ UNCHANGED <<tics, got, regenerated>>

\* HANDOFF_EXPIRY_TIME passes without a handoff to player 0, the only one
\* that looks at the clock.
Expire ==
  /\ ~node[0].expired
  /\ node' = [node EXCEPT ![0].expired = TRUE]
  /\ UNCHANGED <<tics, got, losses, regenerated>>

Next == \/ \E n \in Node :
             \/ \E pkt \in HandedOn(n) : CmdSend(n, pkt) \/ CmdGet(n, pkt)
             \/ \E lost \in SUBSET (Node \ {n}) : TxISR(n, lost)
        \/ Expire

Spec == Init /\ [][Next]_vars

-----------------------------------------------------------------------------
(***************************************************************************)
(* Properties.                                                             *)
(***************************************************************************)

\* The types; a queue never needs more slots than its ring has, less the one at
\* its head.
TypeOK ==
  /\ node \in [Node -> NodeState]
  /\ \A n \in Node : Len(node[n].outque) < QueueLen /\ Len(node[n].inque) < QueueLen
  /\ tics \in [Node -> 0 .. MaxTics]
  /\ got \in [Node -> [Node -> Seq(0 .. MaxTics)]]
  /\ losses \in 0 .. MaxLosses
  /\ regenerated \in 0 .. MaxRegenerations

Transmitting(n) == node[n].tx # Nothing

\* "only ever one node is transmitting at a time" (sirsetup.c:17): what the
\* driver's introduction promises.
OneTransmitter == \A n, m \in Node : Transmitting(n) /\ Transmitting(m) => n = m

\* It is so until CheckTimeout makes player 0 transmit again, whatever is lost
\* and however the games' calls and the interrupts follow each other.
OneTransmitterUntilTimeout == regenerated = 0 => OneTransmitter

\* Every game gets another's tics in the order they were sent and none twice,
\* through both queues, losses, overwritten packets and second transmitters.
TicsInOrder ==
  \A n, m \in Node : \A i, j \in DOMAIN got[n][m] :
    i < j => got[n][m][i] < got[n][m][j]

QueuedTics(n) == {i \in DOMAIN node[n].outque : node[n].outque[i].len = Tic}

\* A packet with tics leaves the queue only when its data has been transmitted:
\* no flood of zero-tic packets displaces it (sirsetup.c:356-360).
TicsSurviveFlood ==
  [][\A n \in Node : \A i \in QueuedTics(n) :
       LET p == node[n].outque[i]
       IN \/ \E j \in DOMAIN node'[n].outque : node'[n].outque[j] = p
          \/ i = 1 /\ node[n].begun]_vars

-----------------------------------------------------------------------------
(***************************************************************************)
(* Liveness (module SirStart).  The interrupts come, time passes, and      *)
(* player 0's game keeps sending and every game polling, tics or not.      *)
(* A game is slower than the line: while its node transmits what it has    *)
(* queued, nothing is added (otherwise the last packet never comes).       *)
(***************************************************************************)
Paced == \A n \in Node : node[n].state = "TRANSMIT" /\ node[n].outque # <<>> =>
           Len(node'[n].outque) <= Len(node[n].outque)

Interrupt(n) == \E lost \in SUBSET (Node \ {n}) : TxISR(n, lost)

\* What is queued anywhere is transmitted: the token comes round again, lost
\* handoffs and receivers that had been stopped notwithstanding
\* (sirsetup.c:426-431).
QueuesDrain == \A n \in Node : []<>(node[n].outque = <<>>)

=============================================================================
