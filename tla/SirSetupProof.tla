--------------------------- MODULE SirSetupProof ---------------------------
(***************************************************************************)
(* Proofs about SirSetup, for any number of players, any queue length and  *)
(* any number of packets and losses.                                       *)
(***************************************************************************)
EXTENDS SirSetup, SequenceTheorems, TLAPS

LEMMA NodeFacts == /\ 0 \in Node /\ Broadcast \notin Node
                   /\ \A n \in Node : (n + 1) % N \in Node /\ (n + 1) % N # n
BY NAssumption DEF Node, Broadcast

LEMMA PacketFacts == /\ NoPacket \in Packet /\ NoBytes \in Partial /\ Corrupt \in Partial
                     /\ {Nothing, End} \subseteq Symbol \cup {Nothing}
                     /\ \A pkt \in Packet : Data(pkt) \in Symbol
                     /\ \A n \in Node : Handoff(n) \in Symbol
BY NodeFacts, BoundsAssumption
   DEF NoPacket, Packet, NoBytes, Corrupt, Partial, Symbol, Empty

-----------------------------------------------------------------------------
(***************************************************************************)
(* Types.  A node's state stays one, whatever is called on it.             *)
(***************************************************************************)
Fits(r) == Len(r.outque) < QueueLen /\ Len(r.inque) < QueueLen
Typed(r) == r \in NodeState /\ Fits(r)

LEMMA SerialMoreTXDataType == ASSUME NEW r, Typed(r) PROVE Typed(SerialMoreTXData(r))
<1>1. CASE r.state = "WAIT" \/ r.outque = <<>>
  BY <1>1, PacketFacts DEF SerialMoreTXData, NodeState, Typed, Fits
<1>2. CASE r.state # "WAIT" /\ r.outque # <<>>
  <2> DEFINE done == [r EXCEPT !.outque = Tail(@), !.begun = FALSE]
  <2>1. /\ Head(r.outque) \in Packet /\ Tail(r.outque) \in Seq(Packet)
        /\ Len(Tail(r.outque)) < QueueLen
    BY <1>2, QueueLenAssumption DEF NodeState, Typed, Fits
  <2>2. Typed(done)
    BY <2>1 DEF NodeState, Typed, Fits
  <2>3. (r.player + 1) % N \in Node
    BY NodeFacts DEF NodeState, Typed
  <2>4. /\ Typed([r EXCEPT !.tx = Data(Head(r.outque)), !.begun = TRUE])
        /\ Typed([done EXCEPT !.tx = Handoff((r.player + 1) % N), !.state = "WAIT"])
        /\ Typed([done EXCEPT !.tx = End])
    BY <2>1, <2>2, <2>3, PacketFacts DEF NodeState, Typed, Fits
  <2>. QED
    BY <1>2, <2>4 DEF SerialMoreTXData
<1>. QED
  BY <1>1, <1>2

LEMMA JumpStartType == ASSUME NEW r, Typed(r) PROVE Typed(JumpStart(r))
BY SerialMoreTXDataType DEF JumpStart

LEMMA SendPacketType ==
  ASSUME NEW r, Typed(r), NEW pkt \in Packet
  PROVE  Typed(SendPacket(r, pkt))
<1>1. CASE ~IsFull(r.outque)
  <2>1. Append(r.outque, pkt) \in Seq(Packet) /\ Len(Append(r.outque, pkt)) < QueueLen
    BY <1>1, QueueLenAssumption DEF IsFull, NodeState, Typed, Fits
  <2>2. Typed([r EXCEPT !.outque = Append(@, pkt)])
    BY <2>1 DEF NodeState, Typed, Fits
  <2>. QED
    BY <1>1, <2>2, JumpStartType DEF SendPacket
<1>2. CASE IsFull(r.outque)
  <2>1. Len(r.outque) \in 1 .. Len(r.outque)
    BY <1>2, QueueLenAssumption DEF IsFull, NodeState, Typed, Fits
  <2>2. /\ [r.outque EXCEPT ![Len(r.outque)] = pkt] \in Seq(Packet)
        /\ Len([r.outque EXCEPT ![Len(r.outque)] = pkt]) = Len(r.outque)
    BY <2>1, ExceptSeq DEF NodeState, Typed
  <2>3. Typed([r EXCEPT !.outque[Len(r.outque)] = pkt])
    BY <2>2 DEF NodeState, Typed, Fits
  <2>. QED
    BY <1>2, <2>3, JumpStartType DEF SendPacket
<1>. QED
  BY <1>1, <1>2

LEMMA CheckTimeoutType == ASSUME NEW r, Typed(r) PROVE Typed(CheckTimeout(r))
<1>1. Typed([r EXCEPT !.state = "TRANSMIT", !.expired = FALSE])
  BY DEF NodeState, Typed, Fits
<1>. QED
  BY <1>1, JumpStartType DEF CheckTimeout

LEMMA PacketReceivedType == ASSUME NEW r, Typed(r) PROVE Typed(PacketReceived(r))
<1>1. CASE Acceptable(r) /\ ~IsFull(r.inque)
  <2>1. /\ Append(r.inque, r.partial.pkt) \in Seq(Packet)
        /\ Len(Append(r.inque, r.partial.pkt)) < QueueLen
    BY <1>1, QueueLenAssumption DEF IsFull, NodeState, Partial, Typed, Fits
  <2>. QED
    BY <1>1, <2>1, PacketFacts DEF PacketReceived, NodeState, Typed, Fits
<1>2. CASE ~(Acceptable(r) /\ ~IsFull(r.inque))
  <2>1. (r.receiving /\ (~Acceptable(r) \/ N > 2)) \in BOOLEAN
    OBVIOUS
  <2>. QED
    BY <1>2, <2>1, PacketFacts DEF PacketReceived, NodeState, Typed, Fits
<1>. QED
  BY <1>1, <1>2

LEMMA ReceivedHandoffType == ASSUME NEW r, Typed(r) PROVE Typed(ReceivedHandoff(r))
<1> DEFINE queue == IF r.outque = <<>> THEN <<NoPacket>> ELSE r.outque
<1>1. queue \in Seq(Packet) /\ Len(queue) < QueueLen
  BY PacketFacts, QueueLenAssumption DEF NodeState, Typed, Fits
<1>2. Typed([r EXCEPT !.state = "TRANSMIT", !.expired = FALSE, !.outque = queue])
  BY <1>1 DEF NodeState, Typed, Fits
<1>. QED
  BY <1>2, JumpStartType DEF ReceivedHandoff

LEMMA SerialReceivedType ==
  ASSUME NEW r, Typed(r), NEW s \in Symbol \cup {Nothing}
  PROVE  Typed(SerialReceived(r, s))
<1>1. CASE s.sym = "data"
  <2>1. s.pkt \in Packet
    BY PacketFacts DEF Symbol, Data, End, Handoff, Nothing
  <2>2. (IF r.partial = NoBytes THEN [good |-> TRUE, pkt |-> s.pkt] ELSE Corrupt) \in Partial
    BY <2>1, PacketFacts DEF Partial
  <2>3. Typed(AddIn(r, s.pkt))
    BY <2>2 DEF AddIn, NodeState, Typed, Fits
  <2>. QED
    BY <1>1, <2>3 DEF SerialReceived
<1>2. CASE s.sym \in {"end", "handoff"}
  BY <1>2, PacketReceivedType, ReceivedHandoffType DEF SerialReceived
<1>3. CASE s.sym \notin {"data", "end", "handoff"}
  BY <1>3 DEF SerialReceived
<1>. QED
  BY <1>1, <1>2, <1>3

LEMMA HearType ==
  ASSUME NEW r, Typed(r), NEW s \in Symbol \cup {Nothing}
  PROVE  Typed(Hear(r, s))
<1>1. Typed([r EXCEPT !.uart = s])
  BY DEF NodeState, Typed, Fits
<1>. QED
  BY <1>1, SerialReceivedType DEF Hear

LEMMA GetPacketType ==
  ASSUME NEW r, Typed(r), r.inque # <<>>
  PROVE  Typed(GetPacket(r))
<1> DEFINE q == [r EXCEPT !.inque = Tail(@)]
<1>1. Tail(r.inque) \in Seq(Packet) /\ Len(Tail(r.inque)) < QueueLen
  BY QueueLenAssumption DEF NodeState, Typed, Fits
<1>2. Typed(q)
  BY <1>1 DEF NodeState, Typed, Fits
<1>3. Typed([q EXCEPT !.receiving = TRUE, !.uart = Nothing])
  BY <1>2 DEF NodeState, Typed, Fits
<1>4. q.uart \in Symbol \cup {Nothing}
  BY <1>2 DEF NodeState, Typed
<1>. QED
  BY <1>2, <1>3, <1>4, SerialReceivedType DEF GetPacket, ResumeReceive

LEMMA HandedOnType ==
  ASSUME NEW n \in Node, tics[n] \in 0 .. MaxTics, NEW pkt \in HandedOn(n)
  PROVE  pkt \in Packet /\ (pkt.len = Tic => tics[n] < MaxTics)
<1>1. CASE pkt = NoPacket
  BY <1>1, PacketFacts DEF NoPacket, Empty, Tic
<1>2. CASE pkt # NoPacket
  <2>1. /\ pkt \in [len : Kinds[n], src : {n}, dest : Destinations(n), id : {0, tics[n] + 1}]
        /\ \/ pkt.len = Tic /\ pkt.id # 0 /\ tics[n] < MaxTics
           \/ pkt.len = Flood /\ pkt.id = 0 /\ pkt.dest = Broadcast
    BY <1>2 DEF HandedOn
  <2>2. pkt.len \in {Empty, Flood, Tic}
    BY <2>1 DEF Empty, Flood, Tic
  <2>3. pkt.dest \in Node \cup {Broadcast} /\ pkt.id \in 0 .. MaxTics
    BY <2>1, BoundsAssumption DEF Destinations
  <2>. QED
    BY <2>1, <2>2, <2>3 DEF Packet, Tic, Flood
<1>. QED
  BY <1>1, <1>2

LEMMA HandOnType ==
  ASSUME NEW r, Typed(r), NEW pkt \in Packet
  PROVE  Typed(HandOn(r, pkt))
BY SendPacketType DEF HandOn

\* TypeOK, node by node.
LEMMA TypeOKByNode ==
  TypeOK <=> /\ node \in [Node -> NodeState] /\ \A n \in Node : Typed(node[n])
             /\ tics \in [Node -> 0 .. MaxTics]
             /\ got \in [Node -> [Node -> Seq(0 .. MaxTics)]]
             /\ losses \in 0 .. MaxLosses
             /\ regenerated \in 0 .. MaxRegenerations
BY DEF TypeOK, Typed, Fits

LEMMA InitTypeOK == Init => TypeOK
<1> SUFFICES ASSUME Init PROVE TypeOK
  OBVIOUS
<1>1. \A n \in Node : [player |-> n, state |-> IF n = 0 THEN "TRANSMIT" ELSE "WAIT",
        expired |-> TRUE, outque |-> <<>>, begun |-> FALSE,
        inque |-> <<>>, partial |-> NoBytes, tx |-> Nothing, receiving |-> TRUE,
        uart |-> Nothing] \in NodeState
  BY PacketFacts DEF NodeState
<1>2. node \in [Node -> NodeState] /\ \A n \in Node : node[n].outque = <<>> /\ node[n].inque = <<>>
  BY <1>1 DEF Init
<1>3. <<>> \in Seq(0 .. MaxTics) /\ Len(<<>>) = 0
  OBVIOUS
<1>. QED
  BY <1>2, <1>3, BoundsAssumption, QueueLenAssumption DEF Init, TypeOK

LEMMA CountTicsType ==
  ASSUME TypeOK, NEW n \in Node, NEW pkt \in HandedOn(n), CountTics(n, pkt)
  PROVE  tics' \in [Node -> 0 .. MaxTics]
<1>1. pkt.len = Tic => tics[n] < MaxTics
  BY HandedOnType DEF TypeOK
<1>. QED
  BY <1>1, BoundsAssumption DEF CountTics, TypeOK

LEMMA CmdSendType ==
  ASSUME TypeOK, NEW n \in Node, NEW pkt \in HandedOn(n), CmdSend(n, pkt)
  PROVE  TypeOK'
<1>1. pkt \in Packet
  BY HandedOnType DEF TypeOK
<1>2. Typed(node[n])
  BY TypeOKByNode
<1>3. Typed(HandOn(CheckTimeout(node[n]), pkt))
  BY <1>1, <1>2, CheckTimeoutType, HandOnType
<1>4. node' \in [Node -> NodeState] /\ \A m \in Node : Typed(node'[m])
  BY <1>3, TypeOKByNode DEF CmdSend, Typed
<1>5. tics' \in [Node -> 0 .. MaxTics]
  BY CountTicsType DEF CmdSend
<1>6. regenerated' \in 0 .. MaxRegenerations
  BY BoundsAssumption DEF CmdSend, TypeOK
<1>. QED
  BY <1>4, <1>5, <1>6 DEF CmdSend, TypeOK, Typed, Fits

LEMMA CmdGetType ==
  ASSUME TypeOK, NEW n \in Node, NEW pkt \in HandedOn(n), CmdGet(n, pkt)
  PROVE  TypeOK'
<1> DEFINE r == HandOn(node[n], pkt)
<1>1. pkt \in Packet
  BY HandedOnType DEF TypeOK
<1>2. Typed(r)
  BY <1>1, TypeOKByNode, HandOnType
<1>3. tics' \in [Node -> 0 .. MaxTics]
  BY CountTicsType DEF CmdGet
<1>4. CASE r.inque = <<>>
  <2>1. node' \in [Node -> NodeState] /\ \A m \in Node : Typed(node'[m])
    BY <1>2, <1>4, TypeOKByNode DEF CmdGet, Typed
  <2>. QED
    BY <1>3, <1>4, <2>1 DEF CmdGet, TypeOK, Typed, Fits
<1>5. CASE r.inque # <<>>
  <2>1. node' \in [Node -> NodeState] /\ \A m \in Node : Typed(node'[m])
    <3>1. Typed(GetPacket(r))
      BY <1>2, <1>5, GetPacketType
    <3>. QED
      BY <1>5, <3>1, TypeOKByNode DEF CmdGet, Typed
  <2>2. got' \in [Node -> [Node -> Seq(0 .. MaxTics)]]
    <3> DEFINE new == Head(r.inque)
    <3>1. new \in Packet
      BY <1>2, <1>5 DEF Typed, NodeState
    <3>2. new.src \in Node /\ new.id \in 0 .. MaxTics
      BY <3>1 DEF Packet
    <3>3. got[n][new.src] \in Seq(0 .. MaxTics) /\ got[n] \in [Node -> Seq(0 .. MaxTics)]
      BY <3>2 DEF TypeOK
    <3>4. [got EXCEPT ![n][new.src] = Append(@, new.id)] \in [Node -> [Node -> Seq(0 .. MaxTics)]]
      BY <3>2, <3>3 DEF TypeOK
    <3>. QED
      BY <1>5, <3>4 DEF CmdGet, TypeOK
  <2>. QED
    BY <1>3, <2>1, <2>2 DEF CmdGet, TypeOK, Typed, Fits
<1>. QED
  BY <1>4, <1>5

LEMMA TxISRType ==
  ASSUME TypeOK, NEW n \in Node, NEW lost \in SUBSET (Node \ {n}), TxISR(n, lost)
  PROVE  TypeOK'
<1>1. \A m \in Node : Typed(node[m])
  BY TypeOKByNode
<1>2. node[n].tx \in Symbol \cup {Nothing}
  BY <1>1 DEF Typed, NodeState
<1>3. \A m \in Node : /\ Typed(SerialMoreTXData(node[n])) /\ Typed(Hear(node[m], node[n].tx))
  BY <1>1, <1>2, SerialMoreTXDataType, HearType
<1>4. \A m \in Node : Typed(node'[m])
  BY <1>1, <1>3 DEF TxISR
<1>5. node' \in [Node -> NodeState]
  <2>1. DOMAIN node' = Node /\ node' = [m \in Node |-> node'[m]]
    BY DEF TxISR
  <2>2. \A m \in Node : node'[m] \in NodeState
    BY <1>4 DEF Typed
  <2>. QED
    BY <2>1, <2>2
<1>6. losses' \in 0 .. MaxLosses
  BY BoundsAssumption DEF TxISR, TypeOK
<1>. QED
  BY <1>4, <1>5, <1>6 DEF TxISR, TypeOK, Typed, Fits

LEMMA ExpireType == ASSUME TypeOK, Expire PROVE TypeOK'
<1> DEFINE r == node[0]
<1>0. Typed(r)
  BY NodeFacts, TypeOKByNode
<1>1. Typed([r EXCEPT !.expired = TRUE])
  <2> HIDE DEF r
  <2>. QED
    BY <1>0 DEF NodeState, Typed, Fits
<1>2. node' \in [Node -> NodeState] /\ \A m \in Node : Typed(node'[m])
  BY <1>1, TypeOKByNode DEF Expire, Typed
<1>. QED
  BY <1>2 DEF Expire, TypeOK, Typed, Fits

LEMMA NextTypeOK == TypeOK /\ [Next]_vars => TypeOK'
<1> SUFFICES ASSUME TypeOK, [Next]_vars PROVE TypeOK'
  OBVIOUS
<1>1. CASE UNCHANGED vars
  BY <1>1 DEF vars, TypeOK
<1>2. ASSUME NEW n \in Node, NEW pkt \in HandedOn(n), CmdSend(n, pkt) PROVE TypeOK'
  BY <1>2, CmdSendType
<1>3. ASSUME NEW n \in Node, NEW pkt \in HandedOn(n), CmdGet(n, pkt) PROVE TypeOK'
  BY <1>3, CmdGetType
<1>4. ASSUME NEW n \in Node, NEW lost \in SUBSET (Node \ {n}), TxISR(n, lost) PROVE TypeOK'
  BY <1>4, TxISRType
<1>5. CASE Expire
  BY <1>5, ExpireType
<1>. QED
  BY <1>1, <1>2, <1>3, <1>4, <1>5 DEF Next

\* No call, interrupt or timeout takes a driver out of its types: neither ring
\* ever holds more than QUEUE_LEN - 1 packets, whatever the games send and
\* whatever the medium loses.
THEOREM SirTypeCorrect == Spec => []TypeOK
BY InitTypeOK, NextTypeOK, PTL DEF Spec

-----------------------------------------------------------------------------
(***************************************************************************)
(* The token.  A node holds it while it may transmit, while it sends the   *)
(* handoff, and while a handoff to it waits in its UART; and in one of     *)
(* these places only.                                                      *)
(***************************************************************************)
HoldsToken(r) == \/ r.state = "TRANSMIT"
                 \/ r.tx.sym = "handoff"
                 \/ r.uart = Handoff(r.player)

OnePlace(r) ==
  /\ r.tx.sym = "handoff" => r.state = "WAIT"
  /\ r.uart = Handoff(r.player) => r.state = "WAIT" /\ r.tx = Nothing
  /\ r.tx # Nothing => r.state = "TRANSMIT" \/ r.tx.sym = "handoff"

AtMostOneToken ==
  /\ \A n \in Node : OnePlace(node[n])
  /\ \A n, m \in Node : HoldsToken(node[n]) /\ HoldsToken(node[m]) => n = m

TokenInv == /\ \A n \in Node : node[n].player = n
            /\ regenerated = 0 => AtMostOneToken

\* What every call but the receipt of a handoff does to the token: it does not
\* make one.
Kept(r, s) == /\ s.player = r.player
              /\ OnePlace(r) => OnePlace(s) /\ (HoldsToken(s) => HoldsToken(r))

LEMMA SymbolFacts ==
  /\ Nothing.sym = "nothing" /\ End.sym = "end"
  /\ \A pkt : Data(pkt).sym = "data"
  /\ \A n : Handoff(n).sym = "handoff" /\ Handoff(n).to = n
BY DEF Nothing, End, Data, Handoff

LEMMA SymbolIsHandoff ==
  \A s \in Symbol \cup {Nothing} : s.sym = "handoff" => s.to \in Node /\ s = Handoff(s.to)
BY SymbolFacts DEF Symbol

LEMMA SerialMoreTXDataToken ==
  ASSUME NEW r, Typed(r)
  PROVE  /\ Kept(r, SerialMoreTXData(r))
         /\ OnePlace(r) /\ r.tx.sym = "handoff" => ~HoldsToken(SerialMoreTXData(r))
<1>1. CASE r.state = "WAIT" \/ r.outque = <<>>
  BY <1>1, SymbolFacts DEF SerialMoreTXData, Kept, OnePlace, HoldsToken, NodeState, Typed
<1>2. CASE r.state # "WAIT" /\ r.outque # <<>>
  <2> DEFINE done == [r EXCEPT !.outque = Tail(@), !.begun = FALSE]
             next == (r.player + 1) % N
             data == [r EXCEPT !.tx = Data(Head(r.outque)), !.begun = TRUE]
             last == [done EXCEPT !.tx = Handoff(next), !.state = "WAIT"]
             end == [done EXCEPT !.tx = End]
  <2>1. SerialMoreTXData(r) \in {data, last, end}
    BY <1>2 DEF SerialMoreTXData
  <2>2. r.state = "TRANSMIT" /\ HoldsToken(r)
    BY <1>2 DEF HoldsToken, Typed, NodeState
  <2>3. /\ data.player = r.player /\ data.state = r.state /\ data.uart = r.uart
        /\ data.tx.sym = "data"
    BY SymbolFacts DEF Typed, NodeState
  <2>4. /\ last.player = r.player /\ last.state = "WAIT" /\ last.uart = r.uart
        /\ last.tx.sym = "handoff"
    BY SymbolFacts DEF Typed, NodeState
  <2>5. /\ end.player = r.player /\ end.state = r.state /\ end.uart = r.uart
        /\ end.tx.sym = "end"
    BY SymbolFacts DEF Typed, NodeState
  <2> HIDE DEF data, last, end
  <2>. QED
    BY <2>1, <2>2, <2>3, <2>4, <2>5 DEF Kept, OnePlace, HoldsToken
<1>. QED
  BY <1>1, <1>2

LEMMA JumpStartToken == ASSUME NEW r, Typed(r) PROVE Kept(r, JumpStart(r))
BY SerialMoreTXDataToken DEF JumpStart, Kept

LEMMA HandOnToken ==
  ASSUME NEW r, Typed(r), NEW pkt \in Packet
  PROVE  Kept(r, HandOn(r, pkt))
<1>1. ASSUME NEW queue \in Seq(Packet), Len(queue) < QueueLen
      PROVE  Kept(r, JumpStart([r EXCEPT !.outque = queue]))
  <2> DEFINE q == [r EXCEPT !.outque = queue]
  <2>1. Typed(q) /\ Kept(r, q)
    BY <1>1 DEF Typed, NodeState, Fits, Kept, OnePlace, HoldsToken
  <2>2. Kept(q, JumpStart(q))
    BY <2>1, JumpStartToken
  <2>. QED
    BY <2>1, <2>2 DEF Kept
<1>2. CASE ~IsFull(r.outque)
  <2>1. Append(r.outque, pkt) \in Seq(Packet) /\ Len(Append(r.outque, pkt)) < QueueLen
    BY <1>2, QueueLenAssumption DEF IsFull, NodeState, Typed, Fits
  <2>. QED
    BY <1>1, <1>2, <2>1 DEF HandOn, SendPacket, Kept
<1>3. CASE IsFull(r.outque)
  <2> DEFINE queue == [r.outque EXCEPT ![Len(r.outque)] = pkt]
  <2>1. Len(r.outque) \in 1 .. Len(r.outque)
    BY <1>3, QueueLenAssumption DEF IsFull, NodeState, Typed, Fits
  <2>2. queue \in Seq(Packet) /\ Len(queue) < QueueLen
    BY <2>1, ExceptSeq DEF NodeState, Typed, Fits
  <2>3. Kept(r, JumpStart([r EXCEPT !.outque = queue]))
    BY <1>1, <2>2
  <2>4. [r EXCEPT !.outque[Len(r.outque)] = pkt] = [r EXCEPT !.outque = queue]
    BY DEF NodeState, Typed
  <2>. QED
    BY <1>3, <2>3, <2>4 DEF HandOn, SendPacket, Kept
<1>. QED
  BY <1>2, <1>3

LEMMA CheckTimeoutToken ==
  ASSUME NEW r, Typed(r), ~TakesOver(r)
  PROVE  Kept(r, CheckTimeout(r))
<1> DEFINE q == [r EXCEPT !.state = "TRANSMIT", !.expired = FALSE]
<1>1. CASE TimedOut(r)
  <2>1. r.state = "TRANSMIT"
    BY <1>1 DEF TakesOver, Typed, NodeState
  <2>2. Typed(q) /\ Kept(r, q)
    BY <2>1 DEF Typed, NodeState, Fits, Kept, OnePlace, HoldsToken
  <2>3. Kept(q, JumpStart(q))
    BY <2>2, JumpStartToken
  <2>. QED
    BY <1>1, <2>2, <2>3 DEF CheckTimeout, Kept
<1>2. CASE ~TimedOut(r)
  BY <1>2 DEF CheckTimeout, Kept
<1>. QED
  BY <1>1, <1>2

LEMMA CheckTimeoutPlayer ==
  ASSUME NEW r, Typed(r)
  PROVE  CheckTimeout(r).player = r.player
<1> DEFINE q == [r EXCEPT !.state = "TRANSMIT", !.expired = FALSE]
<1>1. Typed(q) /\ q.player = r.player
  BY DEF Typed, NodeState, Fits
<1>2. JumpStart(q).player = q.player
  BY <1>1, JumpStartToken DEF Kept
<1>. QED
  BY <1>1, <1>2 DEF CheckTimeout

LEMMA PacketReceivedToken == ASSUME NEW r, Typed(r) PROVE Kept(r, PacketReceived(r))
BY DEF PacketReceived, Kept, OnePlace, HoldsToken, Typed, NodeState

\* A handoff makes a node a holder; the one that already is one stays as it is.
LEMMA ReceivedHandoffToken ==
  ASSUME NEW r, Typed(r)
  PROVE  /\ ReceivedHandoff(r).player = r.player
         /\ OnePlace(r) /\ ~HoldsToken(r) => OnePlace(ReceivedHandoff(r))
<1> DEFINE queue == IF r.outque = <<>> THEN <<NoPacket>> ELSE r.outque
           q == [r EXCEPT !.state = "TRANSMIT", !.expired = FALSE, !.outque = queue]
<1>1. queue \in Seq(Packet) /\ Len(queue) < QueueLen
  BY PacketFacts, QueueLenAssumption DEF NodeState, Typed, Fits
<1>2. /\ Typed(q) /\ q.player = r.player
      /\ OnePlace(r) /\ ~HoldsToken(r) => OnePlace(q)
  <2> HIDE DEF queue
  <2>. QED
    BY <1>1 DEF Typed, NodeState, Fits, OnePlace, HoldsToken
<1>3. Kept(q, JumpStart(q))
  BY <1>2, JumpStartToken
<1>. QED
  BY <1>2, <1>3 DEF ReceivedHandoff, Kept

LEMMA SerialReceivedToken ==
  ASSUME NEW r, Typed(r), NEW s \in Symbol \cup {Nothing}
  PROVE  /\ SerialReceived(r, s).player = r.player
         /\ s # Handoff(r.player) => Kept(r, SerialReceived(r, s))
         /\ OnePlace(r) /\ ~HoldsToken(r) => OnePlace(SerialReceived(r, s))
<1> DEFINE p == PacketReceived(r)
<1>1. Typed(p) /\ Kept(r, p)
  BY PacketReceivedType, PacketReceivedToken
<1>2. CASE s.sym = "handoff" /\ s.to = r.player
  <2>1. s = Handoff(r.player)
    BY <1>2, SymbolIsHandoff
  <2>2. SerialReceived(r, s) = ReceivedHandoff(p)
    BY <1>2 DEF SerialReceived
  <2> HIDE DEF p
  <2>. QED
    BY <1>1, <2>1, <2>2, ReceivedHandoffToken DEF Kept
<1>3. CASE s.sym = "end" \/ (s.sym = "handoff" /\ s.to # r.player)
  BY <1>1, <1>3 DEF SerialReceived, Kept
<1>4. CASE s.sym \notin {"end", "handoff"}
  <2>1. SerialReceived(r, s) \in {r, AddIn(r, s.pkt)}
    BY <1>4 DEF SerialReceived
  <2>2. Kept(r, AddIn(r, s.pkt)) /\ Kept(r, r)
    BY DEF AddIn, Kept, OnePlace, HoldsToken, Typed, NodeState
  <2>. QED
    BY <2>1, <2>2 DEF Kept
<1>5. \/ s.sym = "handoff" /\ s.to = r.player
      \/ s.sym = "end" \/ (s.sym = "handoff" /\ s.to # r.player)
      \/ s.sym \notin {"end", "handoff"}
  OBVIOUS
<1>. QED
  BY <1>2, <1>3, <1>4, <1>5, Zenon

LEMMA HearToken ==
  ASSUME NEW r, Typed(r), NEW s \in Symbol \cup {Nothing}
  PROVE  /\ Hear(r, s).player = r.player
         /\ s # Handoff(r.player) => Kept(r, Hear(r, s))
         /\ OnePlace(r) /\ ~HoldsToken(r) => OnePlace(Hear(r, s))
<1>1. CASE r.receiving
  <2>1. Hear(r, s) = SerialReceived(r, s)
    BY <1>1 DEF Hear, Typed, NodeState
  <2>. QED
    BY <2>1, SerialReceivedToken
<1>2. CASE ~r.receiving /\ r.uart = Nothing
  <2> DEFINE q == [r EXCEPT !.uart = s]
  <2>1. /\ q.player = r.player /\ q.state = r.state /\ q.tx = r.tx /\ q.uart = s
        /\ Hear(r, s) = q
    BY <1>2 DEF Hear, Typed, NodeState
  <2>2. r.uart # Handoff(r.player) /\ r.state \in {"TRANSMIT", "WAIT"}
    BY <1>2, SymbolFacts DEF Typed, NodeState
  <2> HIDE DEF q
  <2>3. s # Handoff(r.player) => Kept(r, q)
    BY <2>1, <2>2 DEF Kept, OnePlace, HoldsToken
  <2>4. OnePlace(r) /\ ~HoldsToken(r) => OnePlace(q)
    BY <2>1, <2>2 DEF OnePlace, HoldsToken
  <2>. QED
    BY <2>1, <2>3, <2>4
<1>3. CASE ~r.receiving /\ r.uart # Nothing
  BY <1>3 DEF Hear, Kept
<1>. QED
  BY <1>1, <1>2, <1>3

LEMMA GetPacketToken ==
  ASSUME NEW r, Typed(r), r.inque # <<>>
  PROVE  Kept(r, GetPacket(r))
<1> DEFINE q == [r EXCEPT !.inque = Tail(@)]
           p == [q EXCEPT !.receiving = TRUE, !.uart = Nothing]
<1>1. Tail(r.inque) \in Seq(Packet) /\ Len(Tail(r.inque)) < QueueLen
  BY QueueLenAssumption DEF NodeState, Typed, Fits
<1>2. Typed(q) /\ Kept(r, q) /\ q.uart = r.uart /\ q.player = r.player
  BY <1>1 DEF NodeState, Typed, Fits, Kept, OnePlace, HoldsToken
<1>3. CASE q.receiving
  BY <1>2, <1>3 DEF GetPacket, ResumeReceive
<1>4. CASE ~q.receiving
  <2>1. Typed(p) /\ p.player = q.player /\ p.uart = Nothing
    BY <1>2 DEF NodeState, Typed, Fits
  <2>2. /\ Kept(q, p)
        /\ OnePlace(q) /\ q.uart = Handoff(q.player) => ~HoldsToken(p)
    BY <1>2, SymbolFacts DEF NodeState, Typed, Kept, OnePlace, HoldsToken
  <2>3. GetPacket(r) = SerialReceived(p, q.uart)
    BY <1>4 DEF GetPacket, ResumeReceive
  <2>4. q.uart \in Symbol \cup {Nothing}
    BY <1>2 DEF NodeState, Typed
  <2>5. /\ SerialReceived(p, q.uart).player = p.player
        /\ q.uart # Handoff(p.player) => Kept(p, SerialReceived(p, q.uart))
        /\ OnePlace(p) /\ ~HoldsToken(p) => OnePlace(SerialReceived(p, q.uart))
    BY <2>1, <2>4, SerialReceivedToken
  <2>6. q.uart = Handoff(q.player) => HoldsToken(q)
    BY DEF HoldsToken
  <2> HIDE DEF p, q
  <2>. QED
    BY <1>2, <2>1, <2>2, <2>3, <2>5, <2>6 DEF Kept
<1>. QED
  BY <1>3, <1>4

IInv == TypeOK /\ TokenInv

LEMMA InitIInv == Init => IInv
<1> SUFFICES ASSUME Init PROVE TokenInv
  BY InitTypeOK DEF IInv
<1>1. \A n \in Node : /\ node[n].player = n /\ node[n].tx = Nothing /\ node[n].uart = Nothing
                      /\ node[n].state = IF n = 0 THEN "TRANSMIT" ELSE "WAIT"
  BY DEF Init
<1>. QED
  BY <1>1, SymbolFacts DEF TokenInv, AtMostOneToken, OnePlace, HoldsToken

\* A step in which one node makes a call that keeps its token keeps TokenInv.
LEMMA CallKeepsToken ==
  ASSUME IInv, NEW n \in Node, NEW s, regenerated' = regenerated,
         Kept(node[n], s), node' = [node EXCEPT ![n] = s]
  PROVE  TokenInv'
<1>1. \A m \in Node : /\ node'[m].player = m
                      /\ regenerated = 0 => /\ OnePlace(node'[m])
                                            /\ HoldsToken(node'[m]) => HoldsToken(node[m])
  <2> SUFFICES ASSUME NEW m \in Node
               PROVE  /\ node'[m].player = m
                      /\ regenerated = 0 => /\ OnePlace(node'[m])
                                            /\ HoldsToken(node'[m]) => HoldsToken(node[m])
    OBVIOUS
  <2>1. CASE m = n
    BY <2>1 DEF IInv, TypeOK, TokenInv, AtMostOneToken, Kept
  <2>2. CASE m # n
    BY <2>2 DEF IInv, TypeOK, TokenInv, AtMostOneToken
  <2>. QED
    BY <2>1, <2>2
<1>. QED
  BY <1>1 DEF IInv, TokenInv, AtMostOneToken

LEMMA CmdSendToken ==
  ASSUME IInv, NEW n \in Node, NEW pkt \in HandedOn(n), CmdSend(n, pkt)
  PROVE  TokenInv'
<1> DEFINE q == CheckTimeout(node[n])
<1>1. pkt \in Packet /\ Typed(node[n]) /\ Typed(q)
  BY HandedOnType, TypeOKByNode, CheckTimeoutType DEF IInv, TypeOK
<1>2. Kept(q, HandOn(q, pkt))
  BY <1>1, HandOnToken
<1>3. CASE TakesOver(node[n])
  <2>1. HandOn(q, pkt).player = n
    BY <1>1, <1>2, CheckTimeoutPlayer DEF Kept, IInv, TokenInv
  <2>2. \A m \in Node : node'[m].player = m
    BY <2>1 DEF CmdSend, IInv, TypeOK, TokenInv
  <2>3. regenerated' # 0
    BY <1>3, BoundsAssumption DEF CmdSend, IInv, TypeOK
  <2>. QED
    BY <2>2, <2>3 DEF TokenInv
<1>4. CASE ~TakesOver(node[n])
  <2>1. Kept(node[n], q)
    BY <1>1, <1>4, CheckTimeoutToken
  <2>2. Kept(node[n], HandOn(q, pkt))
    BY <1>2, <2>1 DEF Kept
  <2>3. regenerated' = regenerated /\ node' = [node EXCEPT ![n] = HandOn(q, pkt)]
    BY <1>4 DEF CmdSend
  <2>. QED
    BY <2>2, <2>3, CallKeepsToken
<1>. QED
  BY <1>3, <1>4

LEMMA CmdGetToken ==
  ASSUME IInv, NEW n \in Node, NEW pkt \in HandedOn(n), CmdGet(n, pkt)
  PROVE  TokenInv'
<1> DEFINE r == HandOn(node[n], pkt)
<1>1. pkt \in Packet /\ Typed(node[n])
  BY HandedOnType, TypeOKByNode DEF IInv, TypeOK
<1>2. Typed(r) /\ Kept(node[n], r)
  BY <1>1, HandOnType, HandOnToken
<1>3. CASE r.inque = <<>>
  BY <1>2, <1>3, CallKeepsToken DEF CmdGet
<1>4. CASE r.inque # <<>>
  <2>1. Kept(r, GetPacket(r))
    BY <1>2, <1>4, GetPacketToken
  <2>2. Kept(node[n], GetPacket(r))
    BY <1>2, <2>1 DEF Kept
  <2>. QED
    BY <1>4, <2>2, CallKeepsToken DEF CmdGet
<1>. QED
  BY <1>3, <1>4

\* The only step that moves the token: the sender of a handoff gives it up, and
\* the node it names gets it.
LEMMA TxISRToken ==
  ASSUME IInv, NEW n \in Node, NEW lost \in SUBSET (Node \ {n}), TxISR(n, lost)
  PROVE  TokenInv'
<1> DEFINE s == node[n].tx
<1>1. \A m \in Node : Typed(node[m]) /\ node[m].player = m
  BY TypeOKByNode DEF IInv, TokenInv
<1>2. s \in Symbol /\ s \in Symbol \cup {Nothing}
  BY <1>1 DEF TxISR, Typed, NodeState
<1>3. /\ Kept(node[n], SerialMoreTXData(node[n]))
      /\ OnePlace(node[n]) /\ s.sym = "handoff" => ~HoldsToken(SerialMoreTXData(node[n]))
  BY <1>1, SerialMoreTXDataToken
<1>4. \A m \in Node :
        /\ Hear(node[m], s).player = m
        /\ s # Handoff(m) => Kept(node[m], Hear(node[m], s))
        /\ OnePlace(node[m]) /\ ~HoldsToken(node[m]) => OnePlace(Hear(node[m], s))
  BY <1>1, <1>2, HearToken
<1>5. \A m \in Node : node'[m] \in IF m = n THEN {SerialMoreTXData(node[n])}
                                   ELSE {node[m], Hear(node[m], s)}
  BY DEF TxISR
<1>6. \A m \in Node : node'[m].player = m
  BY <1>1, <1>3, <1>4, <1>5 DEF Kept
<1>7. regenerated' = regenerated
  BY DEF TxISR
<1>8. ASSUME regenerated = 0 PROVE AtMostOneToken'
  <2>1. /\ \A m \in Node : OnePlace(node[m])
        /\ \A k, m \in Node : HoldsToken(node[k]) /\ HoldsToken(node[m]) => k = m
    BY <1>8 DEF IInv, TokenInv, AtMostOneToken
  <2>2. CASE s.sym # "handoff"
    <3>1. \A m \in Node : s # Handoff(m)
      BY <2>2, SymbolFacts
    <3>2. ASSUME NEW m \in Node
          PROVE  OnePlace(node'[m]) /\ (HoldsToken(node'[m]) => HoldsToken(node[m]))
      <4>1. Kept(node[m], Hear(node[m], s)) /\ OnePlace(node[m])
        BY <1>4, <2>1, <3>1
      <4>2. CASE m = n
        BY <1>3, <1>5, <4>1, <4>2 DEF Kept
      <4>3. CASE m # n
        BY <1>5, <4>1, <4>3 DEF Kept
      <4>. QED
        BY <4>2, <4>3
    <3>. QED
      BY <2>1, <3>2 DEF AtMostOneToken
  <2>3. CASE s.sym = "handoff"
    <3>1. s.to \in Node /\ \A m \in Node : s = Handoff(m) => m = s.to
      BY <1>2, <2>3, SymbolIsHandoff, SymbolFacts
    <3>2. \A m \in Node \ {n} : ~HoldsToken(node[m])
      BY <2>1, <2>3 DEF HoldsToken
    <3>3. ~HoldsToken(node'[n]) /\ OnePlace(node'[n])
      BY <1>3, <1>5, <2>1, <2>3 DEF Kept
    <3>4. \A m \in Node \ {n} : OnePlace(node'[m])
      BY <1>4, <1>5, <2>1, <3>2
    <3>5. ASSUME NEW m \in Node \ {n, s.to} PROVE ~HoldsToken(node'[m])
      <4>1. Kept(node[m], Hear(node[m], s)) /\ OnePlace(node[m]) /\ ~HoldsToken(node[m])
        BY <1>4, <2>1, <3>1, <3>2
      <4>. QED
        BY <1>5, <4>1 DEF Kept
    <3>. QED
      BY <3>3, <3>4, <3>5 DEF AtMostOneToken
  <2>. QED
    BY <2>2, <2>3
<1>. QED
  BY <1>6, <1>7, <1>8 DEF TokenInv

LEMMA ExpireToken == ASSUME IInv, Expire PROVE TokenInv'
<1> DEFINE r == node[0]
<1>1. Typed(r) /\ 0 \in Node
  BY NodeFacts, TypeOKByNode DEF IInv
<1>2. Kept(r, [r EXCEPT !.expired = TRUE])
  <2> HIDE DEF r
  <2>. QED
    BY <1>1 DEF Kept, OnePlace, HoldsToken, NodeState, Typed
<1>3. node' = [node EXCEPT ![0] = [r EXCEPT !.expired = TRUE]] /\ regenerated' = regenerated
  BY DEF Expire
<1>. QED
  BY <1>1, <1>2, <1>3, CallKeepsToken

LEMMA NextIInv == IInv /\ [Next]_vars => IInv'
<1> SUFFICES ASSUME IInv, [Next]_vars PROVE TokenInv'
  BY NextTypeOK DEF IInv
<1>1. CASE UNCHANGED vars
  BY <1>1 DEF vars, IInv, TokenInv, AtMostOneToken
<1>2. ASSUME NEW n \in Node, NEW pkt \in HandedOn(n), CmdSend(n, pkt) PROVE TokenInv'
  BY <1>2, CmdSendToken
<1>3. ASSUME NEW n \in Node, NEW pkt \in HandedOn(n), CmdGet(n, pkt) PROVE TokenInv'
  BY <1>3, CmdGetToken
<1>4. ASSUME NEW n \in Node, NEW lost \in SUBSET (Node \ {n}), TxISR(n, lost) PROVE TokenInv'
  BY <1>4, TxISRToken
<1>5. CASE Expire
  BY <1>5, ExpireToken
<1>. QED
  BY <1>1, <1>2, <1>3, <1>4, <1>5 DEF Next

LEMMA IInvOneTransmitter == IInv => OneTransmitterUntilTimeout
<1> SUFFICES ASSUME IInv, regenerated = 0, NEW n \in Node, NEW m \in Node,
                    Transmitting(n), Transmitting(m)
             PROVE  n = m
  BY DEF OneTransmitterUntilTimeout, OneTransmitter
<1>1. HoldsToken(node[n]) /\ HoldsToken(node[m])
  BY DEF IInv, TokenInv, AtMostOneToken, OnePlace, HoldsToken, Transmitting
<1>. QED
  BY <1>1 DEF IInv, TokenInv, AtMostOneToken

\* Until player 0's clock makes a second token, two drivers never have their
\* transmitters running at once, with any number of players, however the calls
\* and interrupts follow each other and whatever is lost.
THEOREM OneToken == Spec => []OneTransmitterUntilTimeout
BY InitIInv, NextIInv, IInvOneTransmitter, PTL DEF Spec

-----------------------------------------------------------------------------
(***************************************************************************)
(* The order of tics.  A packet with tics stands in a line from the queue  *)
(* of its sender to the game that gets it, and no call changes the order   *)
(* of a line.  A sender's line is what it is transmitting and its queue    *)
(* without a first packet that it has already begun; a receiver's line is  *)
(* its queue, the packet at its head and what its UART keeps.              *)
(***************************************************************************)
IsTic(pkt) == pkt.len = Tic

Outgoing(r, i) == IF i = 0 THEN r.tx.pkt ELSE IF i = 1 /\ r.begun THEN NoPacket ELSE r.outque[i]
OutTics(r) == {pkt \in {Outgoing(r, i) : i \in 0 .. Len(r.outque)} : IsTic(pkt)}
OutRising(r) ==
  \A i, j \in 0 .. Len(r.outque) :
    i < j /\ IsTic(Outgoing(r, i)) /\ IsTic(Outgoing(r, j)) => Outgoing(r, i).id < Outgoing(r, j).id

Incoming(r, i) == IF i <= Len(r.inque) THEN r.inque[i]
                  ELSE IF i = Len(r.inque) + 1 THEN r.partial.pkt ELSE r.uart.pkt
InTics(r) == {pkt \in {Incoming(r, i) : i \in 1 .. Len(r.inque) + 2} : IsTic(pkt)}
InRising(r) ==
  \A i, j \in 1 .. Len(r.inque) + 2 :
    /\ i < j /\ IsTic(Incoming(r, i)) /\ IsTic(Incoming(r, j)) /\ Incoming(r, i).src = Incoming(r, j).src
    => Incoming(r, i).id < Incoming(r, j).id

UartOK(r) == r.receiving => r.uart = Nothing

\* What nearly every call does to the lines: packets may leave them, none comes.
OutCalm(r, s) == OutTics(s) \subseteq OutTics(r) /\ (OutRising(r) => OutRising(s))
InCalm(r, s) == /\ InTics(s) \subseteq InTics(r) /\ (InRising(r) => InRising(s))
                /\ UartOK(r) => UartOK(s)
Calm(r, s) == InCalm(r, s) /\ OutCalm(r, s)

LEMMA CalmTransitive ==
  ASSUME NEW q, NEW r, NEW s, Calm(q, r), Calm(r, s)
  PROVE  Calm(q, s)
BY DEF Calm, InCalm, OutCalm

LEMMA SameIn ==
  ASSUME NEW r, NEW s, s.inque = r.inque, s.partial = r.partial, s.uart = r.uart, s.receiving = r.receiving
  PROVE  InCalm(r, s)
BY DEF InCalm, InTics, InRising, UartOK, Incoming

LEMMA SameOut ==
  ASSUME NEW r, NEW s, s.outque = r.outque, s.begun = r.begun, s.tx = r.tx
  PROVE  OutCalm(r, s)
BY DEF OutCalm, OutTics, OutRising, Outgoing

LEMMA NoTic == ~IsTic(NoPacket)
BY DEF IsTic, NoPacket, Empty, Tic

LEMMA MarksAreNoTics ==
  ASSUME NEW s \in Symbol \cup {Nothing}
  PROVE  /\ s.pkt \in Packet
         /\ s.sym # "data" => s.pkt = NoPacket
         /\ s.sym = "data" \/ s.sym = "end" \/ s.sym = "handoff" \/ s = Nothing
<1>1. /\ Nothing.pkt = NoPacket /\ End.pkt = NoPacket /\ Nothing.sym = "nothing" /\ End.sym = "end"
      /\ \A pkt : Data(pkt).sym = "data" /\ Data(pkt).pkt = pkt
      /\ \A n : Handoff(n).sym = "handoff" /\ Handoff(n).pkt = NoPacket
  BY DEF Nothing, End, Data, Handoff
<1>. QED
  BY <1>1, PacketFacts DEF Symbol

\* The places from which the packets of a line come, in order.
LEMMA OutFrom ==
  ASSUME NEW r, NEW s, Typed(r), Typed(s),
         NEW from, \A i \in 0 .. Len(s.outque) : IsTic(Outgoing(s, i)) =>
           from[i] \in 0 .. Len(r.outque) /\ Outgoing(s, i) = Outgoing(r, from[i]),
         \A i, j \in 0 .. Len(s.outque) :
           i < j /\ IsTic(Outgoing(s, i)) /\ IsTic(Outgoing(s, j)) => from[i] < from[j]
  PROVE  OutCalm(r, s)
<1>1. OutTics(s) \subseteq OutTics(r)
  BY DEF OutTics
<1>2. OutRising(r) => OutRising(s)
  BY DEF OutRising
<1>. QED
  BY <1>1, <1>2 DEF OutCalm

LEMMA InFrom ==
  ASSUME NEW r, NEW s, Typed(r), Typed(s), UartOK(r) => UartOK(s),
         NEW from, \A i \in 1 .. Len(s.inque) + 2 : IsTic(Incoming(s, i)) =>
           from[i] \in 1 .. Len(r.inque) + 2 /\ Incoming(s, i) = Incoming(r, from[i]),
         \A i, j \in 1 .. Len(s.inque) + 2 :
           i < j /\ IsTic(Incoming(s, i)) /\ IsTic(Incoming(s, j)) => from[i] < from[j]
  PROVE  InCalm(r, s)
<1>1. InTics(s) \subseteq InTics(r)
  BY DEF InTics
<1>2. InRising(r) => InRising(s)
  BY DEF InRising
<1>. QED
  BY <1>1, <1>2 DEF InCalm

\* SerialMoreTXData forgets the packet it has sent.
WaitingTics(r) == {pkt \in {Outgoing(r, i) : i \in 1 .. Len(r.outque)} : IsTic(pkt)}

LEMMA SerialMoreTXDataCalm ==
  ASSUME NEW r, Typed(r)
  PROVE  Calm(r, SerialMoreTXData(r)) /\ OutTics(SerialMoreTXData(r)) \subseteq WaitingTics(r)
<1> DEFINE s == SerialMoreTXData(r)
<1>0. /\ Typed(s) /\ r.outque \in Seq(Packet) /\ Len(r.outque) \in Nat
      /\ Nothing.pkt = NoPacket /\ End.pkt = NoPacket /\ \A n : Handoff(n).pkt = NoPacket
      /\ \A pkt : Data(pkt).pkt = pkt
  BY SerialMoreTXDataType DEF Typed, NodeState, Nothing, End, Handoff, Data
<1>1. CASE r.state = "WAIT" \/ r.outque = <<>>
  <2>1. /\ s.outque = r.outque /\ s.begun = r.begun /\ s.tx = Nothing
        /\ s.inque = r.inque /\ s.partial = r.partial /\ s.uart = r.uart /\ s.receiving = r.receiving
    BY <1>1 DEF SerialMoreTXData, Typed, NodeState
  <2> HIDE DEF s
  <2>2. InCalm(r, s)
    BY <2>1, SameIn
  <2>3. \A i \in 0 .. Len(s.outque) : IsTic(Outgoing(s, i)) => i # 0 /\ Outgoing(s, i) = Outgoing(r, i)
    BY <1>0, <2>1, NoTic DEF Outgoing
  <2>4. OutTics(s) \subseteq WaitingTics(r)
    BY <1>0, <2>1, <2>3 DEF OutTics, WaitingTics
  <2>5. OutCalm(r, s)
    <3> DEFINE from == [i \in 0 .. Len(s.outque) |-> i]
    <3>1. \A i \in 0 .. Len(s.outque) : from[i] = i /\ from[i] \in 0 .. Len(r.outque)
      BY <2>1
    <3>. HIDE DEF from
    <3>. QED
      BY <1>0, <2>3, <3>1, OutFrom
  <2>. QED
    BY <2>2, <2>4, <2>5 DEF Calm, s
<1>2. CASE r.state # "WAIT" /\ r.outque # <<>> /\ Head(r.outque).len # Empty /\ ~r.begun
  <2>1. /\ s.outque = r.outque /\ s.begun = TRUE /\ s.tx = Data(Head(r.outque))
        /\ s.inque = r.inque /\ s.partial = r.partial /\ s.uart = r.uart /\ s.receiving = r.receiving
    BY <1>2 DEF SerialMoreTXData, Typed, NodeState
  <2> HIDE DEF s
  <2>2. InCalm(r, s)
    BY <2>1, SameIn
  <2> DEFINE from == [i \in 0 .. Len(s.outque) |-> IF i = 0 THEN 1 ELSE i]
  <2>3. 1 \in 1 .. Len(r.outque) /\ Outgoing(r, 1) = Head(r.outque)
    BY <1>0, <1>2 DEF Outgoing
  <2>4. \A i \in 0 .. Len(s.outque) : from[i] = IF i = 0 THEN 1 ELSE i
    OBVIOUS
  <2>5. ASSUME NEW i \in 0 .. Len(s.outque), IsTic(Outgoing(s, i))
        PROVE  i # 1 /\ from[i] \in 1 .. Len(r.outque) /\ Outgoing(s, i) = Outgoing(r, from[i])
    <3>1. CASE i = 0
      BY <1>0, <2>1, <2>3, <3>1 DEF Outgoing
    <3>2. CASE i = 1
      BY <2>1, <2>5, <3>2, NoTic DEF Outgoing
    <3>3. CASE i \in 2 .. Len(r.outque)
      BY <2>1, <3>3 DEF Outgoing
    <3>. QED
      BY <1>0, <2>1, <3>1, <3>2, <3>3
  <2>. HIDE DEF from
  <2>6. OutTics(s) \subseteq WaitingTics(r)
    BY <2>5 DEF OutTics, WaitingTics
  <2>7. \A i, j \in 0 .. Len(s.outque) :
          i < j /\ IsTic(Outgoing(s, i)) /\ IsTic(Outgoing(s, j)) => from[i] < from[j]
    BY <1>0, <2>1, <2>4, <2>5
  <2>8. OutCalm(r, s)
    <3>1. \A i \in 1 .. Len(r.outque) : i \in 0 .. Len(r.outque)
      BY <1>0
    <3>. QED
      BY <1>0, <2>5, <2>7, <3>1, OutFrom
  <2>. QED
    BY <2>2, <2>6, <2>8 DEF Calm, s
<1>3. CASE r.state # "WAIT" /\ r.outque # <<>> /\ ~(Head(r.outque).len # Empty /\ ~r.begun)
  <2> DEFINE done == [r EXCEPT !.outque = Tail(@), !.begun = FALSE]
             last == [done EXCEPT !.tx = Handoff((r.player + 1) % N), !.state = "WAIT"]
             end == [done EXCEPT !.tx = End]
  <2>1. s \in {last, end}
    BY <1>3 DEF SerialMoreTXData
  <2>2. /\ last.outque = Tail(r.outque) /\ last.begun = FALSE /\ last.tx = Handoff((r.player + 1) % N)
        /\ last.inque = r.inque /\ last.partial = r.partial /\ last.uart = r.uart /\ last.receiving = r.receiving
    BY DEF Typed, NodeState
  <2>3. /\ end.outque = Tail(r.outque) /\ end.begun = FALSE /\ end.tx = End
        /\ end.inque = r.inque /\ end.partial = r.partial /\ end.uart = r.uart /\ end.receiving = r.receiving
    BY DEF Typed, NodeState
  <2> HIDE DEF s, last, end
  <2>4. /\ s.outque = Tail(r.outque) /\ s.begun = FALSE /\ s.tx.pkt = NoPacket
        /\ s.inque = r.inque /\ s.partial = r.partial /\ s.uart = r.uart /\ s.receiving = r.receiving
    BY <1>0, <2>1, <2>2, <2>3
  <2>5. InCalm(r, s)
    BY <2>4, SameIn
  <2> DEFINE from == [i \in 0 .. Len(s.outque) |-> i + 1]
  <2>6. \A i \in 0 .. Len(s.outque) : from[i] = i + 1
    OBVIOUS
  <2>7. ASSUME NEW i \in 0 .. Len(s.outque), IsTic(Outgoing(s, i))
        PROVE  from[i] \in 1 .. Len(r.outque) /\ Outgoing(s, i) = Outgoing(r, from[i])
    <3>1. i # 0
      BY <2>4, <2>7, NoTic DEF Outgoing
    <3>2. i \in 1 .. Len(r.outque) - 1
      BY <1>0, <1>3, <2>4, <3>1
    <3>3. Tail(r.outque)[i] = r.outque[i + 1] /\ i + 1 \in 1 .. Len(r.outque) /\ i + 1 # 1 /\ i + 1 # 0
      BY <1>0, <1>3, <3>2
    <3>. QED
      BY <2>4, <2>6, <3>1, <3>3 DEF Outgoing
  <2>. HIDE DEF from
  <2>8. OutTics(s) \subseteq WaitingTics(r)
    BY <2>7 DEF OutTics, WaitingTics
  <2>9. OutCalm(r, s)
    <3>1. \A i \in 1 .. Len(r.outque) : i \in 0 .. Len(r.outque)
      BY <1>0
    <3>2. \A i, j \in 0 .. Len(s.outque) : i < j => from[i] < from[j]
      BY <2>6
    <3>. QED
      BY <1>0, <2>7, <3>1, <3>2, OutFrom
  <2>. QED
    BY <2>5, <2>8, <2>9 DEF Calm, s
<1>. QED
  BY <1>1, <1>2, <1>3

LEMMA CalmReflexive == ASSUME NEW r PROVE Calm(r, r)
BY SameIn, SameOut DEF Calm

LEMMA JumpStartCalm == ASSUME NEW r, Typed(r) PROVE Calm(r, JumpStart(r))
BY SerialMoreTXDataCalm, CalmReflexive DEF JumpStart

LEMMA CheckTimeoutCalm == ASSUME NEW r, Typed(r) PROVE Calm(r, CheckTimeout(r))
<1> DEFINE q == [r EXCEPT !.state = "TRANSMIT", !.expired = FALSE]
<1>1. /\ Typed(q) /\ q.outque = r.outque /\ q.begun = r.begun /\ q.tx = r.tx
      /\ q.inque = r.inque /\ q.partial = r.partial /\ q.uart = r.uart /\ q.receiving = r.receiving
  BY DEF Typed, NodeState, Fits
<1>2. CheckTimeout(r) = IF TimedOut(r) THEN JumpStart(q) ELSE r
  BY DEF CheckTimeout
<1> HIDE DEF q
<1>3. Calm(r, q)
  BY <1>1, SameIn, SameOut DEF Calm
<1>. QED
  BY <1>1, <1>2, <1>3, JumpStartCalm, CalmTransitive, CalmReflexive

LEMMA ReceivedHandoffCalm == ASSUME NEW r, Typed(r) PROVE Calm(r, ReceivedHandoff(r))
<1> DEFINE queue == IF r.outque = <<>> THEN <<NoPacket>> ELSE r.outque
           q == [r EXCEPT !.state = "TRANSMIT", !.expired = FALSE, !.outque = queue]
<1>1. queue \in Seq(Packet) /\ Len(queue) < QueueLen
  BY PacketFacts, QueueLenAssumption DEF NodeState, Typed, Fits
<1>2. ReceivedHandoff(r) = IF r.state # "WAIT" THEN r ELSE JumpStart(q)
  BY DEF ReceivedHandoff
<1> HIDE DEF queue
<1>3. /\ Typed(q) /\ q.outque = queue /\ q.begun = r.begun /\ q.tx = r.tx
      /\ q.inque = r.inque /\ q.partial = r.partial /\ q.uart = r.uart /\ q.receiving = r.receiving
  BY <1>1 DEF Typed, NodeState, Fits
<1> HIDE DEF q
<1>4. Calm(r, q)
  <2>1. CASE r.outque # <<>>
    BY <1>3, <2>1, SameIn, SameOut DEF Calm, queue
  <2>2. CASE r.outque = <<>>
    <3>1. Len(q.outque) = 1 /\ q.outque[1] = NoPacket /\ Len(r.outque) = 0
      BY <1>3, <2>2 DEF queue
    <3> DEFINE from == [i \in 0 .. Len(q.outque) |-> 0]
    <3>2. \A i \in 0 .. Len(q.outque) : IsTic(Outgoing(q, i)) => i = 0 /\ Outgoing(q, i) = Outgoing(r, i)
      BY <1>3, <3>1, NoTic DEF Outgoing
    <3>3. \A i \in 0 .. Len(q.outque) : from[i] = 0 /\ from[i] \in 0 .. Len(r.outque)
      BY <3>1
    <3>. HIDE DEF from
    <3>4. \A i, j \in 0 .. Len(q.outque) :
            i < j /\ IsTic(Outgoing(q, i)) /\ IsTic(Outgoing(q, j)) => from[i] < from[j]
      BY <3>1, <3>2
    <3>5. OutCalm(r, q)
      BY <1>3, <3>2, <3>3, <3>4, OutFrom
    <3>. QED
      BY <1>3, <3>5, SameIn DEF Calm
  <2>. QED
    BY <2>1, <2>2
<1>. QED
  BY <1>2, <1>3, <1>4, JumpStartCalm, CalmTransitive, CalmReflexive

\* A packet that is sent goes to the end of the line.
LEMMA HandOnCalm ==
  ASSUME NEW r, Typed(r), NEW pkt \in Packet
  PROVE  /\ InCalm(r, HandOn(r, pkt)) /\ OutTics(HandOn(r, pkt)) \subseteq OutTics(r) \cup {pkt}
         /\ ~IsTic(pkt) => OutTics(HandOn(r, pkt)) \subseteq OutTics(r)
         /\ OutRising(r) /\ (IsTic(pkt) => \A q \in OutTics(r) : q.id < pkt.id) => OutRising(HandOn(r, pkt))
<1> DEFINE Fine(s) == /\ InCalm(r, s) /\ OutTics(s) \subseteq OutTics(r) \cup {pkt}
                      /\ ~IsTic(pkt) => OutTics(s) \subseteq OutTics(r)
                      /\ OutRising(r) /\ (IsTic(pkt) => \A q \in OutTics(r) : q.id < pkt.id) => OutRising(s)
<1>0. Fine(r)
  BY CalmReflexive DEF Calm
<1>1. ASSUME NEW queue \in Seq(Packet), Len(queue) < QueueLen, queue # <<>>,
             Len(r.outque) \in {Len(queue), Len(queue) - 1}, queue[Len(queue)] = pkt,
             \A i \in 1 .. Len(queue) - 1 : queue[i] = r.outque[i]
      PROVE  Fine(JumpStart([r EXCEPT !.outque = queue]))
  <2> DEFINE q == [r EXCEPT !.outque = queue]
  <2>1. /\ Typed(q) /\ q.outque = queue /\ q.begun = r.begun /\ q.tx = r.tx
        /\ q.inque = r.inque /\ q.partial = r.partial /\ q.uart = r.uart /\ q.receiving = r.receiving
    BY <1>1 DEF Typed, NodeState, Fits
  <2> HIDE DEF q
  <2>2. Len(queue) \in Nat \ {0} /\ r.outque \in Seq(Packet) /\ Len(r.outque) \in Nat
    BY <1>1 DEF Typed, NodeState
  <2>3. \A i \in 0 .. Len(queue) - 1 : i \in 0 .. Len(r.outque) /\ Outgoing(q, i) = Outgoing(r, i)
    <3>1. \A i \in 0 .. Len(queue) - 1 : i \in 0 .. Len(r.outque)
      BY <1>1, <2>2
    <3>2. Outgoing(q, 0) = Outgoing(r, 0)
      BY <2>1 DEF Outgoing
    <3>3. \A i \in 1 .. Len(queue) - 1 : Outgoing(q, i) = Outgoing(r, i)
      BY <1>1, <2>1 DEF Outgoing
    <3>. QED
      BY <2>2, <3>1, <3>2, <3>3
  <2>4. IsTic(Outgoing(q, Len(queue))) => Outgoing(q, Len(queue)) = pkt
    BY <1>1, <2>1, <2>2, NoTic DEF Outgoing
  <2>5. \A i \in 0 .. Len(queue) : i \in 0 .. Len(queue) - 1 \/ i = Len(queue)
    BY <2>2
  <2>6. OutTics(q) \subseteq OutTics(r) \cup {pkt} /\ (~IsTic(pkt) => OutTics(q) \subseteq OutTics(r))
    BY <2>1, <2>3, <2>4, <2>5 DEF OutTics
  <2>7. ASSUME OutRising(r), IsTic(pkt) => \A k \in OutTics(r) : k.id < pkt.id PROVE OutRising(q)
    <3>. SUFFICES ASSUME NEW i \in 0 .. Len(queue), NEW j \in 0 .. Len(queue), i < j,
                         IsTic(Outgoing(q, i)), IsTic(Outgoing(q, j))
                  PROVE  Outgoing(q, i).id < Outgoing(q, j).id
      BY <2>1 DEF OutRising
    <3>1. i \in 0 .. Len(queue) - 1
      BY <2>2
    <3>2. CASE j \in 0 .. Len(queue) - 1
      BY <2>3, <2>7, <3>1, <3>2 DEF OutRising
    <3>3. CASE j = Len(queue)
      <4>1. Outgoing(q, i) \in OutTics(r)
        BY <2>3, <3>1 DEF OutTics
      <4>. QED
        BY <2>4, <2>7, <3>3, <4>1
    <3>. QED
      BY <2>5, <3>2, <3>3
  <2>8. InCalm(r, q)
    BY <2>1, SameIn
  <2>9. Calm(q, JumpStart(q))
    BY <2>1, JumpStartCalm
  <2>. QED
    BY <2>6, <2>7, <2>8, <2>9 DEF Calm, InCalm, OutCalm, q
<1>2. CASE pkt = NoPacket
  BY <1>0, <1>2 DEF HandOn
<1>3. CASE pkt # NoPacket /\ ~IsFull(r.outque)
  <2> DEFINE queue == Append(r.outque, pkt)
  <2>1. /\ queue \in Seq(Packet) /\ Len(queue) < QueueLen /\ queue # <<>>
        /\ Len(r.outque) = Len(queue) - 1 /\ queue[Len(queue)] = pkt
        /\ \A i \in 1 .. Len(queue) - 1 : queue[i] = r.outque[i]
    BY <1>3, QueueLenAssumption DEF IsFull, NodeState, Typed, Fits
  <2>2. HandOn(r, pkt) = JumpStart([r EXCEPT !.outque = queue])
    BY <1>3 DEF HandOn, SendPacket
  <2> HIDE DEF queue, Fine
  <2>3. Fine(HandOn(r, pkt))
    BY <1>1, <2>1, <2>2
  <2>. QED
    BY <2>3 DEF Fine
<1>4. CASE pkt # NoPacket /\ IsFull(r.outque)
  <2> DEFINE queue == [r.outque EXCEPT ![Len(r.outque)] = pkt]
  <2>0. r.outque \in Seq(Packet) /\ Len(r.outque) \in 1 .. Len(r.outque) /\ Len(r.outque) < QueueLen
    BY <1>4, QueueLenAssumption DEF IsFull, NodeState, Typed, Fits
  <2>1. /\ queue \in Seq(Packet) /\ Len(queue) = Len(r.outque) /\ queue[Len(queue)] = pkt
        /\ \A i \in 1 .. Len(queue) - 1 : queue[i] = r.outque[i]
    BY <2>0, ExceptSeq
  <2>2. HandOn(r, pkt) = r \/ HandOn(r, pkt) = JumpStart([r EXCEPT !.outque = queue])
    <3>1. [r EXCEPT !.outque[Len(r.outque)] = pkt] = [r EXCEPT !.outque = queue]
      BY DEF NodeState, Typed
    <3>. QED
      BY <1>4, <3>1 DEF HandOn, SendPacket
  <2> HIDE DEF queue, Fine
  <2>3. queue # <<>>
    BY <2>0, <2>1
  <2>4. Fine(HandOn(r, pkt))
    BY <1>0, <1>1, <2>0, <2>1, <2>2, <2>3
  <2>. QED
    BY <2>4 DEF Fine
<1>. QED
  BY <1>2, <1>3, <1>4

LEMMA PacketReceivedCalm == ASSUME NEW r, Typed(r) PROVE Calm(r, PacketReceived(r))
<1> DEFINE s == PacketReceived(r)
<1>0. /\ Typed(s) /\ r.inque \in Seq(Packet) /\ Len(r.inque) \in Nat /\ NoBytes.pkt = NoPacket
      /\ s.outque = r.outque /\ s.begun = r.begun /\ s.tx = r.tx /\ s.uart = r.uart
      /\ s.receiving => r.receiving
  <2> DEFINE still == r.receiving /\ (~Acceptable(r) \/ N > 2)
             taken == [r EXCEPT !.inque = Append(@, r.partial.pkt), !.partial = NoBytes]
             dropped == [r EXCEPT !.partial = NoBytes, !.receiving = still]
  <2>1. s = taken \/ s = dropped
    BY DEF PacketReceived
  <2>2. /\ taken.outque = r.outque /\ taken.begun = r.begun /\ taken.tx = r.tx /\ taken.uart = r.uart
        /\ taken.receiving = r.receiving
    BY DEF Typed, NodeState
  <2>3. still => r.receiving
    OBVIOUS
  <2> HIDE DEF still
  <2>4. /\ dropped.outque = r.outque /\ dropped.begun = r.begun /\ dropped.tx = r.tx /\ dropped.uart = r.uart
        /\ dropped.receiving = still
    BY DEF Typed, NodeState
  <2> HIDE DEF s, taken, dropped
  <2>5. /\ s.outque = r.outque /\ s.begun = r.begun /\ s.tx = r.tx /\ s.uart = r.uart
        /\ s.receiving = r.receiving \/ s.receiving = still
    BY <2>1, <2>2, <2>4
  <2>6. s.receiving => r.receiving
    BY <2>3, <2>5
  <2>7. Typed(s)
    BY PacketReceivedType DEF s
  <2>. QED
    BY <2>5, <2>6, <2>7 DEF Typed, NodeState, NoBytes
<1>1. CASE Acceptable(r) /\ ~IsFull(r.inque)
  <2>1. s.inque = Append(r.inque, r.partial.pkt) /\ s.partial = NoBytes
    BY <1>1 DEF PacketReceived, Typed, NodeState
  <2> HIDE DEF s
  <2>2. /\ Len(s.inque) = Len(r.inque) + 1 /\ s.inque[Len(r.inque) + 1] = r.partial.pkt
        /\ \A i \in 1 .. Len(r.inque) : s.inque[i] = r.inque[i]
    BY <1>0, <2>1
  <2> DEFINE from == [i \in 1 .. Len(s.inque) + 2 |-> IF i = Len(s.inque) + 2 THEN Len(r.inque) + 2 ELSE i]
  <2>3. ASSUME NEW i \in 1 .. Len(s.inque) + 2, IsTic(Incoming(s, i))
        PROVE  i # Len(s.inque) + 1 /\ from[i] \in 1 .. Len(r.inque) + 2 /\ Incoming(s, i) = Incoming(r, from[i])
    <3>1. CASE i \in 1 .. Len(r.inque)
      BY <1>0, <2>2, <3>1 DEF Incoming
    <3>2. CASE i = Len(r.inque) + 1
      BY <1>0, <2>2, <3>2 DEF Incoming
    <3>3. CASE i = Len(s.inque) + 1
      <4>1. Incoming(s, i) = NoPacket
        BY <1>0, <2>1, <2>2, <3>3 DEF Incoming
      <4>. QED
        BY <2>3, <4>1, NoTic
    <3>4. CASE i = Len(s.inque) + 2
      <4>1. Incoming(s, i) = s.uart.pkt /\ from[i] = Len(r.inque) + 2
        BY <1>0, <2>2, <3>4 DEF Incoming
      <4>2. Incoming(r, Len(r.inque) + 2) = r.uart.pkt
        BY <1>0 DEF Incoming
      <4>. QED
        BY <1>0, <2>2, <3>4, <4>1, <4>2
    <3>. QED
      BY <1>0, <2>2, <3>1, <3>2, <3>3, <3>4
  <2>4. \A i \in 1 .. Len(s.inque) + 2 : from[i] = IF i = Len(s.inque) + 2 THEN Len(r.inque) + 2 ELSE i
    OBVIOUS
  <2>. HIDE DEF from
  <2>5. \A i, j \in 1 .. Len(s.inque) + 2 :
          i < j /\ IsTic(Incoming(s, i)) /\ IsTic(Incoming(s, j)) => from[i] < from[j]
    BY <1>0, <2>2, <2>3, <2>4
  <2>6. InCalm(r, s)
    BY <1>0, <2>3, <2>5, InFrom DEF UartOK
  <2>. QED
    BY <1>0, <2>6, SameOut DEF Calm, s
<1>2. CASE ~(Acceptable(r) /\ ~IsFull(r.inque))
  <2>1. s.inque = r.inque /\ s.partial = NoBytes
    BY <1>2 DEF PacketReceived, Typed, NodeState
  <2> HIDE DEF s
  <2> DEFINE from == [i \in 1 .. Len(s.inque) + 2 |-> i]
  <2>2. \A i \in 1 .. Len(s.inque) + 2 : IsTic(Incoming(s, i)) => Incoming(s, i) = Incoming(r, i)
    BY <1>0, <2>1, NoTic DEF Incoming
  <2>3. \A i \in 1 .. Len(s.inque) + 2 : from[i] = i /\ from[i] \in 1 .. Len(r.inque) + 2
    BY <2>1
  <2>. HIDE DEF from
  <2>4. \A i, j \in 1 .. Len(s.inque) + 2 : i < j => from[i] < from[j]
    BY <2>3
  <2>5. InCalm(r, s)
    BY <1>0, <2>2, <2>3, <2>4, InFrom DEF UartOK
  <2>. QED
    BY <1>0, <2>5, SameOut DEF Calm, s
<1>. QED
  BY <1>1, <1>2

\* Data that is received while nothing waits in the UART goes to the end of the line.
LEMMA AddInCalm ==
  ASSUME NEW r, Typed(r), NEW pkt \in Packet, r.uart = Nothing
  PROVE  /\ OutCalm(r, AddIn(r, pkt)) /\ InTics(AddIn(r, pkt)) \subseteq InTics(r) \cup {pkt}
         /\ UartOK(AddIn(r, pkt))
         /\ InRising(r) /\ (\A q \in InTics(r) : q.src = pkt.src => q.id < pkt.id) => InRising(AddIn(r, pkt))
<1> DEFINE s == AddIn(r, pkt)
<1>0. /\ s.inque = r.inque /\ s.uart = Nothing /\ s.receiving = r.receiving
      /\ s.outque = r.outque /\ s.begun = r.begun /\ s.tx = r.tx /\ r.inque \in Seq(Packet) /\ Len(r.inque) \in Nat
      /\ s.partial.pkt = pkt \/ s.partial.pkt = NoPacket
  BY DEF AddIn, Typed, NodeState, Corrupt
<1> HIDE DEF s
<1>1. Nothing.pkt = NoPacket
  BY DEF Nothing
<1>2. \A i \in 1 .. Len(r.inque) : Incoming(s, i) = Incoming(r, i)
  BY <1>0 DEF Incoming
<1>3. IsTic(Incoming(s, Len(r.inque) + 1)) => Incoming(s, Len(r.inque) + 1) = pkt
  BY <1>0, NoTic DEF Incoming
<1>4. ~IsTic(Incoming(s, Len(r.inque) + 2))
  <2>1. Incoming(s, Len(r.inque) + 2) = NoPacket
    BY <1>0, <1>1 DEF Incoming
  <2>. QED
    BY <2>1, NoTic
<1>5. \A i \in 1 .. Len(r.inque) + 2 : i \in 1 .. Len(r.inque) \/ i = Len(r.inque) + 1 \/ i = Len(r.inque) + 2
  BY <1>0
<1>6. InTics(s) \subseteq InTics(r) \cup {pkt}
  <2>1. \A i \in 1 .. Len(r.inque) : i \in 1 .. Len(r.inque) + 2
    BY <1>0
  <2>. QED
    BY <1>0, <1>2, <1>3, <1>4, <1>5, <2>1 DEF InTics
<1>7. ASSUME InRising(r), \A q \in InTics(r) : q.src = pkt.src => q.id < pkt.id PROVE InRising(s)
  <2>. SUFFICES ASSUME NEW i \in 1 .. Len(r.inque) + 2, NEW j \in 1 .. Len(r.inque) + 2, i < j,
                       IsTic(Incoming(s, i)), IsTic(Incoming(s, j)), Incoming(s, i).src = Incoming(s, j).src
                PROVE  Incoming(s, i).id < Incoming(s, j).id
    BY <1>0 DEF InRising
  <2>1. i \in 1 .. Len(r.inque) /\ j \in 1 .. Len(r.inque) + 1
    BY <1>0, <1>4, <1>5
  <2>2. CASE j \in 1 .. Len(r.inque)
    BY <1>2, <1>7, <2>1, <2>2 DEF InRising
  <2>3. CASE j = Len(r.inque) + 1
    <3>1. Incoming(s, i) \in InTics(r)
      BY <1>2, <2>1 DEF InTics
    <3>. QED
      BY <1>3, <1>7, <2>3, <3>1
  <2>. QED
    BY <1>5, <2>1, <2>2, <2>3
<1>8. OutCalm(r, s)
  BY <1>0, SameOut
<1>9. UartOK(s)
  BY <1>0 DEF UartOK
<1>. QED
  BY <1>6, <1>7, <1>8, <1>9 DEF s

LEMMA MarkCalm ==
  ASSUME NEW r, Typed(r), NEW s \in Symbol \cup {Nothing}, s.sym # "data"
  PROVE  Calm(r, SerialReceived(r, s))
<1>1. Typed(PacketReceived(r)) /\ Calm(r, PacketReceived(r))
  BY PacketReceivedType, PacketReceivedCalm
<1>2. Calm(PacketReceived(r), ReceivedHandoff(PacketReceived(r)))
  BY <1>1, ReceivedHandoffCalm
<1>3. SerialReceived(r, s) \in {r, PacketReceived(r), ReceivedHandoff(PacketReceived(r))}
  BY MarksAreNoTics DEF SerialReceived, Nothing
<1>. QED
  BY <1>1, <1>2, <1>3, CalmTransitive, CalmReflexive

\* What a node does with a symbol of another.
LEMMA HearCalm ==
  ASSUME NEW r, Typed(r), UartOK(r), NEW s \in Symbol \cup {Nothing}
  PROVE  /\ OutCalm(r, Hear(r, s)) /\ UartOK(Hear(r, s))
         /\ InTics(Hear(r, s)) \subseteq InTics(r) \cup {s.pkt}
         /\ InRising(r) /\ (IsTic(s.pkt) => \A q \in InTics(r) : q.src = s.pkt.src => q.id < s.pkt.id)
              => InRising(Hear(r, s))
<1>0. /\ s.pkt \in Packet /\ (s.sym # "data" => s.pkt = NoPacket) /\ r.receiving \in BOOLEAN
      /\ Nothing.pkt = NoPacket
  BY MarksAreNoTics DEF Typed, NodeState, Nothing
<1>1. CASE r.receiving /\ s.sym = "data"
  <2>1. Hear(r, s) = AddIn(r, s.pkt) /\ r.uart = Nothing
    BY <1>1 DEF Hear, SerialReceived, UartOK
  <2>2. CASE IsTic(s.pkt)
    BY <1>0, <2>1, <2>2, AddInCalm
  <2>3. CASE ~IsTic(s.pkt)
    <3> DEFINE q == AddIn(r, s.pkt)
               from == [i \in 1 .. Len(q.inque) + 2 |-> i]
    <3>1. /\ q.inque = r.inque /\ q.uart = r.uart /\ q.receiving = r.receiving /\ Typed(q)
          /\ ~IsTic(q.partial.pkt) /\ Len(r.inque) \in Nat
      <4>1. SerialReceived(r, s) = q
        BY <1>1 DEF SerialReceived
      <4>2. Typed(q)
        BY <4>1, SerialReceivedType
      <4>. QED
        BY <2>3, <4>2, NoTic DEF AddIn, Typed, NodeState, Corrupt
    <3>2. \A i \in 1 .. Len(q.inque) + 2 : from[i] = i
      OBVIOUS
    <3>. HIDE DEF q, from
    <3>3. \A i \in 1 .. Len(q.inque) + 2 : IsTic(Incoming(q, i)) => Incoming(q, i) = Incoming(r, i)
      BY <3>1 DEF Incoming
    <3>4. \A i, j \in 1 .. Len(q.inque) + 2 : i < j => from[i] < from[j]
      BY <3>2
    <3>5. InCalm(r, q)
      BY <3>1, <3>2, <3>3, <3>4, InFrom DEF UartOK
    <3>. QED
      BY <1>0, <2>1, <3>5, AddInCalm DEF InCalm, q
  <2>. QED
    BY <2>2, <2>3
<1>2. CASE r.receiving /\ s.sym # "data"
  <2>1. Hear(r, s) = SerialReceived(r, s)
    BY <1>2 DEF Hear
  <2>. QED
    BY <1>2, <2>1, MarkCalm DEF Calm, InCalm
<1>3. CASE ~r.receiving /\ r.uart = Nothing
  <2> DEFINE q == [r EXCEPT !.uart = s]
  <2>1. /\ Hear(r, s) = q /\ q.inque = r.inque /\ q.partial = r.partial /\ q.uart = s
        /\ q.receiving = r.receiving /\ q.outque = r.outque /\ q.begun = r.begun /\ q.tx = r.tx
        /\ Len(r.inque) \in Nat
    BY <1>3 DEF Hear, Typed, NodeState
  <2>. HIDE DEF q
  <2>2. \A i \in 1 .. Len(r.inque) + 1 : Incoming(q, i) = Incoming(r, i) /\ i \in 1 .. Len(r.inque) + 2
    BY <2>1 DEF Incoming
  <2>3. Incoming(q, Len(r.inque) + 2) = s.pkt
    BY <2>1 DEF Incoming
  <2>4. \A i \in 1 .. Len(r.inque) + 2 : i \in 1 .. Len(r.inque) + 1 \/ i = Len(r.inque) + 2
    BY <2>1
  <2>5. InTics(q) \subseteq InTics(r) \cup {s.pkt}
    BY <2>1, <2>2, <2>3, <2>4 DEF InTics
  <2>6. ASSUME InRising(r), IsTic(s.pkt) => \A k \in InTics(r) : k.src = s.pkt.src => k.id < s.pkt.id
        PROVE  InRising(q)
    <3>. SUFFICES ASSUME NEW i \in 1 .. Len(r.inque) + 2, NEW j \in 1 .. Len(r.inque) + 2, i < j,
                         IsTic(Incoming(q, i)), IsTic(Incoming(q, j)), Incoming(q, i).src = Incoming(q, j).src
                  PROVE  Incoming(q, i).id < Incoming(q, j).id
      BY <2>1 DEF InRising
    <3>1. i \in 1 .. Len(r.inque) + 1
      BY <2>1
    <3>2. CASE j \in 1 .. Len(r.inque) + 1
      BY <2>2, <2>6, <3>1, <3>2 DEF InRising
    <3>3. CASE j = Len(r.inque) + 2
      <4>1. Incoming(q, i) \in InTics(r)
        BY <2>2, <3>1 DEF InTics
      <4>. QED
        BY <2>3, <2>6, <3>3, <4>1
    <3>. QED
      BY <2>4, <3>2, <3>3
  <2>7. OutCalm(r, q) /\ UartOK(q)
    BY <1>3, <2>1, SameOut DEF UartOK
  <2>. QED
    BY <2>1, <2>5, <2>6, <2>7
<1>4. CASE ~r.receiving /\ r.uart # Nothing
  BY <1>4, CalmReflexive DEF Hear, Calm, InCalm
<1>. QED
  BY <1>0, <1>1, <1>2, <1>3, <1>4

\* The game gets the packet that comes first.
LEMMA GetPacketCalm ==
  ASSUME NEW r, Typed(r), r.inque # <<>>, UartOK(r)
  PROVE  /\ Calm(r, GetPacket(r)) /\ (IsTic(Head(r.inque)) => Head(r.inque) \in InTics(r))
         /\ InRising(r) /\ IsTic(Head(r.inque)) =>
              \A p \in InTics(GetPacket(r)) : p.src = Head(r.inque).src => Head(r.inque).id < p.id
<1> DEFINE q == [r EXCEPT !.inque = Tail(@)]
           resumed == [q EXCEPT !.receiving = TRUE, !.uart = Nothing]
           first == Head(r.inque)
<1>0. /\ r.inque \in Seq(Packet) /\ Len(r.inque) \in Nat \ {0} /\ first = r.inque[1]
      /\ Len(Tail(r.inque)) = Len(r.inque) - 1 /\ Tail(r.inque) \in Seq(Packet)
      /\ \A i \in 1 .. Len(r.inque) - 1 : Tail(r.inque)[i] = r.inque[i + 1]
      /\ Nothing.pkt = NoPacket
  BY DEF Typed, NodeState, Nothing
<1>1. /\ Typed(q) /\ q.inque = Tail(r.inque) /\ q.partial = r.partial /\ q.uart = r.uart
      /\ q.receiving = r.receiving /\ q.outque = r.outque /\ q.begun = r.begun /\ q.tx = r.tx
  <2>1. Len(Tail(r.inque)) < QueueLen
    BY <1>0, QueueLenAssumption DEF Typed, Fits
  <2>. QED
    BY <1>0, <2>1 DEF Typed, NodeState, Fits
<1>2. GetPacket(r) = IF q.receiving THEN q ELSE SerialReceived(resumed, q.uart)
  BY DEF GetPacket, ResumeReceive
<1> HIDE DEF q
<1>3. /\ Typed(resumed) /\ resumed.inque = q.inque /\ resumed.partial = q.partial
      /\ resumed.uart = Nothing /\ resumed.outque = q.outque /\ resumed.begun = q.begun /\ resumed.tx = q.tx
      /\ q.uart \in Symbol \cup {Nothing}
  BY <1>1 DEF Typed, NodeState, Fits
<1> HIDE DEF resumed
\* The line is one shorter.
<1>4. \A i \in 1 .. Len(q.inque) + 2 : i + 1 \in 1 .. Len(r.inque) + 2 /\ Incoming(q, i) = Incoming(r, i + 1)
  <2>. SUFFICES ASSUME NEW i \in 1 .. Len(q.inque) + 2
                PROVE  i + 1 \in 1 .. Len(r.inque) + 2 /\ Incoming(q, i) = Incoming(r, i + 1)
    OBVIOUS
  <2>1. i + 1 \in 1 .. Len(r.inque) + 2
    BY <1>0, <1>1
  <2>2. CASE i \in 1 .. Len(r.inque) - 1
    BY <1>0, <1>1, <2>2 DEF Incoming
  <2>3. CASE i = Len(r.inque)
    BY <1>0, <1>1, <2>3 DEF Incoming
  <2>4. CASE i = Len(r.inque) + 1
    BY <1>0, <1>1, <2>4 DEF Incoming
  <2>. QED
    BY <1>0, <1>1, <2>1, <2>2, <2>3, <2>4
<1>5. Incoming(r, 1) = first
  BY <1>0 DEF Incoming
<1>6. IsTic(first) => first \in InTics(r)
  BY <1>0, <1>5 DEF InTics
<1>7. InRising(r) /\ IsTic(first) => \A p \in InTics(q) : p.src = first.src => first.id < p.id
  <2>. SUFFICES ASSUME InRising(r), IsTic(first), NEW i \in 1 .. Len(q.inque) + 2,
                       IsTic(Incoming(q, i)), Incoming(q, i).src = first.src
                PROVE  first.id < Incoming(q, i).id
    BY DEF InTics
  <2>1. i + 1 \in 1 .. Len(r.inque) + 2 /\ 1 \in 1 .. Len(r.inque) + 2 /\ 1 < i + 1
    BY <1>0, <1>4
  <2>. HIDE DEF first
  <2>. QED
    BY <1>4, <1>5, <2>1 DEF InRising
<1>8. Calm(r, q)
  <2> DEFINE from == [i \in 1 .. Len(q.inque) + 2 |-> i + 1]
  <2>1. \A i \in 1 .. Len(q.inque) + 2 : from[i] = i + 1
    OBVIOUS
  <2>. HIDE DEF from
  <2>2. \A i, j \in 1 .. Len(q.inque) + 2 : i < j => from[i] < from[j]
    BY <2>1
  <2>3. \A i \in 1 .. Len(q.inque) + 2 : IsTic(Incoming(q, i)) =>
          from[i] \in 1 .. Len(r.inque) + 2 /\ Incoming(q, i) = Incoming(r, from[i])
    BY <1>4, <2>1
  <2>4. UartOK(r) => UartOK(q)
    BY <1>1 DEF UartOK
  <2>5. \A i, j \in 1 .. Len(q.inque) + 2 :
          i < j /\ IsTic(Incoming(q, i)) /\ IsTic(Incoming(q, j)) => from[i] < from[j]
    BY <2>2
  <2>6. InCalm(r, q)
    BY <1>1, <2>3, <2>4, <2>5, InFrom
  <2>. QED
    BY <1>1, <2>6, SameOut DEF Calm
<1>9. Calm(q, SerialReceived(resumed, q.uart))
  <2>1. CASE q.uart.sym # "data"
    <3>1. Calm(resumed, SerialReceived(resumed, q.uart))
      BY <1>3, <2>1, MarkCalm
    <3> DEFINE from == [i \in 1 .. Len(resumed.inque) + 2 |-> i]
    <3>2. \A i \in 1 .. Len(resumed.inque) + 2 : from[i] = i
      OBVIOUS
    <3>. HIDE DEF from
    <3>3. \A i \in 1 .. Len(resumed.inque) + 2 : IsTic(Incoming(resumed, i)) => Incoming(resumed, i) = Incoming(q, i)
      BY <1>0, <1>3, NoTic DEF Incoming
    <3>4. \A i, j \in 1 .. Len(resumed.inque) + 2 : i < j => from[i] < from[j]
      BY <3>2
    <3>5. InCalm(q, resumed)
      <4>1. Typed(q) /\ Typed(resumed) /\ (UartOK(q) => UartOK(resumed))
        BY <1>1, <1>3 DEF UartOK
      <4>2. \A i \in 1 .. Len(resumed.inque) + 2 : IsTic(Incoming(resumed, i)) =>
              from[i] \in 1 .. Len(q.inque) + 2 /\ Incoming(resumed, i) = Incoming(q, from[i])
        BY <1>3, <3>2, <3>3
      <4>3. \A i, j \in 1 .. Len(resumed.inque) + 2 :
              i < j /\ IsTic(Incoming(resumed, i)) /\ IsTic(Incoming(resumed, j)) => from[i] < from[j]
        BY <3>4
      <4>. QED
        BY <4>1, <4>2, <4>3, InFrom
    <3>6. OutCalm(q, resumed)
      <4>1. resumed.outque = q.outque /\ resumed.begun = q.begun /\ resumed.tx = q.tx
        BY <1>3
      <4>. HIDE DEF resumed
      <4>. QED
        BY <4>1, SameOut
    <3>7. Calm(q, resumed)
      BY <3>5, <3>6 DEF Calm
    <3>. QED
      BY <3>1, <3>7, CalmTransitive
  <2>2. CASE q.uart.sym = "data"
    <3> DEFINE s == AddIn(resumed, q.uart.pkt)
               from == [i \in 1 .. Len(s.inque) + 2 |-> IF i = Len(s.inque) + 1 THEN i + 1 ELSE i]
    <3>1. SerialReceived(resumed, q.uart) = s /\ Typed(s)
      <4>1. SerialReceived(resumed, q.uart) = s
        BY <2>2 DEF SerialReceived
      <4>2. Typed(SerialReceived(resumed, q.uart))
        BY <1>3, SerialReceivedType
      <4>. QED
        BY <4>1, <4>2
    <3>2. /\ s.inque = q.inque /\ s.uart = Nothing /\ s.outque = q.outque /\ s.begun = q.begun /\ s.tx = q.tx
          /\ s.partial.pkt = q.uart.pkt \/ s.partial.pkt = NoPacket
          /\ Len(q.inque) \in Nat
      BY <1>0, <1>1, <1>3 DEF AddIn, Typed, NodeState, Corrupt
    <3>3. \A i \in 1 .. Len(s.inque) + 2 : from[i] = IF i = Len(s.inque) + 1 THEN i + 1 ELSE i
      OBVIOUS
    <3>. HIDE DEF s, from
    <3>4. ASSUME NEW i \in 1 .. Len(s.inque) + 2, IsTic(Incoming(s, i))
          PROVE  i # Len(s.inque) + 2 /\ from[i] \in 1 .. Len(q.inque) + 2 /\ Incoming(s, i) = Incoming(q, from[i])
      <4>1. CASE i \in 1 .. Len(s.inque)
        BY <3>2, <3>3, <4>1 DEF Incoming
      <4>2. CASE i = Len(s.inque) + 1
        <5>1. from[i] = Len(q.inque) + 2 /\ Incoming(q, from[i]) = q.uart.pkt
          BY <3>2, <3>3, <4>2 DEF Incoming
        <5>2. Incoming(s, i) = s.partial.pkt
          BY <3>2, <4>2 DEF Incoming
        <5>3. Incoming(s, i) = q.uart.pkt
          BY <3>2, <3>4, <5>2, NoTic
        <5>. QED
          BY <3>2, <4>2, <5>1, <5>3
      <4>3. CASE i = Len(s.inque) + 2
        <5>1. Incoming(s, i) = NoPacket
          BY <1>0, <3>2, <4>3 DEF Incoming
        <5>. QED
          BY <3>4, <5>1, NoTic
      <4>. QED
        BY <3>2, <4>1, <4>2, <4>3
    <3>5. \A i, j \in 1 .. Len(s.inque) + 2 :
            i < j /\ IsTic(Incoming(s, i)) /\ IsTic(Incoming(s, j)) => from[i] < from[j]
      BY <3>2, <3>3, <3>4
    <3>6. InCalm(q, s)
      BY <1>1, <3>1, <3>2, <3>4, <3>5, InFrom DEF UartOK
    <3>. QED
      BY <3>1, <3>2, <3>6, SameOut DEF Calm
  <2>. QED
    BY <2>1, <2>2
<1>10. Calm(q, GetPacket(r))
  BY <1>2, <1>9, CalmReflexive
<1>11. Calm(r, GetPacket(r))
  BY <1>8, <1>10, CalmTransitive
<1>12. InRising(r) /\ IsTic(first) => \A p \in InTics(GetPacket(r)) : p.src = first.src => first.id < p.id
  BY <1>7, <1>10 DEF Calm, InCalm
<1>. QED
  BY <1>6, <1>11, <1>12

\* The invariant: the lines of all nodes, and what the games have got, are in order.
TicsLine(nodes, counts, gots) ==
  /\ \A n \in Node : OutRising(nodes[n]) /\ InRising(nodes[n]) /\ UartOK(nodes[n])
  /\ \A n \in Node : \A p \in OutTics(nodes[n]) : p.src = n /\ p.id <= counts[n]
  /\ \A n \in Node : \A p \in InTics(nodes[n]) :
       /\ p.id <= counts[p.src]
       /\ \A q \in OutTics(nodes[p.src]) : p.id < q.id
  /\ \A n, m \in Node : \A k \in DOMAIN gots[n][m] :
       /\ gots[n][m][k] <= counts[m]
       /\ \A q \in OutTics(nodes[m]) : gots[n][m][k] < q.id
       /\ \A p \in InTics(nodes[n]) : p.src = m => gots[n][m][k] < p.id
       /\ \A l \in DOMAIN gots[n][m] : k < l => gots[n][m][k] < gots[n][m][l]
TicsInv == TicsLine(node, tics, got)

LEMMA InitTicsInv == Init => TicsInv
<1>. SUFFICES ASSUME Init PROVE TicsInv
  OBVIOUS
<1>1. ASSUME NEW n \in Node
      PROVE  /\ \A i \in 0 .. Len(node[n].outque) : ~IsTic(Outgoing(node[n], i))
             /\ \A i \in 1 .. Len(node[n].inque) + 2 : ~IsTic(Incoming(node[n], i))
             /\ UartOK(node[n])
  <2>1. /\ node[n].outque = <<>> /\ node[n].inque = <<>> /\ node[n].partial = NoBytes
        /\ node[n].tx = Nothing /\ node[n].uart = Nothing
    BY DEF Init
  <2>2. Nothing.pkt = NoPacket /\ NoBytes.pkt = NoPacket /\ Len(<<>>) = 0
    BY DEF Nothing, NoBytes
  <2>3. \A i \in 0 .. Len(node[n].outque) : Outgoing(node[n], i) = NoPacket
    BY <2>1, <2>2 DEF Outgoing
  <2>4. \A i \in 1 .. Len(node[n].inque) + 2 : Incoming(node[n], i) = NoPacket
    BY <2>1, <2>2 DEF Incoming
  <2>5. UartOK(node[n])
    BY <2>1 DEF UartOK
  <2>. QED
    BY <2>3, <2>4, <2>5, NoTic
<1>2. \A n \in Node : /\ OutRising(node[n]) /\ InRising(node[n]) /\ UartOK(node[n])
                      /\ \A p : p \notin OutTics(node[n]) /\ p \notin InTics(node[n])
  BY <1>1 DEF OutRising, InRising, OutTics, InTics
<1>3. \A n, m \in Node : DOMAIN got[n][m] = {}
  BY DEF Init
<1>. QED
  BY <1>2, <1>3 DEF TicsInv, TicsLine

LEMMA LineTypes ==
  ASSUME NEW r, Typed(r)
  PROVE  /\ OutTics(r) \subseteq Packet /\ InTics(r) \subseteq Packet
         /\ \A p \in OutTics(r) \cup InTics(r) : p.id \in Int /\ p.src \in Node
<1>1. \A i \in 0 .. Len(r.outque) : Outgoing(r, i) \in Packet
  <2>1. r.tx.pkt \in Packet
    BY MarksAreNoTics DEF Typed, NodeState
  <2>2. \A i \in 1 .. Len(r.outque) : r.outque[i] \in Packet
    BY DEF Typed, NodeState
  <2>3. Len(r.outque) \in Nat
    BY DEF Typed, NodeState
  <2>. QED
    BY <2>1, <2>2, <2>3, PacketFacts DEF Outgoing
<1>2. \A i \in 1 .. Len(r.inque) + 2 : Incoming(r, i) \in Packet
  <2>1. r.uart.pkt \in Packet
    BY MarksAreNoTics DEF Typed, NodeState
  <2>2. \A i \in 1 .. Len(r.inque) : r.inque[i] \in Packet
    BY DEF Typed, NodeState
  <2>3. Len(r.inque) \in Nat /\ r.partial.pkt \in Packet
    BY DEF Typed, NodeState, Partial
  <2>. QED
    BY <2>1, <2>2, <2>3 DEF Incoming
<1>3. OutTics(r) \subseteq Packet /\ InTics(r) \subseteq Packet
  BY <1>1, <1>2 DEF OutTics, InTics
<1>4. \A p \in Packet : p.id \in Int /\ p.src \in Node
  BY DEF Packet
<1>. QED
  BY <1>3, <1>4

Counts == [Node -> Nat]
Gots == [Node -> [Node -> Seq(0 .. MaxTics)]]
TypedNodes(nodes) == \A n \in Node : Typed(nodes[n])

\* A packet may come to the end of its sender's line, and any may leave.
LEMMA LineSend ==
  ASSUME NEW nodes, NEW next, TypedNodes(nodes), TypedNodes(next),
         NEW counts \in Counts, NEW more \in Counts, NEW gots \in Gots,
         TicsLine(nodes, counts, gots),
         \A n \in Node : counts[n] <= more[n] /\ InCalm(nodes[n], next[n]) /\ OutRising(next[n]),
         \A n \in Node : \A p \in OutTics(next[n]) :
           p \in OutTics(nodes[n]) \/ (p.src = n /\ counts[n] < p.id /\ p.id <= more[n])
  PROVE  TicsLine(next, more, gots)
<1>0. \A n \in Node : /\ counts[n] \in Int /\ more[n] \in Int
                      /\ \A p \in OutTics(nodes[n]) \cup InTics(nodes[n]) : p.id \in Int /\ p.src \in Node
                      /\ \A p \in OutTics(next[n]) \cup InTics(next[n]) : p.id \in Int /\ p.src \in Node
                      /\ \A m \in Node : \A k \in DOMAIN gots[n][m] : gots[n][m][k] \in Int
  <2>1. \A n \in Node : /\ \A p \in OutTics(nodes[n]) \cup InTics(nodes[n]) : p.id \in Int /\ p.src \in Node
                        /\ \A p \in OutTics(next[n]) \cup InTics(next[n]) : p.id \in Int /\ p.src \in Node
    BY LineTypes DEF TypedNodes
  <2>2. \A n, m \in Node : \A k \in DOMAIN gots[n][m] : gots[n][m][k] \in Int
    <3>. SUFFICES ASSUME NEW n \in Node, NEW m \in Node, NEW k \in DOMAIN gots[n][m]
                  PROVE  gots[n][m][k] \in Int
      OBVIOUS
    <3>1. gots[n][m] \in Seq(0 .. MaxTics)
      BY DEF Gots
    <3>. QED
      BY <3>1, BoundsAssumption
  <2>3. \A n \in Node : counts[n] \in Int /\ more[n] \in Int
    BY DEF Counts
  <2>. QED
    BY <2>1, <2>2, <2>3
<1>1. \A n \in Node : OutRising(next[n]) /\ InRising(next[n]) /\ UartOK(next[n])
  BY DEF TicsLine, InCalm
<1>2. \A n \in Node : \A p \in OutTics(next[n]) : p.src = n /\ p.id <= more[n]
  <2>. SUFFICES ASSUME NEW n \in Node, NEW p \in OutTics(next[n]) PROVE p.src = n /\ p.id <= more[n]
    OBVIOUS
  <2>1. CASE p \in OutTics(nodes[n])
    <3>1. p.src = n /\ p.id <= counts[n]
      BY <2>1 DEF TicsLine
    <3>. QED
      BY <1>0, <3>1
  <2>. QED
    BY <2>1
<1>3. \A n \in Node : \A p \in InTics(next[n]) :
        p.id <= more[p.src] /\ \A q \in OutTics(next[p.src]) : p.id < q.id
  <2>. SUFFICES ASSUME NEW n \in Node, NEW p \in InTics(next[n])
                PROVE  p.id <= more[p.src] /\ \A q \in OutTics(next[p.src]) : p.id < q.id
    OBVIOUS
  <2>1. p \in InTics(nodes[n]) /\ p.src \in Node /\ p.id \in Int
    BY <1>0 DEF InCalm
  <2>2. p.id <= counts[p.src] /\ \A q \in OutTics(nodes[p.src]) : p.id < q.id
    BY <2>1 DEF TicsLine
  <2>3. p.id <= more[p.src]
    BY <1>0, <2>1, <2>2
  <2>4. ASSUME NEW q \in OutTics(next[p.src]) PROVE p.id < q.id
    BY <1>0, <2>1, <2>2
  <2>. QED
    BY <2>3, <2>4
<1>4. \A n, m \in Node : \A k \in DOMAIN gots[n][m] :
        /\ gots[n][m][k] <= more[m]
        /\ \A q \in OutTics(next[m]) : gots[n][m][k] < q.id
        /\ \A p \in InTics(next[n]) : p.src = m => gots[n][m][k] < p.id
        /\ \A l \in DOMAIN gots[n][m] : k < l => gots[n][m][k] < gots[n][m][l]
  <2>. SUFFICES ASSUME NEW n \in Node, NEW m \in Node, NEW k \in DOMAIN gots[n][m]
                PROVE  /\ gots[n][m][k] <= more[m]
                       /\ \A q \in OutTics(next[m]) : gots[n][m][k] < q.id
                       /\ \A p \in InTics(next[n]) : p.src = m => gots[n][m][k] < p.id
                       /\ \A l \in DOMAIN gots[n][m] : k < l => gots[n][m][k] < gots[n][m][l]
    OBVIOUS
  <2>1. /\ gots[n][m][k] <= counts[m]
        /\ \A q \in OutTics(nodes[m]) : gots[n][m][k] < q.id
        /\ \A p \in InTics(nodes[n]) : p.src = m => gots[n][m][k] < p.id
        /\ \A l \in DOMAIN gots[n][m] : k < l => gots[n][m][k] < gots[n][m][l]
    BY DEF TicsLine
  <2>2. gots[n][m][k] <= more[m]
    BY <1>0, <2>1
  <2>3. ASSUME NEW q \in OutTics(next[m]) PROVE gots[n][m][k] < q.id
    BY <1>0, <2>1
  <2>4. ASSUME NEW p \in InTics(next[n]), p.src = m PROVE gots[n][m][k] < p.id
    <3>1. p \in InTics(nodes[n])
      BY DEF InCalm
    <3>. QED
      BY <2>1, <2>4, <3>1
  <2>. QED
    BY <2>1, <2>2, <2>3, <2>4
<1>. QED
  BY <1>1, <1>2, <1>3, <1>4 DEF TicsLine

\* A game gets the packet at the front of its line.
LEMMA LineGet ==
  ASSUME NEW nodes, NEW next, TypedNodes(nodes), TypedNodes(next),
         NEW counts \in Counts, NEW gots \in Gots, NEW more \in Gots, TicsLine(nodes, counts, gots),
         NEW n \in Node, NEW first \in Packet, IsTic(first) => first \in InTics(nodes[n]),
         \A m \in Node : Calm(nodes[m], next[m]),
         IsTic(first) => \A p \in InTics(next[n]) : p.src = first.src => first.id < p.id,
         more = IF first.len # Tic THEN gots ELSE [gots EXCEPT ![n][first.src] = Append(@, first.id)]
  PROVE  TicsLine(next, counts, more)
<1>0. TicsLine(next, counts, gots)
  <2>1. \A m \in Node : counts[m] <= counts[m]
    BY DEF Counts
  <2>2. \A m \in Node : InCalm(nodes[m], next[m]) /\ OutRising(next[m]) /\ OutTics(next[m]) \subseteq OutTics(nodes[m])
    BY DEF Calm, OutCalm, TicsLine
  <2>. QED
    BY <2>1, <2>2, LineSend
<1>1. CASE ~IsTic(first)
  BY <1>0, <1>1 DEF IsTic
<1>2. CASE IsTic(first)
  <2>1. first.src \in Node /\ first.id \in 0 .. MaxTics /\ first.len = Tic
    BY <1>2 DEF Packet, IsTic
  <2>2. /\ \A i, m \in Node : i # n \/ m # first.src => more[i][m] = gots[i][m]
        /\ more[n][first.src] = Append(gots[n][first.src], first.id)
    BY <2>1 DEF Gots
  <2>3. /\ gots[n][first.src] \in Seq(0 .. MaxTics) /\ Len(gots[n][first.src]) \in Nat
        /\ DOMAIN more[n][first.src] = 1 .. Len(gots[n][first.src]) + 1
        /\ DOMAIN gots[n][first.src] = 1 .. Len(gots[n][first.src])
        /\ more[n][first.src][Len(gots[n][first.src]) + 1] = first.id
        /\ \A k \in DOMAIN gots[n][first.src] : more[n][first.src][k] = gots[n][first.src][k]
    <3>1. gots[n][first.src] \in Seq(0 .. MaxTics)
      BY <2>1 DEF Gots
    <3>. QED
      BY <2>1, <2>2, <3>1
  <2>4. /\ first.id <= counts[first.src] /\ \A q \in OutTics(nodes[first.src]) : first.id < q.id
        /\ \A k \in DOMAIN gots[n][first.src] : gots[n][first.src][k] < first.id
    BY <1>2, <2>1 DEF TicsLine
  <2>5. \A q \in OutTics(next[first.src]) : first.id < q.id
    BY <2>1, <2>4 DEF Calm, OutCalm
  <2>6. ASSUME NEW i \in Node, NEW m \in Node, NEW k \in DOMAIN more[i][m]
        PROVE  /\ more[i][m][k] <= counts[m]
               /\ \A q \in OutTics(next[m]) : more[i][m][k] < q.id
               /\ \A p \in InTics(next[i]) : p.src = m => more[i][m][k] < p.id
               /\ \A l \in DOMAIN more[i][m] : k < l => more[i][m][k] < more[i][m][l]
    <3>1. CASE i # n \/ m # first.src
      <4>1. more[i][m] = gots[i][m] /\ k \in DOMAIN gots[i][m]
        BY <2>2, <3>1
      <4>2. TicsLine(next, counts, gots)
        BY <1>0
      <4>. QED
        BY <4>1, <4>2 DEF TicsLine
    <3>2. CASE i = n /\ m = first.src /\ k = Len(gots[n][first.src]) + 1
      <4>1. \A l \in DOMAIN more[i][m] : ~(k < l)
        BY <2>3, <3>2
      <4>2. more[i][m][k] = first.id
        BY <2>3, <3>2
      <4>. QED
        BY <1>2, <2>4, <2>5, <3>2, <4>1, <4>2
    <3>3. CASE i = n /\ m = first.src /\ k \in DOMAIN gots[n][first.src]
      <4>1. /\ gots[i][m][k] <= counts[m]
            /\ \A q \in OutTics(next[m]) : gots[i][m][k] < q.id
            /\ \A p \in InTics(next[i]) : p.src = m => gots[i][m][k] < p.id
            /\ \A l \in DOMAIN gots[i][m] : k < l => gots[i][m][k] < gots[i][m][l]
        BY <1>0, <3>3 DEF TicsLine
      <4>2. more[i][m][k] = gots[i][m][k]
        BY <2>3, <3>3
      <4>3. ASSUME NEW l \in DOMAIN more[i][m], k < l PROVE more[i][m][k] < more[i][m][l]
        <5>1. CASE l \in DOMAIN gots[i][m]
          BY <2>3, <3>3, <4>1, <4>2, <4>3, <5>1
        <5>2. CASE l = Len(gots[n][first.src]) + 1
          BY <2>3, <2>4, <3>3, <4>2, <5>2
        <5>. QED
          BY <2>3, <3>3, <5>1, <5>2
      <4>. QED
        BY <4>1, <4>2, <4>3
    <3>4. CASE i = n /\ m = first.src
      <4>1. k \in DOMAIN gots[n][first.src] \/ k = Len(gots[n][first.src]) + 1
        BY <2>3, <3>4
      <4>. QED
        BY <3>2, <3>3, <3>4, <4>1
    <3>. QED
      BY <3>1, <3>4
  <2>. QED
    BY <1>0, <2>6 DEF TicsLine
<1>. QED
  BY <1>1, <1>2

\* The packet that n has sent moves to the lines of those that hear it.
LEMMA LineSent ==
  ASSUME NEW nodes, NEW next, TypedNodes(nodes), TypedNodes(next),
         NEW counts \in Counts, NEW gots \in Gots, TicsLine(nodes, counts, gots),
         NEW n \in Node, next[n] = SerialMoreTXData(nodes[n]),
         \A m \in Node \ {n} : next[m] \in {nodes[m], Hear(nodes[m], nodes[n].tx)}
  PROVE  TicsLine(next, counts, gots)
<1> DEFINE sent == nodes[n].tx.pkt
<1>0. /\ nodes[n].tx \in Symbol \cup {Nothing} /\ nodes[n].outque \in Seq(Packet) /\ Len(nodes[n].outque) \in Nat
      /\ sent \in Packet
  BY MarksAreNoTics DEF TypedNodes, Typed, NodeState
\* What is true of a packet while it is sent, and of what follows it.
<1>1. /\ OutCalm(nodes[n], next[n]) /\ InCalm(nodes[n], next[n])
      /\ OutTics(next[n]) \subseteq WaitingTics(nodes[n])
  BY SerialMoreTXDataCalm DEF TypedNodes, Calm
<1>2. IsTic(sent) => sent \in OutTics(nodes[n])
  BY <1>0 DEF OutTics, Outgoing
<1>3. IsTic(sent) => \A q \in OutTics(next[n]) : sent.id < q.id
  <2>. SUFFICES ASSUME IsTic(sent), NEW q \in OutTics(next[n]) PROVE sent.id < q.id
    OBVIOUS
  <2>1. PICK i \in 1 .. Len(nodes[n].outque) : q = Outgoing(nodes[n], i) /\ IsTic(q)
    BY <1>1 DEF WaitingTics
  <2>2. Outgoing(nodes[n], 0) = sent /\ 0 \in 0 .. Len(nodes[n].outque) /\ i \in 0 .. Len(nodes[n].outque) /\ 0 < i
    BY <1>0 DEF Outgoing
  <2>3. OutRising(nodes[n])
    BY DEF TicsLine
  <2>. QED
    BY <2>1, <2>2, <2>3 DEF OutRising
<1>4. IsTic(sent) => /\ sent.src = n /\ sent.id <= counts[n]
                     /\ \A m \in Node : \A p \in InTics(nodes[m]) : p.src = n => p.id < sent.id
                     /\ \A m \in Node : \A k \in DOMAIN gots[m][n] : gots[m][n][k] < sent.id
  BY <1>2 DEF TicsLine
\* What every node does.
<1>5. ASSUME NEW m \in Node
      PROVE  /\ OutCalm(nodes[m], next[m]) /\ UartOK(next[m]) /\ InRising(next[m])
             /\ InTics(next[m]) \subseteq InTics(nodes[m]) \cup {sent}
             /\ m = n => InTics(next[m]) \subseteq InTics(nodes[m])
  <2>1. InRising(nodes[m]) /\ UartOK(nodes[m]) /\ Typed(nodes[m])
    BY DEF TicsLine, TypedNodes
  <2>2. CASE m = n
    BY <1>1, <2>1, <2>2 DEF InCalm
  <2>3. CASE m # n /\ next[m] = nodes[m]
    BY <2>1, <2>3, CalmReflexive DEF Calm
  <2>4. CASE m # n /\ next[m] = Hear(nodes[m], nodes[n].tx)
    <3>1. IsTic(sent) => \A q \in InTics(nodes[m]) : q.src = sent.src => q.id < sent.id
      BY <1>4
    <3>. QED
      BY <1>0, <2>1, <2>4, <3>1, HearCalm
  <2>. QED
    BY <2>2, <2>3, <2>4
<1>6. \A m \in Node : OutTics(next[m]) \subseteq OutTics(nodes[m]) /\ OutRising(next[m])
  BY <1>5 DEF OutCalm, TicsLine
<1>7. \A m \in Node : \A p \in InTics(next[m]) : IsTic(p)
  BY DEF InTics
<1>8. ASSUME NEW m \in Node, NEW p \in InTics(next[m])
      PROVE  p.id <= counts[p.src] /\ \A q \in OutTics(next[p.src]) : p.id < q.id
  <2>1. CASE p \in InTics(nodes[m])
    <3>1. p.src \in Node
      BY <2>1, LineTypes DEF TypedNodes
    <3>. QED
      BY <1>6, <2>1, <3>1 DEF TicsLine
  <2>2. CASE p = sent
    BY <1>3, <1>4, <1>7, <2>2
  <2>. QED
    BY <1>5, <2>1, <2>2
<1>9. ASSUME NEW m \in Node, NEW o \in Node, NEW k \in DOMAIN gots[m][o]
      PROVE  /\ gots[m][o][k] <= counts[o]
             /\ \A q \in OutTics(next[o]) : gots[m][o][k] < q.id
             /\ \A p \in InTics(next[m]) : p.src = o => gots[m][o][k] < p.id
             /\ \A l \in DOMAIN gots[m][o] : k < l => gots[m][o][k] < gots[m][o][l]
  <2>1. /\ gots[m][o][k] <= counts[o]
        /\ \A q \in OutTics(nodes[o]) : gots[m][o][k] < q.id
        /\ \A p \in InTics(nodes[m]) : p.src = o => gots[m][o][k] < p.id
        /\ \A l \in DOMAIN gots[m][o] : k < l => gots[m][o][k] < gots[m][o][l]
    BY DEF TicsLine
  <2>2. \A p \in InTics(next[m]) : p.src = o => gots[m][o][k] < p.id
    BY <1>4, <1>5, <1>7, <2>1
  <2>. QED
    BY <1>6, <2>1, <2>2
<1>10. \A m \in Node : \A p \in OutTics(next[m]) : p.src = m /\ p.id <= counts[m]
  BY <1>6 DEF TicsLine
<1>. QED
  BY <1>5, <1>6, <1>8, <1>9, <1>10 DEF TicsLine

\* What the game of n hands on comes after all it has handed on before.
LEMMA LineHandOn ==
  ASSUME NEW nodes, TypedNodes(nodes), NEW counts \in Counts, NEW gots \in Gots,
         TicsLine(nodes, counts, gots), NEW n \in Node, NEW r, Typed(r), Calm(nodes[n], r),
         NEW pkt \in Packet, IsTic(pkt) => pkt.src = n /\ pkt.id = counts[n] + 1,
         NEW more, more = IF pkt.len = Tic THEN [counts EXCEPT ![n] = @ + 1] ELSE counts,
         NEW next, next[n] = HandOn(r, pkt), \A m \in Node \ {n} : next[m] = nodes[m]
  PROVE  TicsLine(next, more, gots) /\ TypedNodes(next) /\ more \in Counts
<1>1. more \in Counts /\ \A m \in Node : counts[m] <= more[m] /\ counts[m] \in Nat
  BY DEF Counts
<1>2. TypedNodes(next)
  BY HandOnType DEF TypedNodes
<1>3. OutRising(nodes[n]) /\ \A p \in OutTics(nodes[n]) : p.src = n /\ p.id <= counts[n] /\ p.id \in Int
  BY LineTypes DEF TicsLine, TypedNodes
<1>4. OutRising(r) /\ \A p \in OutTics(r) : p \in OutTics(nodes[n]) /\ p.id <= counts[n] /\ p.id \in Int
  BY <1>3 DEF Calm, OutCalm
<1>5. IsTic(pkt) => counts[n] < pkt.id /\ pkt.id <= more[n] /\ \A p \in OutTics(r) : p.id < pkt.id
  BY <1>1, <1>4 DEF IsTic, Counts
<1>6. OutRising(next[n])
  BY <1>4, <1>5, HandOnCalm
<1>7. InCalm(nodes[n], next[n])
  BY HandOnCalm DEF Calm, InCalm
<1>8. \A p \in OutTics(next[n]) : p \in OutTics(nodes[n]) \/ (p.src = n /\ counts[n] < p.id /\ p.id <= more[n])
  <2>1. CASE IsTic(pkt)
    BY <1>4, <1>5, <2>1, HandOnCalm
  <2>2. CASE ~IsTic(pkt)
    BY <1>4, <2>2, HandOnCalm
  <2>. QED
    BY <2>1, <2>2
<1>9. \A m \in Node \ {n} : InCalm(nodes[m], next[m]) /\ OutRising(next[m]) /\ next[m] = nodes[m]
  BY CalmReflexive DEF Calm, TicsLine
<1>10. \A m \in Node : counts[m] <= more[m] /\ InCalm(nodes[m], next[m]) /\ OutRising(next[m])
  BY <1>1, <1>6, <1>7, <1>9
<1>11. \A m \in Node : \A p \in OutTics(next[m]) :
         p \in OutTics(nodes[m]) \/ (p.src = m /\ counts[m] < p.id /\ p.id <= more[m])
  BY <1>8, <1>9
<1>12. more \in Counts
  BY <1>1
<1>13. \A m \in Node : counts[m] <= more[m] /\ InCalm(nodes[m], next[m]) /\ OutRising(next[m])
  BY <1>10
<1>14. TicsLine(next, more, gots)
  BY ONLY TypedNodes(nodes), counts \in Counts, gots \in Gots, TicsLine(nodes, counts, gots),
          <1>2, <1>11, <1>12, <1>13, LineSend
<1>. QED
  BY <1>1, <1>2, <1>14

LEMMA TypeOKLine == TypeOK => TypedNodes(node) /\ tics \in Counts /\ got \in Gots
<1>1. \A k \in 0 .. MaxTics : k \in Nat
  BY BoundsAssumption
<1>. QED
  BY <1>1, TypeOKByNode DEF TypedNodes, Counts, Gots

LEMMA HandedOnTic ==
  ASSUME NEW n \in Node, NEW pkt \in HandedOn(n), IsTic(pkt)
  PROVE  pkt.src = n /\ pkt.id = tics[n] + 1
<1>1. pkt # NoPacket
  BY NoTic
<1>. QED
  BY <1>1 DEF HandedOn, IsTic, Tic, Flood

LEMMA CmdSendTics ==
  ASSUME TypeOK, TypeOK', TicsInv, NEW n \in Node, NEW pkt \in HandedOn(n), CmdSend(n, pkt)
  PROVE  TicsInv'
<1>1. TypedNodes(node) /\ tics \in Counts /\ got \in Gots /\ Typed(node[n])
  BY TypeOKLine, TypeOKByNode
<1>2. pkt \in Packet
  BY HandedOnType DEF TypeOK
<1>3. Typed(CheckTimeout(node[n])) /\ Calm(node[n], CheckTimeout(node[n]))
  BY <1>1, CheckTimeoutType, CheckTimeoutCalm
<1>4. /\ node'[n] = HandOn(CheckTimeout(node[n]), pkt) /\ \A m \in Node \ {n} : node'[m] = node[m]
      /\ tics' = IF pkt.len = Tic THEN [tics EXCEPT ![n] = @ + 1] ELSE tics
      /\ got' = got
  BY DEF CmdSend, CountTics, TypeOK
<1>5. TicsLine(node', tics', got)
  BY <1>1, <1>2, <1>3, <1>4, HandedOnTic, LineHandOn DEF TicsInv
<1>. QED
  BY <1>4, <1>5 DEF TicsInv

LEMMA CmdGetTics ==
  ASSUME TypeOK, TypeOK', TicsInv, NEW n \in Node, NEW pkt \in HandedOn(n), CmdGet(n, pkt)
  PROVE  TicsInv'
<1> DEFINE r == HandOn(node[n], pkt)
           sent == [node EXCEPT ![n] = r]
<1>1. TypedNodes(node) /\ tics \in Counts /\ got \in Gots /\ got' \in Gots /\ TypedNodes(node')
      /\ Typed(node[n]) /\ Calm(node[n], node[n])
  <2>1. got' \in Gots /\ TypedNodes(node')
    <3>1. \A k \in 0 .. MaxTics : k \in Nat
      BY BoundsAssumption
    <3>. QED
      BY <3>1 DEF TypeOK, TypedNodes, Gots, Typed, Fits
  <2>. QED
    BY <2>1, TypeOKLine, TypeOKByNode, CalmReflexive
<1>2. pkt \in Packet
  BY HandedOnType DEF TypeOK
<1>3. sent[n] = r /\ \A m \in Node \ {n} : sent[m] = node[m]
  BY DEF TypeOK
<1>4. tics' = IF pkt.len = Tic THEN [tics EXCEPT ![n] = @ + 1] ELSE tics
  BY DEF CmdGet, CountTics
<1> HIDE DEF r, sent
<1>5. TicsLine(sent, tics', got) /\ TypedNodes(sent) /\ tics' \in Counts
  <2>1. sent[n] = HandOn(node[n], pkt)
    BY <1>3 DEF r
  <2>. QED
    BY <1>1, <1>2, <1>3, <1>4, <2>1, HandedOnTic, LineHandOn DEF TicsInv
<1>6. CASE r.inque = <<>>
  BY <1>5, <1>6 DEF CmdGet, TicsInv, r, sent
<1>7. CASE r.inque # <<>>
  <2> DEFINE new == Head(r.inque)
  <2>1. Typed(r) /\ UartOK(r) /\ new \in Packet
    <3>1. Typed(r) /\ UartOK(r)
      BY <1>3, <1>5 DEF TypedNodes, TicsLine
    <3>. QED
      BY <1>7, <3>1 DEF Typed, NodeState
  <2>2. /\ node'[n] = GetPacket(r) /\ \A m \in Node \ {n} : node'[m] = sent[m]
        /\ got' = IF new.len # Tic THEN got ELSE [got EXCEPT ![n][new.src] = Append(@, new.id)]
    <3>1. /\ node' = [node EXCEPT ![n] = GetPacket(r)]
          /\ got' = IF new.len # Tic THEN got ELSE [got EXCEPT ![n][new.src] = Append(@, new.id)]
      BY <1>7 DEF CmdGet, r
    <3>. QED
      BY <1>3, <3>1 DEF TypeOK
  <2> HIDE DEF new
  <2>3. /\ IsTic(new) => new \in InTics(sent[n])
        /\ Calm(sent[n], node'[n])
        /\ IsTic(new) => \A p \in InTics(node'[n]) : p.src = new.src => new.id < p.id
    <3>1. InRising(r)
      BY <1>3, <1>5 DEF TicsLine
    <3>. QED
      BY <1>3, <1>7, <2>1, <2>2, <3>1, GetPacketCalm DEF new
  <2>4. \A m \in Node : Calm(sent[m], node'[m])
    BY <2>2, <2>3, CalmReflexive
  <2>. QED
    BY <1>1, <1>5, <2>1, <2>2, <2>3, <2>4, LineGet DEF TicsInv
<1>. QED
  BY <1>6, <1>7

LEMMA TxISRTics ==
  ASSUME TypeOK, TypeOK', TicsInv, NEW n \in Node, NEW lost \in SUBSET (Node \ {n}), TxISR(n, lost)
  PROVE  TicsInv'
<1>1. TypedNodes(node) /\ tics \in Counts /\ got \in Gots /\ TypedNodes(node')
  BY TypeOKLine DEF TypeOK, TypedNodes, Typed, Fits
<1>2. /\ node'[n] = SerialMoreTXData(node[n])
      /\ \A m \in Node \ {n} : node'[m] \in {node[m], Hear(node[m], node[n].tx)}
      /\ tics' = tics /\ got' = got
  BY DEF TxISR
<1>. QED
  BY <1>1, <1>2, LineSent DEF TicsInv

LEMMA ExpireTics ==
  ASSUME TypeOK, TypeOK', TicsInv, Expire
  PROVE  TicsInv'
<1>1. TypedNodes(node) /\ tics \in Counts /\ got \in Gots /\ TypedNodes(node') /\ Typed(node[0]) /\ 0 \in Node
  BY TypeOKLine, NodeFacts DEF TypeOK, TypedNodes, Typed, Fits
<1>2. node'[0] = [node[0] EXCEPT !.expired = TRUE] /\ \A m \in Node \ {0} : node'[m] = node[m]
  BY <1>1 DEF Expire, TypeOK
<1>3. Calm(node[0], node'[0])
  <2>1. /\ node'[0].outque = node[0].outque /\ node'[0].begun = node[0].begun /\ node'[0].tx = node[0].tx
        /\ node'[0].inque = node[0].inque /\ node'[0].partial = node[0].partial
        /\ node'[0].uart = node[0].uart /\ node'[0].receiving = node[0].receiving
    BY <1>1, <1>2 DEF Typed, NodeState
  <2>. QED
    BY <2>1, SameIn, SameOut DEF Calm
<1>4. \A m \in Node : Calm(node[m], node'[m])
  BY <1>2, <1>3, CalmReflexive
<1>5. \A m \in Node : tics[m] <= tics[m] /\ InCalm(node[m], node'[m]) /\ OutRising(node'[m])
  BY <1>1, <1>4 DEF Calm, OutCalm, TicsInv, TicsLine, Counts
<1>6. \A m \in Node : \A p \in OutTics(node'[m]) : p \in OutTics(node[m])
  BY <1>4 DEF Calm, OutCalm
<1>7. TicsLine(node', tics, got)
  BY <1>1, <1>5, <1>6, LineSend DEF TicsInv
<1>. QED
  BY <1>7 DEF Expire, TicsInv

LEMMA NextTicsInv == TypeOK /\ TypeOK' /\ TicsInv /\ [Next]_vars => TicsInv'
<1> SUFFICES ASSUME TypeOK, TypeOK', TicsInv, [Next]_vars PROVE TicsInv'
  OBVIOUS
<1>1. CASE UNCHANGED vars
  BY <1>1 DEF vars, TicsInv
<1>2. ASSUME NEW n \in Node, NEW pkt \in HandedOn(n), CmdSend(n, pkt) PROVE TicsInv'
  BY <1>2, CmdSendTics
<1>3. ASSUME NEW n \in Node, NEW pkt \in HandedOn(n), CmdGet(n, pkt) PROVE TicsInv'
  BY <1>3, CmdGetTics
<1>4. ASSUME NEW n \in Node, NEW lost \in SUBSET (Node \ {n}), TxISR(n, lost) PROVE TicsInv'
  BY <1>4, TxISRTics
<1>5. CASE Expire
  BY <1>5, ExpireTics
<1>. QED
  BY <1>1, <1>2, <1>3, <1>4, <1>5 DEF Next

\* No loss, full queue, stopped receiver or second transmitter makes a game get
\* another's tics out of order or twice: no call changes the order of a line.
THEOREM TicsStayInOrder == Spec => []TicsInOrder
<1>1. TicsInv => TicsInOrder
  BY DEF TicsInv, TicsLine, TicsInOrder
<1>. QED
  BY <1>1, InitTicsInv, NextTicsInv, SirTypeCorrect, PTL DEF Spec

-----------------------------------------------------------------------------
(***************************************************************************)
(* The flood.  A packet with tics keeps its place in the queue until       *)
(* JumpStart or the ISR has begun to send it, and JumpStart does nothing   *)
(* more in a call that has made the node transmit.                         *)
(***************************************************************************)
Undisturbed(r, s) ==
  /\ s.begun = r.begun
  /\ \A i \in DOMAIN r.outque : r.outque[i].len = Tic =>
       i \in DOMAIN s.outque /\ s.outque[i] = r.outque[i]

Survive(r, s) ==
  \A i \in DOMAIN r.outque : r.outque[i].len = Tic =>
    (\E j \in DOMAIN s.outque : s.outque[j] = r.outque[i]) \/ (i = 1 /\ r.begun)

Floodproof(r, s) == Undisturbed(r, s) \/ (s.tx # Nothing /\ Survive(r, s))

LEMMA FloodproofSurvive == ASSUME NEW r, NEW s, Floodproof(r, s) PROVE Survive(r, s)
BY DEF Floodproof, Undisturbed, Survive

LEMMA FloodproofThen ==
  ASSUME NEW q, NEW r, NEW s, Floodproof(q, r), Undisturbed(r, s), s.tx = r.tx
  PROVE  Floodproof(q, s)
<1>1. CASE Undisturbed(q, r)
  BY <1>1 DEF Floodproof, Undisturbed
<1>2. CASE r.tx # Nothing /\ Survive(q, r)
  <2>1. Survive(q, s)
    BY <1>2 DEF Survive, Undisturbed
  <2>. QED
    BY <1>2, <2>1 DEF Floodproof
<1>. QED
  BY <1>1, <1>2 DEF Floodproof

LEMMA SymbolsAreSomething ==
  /\ End # Nothing /\ \A pkt : Data(pkt) # Nothing /\ \A n : Handoff(n) # Nothing
<1>1. Nothing.sym = "nothing" /\ End.sym = "end" /\ \A x : Data(x).sym = "data" /\ Handoff(x).sym = "handoff"
  BY DEF Nothing, End, Data, Handoff
<1>. QED
  BY <1>1

LEMMA SerialMoreTXDataFlood ==
  ASSUME NEW q, NEW r, Typed(r), Undisturbed(q, r), Typed(q)
  PROVE  Floodproof(q, SerialMoreTXData(r))
<1> DEFINE s == SerialMoreTXData(r)
<1>0. r.outque \in Seq(Packet) /\ q.outque \in Seq(Packet)
  BY DEF Typed, NodeState
<1>1. CASE r.state = "WAIT" \/ r.outque = <<>>
  <2>1. s.outque = r.outque /\ s.begun = r.begun
    BY <1>1 DEF SerialMoreTXData, Typed, NodeState
  <2>. QED
    BY <2>1 DEF Undisturbed, Floodproof
<1>2. CASE r.state # "WAIT" /\ r.outque # <<>> /\ Head(r.outque).len # Empty /\ ~r.begun
  <2>1. s.outque = r.outque /\ s.tx = Data(Head(r.outque))
    BY <1>2 DEF SerialMoreTXData, Typed, NodeState
  <2>. QED
    BY <2>1, SymbolsAreSomething DEF Undisturbed, Floodproof, Survive
<1>3. CASE r.state # "WAIT" /\ r.outque # <<>> /\ ~(Head(r.outque).len # Empty /\ ~r.begun)
  <2> DEFINE done == [r EXCEPT !.outque = Tail(@), !.begun = FALSE]
             last == [done EXCEPT !.tx = Handoff((r.player + 1) % N), !.state = "WAIT"]
             end == [done EXCEPT !.tx = End]
  <2>1. s \in {last, end}
    BY <1>3 DEF SerialMoreTXData
  <2>2. last.outque = Tail(r.outque) /\ last.tx = Handoff((r.player + 1) % N)
    BY DEF Typed, NodeState
  <2>3. end.outque = Tail(r.outque) /\ end.tx = End
    BY DEF Typed, NodeState
  <2> HIDE DEF s, last, end
  <2>4. s.outque = Tail(r.outque) /\ s.tx # Nothing
    BY <2>1, <2>2, <2>3, SymbolsAreSomething
  <2>5. ASSUME NEW i \in DOMAIN q.outque, q.outque[i].len = Tic, ~(i = 1 /\ q.begun)
        PROVE  \E j \in DOMAIN s.outque : s.outque[j] = q.outque[i]
    <3>1. i \in 1 .. Len(r.outque) /\ r.outque[i] = q.outque[i]
      BY <1>0, <2>5 DEF Undisturbed
    <3>2. i # 1
      <4>1. Empty # Tic
        BY DEF Empty, Tic
      <4>2. CASE r.begun
        BY <2>5, <4>2 DEF Undisturbed
      <4>3. CASE Head(r.outque).len = Empty
        BY <1>0, <1>3, <2>5, <3>1, <4>1, <4>3
      <4>. QED
        BY <1>3, <4>2, <4>3
    <3>3. i - 1 \in DOMAIN Tail(r.outque) /\ Tail(r.outque)[i - 1] = r.outque[i]
      BY <1>0, <1>3, <3>1, <3>2
    <3>. QED
      BY <2>4, <3>1, <3>3
  <2>. QED
    BY <2>4, <2>5 DEF Floodproof, Survive, s
<1>. QED
  BY <1>1, <1>2, <1>3

LEMMA JumpStartFlood ==
  ASSUME NEW q, Typed(q), NEW r, Typed(r), Floodproof(q, r)
  PROVE  Floodproof(q, JumpStart(r))
BY SerialMoreTXDataFlood DEF JumpStart, Floodproof

LEMMA CheckTimeoutFlood == ASSUME NEW r, Typed(r) PROVE Floodproof(r, CheckTimeout(r))
<1> DEFINE q == [r EXCEPT !.state = "TRANSMIT", !.expired = FALSE]
<1>1. Typed(q) /\ q.outque = r.outque /\ q.begun = r.begun
  BY DEF Typed, NodeState, Fits
<1>2. CheckTimeout(r) = IF TimedOut(r) THEN JumpStart(q) ELSE r
  BY DEF CheckTimeout
<1> HIDE DEF q
<1>3. Floodproof(r, q) /\ Floodproof(r, r)
  BY <1>1 DEF Floodproof, Undisturbed
<1>. QED
  BY <1>1, <1>2, <1>3, JumpStartFlood

LEMMA HandOnFlood ==
  ASSUME NEW q, Typed(q), NEW r, Typed(r), Floodproof(q, r), NEW pkt \in Packet
  PROVE  Floodproof(q, HandOn(r, pkt))
<1>0. r.outque \in Seq(Packet) /\ Len(r.outque) < QueueLen /\ \A i \in DOMAIN r.outque : i \in 1 .. Len(r.outque)
  BY DEF Typed, NodeState, Fits
<1>1. ASSUME NEW queue \in Seq(Packet), Len(queue) < QueueLen, Len(r.outque) <= Len(queue),
             \A i \in 1 .. Len(r.outque) : r.outque[i].len = Tic => queue[i] = r.outque[i]
      PROVE  Floodproof(q, JumpStart([r EXCEPT !.outque = queue]))
  <2> DEFINE s == [r EXCEPT !.outque = queue]
  <2>1. Typed(s) /\ s.outque = queue /\ s.begun = r.begun /\ s.tx = r.tx
    BY <1>1 DEF Typed, NodeState, Fits
  <2> HIDE DEF s
  <2>2. \A i \in 1 .. Len(r.outque) : i \in DOMAIN queue
    BY <1>0, <1>1
  <2>3. Undisturbed(r, s)
    BY <1>0, <1>1, <2>1, <2>2 DEF Undisturbed
  <2>4. Floodproof(q, s)
    BY <2>1, <2>3, FloodproofThen
  <2>. QED
    BY <2>1, <2>4, JumpStartFlood DEF s
<1>2. CASE pkt = NoPacket
  BY <1>2 DEF HandOn
<1>3. CASE pkt # NoPacket /\ ~IsFull(r.outque)
  <2>1. /\ Append(r.outque, pkt) \in Seq(Packet) /\ Len(Append(r.outque, pkt)) < QueueLen
        /\ Len(r.outque) <= Len(Append(r.outque, pkt))
        /\ \A i \in 1 .. Len(r.outque) : Append(r.outque, pkt)[i] = r.outque[i]
    BY <1>0, <1>3, QueueLenAssumption DEF IsFull
  <2>2. HandOn(r, pkt) = JumpStart([r EXCEPT !.outque = Append(r.outque, pkt)])
    BY <1>3 DEF HandOn, SendPacket
  <2>. QED
    BY <1>1, <2>1, <2>2
<1>4. CASE pkt # NoPacket /\ IsFull(r.outque)
  <2> DEFINE last == Len(r.outque)
             queue == [r.outque EXCEPT ![last] = pkt]
  <2>0. last \in 1 .. last
    BY <1>0, <1>4, QueueLenAssumption DEF IsFull
  <2>1. CASE pkt.len > r.outque[last].len
    <3>1. r.outque[last].len # Tic
      BY <1>0, <2>0, <2>1 DEF Packet, Empty, Flood, Tic
    <3>2. queue \in Seq(Packet) /\ Len(queue) = Len(r.outque)
      BY <1>0, <2>0, ExceptSeq
    <3>3. \A i \in 1 .. Len(r.outque) : r.outque[i].len = Tic => queue[i] = r.outque[i]
      BY <1>0, <3>1
    <3>4. HandOn(r, pkt) = JumpStart([r EXCEPT !.outque = queue])
      <4>1. [r EXCEPT !.outque[Len(r.outque)] = pkt] = [r EXCEPT !.outque = queue]
        BY DEF NodeState, Typed
      <4>. QED
        BY <1>4, <2>1, <4>1 DEF HandOn, SendPacket
    <3> HIDE DEF queue
    <3>. QED
      BY <1>0, <1>1, <3>2, <3>3, <3>4
  <2>2. CASE ~(pkt.len > r.outque[last].len)
    BY <1>4, <2>2 DEF HandOn, SendPacket
  <2>. QED
    BY <2>1, <2>2
<1>. QED
  BY <1>2, <1>3, <1>4

LEMMA ReceivedHandoffFlood ==
  ASSUME NEW q, Typed(q), NEW r, Typed(r), Floodproof(q, r)
  PROVE  Floodproof(q, ReceivedHandoff(r))
<1> DEFINE queue == IF r.outque = <<>> THEN <<NoPacket>> ELSE r.outque
           s == [r EXCEPT !.state = "TRANSMIT", !.expired = FALSE, !.outque = queue]
<1>1. queue \in Seq(Packet) /\ Len(queue) < QueueLen
  BY PacketFacts, QueueLenAssumption DEF NodeState, Typed, Fits
<1>2. ReceivedHandoff(r) = IF r.state # "WAIT" THEN r ELSE JumpStart(s)
  BY DEF ReceivedHandoff
<1> HIDE DEF queue
<1>3. Typed(s) /\ s.outque = queue /\ s.begun = r.begun /\ s.tx = r.tx
  BY <1>1 DEF Typed, NodeState, Fits
<1> HIDE DEF s
<1>4. Undisturbed(r, s)
  <2>1. r.outque = <<>> => DOMAIN r.outque = {}
    OBVIOUS
  <2>. QED
    BY <1>3, <2>1 DEF Undisturbed, queue
<1>5. Floodproof(q, s)
  BY <1>3, <1>4, FloodproofThen
<1>. QED
  BY <1>2, <1>3, <1>5, JumpStartFlood

LEMMA SerialReceivedFlood ==
  ASSUME NEW q, Typed(q), NEW r, Typed(r), Floodproof(q, r), NEW s \in Symbol \cup {Nothing}
  PROVE  Floodproof(q, SerialReceived(r, s))
<1>1. Floodproof(q, AddIn(r, s.pkt))
  <2>1. /\ AddIn(r, s.pkt).outque = r.outque /\ AddIn(r, s.pkt).begun = r.begun
        /\ AddIn(r, s.pkt).tx = r.tx
    BY DEF AddIn, Typed, NodeState
  <2>2. Undisturbed(r, AddIn(r, s.pkt))
    BY <2>1 DEF Undisturbed
  <2>. QED
    BY <2>1, <2>2, FloodproofThen
<1>2. Floodproof(q, PacketReceived(r)) /\ Typed(PacketReceived(r))
  <2>1. /\ PacketReceived(r).outque = r.outque /\ PacketReceived(r).begun = r.begun
        /\ PacketReceived(r).tx = r.tx
    BY DEF PacketReceived, Typed, NodeState
  <2>2. Undisturbed(r, PacketReceived(r))
    BY <2>1 DEF Undisturbed
  <2>. QED
    BY <2>1, <2>2, FloodproofThen, PacketReceivedType
<1>3. Floodproof(q, ReceivedHandoff(PacketReceived(r)))
  BY <1>2, ReceivedHandoffFlood
<1>4. SerialReceived(r, s) \in {r, AddIn(r, s.pkt), PacketReceived(r), ReceivedHandoff(PacketReceived(r))}
  BY MarksAreNoTics DEF SerialReceived, Nothing
<1>. QED
  BY <1>1, <1>2, <1>3, <1>4

LEMMA GetPacketFlood ==
  ASSUME NEW q, Typed(q), NEW r, Typed(r), r.inque # <<>>, Floodproof(q, r)
  PROVE  Floodproof(q, GetPacket(r))
<1> DEFINE got1 == [r EXCEPT !.inque = Tail(@)]
           resumed == [got1 EXCEPT !.receiving = TRUE, !.uart = Nothing]
<1>1. Tail(r.inque) \in Seq(Packet) /\ Len(Tail(r.inque)) < QueueLen
  BY QueueLenAssumption DEF NodeState, Typed, Fits
<1>2. /\ Typed(got1) /\ got1.outque = r.outque /\ got1.begun = r.begun /\ got1.tx = r.tx
      /\ got1.uart \in Symbol \cup {Nothing}
  BY <1>1 DEF Typed, NodeState, Fits
<1>3. GetPacket(r) = IF got1.receiving THEN got1 ELSE SerialReceived(resumed, got1.uart)
  BY DEF GetPacket, ResumeReceive
<1> HIDE DEF got1
<1>4. /\ Typed(resumed) /\ resumed.outque = got1.outque /\ resumed.begun = got1.begun
      /\ resumed.tx = got1.tx
  BY <1>2 DEF Typed, NodeState, Fits
<1> HIDE DEF resumed
<1>5. Undisturbed(r, got1) /\ Undisturbed(r, resumed)
  BY <1>2, <1>4 DEF Undisturbed
<1>6. Floodproof(q, got1) /\ Floodproof(q, resumed)
  BY <1>2, <1>4, <1>5, FloodproofThen
<1>. QED
  BY <1>2, <1>3, <1>4, <1>6, SerialReceivedFlood

LEMMA HearFlood ==
  ASSUME NEW r, Typed(r), NEW s \in Symbol \cup {Nothing}
  PROVE  Floodproof(r, Hear(r, s))
<1>1. Floodproof(r, r)
  BY DEF Floodproof, Undisturbed
<1>2. Floodproof(r, [r EXCEPT !.uart = s])
  <2>1. [r EXCEPT !.uart = s].outque = r.outque /\ [r EXCEPT !.uart = s].begun = r.begun
    BY DEF Typed, NodeState
  <2>. QED
    BY <2>1 DEF Floodproof, Undisturbed
<1>. QED
  BY <1>1, <1>2, SerialReceivedFlood DEF Hear

LEMMA NextFlood ==
  ASSUME TypeOK, [Next]_vars
  PROVE  \A n \in Node : Survive(node[n], node'[n])
<1>0. \A n \in Node : Typed(node[n]) /\ Floodproof(node[n], node[n])
  BY TypeOKByNode DEF Floodproof, Undisturbed
<1>1. CASE UNCHANGED vars
  BY <1>0, <1>1, FloodproofSurvive DEF vars
<1>2. ASSUME NEW n \in Node, NEW pkt \in HandedOn(n), CmdSend(n, pkt), NEW m \in Node
      PROVE  Floodproof(node[m], node'[m])
  <2>1. pkt \in Packet
    BY HandedOnType DEF TypeOK
  <2>2. Floodproof(node[n], HandOn(CheckTimeout(node[n]), pkt))
    BY <1>0, <2>1, CheckTimeoutFlood, CheckTimeoutType, HandOnFlood
  <2>. QED
    BY <1>0, <1>2, <2>2 DEF CmdSend, TypeOK
<1>3. ASSUME NEW n \in Node, NEW pkt \in HandedOn(n), CmdGet(n, pkt), NEW m \in Node
      PROVE  Floodproof(node[m], node'[m])
  <2> DEFINE r == HandOn(node[n], pkt)
  <2>1. pkt \in Packet
    BY HandedOnType DEF TypeOK
  <2>2. Typed(r) /\ Floodproof(node[n], r)
    BY <1>0, <2>1, HandOnFlood, HandOnType
  <2> HIDE DEF r
  <2>3. r.inque # <<>> => Floodproof(node[n], GetPacket(r))
    BY <1>0, <2>2, GetPacketFlood
  <2>4. node' = [node EXCEPT ![n] = IF r.inque = <<>> THEN r ELSE GetPacket(r)]
    BY <1>3 DEF CmdGet, r
  <2>. QED
    BY <1>0, <2>2, <2>3, <2>4 DEF TypeOK
<1>4. ASSUME NEW n \in Node, NEW lost \in SUBSET (Node \ {n}), TxISR(n, lost), NEW m \in Node
      PROVE  Floodproof(node[m], node'[m])
  <2>1. node[n].tx \in Symbol \cup {Nothing}
    BY <1>0 DEF Typed, NodeState
  <2>2. Undisturbed(node[n], node[n])
    BY DEF Undisturbed
  <2>3. Floodproof(node[n], SerialMoreTXData(node[n]))
    BY <1>0, <2>2, SerialMoreTXDataFlood
  <2>. QED
    BY <1>0, <1>4, <2>1, <2>3, HearFlood DEF TxISR
<1>5. ASSUME Expire, NEW m \in Node PROVE Floodproof(node[m], node'[m])
  <2>1. Typed(node[0])
    BY <1>0, NodeFacts
  <2>2. /\ [node[0] EXCEPT !.expired = TRUE].outque = node[0].outque
        /\ [node[0] EXCEPT !.expired = TRUE].begun = node[0].begun
    BY <2>1 DEF Typed, NodeState
  <2>3. Floodproof(node[0], [node[0] EXCEPT !.expired = TRUE])
    BY <2>2 DEF Floodproof, Undisturbed
  <2>. QED
    BY <1>0, <1>5, <2>3, NodeFacts DEF Expire, TypeOK
<1>. QED
  BY <1>1, <1>2, <1>3, <1>4, <1>5, FloodproofSurvive DEF Next

\* A packet with tics leaves its queue only when its data has been transmitted,
\* whatever the game sends after it and whatever is received meanwhile.
THEOREM FloodSpares == Spec => TicsSurviveFlood
<1>1. TypeOK /\ [Next]_vars =>
        [\A n \in Node : \A i \in QueuedTics(n) :
           LET p == node[n].outque[i]
           IN \/ \E j \in DOMAIN node'[n].outque : node'[n].outque[j] = p
              \/ i = 1 /\ node[n].begun]_vars
  BY NextFlood DEF Survive, QueuedTics
<1>. QED
  BY <1>1, SirTypeCorrect, PTL DEF Spec, TicsSurviveFlood

=============================================================================
