---------------------------- MODULE PktAggrProof ----------------------------
(***************************************************************************)
(* Proofs about PktAggr, for any number of nodes, any packets and any      *)
(* number of calls.                                                        *)
(***************************************************************************)
EXTENDS PktAggr, TLAPS

\* The inductive invariant: the parts of NothingLostOrRepeated that a step
\* relies on, with the types and the bound on the sequence held back.
IInv == TypeOK /\ NothingLostOrRepeated /\ HeldIsIncomplete

LEMMA InitIInv == Init => IInv
BY NumNodesAssumption, OversizeAssumption
   DEF Init, IInv, TypeOK, NothingLostOrRepeated, HeldIsIncomplete, Dest

\* After a flush nothing is owed to anybody.
LEMMA FlushedIsSent == IInv => Flushed = sent
<1> SUFFICES ASSUME IInv PROVE Flushed = sent
  OBVIOUS
<1>1. /\ Flushed \in [Dest -> Seq(Packets)]
      /\ \A d \in Dest : Flushed[d] =
           IF d \in 1 .. pending_count THEN Append(out[d], pending_buffer) ELSE out[d]
  BY DEF Flushed, Transmit, IInv, TypeOK
<1>2. \A d \in Dest : d \in 1 .. pending_count <=> d <= pending_count
  BY NumNodesAssumption DEF Dest, IInv, TypeOK
<1>3. \A d \in Dest : Flushed[d] = sent[d]
  BY <1>1, <1>2 DEF IInv, NothingLostOrRepeated
<1>. QED
  BY <1>1, <1>3 DEF IInv, TypeOK

\* A packet that is passed on at once keeps the invariant.
LEMMA PassThroughIInv ==
  ASSUME IInv, NEW node \in Dest, NEW p \in Packets,
         sent' = [sent EXCEPT ![node] = Append(@, p)],
         PassThrough(node, p)
  PROVE  IInv' /\ out' = sent'
<1> USE NumNodesAssumption DEF Dest
<1>1. out' = Transmit(sent, {node}, p)
  BY FlushedIsSent DEF PassThrough
<1>2. /\ out' \in [Dest -> Seq(Packets)]
      /\ \A d \in Dest : out'[d] = IF d = node THEN Append(sent[d], p) ELSE sent[d]
  BY <1>1 DEF Transmit, IInv, TypeOK
<1>3. out' = sent'
  BY <1>2 DEF IInv, TypeOK
<1>4. pending_count' = 0 /\ pending_buffer' = pending_buffer
  BY DEF PassThrough
<1>. QED
  BY <1>2, <1>3, <1>4 DEF IInv, TypeOK, NothingLostOrRepeated, HeldIsIncomplete

\* So does a packet that starts or continues a sequence.
LEMMA HoldIInv ==
  ASSUME IInv, NEW node \in Dest, NEW p \in Packets \ Oversize,
         sent' = [sent EXCEPT ![node] = Append(@, p)],
         NEW link \in [Dest -> Seq(Packets)],
         \A d \in Dest : sent[d] = IF d < node THEN Append(link[d], p) ELSE link[d],
         Hold(link, node, p)
  PROVE  IInv' /\ out' = IF node = NumNodes - 1 THEN sent' ELSE link
<1> USE NumNodesAssumption
<1>1. sent' \in [Dest -> Seq(Packets)]
  BY DEF IInv, TypeOK
<1>2. \A d \in Dest : sent'[d] = IF d <= node THEN Append(link[d], p) ELSE link[d]
  <2>1. \A d \in Dest : sent'[d] = IF d = node THEN Append(sent[d], p) ELSE sent[d]
    BY DEF IInv, TypeOK
  <2>2. \A d \in Dest : d <= node <=> d < node \/ d = node
    BY DEF Dest
  <2>3. ~(node < node)
    BY DEF Dest
  <2>. QED
    BY <2>1, <2>2, <2>3
<1>3. CASE node = NumNodes - 1
  <2>1. out' = Transmit(link, Dest, p) /\ pending_count' = 0 /\ pending_buffer' = p
    BY <1>3 DEF Hold
  <2>2. out' = [d \in Dest |-> Append(link[d], p)]
    BY <2>1 DEF Transmit
  <2>3. \A d \in Dest : d <= node
    BY <1>3 DEF Dest
  <2>4. \A d \in Dest : sent'[d] = out'[d]
    BY <1>2, <2>2, <2>3
  <2>5. out' = sent'
    BY <1>1, <2>2, <2>4
  <2>6. \A d \in Dest : ~(d <= pending_count')
    BY <2>1 DEF Dest
  <2>7. 0 \in 0 .. NumNodes - 1
    OBVIOUS
  <2>. QED
    BY <1>1, <1>3, <2>1, <2>4, <2>5, <2>6, <2>7
       DEF IInv, TypeOK, NothingLostOrRepeated, HeldIsIncomplete
<1>4. CASE node # NumNodes - 1
  <2>1. out' = link /\ pending_count' = node /\ pending_buffer' = p
    BY <1>4 DEF Hold
  <2>2. node \in Nat /\ node < NumNodes - 1
    BY <1>4 DEF Dest
  <2>. QED
    BY <1>1, <1>2, <1>4, <2>1, <2>2
       DEF IInv, TypeOK, NothingLostOrRepeated, HeldIsIncomplete
<1>. QED
  BY <1>3, <1>4

\* Everything a call of AggregatedSendPacket for a node of the game can do.
LEMMA SendToNodeStep ==
  ASSUME IInv, NEW node \in Dest, NEW p \in Packets, SendToNode(node, p)
  PROVE  IInv' /\ Abs!Send(node, p)
<1> USE NumNodesAssumption
<1>1. sent' = [sent EXCEPT ![node] = Append(@, p)]
  BY DEF SendToNode
<1>2. ASSUME out' = sent' PROVE Abs!Send(node, p)
  <2>1. out' = [e \in Dest |-> IF e = node THEN IF TRUE THEN sent'[node] ELSE sent[node]
                               ELSE IF e \in Dest \ {node} THEN sent[e] ELSE out[e]]
    BY <1>1, <1>2 DEF IInv, TypeOK
  <2>. QED
    BY <1>1, <2>1 DEF Abs!Send
<1>3. ASSUME NEW caughtUp \in SUBSET (Dest \ {node}),
             out' = [e \in Dest |-> IF e = node THEN sent[node]
                                    ELSE IF e \in caughtUp THEN sent[e] ELSE out[e]]
      PROVE  Abs!Send(node, p)
  <2>1. out' = [e \in Dest |-> IF e = node THEN IF FALSE THEN sent'[node] ELSE sent[node]
                               ELSE IF e \in caughtUp THEN sent[e] ELSE out[e]]
    BY <1>3
  <2>. QED
    BY <1>1, <2>1 DEF Abs!Send
<1>4. CASE PassThrough(node, p)
  BY <1>1, <1>2, <1>4, PassThroughIInv
<1>5. CASE node = 1 /\ p \notin Oversize /\ Hold(Flushed, 1, p)
  <2>1. sent \in [Dest -> Seq(Packets)] /\ Flushed = sent
    BY FlushedIsSent DEF IInv, TypeOK
  <2>2. \A d \in Dest : ~(d < 1)
    BY DEF Dest
  <2>3. IInv' /\ out' = IF node = NumNodes - 1 THEN sent' ELSE sent
    BY <1>1, <1>5, <2>1, <2>2, HoldIInv
  <2>4. sent = [e \in Dest |-> IF e = node THEN sent[node]
                               ELSE IF e \in Dest \ {node} THEN sent[e] ELSE out[e]]
    BY <2>1
  <2>. QED
    BY <1>2, <1>3, <2>3, <2>4
<1>6. CASE ContinuesSequence(node, p) /\ Hold(out, node, p)
  <2>1. node = pending_count + 1 /\ p = pending_buffer /\ p \in Packets \ Oversize
    BY <1>6 DEF ContinuesSequence, IInv, TypeOK
  <2>2. \A d \in Dest : d <= pending_count <=> d < node
    BY <2>1 DEF Dest, IInv, TypeOK
  <2>3. \A d \in Dest : sent[d] = IF d < node THEN Append(out[d], p) ELSE out[d]
    BY <2>1, <2>2 DEF IInv, NothingLostOrRepeated
  <2>4. IInv' /\ out' = IF node = NumNodes - 1 THEN sent' ELSE out
    <3>1. out \in [Dest -> Seq(Packets)]
      BY DEF IInv, TypeOK
    <3>. QED
      BY <1>1, <1>6, <2>1, <2>3, <3>1, HoldIInv
  <2>5. out = [e \in Dest |-> IF e = node THEN sent[node]
                              ELSE IF e \in {} THEN sent[e] ELSE out[e]]
    <3>1. ~(node < node)
      BY DEF Dest
    <3>. QED
      BY <2>3, <3>1 DEF IInv, TypeOK
  <2>6. CASE node = NumNodes - 1
    BY <1>2, <2>4, <2>6
  <2>7. CASE node # NumNodes - 1
    <3>1. {} \in SUBSET (Dest \ {node}) /\ out' = out
      BY <2>4, <2>7
    <3>. QED
      BY <1>3, <2>4, <2>5, <3>1
  <2>. QED
    BY <2>6, <2>7
<1>. QED
  BY <1>4, <1>5, <1>6 DEF SendToNode, SendInSequence

\* Polling for a packet hands over all that was held back.
LEMMA GetStep == IInv /\ Get => IInv' /\ Abs!CatchUp
<1> SUFFICES ASSUME IInv, Get PROVE IInv' /\ Abs!CatchUp
  OBVIOUS
<1>1. out' = sent /\ sent' = sent /\ pending_count' = 0 /\ pending_buffer' = pending_buffer
  BY FlushedIsSent DEF Get
<1>2. 0 \in 0 .. NumNodes - 1 /\ \A d \in Dest : ~(d <= 0)
  BY NumNodesAssumption DEF Dest
<1>. QED
  BY <1>1, <1>2
     DEF IInv, TypeOK, NothingLostOrRepeated, HeldIsIncomplete, Abs!CatchUp

\* A packet for node 0, or for a node that does not exist, reaches nobody.
LEMMA SendToOtherStep ==
  ASSUME IInv, NEW node, node \notin Dest, NEW p, SendToOther(node, p)
  PROVE  UNCHANGED vars
<1>1. \A d \in Dest : d # node
  OBVIOUS
<1>2. out' = [d \in Dest |-> out[d]]
  BY <1>1 DEF SendToOther, Transmit
<1>. QED
  BY <1>2 DEF SendToOther, vars, IInv, TypeOK

\* A step keeps the invariant, and is a step of the abstract specification
\* or leaves its variables alone.
LEMMA NextStep == IInv /\ [Next]_vars => IInv' /\ [Abs!Next]_(Abs!vars)
<1> SUFFICES ASSUME IInv, [Next]_vars PROVE IInv' /\ [Abs!Next]_(Abs!vars)
  OBVIOUS
<1>1. CASE UNCHANGED vars
  BY <1>1 DEF vars, IInv, TypeOK, NothingLostOrRepeated, HeldIsIncomplete, Abs!vars
<1>2. ASSUME NEW node \in 0 .. NumNodes, NEW p \in Packets, SendToNode(node, p)
      PROVE  IInv' /\ [Abs!Next]_(Abs!vars)
  BY <1>2, SendToNodeStep DEF SendToNode, Abs!Next
<1>3. ASSUME NEW node \in 0 .. NumNodes, NEW p \in Packets, SendToOther(node, p)
      PROVE  IInv' /\ [Abs!Next]_(Abs!vars)
  BY <1>1, <1>3, SendToOtherStep DEF SendToOther
<1>4. CASE Get
  BY <1>4, GetStep DEF Abs!Next
<1>. QED
  BY <1>1, <1>2, <1>3, <1>4 DEF Next

-----------------------------------------------------------------------------
\* memcpy never overruns the packet buffer of pktaggr.c, whatever the game sends: only
\* packets that fit are held back, and never for more nodes than there are.
THEOREM AggregationTypes == Spec => []TypeOK
<1>1. Init => IInv
  BY InitIInv
<1>2. IInv /\ [Next]_vars => IInv'
  BY NextStep
<1>3. IInv => TypeOK
  BY DEF IInv
<1>. QED
  BY <1>1, <1>2, <1>3, PTL DEF Spec

\* In every behaviour pktaggr.c hands each destination exactly the packets
\* sent to it, but for the sequence held back, and that fits its buffer.
THEOREM AggregationSafe == Spec => [](TypeOK /\ NothingLostOrRepeated /\ HeldIsIncomplete)
<1>1. Init => IInv
  BY InitIInv
<1>2. IInv /\ [Next]_vars => IInv'
  BY NextStep
<1>3. IInv => TypeOK /\ NothingLostOrRepeated /\ HeldIsIncomplete
  BY DEF IInv
<1>. QED
  BY <1>1, <1>2, <1>3, PTL DEF Spec

\* pktaggr.c implements the per-destination order of PktOrder.
THEOREM AggregationRefines == Spec => ImplementsOrder
<1>1. Init => IInv /\ Abs!Init
  BY InitIInv DEF Init, Abs!Init
<1>2. IInv /\ [Next]_vars => IInv' /\ [Abs!Next]_(Abs!vars)
  BY NextStep
<1>. QED
  BY <1>1, <1>2, PTL DEF Spec, ImplementsOrder, Abs!Spec

=============================================================================
