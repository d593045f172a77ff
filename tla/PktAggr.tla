------------------------------- MODULE PktAggr -------------------------------
(***************************************************************************)
(* Packet aggregation (net/pktaggr.c), used by the METANET and SIRSETUP    *)
(* drivers.  The game sends each tic to nodes 1, 2, ..., numnodes - 1 in   *)
(* turn; when all those packets are the same, one broadcast replaces them. *)
(* To find out, the first packets of such a sequence are held back.        *)
(*                                                                         *)
(* The link below (aggr_sendpkt, a callback of the driver) is reduced to   *)
(* the packets it has been given for each destination.  sent is a history  *)
(* variable: the packets of the game's calls.                              *)
(***************************************************************************)
EXTENDS Integers, Sequences

CONSTANTS
  NumNodes,   \* aggr_numnodes: nodes of the game, this one (node 0) included
  Packets,    \* contents of a packet
  Oversize,   \* those longer than PENDING_BUFFER_LEN
  MaxSends    \* bound: calls of the game to one destination

ASSUME NumNodesAssumption == NumNodes \in Nat \ {0}
ASSUME OversizeAssumption == Oversize \subseteq Packets
ASSUME MaxSendsAssumption == MaxSends \in Nat

Dest == 1 .. NumNodes - 1

VARIABLES
  pending_buffer,   \* the packet that is held back
  pending_count,    \* it is held back for nodes 1 .. pending_count
  out,              \* out[d]: what aggr_sendpkt has been given for node d
  sent              \* sent[d]: what the game has sent to node d

vars == <<pending_buffer, pending_count, out, sent>>

\* The packet's bytes before the first one is stored are never looked at.
Init == /\ pending_buffer \in Packets \ Oversize
        /\ pending_count = 0
        /\ out = [d \in Dest |-> <<>>]
        /\ sent = [d \in Dest |-> <<>>]

-----------------------------------------------------------------------------
\* The link after aggr_sendpkt(node, p), for each node in a set in turn. The
\* drivers ignore a packet for node 0 or for a node beyond the last one.
Transmit(link, nodes, p) ==
  [d \in Dest |-> IF d \in nodes THEN Append(link[d], p) ELSE link[d]]

\* The link after FlushPendingPackets, which also sets pending_count to 0.
Flushed == Transmit(out, 1 .. pending_count, pending_buffer)

\* Mutant: the destination is not compared.
ContinuesSequence_AnyNode(node, p) == p = pending_buffer

\* p is the next of a sequence of identical packets to nodes 1, 2, ...
ContinuesSequence(node, p) == node = pending_count + 1 /\ p = pending_buffer

\* TryBroadcastStore returns 1, having kept p as the count-th packet of a
\* sequence; a complete sequence goes out as a broadcast.
Hold(link, count, p) ==
  /\ pending_buffer' = p
  /\ IF count = NumNodes - 1
       THEN pending_count' = 0 /\ out' = Transmit(link, Dest, p)
       ELSE pending_count' = count /\ out' = link

\* Mutant: what was held back goes last.
PassThrough_FlushAfter(node, p) ==
  /\ out' = Transmit(Transmit(out, {node}, p), 1 .. pending_count, pending_buffer)
  /\ pending_count' = 0
  /\ UNCHANGED pending_buffer

\* No buffering: what was held back goes first.
PassThrough(node, p) ==
  /\ out' = Transmit(Flushed, {node}, p)
  /\ pending_count' = 0
  /\ UNCHANGED pending_buffer

-----------------------------------------------------------------------------
\* Mutant: no check of data_len.
SendInSequence_NoLengthCheck(node, p) ==
  IF node = 1 THEN Hold(Flushed, 1, p)
    ELSE IF ContinuesSequence(node, p) THEN Hold(out, node, p)
                                       ELSE PassThrough(node, p)

\* TryBroadcastStore, and the send that follows it when it returns 0.
SendInSequence(node, p) ==
  IF node = 1
    THEN IF p \in Oversize THEN PassThrough(node, p) ELSE Hold(Flushed, 1, p)
    ELSE IF ContinuesSequence(node, p) THEN Hold(out, node, p)
                                       ELSE PassThrough(node, p)

\* AggregatedSendPacket for a node of the game.
SendToNode(node, p) ==
  /\ node \in Dest
  /\ Len(sent[node]) < MaxSends
  /\ sent' = [sent EXCEPT ![node] = Append(@, p)]
  /\ SendInSequence(node, p)

\* AggregatedSendPacket for node 0 or beyond the last node: straight to the
\* link, past anything that is held back.
SendToOther(node, p) ==
  /\ node \notin Dest
  /\ out' = Transmit(out, {node}, p)
  /\ UNCHANGED <<pending_buffer, pending_count, sent>>

\* Mutant: the driver polls without flushing.
Get_NoFlush == UNCHANGED vars

\* The drivers flush before they poll for a packet (CMD_GET).
Get == /\ out' = Flushed
       /\ pending_count' = 0
       /\ UNCHANGED <<pending_buffer, sent>>

Next == \/ \E node \in 0 .. NumNodes, p \in Packets :
             SendToNode(node, p) \/ SendToOther(node, p)
        \/ Get

Spec == Init /\ [][Next]_vars

\* The game's main loop polls for packets between its calls to send, always.
FairSpec == Spec /\ WF_vars(Get)

-----------------------------------------------------------------------------
\* The types; pending_buffer has room for what memcpy puts there.
TypeOK == /\ pending_buffer \in Packets \ Oversize
          /\ pending_count \in 0 .. NumNodes - 1
          /\ out \in [Dest -> Seq(Packets)]
          /\ sent \in [Dest -> Seq(Packets)]

\* What has been handed over and what is held back make up exactly what the
\* game sent, to every destination: TryBroadcastStore neither loses, repeats
\* nor reorders a packet, however complete and broken sequences, other
\* packets and polls follow each other.
NothingLostOrRepeated ==
  \A d \in Dest : sent[d] = IF d <= pending_count THEN Append(out[d], pending_buffer)
                                                 ELSE out[d]

\* A complete sequence is never held back: the packet that completes it sends
\* the broadcast (pending_count == aggr_numnodes - 1), so the next sequence
\* starts with nothing pending.
HeldIsIncomplete == pending_count = 0 \/ pending_count < NumNodes - 1

Abs == INSTANCE PktOrder WITH delivered <- out

\* The module implements the per-destination order the game expects.
ImplementsOrder == Abs!Spec

\* "We want to ensure packets are never held up in the broadcast buffer"
\* (net/metanet.c): whatever the game sends, the link gets it in the end.
NeverHeldUp == Abs!FairSpec

=============================================================================
