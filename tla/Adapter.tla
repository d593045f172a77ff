------------------------------- MODULE Adapter -------------------------------
(***************************************************************************)
(* The adapters that let games for COMMIT or ROTTCOM run on a Doom driver  *)
(* (adapters/vcommit.c, vrottcom.c on nodemap.c and fragment.c).  They     *)
(* find out which node is which player, still answering others that have   *)
(* not when their own game runs, and cut messages into fragments.          *)
(*                                                                         *)
(* External: the Doom drivers below; they deliver in order what a node     *)
(* sends, or lose it, and deliver nothing that is sent to the own node.    *)
(***************************************************************************)
EXTENDS Integers, Sequences, FiniteSets, FiniteSetsExt

CONSTANTS
  peer,         \* peer[p][i + 1]: the player that is node i of p's driver
  Buffers,      \* REASSEMBLY_BUFFERS
  SeqMod,       \* values of seq, 256 in the code
  MaxLen,       \* fragments of the longest message
  MagicSeq,     \* what the discover packets are when taken for a fragment: seq,
  MagicNum,     \*   number of fragments
  MagicFnum,    \*   and fragment number ("V~": 86, 7 and 14)
  Limits        \* bounds, of which each behavior has one: messages[p] is how many messages
                \*   p's game sends, channel how many packets are under way between two when
                \*   more are sent to discover, losses how many of losers' packets are lost;
                \*   with found it begins when 0, as the last to discover, sends once more

Player == DOMAIN peer
NumNodes == Cardinality(Player)
Nodes == 0 .. NumNodes - 1

ASSUME PlayerAssumption == IsFiniteSet(DOMAIN peer) /\ DOMAIN peer = 0 .. Cardinality(DOMAIN peer) - 1
ASSUME PeerAssumption ==
  \A p \in Player : peer[p][1] = p /\ {peer[p][i + 1] : i \in Nodes} = Player
ASSUME FragmentAssumption ==
  /\ {Buffers, SeqMod, MaxLen, MagicNum, MagicFnum} \subseteq Nat \ {0}
  /\ MagicSeq \in 0 .. SeqMod - 1 /\ MagicFnum >= MagicNum /\ MagicNum > MaxLen
ASSUME LimitsAssumption ==
  Limits \subseteq [messages : [Player -> Nat], channel : Nat, losses : Nat, losers : SUBSET Player,
                    found : BOOLEAN]

PlayerOf(p, n) == peer[p][n + 1]
NodeOf(p, q) == CHOOSE n \in Nodes : PlayerOf(p, n) = q

VARIABLES
  player,   \* player[p]: the adapter of p
  channel,  \* channel[p][q]: packets on their way from p to q
  mailed,   \* mailed[p][q]: messages that p's game has sent to q (history)
  got,      \* got[q][p]: messages that q's game has got from p (history)
  stray,    \* stray[q]: players whose reply q has taken for a fragment (history)
  losses,   \* packets lost so far
  limit     \* the bounds of this behavior

vars == <<player, channel, mailed, got, stray, losses, limit>>

\* The function f with v at x.
With(f, x, v) == [y \in DOMAIN f \cup {x} |-> IF y = x THEN v ELSE f[y]]

\* Packets: a discover packet and a fragment of a message. Player and body are
\* those of the sender.
Discover(is_reply) == [kind |-> "discover", is_reply |-> is_reply]
Fragment(seq, fnum, num, body) ==
  [kind |-> "fragment", seq |-> seq, fnum |-> fnum, num |-> num, body |-> body]

\* A reassembly buffer: parts are the fragments that are marked as received, last is
\* the number of fragments that datalength stands for.
Free == [remotenode |-> 0, seq |-> 0, last |-> 0, parts |-> <<>>]

\* DiscoverPlayers' beginning. The own node is known.
Discovering(p) ==
  [phase |-> "discover", nodetoplayer |-> [n \in {0} |-> p], playertonode |-> [q \in {p} |-> 0],
   buffers |-> [i \in 1 .. Buffers |-> Free], send_seq |-> 0]

\* Where DiscoverPlayers ends.
Found(p) ==
  [Discovering(p) EXCEPT !.phase = "game",
     !.nodetoplayer = [n \in Nodes |-> PlayerOf(p, n)], !.playertonode = [q \in Player |-> NodeOf(p, q)]]

Init ==
  /\ limit \in Limits
  /\ player = [p \in Player |-> IF limit.found THEN Found(p) ELSE Discovering(p)]
  /\ channel = [p \in Player |-> [q \in Player |->
                  IF limit.found /\ p = 0 /\ q # 0 THEN <<Discover(FALSE)>> ELSE <<>>]]
  /\ mailed = [p \in Player |-> [q \in Player |-> <<>>]]
  /\ got = [p \in Player |-> [q \in Player |-> <<>>]]
  /\ stray = [p \in Player |-> {}]
  /\ losses = 0

-----------------------------------------------------------------------------
\* NetSendPacket: p sends pkts to node n.
Sent(ch, p, n, pkts) == IF n = 0 THEN ch ELSE [ch EXCEPT ![p][PlayerOf(p, n)] = @ \o pkts]

(***************************************************************************)
(* adapters/nodemap.c                                                      *)
(***************************************************************************)
SendDiscoverToAll(ch, p) ==
  [ch EXCEPT ![p] = [q \in Player |-> IF q = p THEN ch[p][q] ELSE Append(ch[p][q], Discover(FALSE))]]

\* Mutant: player and node are mixed up.
Learn_Node(r, n, q) ==
  [r EXCEPT !.nodetoplayer = With(@, n, n), !.playertonode = With(@, n, n)]

\* DiscoverPlayers: node n is player q.
Learn(r, n, q) ==
  [r EXCEPT !.nodetoplayer = With(@, n, q), !.playertonode = With(@, q, n)]

GotAll(r) == DOMAIN r.nodetoplayer = Nodes

\* DiscoverPlayers takes a packet from the node of q; other packets are dropped.
\* When all nodes are known it sends once more, and the game is launched.
DiscoverPlayers(p, q) ==
  LET pkt == Head(channel[q][p])
      r == IF pkt.kind = "discover" THEN Learn(player[p], NodeOf(p, q), q) ELSE player[p]
      taken == [channel EXCEPT ![q][p] = Tail(@)]
  IN /\ player[p].phase = "discover" /\ channel[q][p] # <<>>
     /\ player' = [player EXCEPT ![p] = IF GotAll(r) THEN [r EXCEPT !.phase = "game"] ELSE r]
     /\ channel' = IF GotAll(r) THEN SendDiscoverToAll(taken, p) ELSE taken
     /\ UNCHANGED <<mailed, got, stray, losses, limit>>

\* DiscoverPlayers, when more than a second has passed since it last sent.
SendDiscover(p) ==
  /\ player[p].phase = "discover"
  /\ \A q \in Player : Len(channel[p][q]) + Len(channel[q][p]) < limit.channel
  /\ channel' = SendDiscoverToAll(channel, p)
  /\ UNCHANGED <<player, mailed, got, stray, losses, limit>>

\* Mutant: nobody answers when its game runs.
LateDiscover_Never(pkt) == FALSE

\* CheckLateDiscover: somebody still has to find us. A reply is not recognized.
LateDiscover(pkt) == pkt.kind = "discover" /\ ~pkt.is_reply

-----------------------------------------------------------------------------
(***************************************************************************)
(* adapters/fragment.c                                                     *)
(***************************************************************************)

\* Mutant: only free buffers and those of the same message are considered.
FindOrAllocateBuffer_First(b, n, s) ==
  LET match == {i \in DOMAIN b : b[i].remotenode = n /\ b[i].seq = s}
  IN IF match # {} THEN Min(match) ELSE 1

\* FindOrAllocateBuffer: the buffer of the message, a free one, one of the same
\* node, or the first.
FindOrAllocateBuffer(b, n, s) ==
  LET match == {i \in DOMAIN b : b[i].remotenode = n /\ b[i].seq = s}
      free == {i \in DOMAIN b : b[i].parts = <<>>}
      same == {i \in DOMAIN b : b[i].remotenode = n}
  IN CASE match # {} -> Min(match)
       [] match = {} /\ free # {} -> Min(free)
       [] match = {} /\ free = {} /\ same # {} -> Min(same)
       [] OTHER -> 1

\* A packet as FragmentGetPacket reads it.
AsFragment(pkt) ==
  IF pkt.kind = "fragment" THEN pkt ELSE Fragment(MagicSeq, MagicFnum, MagicNum, 0)

\* Mutant: what another message has left in the buffer is kept.
Store_Keep(buf, n, f) ==
  [remotenode |-> n, seq |-> f.seq, last |-> IF f.fnum = f.num - 1 THEN f.num ELSE buf.last,
   parts |-> With(buf.parts, f.fnum, f.body)]

\* The buffer with fragment f from node n; of another message in it nothing remains.
Store(buf, n, f) ==
  LET mine == buf.remotenode = n /\ buf.seq = f.seq
  IN [remotenode |-> n, seq |-> f.seq, last |-> IF f.fnum = f.num - 1 THEN f.num ELSE buf.last,
      parts |-> With(IF mine THEN buf.parts ELSE <<>>, f.fnum, f.body)]

\* COMMIT_CMD_GET: one packet, from the node of q, in the loop of FragmentGetPacket,
\* which ends with the first complete message or when there is no packet.
CmdGet(p, q) ==
  LET pkt == Head(channel[q][p])
      taken == [channel EXCEPT ![q][p] = Tail(@)]
      f == AsFragment(pkt)
      n == NodeOf(p, q)
      i == FindOrAllocateBuffer(player[p].buffers, n, f.seq)
      buf == Store(player[p].buffers[i], n, f)
      complete == DOMAIN buf.parts = 0 .. f.num - 1
  IN /\ player[p].phase = "game" /\ channel[q][p] # <<>>
     /\ IF LateDiscover(pkt)
          THEN /\ channel' = Sent(taken, p, n, <<Discover(TRUE)>>)
               /\ UNCHANGED <<player, got, stray>>
          ELSE /\ channel' = taken
               /\ player' = [player EXCEPT ![p].buffers[i] = IF complete THEN [buf EXCEPT !.parts = <<>>] ELSE buf]
               /\ got' = IF ~complete THEN got
                         ELSE [got EXCEPT ![p][player[p].nodetoplayer[n]] =
                                 Append(@, [last |-> buf.last, ids |-> {buf.parts[j] : j \in 0 .. f.num - 1}])]
               /\ stray' = IF pkt.kind = "fragment" THEN stray ELSE [stray EXCEPT ![p] = @ \cup {q}]
     /\ UNCHANGED <<mailed, losses, limit>>

\* FragmentSendPacket of p's k-th message, of len fragments. A body is k, to tell the
\* messages apart.
FragmentSendPacket(ch, p, n, k, len) ==
  Sent(ch, p, n, [i \in 1 .. len |-> Fragment((k - 1) % SeqMod, i - 1, len, k)])

\* COMMIT_CMD_SEND to a player, COMMIT_CMD_SENDTOALLOTHERS and COMMIT_CMD_SENDTOALL:
\* the nodes in ns, one message to each.
CmdSend(p, ns, len) ==
  LET Kth(n) == player[p].send_seq + Cardinality({m \in ns : m <= n})
      to == {n \in ns : n # 0}
  IN /\ player[p].phase = "game" /\ player[p].send_seq + Cardinality(ns) <= limit.messages[p]
     /\ player' = [player EXCEPT ![p].send_seq = @ + Cardinality(ns)]
     /\ channel' = [channel EXCEPT ![p] = [q \in Player |->
          IF NodeOf(p, q) \in to THEN FragmentSendPacket(channel, p, NodeOf(p, q), Kth(NodeOf(p, q)), len)[p][q]
          ELSE channel[p][q]]]
     /\ mailed' = [mailed EXCEPT ![p] = [q \in Player |->
          IF NodeOf(p, q) \notin to THEN mailed[p][q]
          ELSE Append(mailed[p][q], [id |-> Kth(NodeOf(p, q)), len |-> len, early |-> player[q].phase # "game"])]]
     /\ UNCHANGED <<got, stray, losses, limit>>

\* A driver loses a packet.
Lose(p, q) ==
  /\ losses < limit.losses /\ p \in limit.losers /\ channel[p][q] # <<>>
  /\ channel' = [channel EXCEPT ![p][q] = Tail(@)]
  /\ losses' = losses + 1
  /\ UNCHANGED <<player, mailed, got, stray, limit>>

Others(p) == Player \ {p}
CmdSendAny(p) ==
  \E len \in 1 .. MaxLen :
    \/ \E q \in Others(p) : CmdSend(p, {player[p].playertonode[q]}, len)
    \/ CmdSend(p, Nodes, len) \/ CmdSend(p, Nodes \ {0}, len)

Next ==
  \E p \in Player :
    \/ SendDiscover(p) \/ CmdSendAny(p)
    \/ \E q \in Others(p) : DiscoverPlayers(p, q) \/ CmdGet(p, q) \/ Lose(p, q)

Spec == Init /\ [][Next]_vars

\* The loops run, seconds pass (limit.channel only delays them), and games poll.
LiveSpec ==
  /\ Spec
  /\ \A p \in Player :
       /\ SF_vars(SendDiscover(p))
       /\ \A q \in Others(p) : WF_vars(DiscoverPlayers(p, q) \/ CmdGet(p, q))

-----------------------------------------------------------------------------
(***************************************************************************)
(* Properties.                                                             *)
(***************************************************************************)

\* The types. A node that is known is known as the player it is.
TypeOK ==
  /\ \A p \in Player :
       /\ player[p].phase \in {"discover", "game"}
       /\ DOMAIN player[p].nodetoplayer \subseteq Nodes
       /\ \A n \in DOMAIN player[p].nodetoplayer : player[p].nodetoplayer[n] = PlayerOf(p, n)
       /\ \A q \in DOMAIN player[p].playertonode : PlayerOf(p, player[p].playertonode[q]) = q
       /\ \A i \in 1 .. Buffers : player[p].buffers[i].remotenode \in Nodes
                                  /\ player[p].buffers[i].seq \in 0 .. SeqMod - 1
  /\ losses \in 0 .. limit.losses

\* Reassembly: a game gets only messages that the player it is told of has sent to it,
\* whole, in the order they were sent and none twice, whatever fragments were lost and
\* whichever buffers were taken over: as long as sequence numbers are not used again,
\* what is left of an older message can be taken for a part of a newer one.
WholeInOrder ==
  \A p, q \in Player : player[p].send_seq <= SeqMod =>
    /\ \A i \in DOMAIN got[q][p] : \E j \in DOMAIN mailed[p][q] :
         got[q][p][i] = [last |-> mailed[p][q][j].len, ids |-> {mailed[p][q][j].id}]
    /\ \A i, j \in DOMAIN got[q][p] : i < j => Max(got[q][p][i].ids) < Min(got[q][p][j].ids)

\* If the drivers lose nothing, a message to a player whose game runs gets there, however
\* fragments of several players arrive: unless a discovery reply, which CheckLateDiscover
\* does not recognize (nodemap.c:78), has been put into a buffer, or what is left of a
\* message to a player that was still in DiscoverPlayers.
InTime(q) == \A p \in Player : \A j \in DOMAIN mailed[p][q] : ~mailed[p][q][j].early

NothingLost ==
  losses = 0 => \A p, q \in Player :
    channel[p][q] = <<>> /\ stray[q] = {} /\ InTime(q) =>
      \A j \in DOMAIN mailed[p][q] :
        \E i \in DOMAIN got[q][p] : got[q][p][i].ids = {mailed[p][q][j].id}

\* Everybody finds all players, although those who have stop listening for it: their games
\* answer "other nodes still stuck in their own DiscoverPlayers() loop" (nodemap.c:69).
AllDiscover == <>[](\A p \in Player : player[p].phase = "game")
=============================================================================
