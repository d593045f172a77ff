----------------------------- MODULE AdapterProof -----------------------------
(***************************************************************************)
(* The adapters' games get whole messages, in order and, if the drivers    *)
(* lose nothing and there are enough reassembly buffers, all of them: for  *)
(* every number of players, buffers and sequence numbers.                  *)
(***************************************************************************)
EXTENDS Adapter, FiniteSetTheorems, SequenceTheorems, WellFoundedInduction, NaturalsInduction, TLAPS

-----------------------------------------------------------------------------
(***************************************************************************)
(* Types.                                                                  *)
(***************************************************************************)
Seqs == 0 .. SeqMod - 1
Maps == UNION {[S -> Nat] : S \in SUBSET Nat}

DiscoverPacket == {Discover(b) : b \in BOOLEAN}
FragmentPacket == [kind : {"fragment"}, seq : Seqs, fnum : Nat, num : Nat \ {0}, body : Nat]
Packet == DiscoverPacket \cup FragmentPacket

Buffer == [remotenode : Nodes, seq : Seqs, last : Nat, parts : Maps]
State == [phase : {"discover", "game"}, nodetoplayer : Maps, playertonode : Maps,
          buffers : [1 .. Buffers -> Buffer], send_seq : Nat]
Mail == [id : Nat, len : 1 .. MaxLen, early : BOOLEAN]
Message == [last : Nat, ids : SUBSET Nat]

\* What p knows of the nodes is so, and in the game it knows all.
Knows(p, r) ==
  /\ DOMAIN r.nodetoplayer \subseteq Nodes
  /\ \A n \in DOMAIN r.nodetoplayer : r.nodetoplayer[n] = PlayerOf(p, n)
  /\ DOMAIN r.playertonode = {PlayerOf(p, n) : n \in DOMAIN r.nodetoplayer}
  /\ \A q \in DOMAIN r.playertonode : r.playertonode[q] = NodeOf(p, q)
  /\ r.phase = "game" => GotAll(r)

TypeInv ==
  /\ limit \in Limits /\ losses \in 0 .. limit.losses
  /\ player \in [Player -> State] /\ \A p \in Player : Knows(p, player[p])
  /\ channel \in [Player -> [Player -> Seq(Packet)]]
  /\ mailed \in [Player -> [Player -> Seq(Mail)]] /\ got \in [Player -> [Player -> Seq(Message)]]
  /\ stray \in [Player -> SUBSET Player]
  /\ \A p \in Player : channel[p][p] = <<>> /\ mailed[p][p] = <<>> /\ got[p][p] = <<>>

-----------------------------------------------------------------------------
(***************************************************************************)
(* Nodes and numbers.                                                      *)
(***************************************************************************)
LEMMA LeastNumber ==
  ASSUME NEW S \in SUBSET Nat, S # {}
  PROVE  Min(S) \in S /\ \A x \in S : Min(S) <= x
<1>1. PICK m \in S : \A x \in S : ~ (<<x, m>> \in OpToRel(<, Nat))
  BY NatLessThanWellFounded, WFMin
<1>2. \A x \in Nat : x < m => <<x, m>> \in OpToRel(<, Nat)
  BY DEF OpToRel
<1>3. \A x \in S : ~(x < m) /\ x \in Nat /\ m \in Nat
  BY <1>1, <1>2
<1>4. \A x \in S : m <= x
  BY <1>3
<1>. QED
  BY <1>4 DEF Min

\* A player's driver numbers all players, each once, itself as 0.
LEMMA NodeFacts ==
  /\ NumNodes \in Nat /\ Player = 0 .. NumNodes - 1 /\ IsFiniteSet(Player)
  /\ \A p \in Player : /\ NodeOf(p, p) = 0 /\ PlayerOf(p, 0) = p /\ 0 \in Nodes
                       /\ \A q \in Player : NodeOf(p, q) \in Nodes /\ PlayerOf(p, NodeOf(p, q)) = q
                       /\ \A n \in Nodes : PlayerOf(p, n) \in Player /\ NodeOf(p, PlayerOf(p, n)) = n
<1>1. NumNodes \in Nat /\ Player = 0 .. NumNodes - 1 /\ IsFiniteSet(Player) /\ Nodes = Player
  BY PlayerAssumption, FS_CardinalityType DEF Player, NumNodes, Nodes
<1>2. ASSUME NEW p \in Player
      PROVE  /\ PlayerOf(p, 0) = p /\ 0 \in Nodes
             /\ \A n \in Nodes : PlayerOf(p, n) \in Player
             /\ \A q \in Player : \E n \in Nodes : PlayerOf(p, n) = q
  <2>1. peer[p][1] = p /\ {peer[p][i + 1] : i \in Nodes} = Player
    BY PeerAssumption
  <2>2. 0 \in Nodes /\ 0 + 1 = 1
    BY <1>1
  <2>3. {PlayerOf(p, n) : n \in Nodes} = Player
    BY <2>1 DEF PlayerOf
  <2>. QED
    BY <2>1, <2>2, <2>3 DEF PlayerOf
<1>3. ASSUME NEW p \in Player, NEW n \in Nodes, NEW m \in Nodes, PlayerOf(p, n) = PlayerOf(p, m)
      PROVE  n = m
  <2> DEFINE f == [i \in Nodes |-> PlayerOf(p, i)]
  <2>1. f \in [Nodes -> Player] /\ \A q \in Player : \E i \in Nodes : f[i] = q
    BY <1>2
  <2>2. f \in Surjection(Nodes, Player)
    <3>. HIDE DEF f
    <3>. QED
      BY <2>1 DEF Surjection
  <2>3. f \in Injection(Nodes, Player)
    <3>. HIDE DEF f
    <3>. QED
      BY <1>1, <2>2, FS_SurjSameCardinalityImpliesInj
  <2>4. \A i, j \in Nodes : f[i] = f[j] => i = j
    <3>. HIDE DEF f
    <3>. QED
      BY <2>3 DEF Injection, IsInjective
  <2>. QED
    BY <1>3, <2>4
<1>4. ASSUME NEW p \in Player, NEW q \in Player
      PROVE  NodeOf(p, q) \in Nodes /\ PlayerOf(p, NodeOf(p, q)) = q
  <2>1. \E n \in Nodes : PlayerOf(p, n) = q
    BY <1>2
  <2>. QED
    BY <2>1 DEF NodeOf
<1>5. ASSUME NEW p \in Player, NEW n \in Nodes
      PROVE  PlayerOf(p, n) \in Player /\ NodeOf(p, PlayerOf(p, n)) = n
  <2>1. PlayerOf(p, n) \in Player
    BY <1>2
  <2>. QED
    BY <1>3, <1>4, <2>1
<1>6. ASSUME NEW p \in Player PROVE NodeOf(p, p) = 0 /\ PlayerOf(p, 0) = p /\ 0 \in Nodes
  BY <1>2, <1>5
<1>. QED
  BY <1>1, <1>4, <1>5, <1>6

\* Others are other nodes.
LEMMA OtherNodes ==
  ASSUME NEW p \in Player
  PROVE  /\ \A q \in Others(p) : q \in Player /\ q # p /\ NodeOf(p, q) \in Nodes \ {0}
                                 /\ PlayerOf(p, NodeOf(p, q)) = q
         /\ \A q, r \in Player : NodeOf(p, q) = NodeOf(p, r) => q = r
<1>1. \A q, r \in Player : NodeOf(p, q) = NodeOf(p, r) => q = r
  <2>1. \A q \in Player : PlayerOf(p, NodeOf(p, q)) = q
    BY NodeFacts
  <2>. QED
    BY <2>1
<1>2. \A q \in Others(p) : q \in Player /\ q # p
  BY DEF Others
<1>. QED
  BY <1>1, <1>2, NodeFacts
-----------------------------------------------------------------------------
(***************************************************************************)
(* What the steps do to lines, adapters and buffers.                       *)
(***************************************************************************)
Lines == [Player -> [Player -> Seq(Packet)]]

\* t is s, to which at most discover packets have been added.
NoNews(s, t) ==
  /\ Len(t) >= Len(s) /\ \A i \in 1 .. Len(s) : t[i] = s[i]
  /\ \A i \in 1 .. Len(t) : i > Len(s) => t[i].kind = "discover"

LEMMA PacketFacts ==
  /\ \A b \in BOOLEAN : Discover(b) \in Packet /\ Discover(b).kind = "discover"
  /\ \A pkt \in Packet : /\ pkt.kind \in {"discover", "fragment"}
                         /\ pkt.kind = "fragment" => pkt \in FragmentPacket
                         /\ AsFragment(pkt) \in FragmentPacket
<1>1. \A b \in BOOLEAN : Discover(b) \in Packet /\ Discover(b).kind = "discover"
  BY DEF Packet, DiscoverPacket, Discover
<1>2. Fragment(MagicSeq, MagicFnum, MagicNum, 0) \in FragmentPacket
  BY FragmentAssumption DEF Fragment, FragmentPacket, Seqs
<1>3. \A pkt \in DiscoverPacket : pkt.kind = "discover"
  BY DEF DiscoverPacket, Discover
<1>4. \A pkt \in FragmentPacket : pkt.kind = "fragment"
  BY DEF FragmentPacket
<1>5. "discover" # "fragment"
  OBVIOUS
<1>. QED
  BY <1>1, <1>2, <1>3, <1>4, <1>5 DEF Packet, AsFragment

LEMMA NoNewsFacts ==
  ASSUME NEW s \in Seq(Packet), NEW b \in BOOLEAN
  PROVE  /\ NoNews(s, s)
         /\ Append(s, Discover(b)) \in Seq(Packet) /\ NoNews(s, Append(s, Discover(b)))
         /\ s \o <<Discover(b)>> \in Seq(Packet) /\ NoNews(s, s \o <<Discover(b)>>)
<1>1. Len(s) \in Nat /\ Discover(b) \in Packet /\ Discover(b).kind = "discover"
  BY PacketFacts
<1>2. NoNews(s, s)
  BY <1>1 DEF NoNews
<1> DEFINE d == Discover(b)
<1>. HIDE DEF d
<1>3. ASSUME NEW t \in Seq(Packet), Len(t) = Len(s) + 1, \A i \in 1 .. Len(s) : t[i] = s[i], t[Len(s) + 1] = d
      PROVE  NoNews(s, t)
  <2>1. d.kind = "discover"
    BY <1>1 DEF d
  <2>2. \A i \in 1 .. Len(t) : i > Len(s) => i = Len(s) + 1
    BY <1>1, <1>3
  <2>. QED
    BY <1>1, <1>3, <2>1, <2>2 DEF NoNews
<1>4. Append(s, d) \in Seq(Packet) /\ NoNews(s, Append(s, d))
  <2>1. d \in Packet
    BY <1>1 DEF d
  <2>2. /\ Append(s, d) \in Seq(Packet) /\ Len(Append(s, d)) = Len(s) + 1
        /\ \A i \in 1 .. Len(s) : Append(s, d)[i] = s[i] 
        /\ Append(s, d)[Len(s) + 1] = d
    BY <2>1, AppendProperties
  <2>. QED
    BY <1>3, <2>2
<1>5. s \o <<d>> \in Seq(Packet) /\ NoNews(s, s \o <<d>>)
  <2>1. <<d>> \in Seq(Packet) /\ Len(<<d>>) = 1 /\ <<d>>[1] = d
    BY <1>1 DEF d
  <2>2. /\ s \o <<d>> \in Seq(Packet) /\ Len(s \o <<d>>) = Len(s) + 1
        /\ \A i \in 1 .. Len(s) + 1 : (s \o <<d>>)[i] = IF i <= Len(s) THEN s[i] ELSE <<d>>[i - Len(s)]
    BY <2>1, ConcatProperties
  <2>3. \A i \in 1 .. Len(s) : i <= Len(s) /\ i \in 1 .. Len(s) + 1
    BY <1>1
  <2>4. Len(s) + 1 \in 1 .. Len(s) + 1 /\ ~(Len(s) + 1 <= Len(s)) /\ (Len(s) + 1) - Len(s) = 1
    BY <1>1
  <2>5. (s \o <<d>>)[Len(s) + 1] = d /\ \A i \in 1 .. Len(s) : (s \o <<d>>)[i] = s[i]
    BY <2>1, <2>2, <2>3, <2>4
  <2>. QED
    BY <1>3, <2>2, <2>5
<1>. QED
  BY <1>2, <1>4, <1>5 DEF d

LEMMA ToAll ==
  ASSUME NEW ch \in Lines, NEW p \in Player
  PROVE  /\ SendDiscoverToAll(ch, p) \in Lines
         /\ \A a, b \in Player : NoNews(ch[a][b], SendDiscoverToAll(ch, p)[a][b])
         /\ \A a \in Player : SendDiscoverToAll(ch, p)[a][a] = ch[a][a]
<1> DEFINE all == SendDiscoverToAll(ch, p)
<1>1. \A a, b \in Player : all[a][b] = IF a = p /\ b # p THEN Append(ch[a][b], Discover(FALSE)) ELSE ch[a][b]
  BY DEF SendDiscoverToAll, Lines
<1>2. \A a, b \in Player : /\ ch[a][b] \in Seq(Packet) /\ NoNews(ch[a][b], ch[a][b])
                           /\ Append(ch[a][b], Discover(FALSE)) \in Seq(Packet)
                           /\ NoNews(ch[a][b], Append(ch[a][b], Discover(FALSE)))
  BY NoNewsFacts DEF Lines
<1>3. all \in Lines
  BY <1>2 DEF SendDiscoverToAll, Lines
<1>. HIDE DEF all
<1>4. \A a, b \in Player : NoNews(ch[a][b], all[a][b])
  BY <1>1, <1>2
<1>5. \A a \in Player : all[a][a] = ch[a][a]
  BY <1>1
<1>. QED
  BY <1>3, <1>4, <1>5 DEF all

\* The line from q to p without its head.
Taken(ch, q, p) == [ch EXCEPT ![q][p] = Tail(@)]

LEMMA TakenLines ==
  ASSUME NEW ch \in Lines, NEW p \in Player, NEW q \in Player, ch[q][p] # <<>>
  PROVE  /\ Taken(ch, q, p) \in Lines
         /\ \A a, b \in Player : Taken(ch, q, p)[a][b] = IF a = q /\ b = p THEN Tail(ch[q][p]) ELSE ch[a][b]
         /\ ch[q][p] \in Seq(Packet) /\ Head(ch[q][p]) \in Packet
<1>1. ch[q][p] \in Seq(Packet)
  BY DEF Lines
<1>2. Tail(ch[q][p]) \in Seq(Packet) /\ Head(ch[q][p]) \in Packet
  BY <1>1, HeadTailProperties
<1>. QED
  BY <1>1, <1>2 DEF Lines, Taken

LEMMA TypeFacts ==
  ASSUME TypeInv
  PROVE  /\ channel \in Lines
         /\ limit.messages \in [Player -> Nat] /\ limit.losses \in Nat
         /\ \A p \in Player : /\ player[p] \in State /\ Knows(p, player[p])
                              /\ player[p].phase = "game" => \A q \in Player : player[p].playertonode[q] = NodeOf(p, q)
                              /\ player[p].phase = "game" => \A n \in Nodes : player[p].nodetoplayer[n] = PlayerOf(p, n)
<1>1. ASSUME NEW p \in Player, player[p].phase = "game"
      PROVE  /\ \A q \in Player : player[p].playertonode[q] = NodeOf(p, q)
             /\ \A n \in Nodes : player[p].nodetoplayer[n] = PlayerOf(p, n)
  <2>1. DOMAIN player[p].nodetoplayer = Nodes /\ Knows(p, player[p])
    BY <1>1 DEF TypeInv, Knows, GotAll
  <2>2. DOMAIN player[p].playertonode = Player
    BY <2>1, NodeFacts DEF Knows
  <2>. QED
    BY <2>1, <2>2 DEF Knows
<1>2. limit.messages \in [Player -> Nat] /\ limit.losses \in Nat
  BY LimitsAssumption DEF TypeInv
<1>. QED
  BY <1>1, <1>2 DEF TypeInv, Lines

LEMMA WithFacts ==
  ASSUME NEW f \in Maps, NEW x \in Nat, NEW v \in Nat
  PROVE  /\ With(f, x, v) \in Maps /\ DOMAIN With(f, x, v) = DOMAIN f \cup {x}
         /\ With(f, x, v)[x] = v /\ \A y \in DOMAIN f : y # x => With(f, x, v)[y] = f[y]
<1>1. PICK S \in SUBSET Nat : f \in [S -> Nat]
  BY DEF Maps
<1>2. With(f, x, v) \in [S \cup {x} -> Nat]
  BY <1>1 DEF With
<1>3. S \cup {x} \in SUBSET Nat
  OBVIOUS
<1>. QED
  BY <1>1, <1>2, <1>3 DEF With, Maps

\* The adapter of p with what it has learnt of q.
LEMMA LearnFacts ==
  ASSUME NEW p \in Player, NEW q \in Player, NEW r \in State, r.phase = "discover", Knows(p, r)
  PROVE  /\ Learn(r, NodeOf(p, q), q) \in State /\ Knows(p, Learn(r, NodeOf(p, q), q))
         /\ Learn(r, NodeOf(p, q), q).buffers = r.buffers /\ Learn(r, NodeOf(p, q), q).send_seq = r.send_seq
         /\ Learn(r, NodeOf(p, q), q).phase = "discover"
<1> DEFINE n == NodeOf(p, q)
           s == Learn(r, n, q)
<1>1. n \in Nodes /\ PlayerOf(p, n) = q /\ n \in Nat /\ q \in Nat
  <2>1. n \in Nodes /\ PlayerOf(p, n) = q
    BY NodeFacts
  <2>. HIDE DEF n
  <2>2. NumNodes \in Nat /\ Player = Nodes
    BY NodeFacts DEF Nodes
  <2>. QED
    BY <2>1, <2>2 DEF Nodes
<1>2. r.nodetoplayer \in Maps /\ r.playertonode \in Maps
  BY DEF State
<1>. HIDE DEF n
<1>3. /\ With(r.nodetoplayer, n, q) \in Maps /\ With(r.playertonode, q, n) \in Maps
      /\ DOMAIN With(r.nodetoplayer, n, q) = DOMAIN r.nodetoplayer \cup {n}
      /\ DOMAIN With(r.playertonode, q, n) = DOMAIN r.playertonode \cup {q}
      /\ With(r.nodetoplayer, n, q)[n] = q /\ With(r.playertonode, q, n)[q] = n
      /\ \A m \in DOMAIN r.nodetoplayer : m # n => With(r.nodetoplayer, n, q)[m] = r.nodetoplayer[m]
      /\ \A x \in DOMAIN r.playertonode : x # q => With(r.playertonode, q, n)[x] = r.playertonode[x]
  <2> DEFINE f == r.nodetoplayer
             g == r.playertonode
  <2>1. f \in Maps /\ g \in Maps /\ n \in Nat /\ q \in Nat
    BY <1>1, <1>2
  <2>. HIDE DEF f, g
  <2>2. /\ With(f, n, q) \in Maps /\ DOMAIN With(f, n, q) = DOMAIN f \cup {n}
        /\ With(f, n, q)[n] = q /\ \A y \in DOMAIN f : y # n => With(f, n, q)[y] = f[y]
    BY <2>1, WithFacts
  <2>3. /\ With(g, q, n) \in Maps /\ DOMAIN With(g, q, n) = DOMAIN g \cup {q}
        /\ With(g, q, n)[q] = n /\ \A y \in DOMAIN g : y # q => With(g, q, n)[y] = g[y]
    BY <2>1, WithFacts
  <2>. QED
    BY <2>2, <2>3 DEF f, g
<1>4. /\ s.nodetoplayer = With(r.nodetoplayer, n, q) /\ s.playertonode = With(r.playertonode, q, n)
      /\ s.buffers = r.buffers /\ s.send_seq = r.send_seq /\ s.phase = "discover"
      /\ s = [phase |-> "discover", nodetoplayer |-> s.nodetoplayer, playertonode |-> s.playertonode,
              buffers |-> r.buffers, send_seq |-> r.send_seq]
  <2>1. s = [r EXCEPT !.nodetoplayer = With(r.nodetoplayer, n, q), !.playertonode = With(r.playertonode, q, n)]
    BY DEF Learn
  <2>2. r = [phase |-> r.phase, nodetoplayer |-> r.nodetoplayer, playertonode |-> r.playertonode,
             buffers |-> r.buffers, send_seq |-> r.send_seq]
    BY DEF State
  <2>. HIDE DEF s
  <2>. QED
    BY <2>1, <2>2
<1>. HIDE DEF s
<1>5. s \in State
  <2>1. s.nodetoplayer \in Maps /\ s.playertonode \in Maps
    BY <1>3, <1>4
  <2>2. s.buffers \in [1 .. Buffers -> Buffer] /\ s.send_seq \in Nat
    BY <1>4 DEF State
  <2>. QED
    BY <1>4, <2>1, <2>2 DEF State
<1>6. DOMAIN s.nodetoplayer = DOMAIN r.nodetoplayer \cup {n} /\ DOMAIN s.playertonode = DOMAIN r.playertonode \cup {q}
  BY <1>1, <1>2, <1>3, <1>4
<1>7. DOMAIN s.nodetoplayer \subseteq Nodes /\ \A m \in DOMAIN s.nodetoplayer : s.nodetoplayer[m] = PlayerOf(p, m)
  BY <1>1, <1>2, <1>3, <1>4, <1>6 DEF Knows
<1>8. \A x \in DOMAIN s.playertonode : s.playertonode[x] = NodeOf(p, x)
  BY <1>1, <1>2, <1>3, <1>4, <1>6 DEF Knows, n
<1>9. DOMAIN s.playertonode = {PlayerOf(p, m) : m \in DOMAIN s.nodetoplayer}
  <2>1. DOMAIN r.playertonode = {PlayerOf(p, m) : m \in DOMAIN r.nodetoplayer}
    BY DEF Knows
  <2>. QED
    BY <1>1, <1>6, <2>1
<1>. QED
  BY <1>4, <1>5, <1>7, <1>8, <1>9 DEF Knows, n, s

\* Lines, after one packet has been taken from that of q to p.
AfterTaking(q, p) ==
  /\ channel' \in Lines
  /\ channel[q][p] # <<>> /\ channel[q][p] \in Seq(Packet) /\ Head(channel[q][p]) \in Packet
  /\ channel'[q][p] = Tail(channel[q][p])
  /\ \A a, b \in Player : a # q \/ b # p => NoNews(channel[a][b], channel'[a][b])
  /\ \A a \in Player : channel'[a][a] = channel[a][a]

LEMMA SendDiscoverStep ==
  ASSUME TypeInv, NEW p \in Player, SendDiscover(p)
  PROVE  /\ channel' \in Lines /\ \A a, b \in Player : NoNews(channel[a][b], channel'[a][b])
         /\ \A a \in Player : channel'[a][a] = channel[a][a]
BY TypeFacts, ToAll DEF SendDiscover

LEMMA DiscoverPlayersStep ==
  ASSUME TypeInv, NEW p \in Player, NEW q \in Others(p), DiscoverPlayers(p, q)
  PROVE  /\ player[p].phase = "discover" /\ AfterTaking(q, p)
         /\ player' \in [Player -> State]
         /\ \A a \in Player : /\ Knows(a, player'[a])
                              /\ player'[a].buffers = player[a].buffers /\ player'[a].send_seq = player[a].send_seq
                              /\ player'[a].phase = player[a].phase \/ player'[a].phase = "game"
<1> DEFINE ch == channel
           pkt == Head(ch[q][p])
           r == IF pkt.kind = "discover" THEN Learn(player[p], NodeOf(p, q), q) ELSE player[p]
           s == IF GotAll(r) THEN [r EXCEPT !.phase = "game"] ELSE r
<1>1. /\ player[p].phase = "discover" /\ ch[q][p] # <<>>
      /\ player' = [player EXCEPT ![p] = s]
      /\ channel' = IF GotAll(r) THEN SendDiscoverToAll(Taken(ch, q, p), p) ELSE Taken(ch, q, p)
  BY DEF DiscoverPlayers, Taken
<1>2. q \in Player /\ q # p /\ player[p] \in State /\ Knows(p, player[p]) /\ channel \in Lines /\ player \in [Player -> State]
  BY TypeFacts DEF Others, TypeInv
<1>3. r \in State /\ Knows(p, r) /\ r.buffers = player[p].buffers /\ r.send_seq = player[p].send_seq /\ r.phase = "discover"
  <2>1. CASE pkt.kind = "discover"
    BY <1>1, <1>2, <2>1, LearnFacts
  <2>2. CASE pkt.kind # "discover"
    BY <1>1, <1>2, <2>2
  <2>. QED
    BY <2>1, <2>2
<1>. HIDE DEF r
<1>4. /\ s \in State /\ s.buffers = r.buffers /\ s.send_seq = r.send_seq /\ s.phase \in {r.phase, "game"}
      /\ s.nodetoplayer = r.nodetoplayer /\ s.playertonode = r.playertonode /\ (s.phase = "game" => GotAll(s))
  BY <1>3 DEF State, GotAll
<1>5. Knows(p, s)
  BY <1>3, <1>4 DEF Knows
<1>. HIDE DEF s
<1>6. \A a \in Player : player'[a] = IF a = p THEN s ELSE player[a]
  BY <1>1, <1>2
<1>7. player' \in [Player -> State]
  BY <1>1, <1>2, <1>4
<1>8. ASSUME NEW a \in Player
      PROVE  /\ Knows(a, player'[a])
             /\ player'[a].buffers = player[a].buffers /\ player'[a].send_seq = player[a].send_seq
             /\ player'[a].phase = player[a].phase \/ player'[a].phase = "game"
  BY <1>1, <1>2, <1>3, <1>4, <1>5, <1>6, TypeFacts
<1> DEFINE t == Taken(ch, q, p)
<1>9. /\ t \in Lines /\ ch[q][p] \in Seq(Packet) /\ Head(ch[q][p]) \in Packet
      /\ \A a, b \in Player : t[a][b] = IF a = q /\ b = p THEN Tail(ch[q][p]) ELSE ch[a][b]
  BY <1>1, <1>2, TakenLines
<1>10. \A a, b \in Player : ch[a][b] \in Seq(Packet) /\ NoNews(ch[a][b], ch[a][b])
  BY <1>2, NoNewsFacts DEF Lines
<1>. HIDE DEF t
<1>11. CASE ~GotAll(r)
  <2>1. channel' = t
    BY <1>1, <1>11 DEF t
  <2>. QED
    BY <1>1, <1>2, <1>7, <1>8, <1>9, <1>10, <2>1 DEF AfterTaking
<1>12. CASE GotAll(r)
  <2>1. channel' = SendDiscoverToAll(t, p)
    BY <1>1, <1>12 DEF t
  <2>2. \A a, b \in Player : channel'[a][b] = IF a = p /\ b # p THEN Append(t[a][b], Discover(FALSE)) ELSE t[a][b]
    BY <1>9, <2>1 DEF SendDiscoverToAll, Lines
  <2>3. /\ channel' \in Lines /\ \A a, b \in Player : NoNews(t[a][b], channel'[a][b])
        /\ \A a \in Player : channel'[a][a] = t[a][a]
    BY <1>9, <2>1, ToAll
  <2>4. channel'[q][p] = Tail(ch[q][p])
    BY <1>2, <1>9, <2>2
  <2>5. \A a, b \in Player : a # q \/ b # p => t[a][b] = ch[a][b]
    BY <1>9
  <2>6. \A a, b \in Player : a # q \/ b # p => NoNews(ch[a][b], channel'[a][b])
    BY <2>3, <2>5
  <2>7. \A a \in Player : channel'[a][a] = ch[a][a]
    BY <1>2, <2>3, <2>5
  <2>8. AfterTaking(q, p)
    BY <1>1, <1>9, <2>3, <2>4, <2>6, <2>7 DEF AfterTaking
  <2>. QED
    BY <1>1, <1>7, <1>8, <2>8
<1>. QED
  BY <1>11, <1>12

\* The buffer i that FindOrAllocateBuffer takes for message s of node n.
Chosen(b, n, s, i) ==
  /\ i \in 1 .. Buffers
  /\ \/ b[i].remotenode = n /\ b[i].seq = s
     \/ /\ \A k \in 1 .. Buffers : ~(b[k].remotenode = n /\ b[k].seq = s)
        /\ b[i].parts = <<>> \/ \A k \in 1 .. Buffers : b[k].parts # <<>>

LEMMA BufferChosen ==
  ASSUME NEW b \in [1 .. Buffers -> Buffer], NEW n, NEW s
  PROVE  Chosen(b, n, s, FindOrAllocateBuffer(b, n, s))
<1> DEFINE match == {k \in DOMAIN b : b[k].remotenode = n /\ b[k].seq = s}
           free == {k \in DOMAIN b : b[k].parts = <<>>}
           same == {k \in DOMAIN b : b[k].remotenode = n}
           i == FindOrAllocateBuffer(b, n, s)
<1>1. Buffers \in Nat \ {0} /\ DOMAIN b = 1 .. Buffers /\ 1 \in 1 .. Buffers
  BY FragmentAssumption
<1>2. \A S \in SUBSET (1 .. Buffers) : S # {} => Min(S) \in S
  <2>1. ASSUME NEW S \in SUBSET (1 .. Buffers), S # {} PROVE Min(S) \in S
    <3>1. S \in SUBSET Nat
      OBVIOUS
    <3>. QED
      BY <2>1, <3>1, LeastNumber
  <2>. QED
    BY <2>1
<1>3. match \in SUBSET (1 .. Buffers) /\ free \in SUBSET (1 .. Buffers) /\ same \in SUBSET (1 .. Buffers)
  BY <1>1
<1>4. CASE match # {}
  <2>1. i = Min(match)
    BY <1>4 DEF FindOrAllocateBuffer
  <2>2. i \in match
    BY <1>2, <1>3, <1>4, <2>1
  <2>. QED
    BY <1>1, <2>2 DEF Chosen
<1>5. CASE match = {} /\ free # {}
  <2>1. i = Min(free)
    BY <1>5 DEF FindOrAllocateBuffer
  <2>2. i \in free
    BY <1>2, <1>3, <1>5, <2>1
  <2>3. /\ i \in 1 .. Buffers /\ b[i].parts = <<>>
        /\ \A k \in 1 .. Buffers : ~(b[k].remotenode = n /\ b[k].seq = s)
    BY <1>1, <1>5, <2>2
  <2>. QED
    BY <2>3 DEF Chosen
<1>6. CASE match = {} /\ free = {}
  <2>1. i = IF same # {} THEN Min(same) ELSE 1
    BY <1>6 DEF FindOrAllocateBuffer
  <2>2. i \in 1 .. Buffers
    BY <1>1, <1>2, <1>3, <2>1
  <2>3. \A k \in 1 .. Buffers : b[k].parts # <<>> /\ ~(b[k].remotenode = n /\ b[k].seq = s)
    BY <1>1, <1>6
  <2>. QED
    BY <2>2, <2>3 DEF Chosen
<1>. QED
  BY <1>4, <1>5, <1>6

LEMMA EmptyMap == <<>> \in Maps /\ DOMAIN <<>> = {}
<1>1. <<>> \in [{} -> Nat] /\ DOMAIN <<>> = {}
  OBVIOUS
<1>. QED
  BY <1>1 DEF Maps

LEMMA StoreFacts ==
  ASSUME NEW buf \in Buffer, NEW n \in Nodes, NEW f \in FragmentPacket
  PROVE  LET new == Store(buf, n, f)
             mine == buf.remotenode = n /\ buf.seq = f.seq
         IN /\ new \in Buffer /\ new.remotenode = n /\ new.seq = f.seq
            /\ f.fnum = f.num - 1 => new.last = f.num
            /\ f.fnum \in DOMAIN new.parts /\ new.parts[f.fnum] = f.body
            /\ mine => /\ DOMAIN new.parts = DOMAIN buf.parts \cup {f.fnum}
                       /\ \A j \in DOMAIN buf.parts : j # f.fnum => new.parts[j] = buf.parts[j]
            /\ ~mine => DOMAIN new.parts = {f.fnum}
<1> DEFINE old == IF buf.remotenode = n /\ buf.seq = f.seq THEN buf.parts ELSE <<>>
           last == IF f.fnum = f.num - 1 THEN f.num ELSE buf.last
<1>1. old \in Maps /\ f.fnum \in Nat /\ f.body \in Nat /\ f.seq \in Seqs /\ last \in Nat
  BY EmptyMap DEF Buffer, FragmentPacket
<1>2. Store(buf, n, f) = [remotenode |-> n, seq |-> f.seq, last |-> last, parts |-> With(old, f.fnum, f.body)]
  BY DEF Store
<1>3. (~(buf.remotenode = n /\ buf.seq = f.seq) => DOMAIN old = {})
      /\ (buf.remotenode = n /\ buf.seq = f.seq => old = buf.parts)
  BY EmptyMap
<1>4. f.fnum = f.num - 1 => last = f.num
  OBVIOUS
<1>. HIDE DEF old, last
<1>5. /\ With(old, f.fnum, f.body) \in Maps
      /\ DOMAIN With(old, f.fnum, f.body) = DOMAIN old \cup {f.fnum}
      /\ With(old, f.fnum, f.body)[f.fnum] = f.body
      /\ \A j \in DOMAIN old : j # f.fnum => With(old, f.fnum, f.body)[j] = old[j]
  BY <1>1, WithFacts
<1>6. Store(buf, n, f) \in Buffer
  BY <1>1, <1>2, <1>5 DEF Buffer
<1>7. /\ Store(buf, n, f).remotenode = n /\ Store(buf, n, f).seq = f.seq /\ Store(buf, n, f).last = last
      /\ Store(buf, n, f).parts = With(old, f.fnum, f.body)
  BY <1>2
<1>8. CASE buf.remotenode = n /\ buf.seq = f.seq
  <2>1. /\ f.fnum \in DOMAIN Store(buf, n, f).parts /\ Store(buf, n, f).parts[f.fnum] = f.body
        /\ DOMAIN Store(buf, n, f).parts = DOMAIN buf.parts \cup {f.fnum}
        /\ \A j \in DOMAIN buf.parts : j # f.fnum => Store(buf, n, f).parts[j] = buf.parts[j]
    BY <1>3, <1>5, <1>7, <1>8
  <2>. QED
    BY <1>4, <1>6, <1>7, <1>8, <2>1
<1>9. CASE ~(buf.remotenode = n /\ buf.seq = f.seq)
  <2>1. /\ f.fnum \in DOMAIN Store(buf, n, f).parts /\ Store(buf, n, f).parts[f.fnum] = f.body
        /\ DOMAIN Store(buf, n, f).parts = {f.fnum}
    BY <1>3, <1>5, <1>7, <1>9
  <2>. QED
    BY <1>4, <1>6, <1>7, <1>9, <2>1
<1>. QED
  BY <1>8, <1>9

\* p has stored fragment f of q in buffer i; its game gets the message, if it is whole.
Full(buf, f) == DOMAIN buf.parts = 0 .. f.num - 1
Whole(buf, f) == [last |-> buf.last, ids |-> {buf.parts[j] : j \in 0 .. f.num - 1}]
Reassembled(p, q, f, i, buf) ==
  /\ Chosen(player[p].buffers, NodeOf(p, q), f.seq, i)
  /\ buf = Store(player[p].buffers[i], NodeOf(p, q), f)
  /\ player'[p].buffers = [player[p].buffers EXCEPT ![i] = IF Full(buf, f) THEN [buf EXCEPT !.parts = <<>>] ELSE buf]
  /\ \A a \in Player : a # p => player'[a] = player[a]
  /\ got' = IF Full(buf, f) THEN [got EXCEPT ![p][q] = Append(@, Whole(buf, f))] ELSE got

LEMMA CmdGetStep ==
  ASSUME TypeInv, NEW p \in Player, NEW q \in Others(p), CmdGet(p, q)
  PROVE  /\ player[p].phase = "game" /\ AfterTaking(q, p)
         /\ player' \in [Player -> State]
         /\ \A a \in Player : /\ Knows(a, player'[a]) /\ player'[a].send_seq = player[a].send_seq
                              /\ player'[a].phase = player[a].phase
         /\ \/ /\ LateDiscover(Head(channel[q][p]))
               /\ player' = player /\ got' = got /\ stray' = stray
            \/ /\ ~LateDiscover(Head(channel[q][p]))
               /\ \E i \in 1 .. Buffers, buf \in Buffer : Reassembled(p, q, AsFragment(Head(channel[q][p])), i, buf)
               /\ stray' = IF Head(channel[q][p]).kind = "fragment" THEN stray
                           ELSE [stray EXCEPT ![p] = @ \cup {q}]
<1> DEFINE pkt == Head(channel[q][p])
           n == NodeOf(p, q)
           f == AsFragment(pkt)
           i == FindOrAllocateBuffer(player[p].buffers, n, f.seq)
           buf == Store(player[p].buffers[i], n, f)
           t == Taken(channel, q, p)
           new == IF Full(buf, f) THEN [buf EXCEPT !.parts = <<>>] ELSE buf
<1>1. /\ q \in Player /\ q # p /\ n \in Nodes \ {0} /\ PlayerOf(p, n) = q
      /\ channel \in Lines /\ player \in [Player -> State] /\ player[p] \in State
      /\ got \in [Player -> [Player -> Seq(Message)]]
      /\ player[p].phase = "game" /\ channel[q][p] # <<>>
  BY OtherNodes, TypeFacts DEF CmdGet, TypeInv
<1>2. /\ t \in Lines /\ channel[q][p] \in Seq(Packet) /\ pkt \in Packet
      /\ \A a, b \in Player : t[a][b] = IF a = q /\ b = p THEN Tail(channel[q][p]) ELSE channel[a][b]
  BY <1>1, TakenLines
<1>3. ASSUME LateDiscover(pkt)
      PROVE  channel' = Sent(t, p, n, <<Discover(TRUE)>>) /\ player' = player /\ got' = got /\ stray' = stray
  BY <1>3 DEF CmdGet, Taken
<1>4. ASSUME ~LateDiscover(pkt)
      PROVE  /\ channel' = t
             /\ player' = [player EXCEPT ![p].buffers[i] = new]
             /\ got' = IF ~Full(buf, f) THEN got ELSE [got EXCEPT ![p][player[p].nodetoplayer[n]] = Append(@, Whole(buf, f))]
             /\ stray' = IF pkt.kind = "fragment" THEN stray ELSE [stray EXCEPT ![p] = @ \cup {q}]
  BY <1>4 DEF CmdGet, Taken, Full, Whole
<1>5. player[p].nodetoplayer[n] = q
  BY <1>1, TypeFacts
<1>6. f \in FragmentPacket
  BY <1>2, PacketFacts
<1>7. Chosen(player[p].buffers, n, f.seq, i) /\ i \in 1 .. Buffers /\ player[p].buffers \in [1 .. Buffers -> Buffer]
  <2>1. player[p].buffers \in [1 .. Buffers -> Buffer]
    BY <1>1 DEF State
  <2>2. Chosen(player[p].buffers, n, f.seq, i)
    <3> DEFINE b == player[p].buffers
               s == f.seq
    <3>. HIDE DEF b, n, s
    <3>1. Chosen(b, n, s, FindOrAllocateBuffer(b, n, s))
      BY <2>1, BufferChosen DEF b
    <3>. QED
      BY <3>1 DEF b, s
  <2>. QED
    BY <2>1, <2>2 DEF Chosen
<1>. HIDE DEF pkt, f, i, t
<1>8. buf \in Buffer /\ new \in Buffer
  <2>1. player[p].buffers[i] \in Buffer /\ n \in Nodes
    BY <1>1, <1>7
  <2>. HIDE DEF n
  <2>2. buf \in Buffer
    BY <1>6, <2>1, StoreFacts
  <2>. HIDE DEF buf
  <2>3. [buf EXCEPT !.parts = <<>>] \in Buffer
    BY <2>2, EmptyMap DEF Buffer
  <2>. QED
    BY <2>2, <2>3
<1>9. \A a, b \in Player : channel[a][b] \in Seq(Packet) /\ NoNews(channel[a][b], channel[a][b])
  BY <1>1, NoNewsFacts DEF Lines
<1>10. CASE LateDiscover(pkt)
  <2>1. channel' = [t EXCEPT ![p][q] = @ \o <<Discover(TRUE)>>]
    BY <1>1, <1>3, <1>10 DEF Sent
  <2>2. \A a, b \in Player : channel'[a][b] = IF a = p /\ b = q THEN t[p][q] \o <<Discover(TRUE)>> ELSE t[a][b]
    BY <1>1, <1>2, <2>1 DEF Lines
  <2>3. t[p][q] = channel[p][q] /\ t[q][p] = Tail(channel[q][p])
    BY <1>1, <1>2
  <2>4. t[p][q] \o <<Discover(TRUE)>> \in Seq(Packet) /\ NoNews(t[p][q], t[p][q] \o <<Discover(TRUE)>>)
    BY <1>1, <1>9, <2>3, NoNewsFacts
  <2>5. channel' \in Lines
    <3> DEFINE l == t[p][q] \o <<Discover(TRUE)>>
    <3>1. t \in [Player -> [Player -> Seq(Packet)]] /\ l \in Seq(Packet) /\ channel' = [t EXCEPT ![p][q] = l] /\ q \in Player
      BY <1>1, <1>2, <2>1, <2>4 DEF Lines
    <3>. HIDE DEF l
    <3>. QED
      BY ONLY <3>1 DEF Lines
  <2> DEFINE l == t[p][q] \o <<Discover(TRUE)>>
  <2>9. /\ \A a, b \in Player : channel'[a][b] = IF a = p /\ b = q THEN l ELSE t[a][b]
        /\ NoNews(t[p][q], l)
    BY <2>2, <2>4
  <2>. HIDE DEF l
  <2>6. ASSUME NEW a \in Player, NEW b \in Player, a # q \/ b # p
        PROVE  NoNews(channel[a][b], channel'[a][b])
    <3>1. t[a][b] = channel[a][b] /\ NoNews(channel[a][b], channel[a][b])
      BY <1>2, <1>9, <2>6
    <3>2. CASE a = p /\ b = q
      BY <2>3, <2>9, <3>2
    <3>3. CASE ~(a = p /\ b = q)
      BY <2>9, <3>1, <3>3
    <3>. QED
      BY <3>2, <3>3
  <2>7. channel'[q][p] = Tail(channel[q][p]) /\ \A a \in Player : channel'[a][a] = channel[a][a]
    <3>1. \A a \in Player : channel'[a][a] = t[a][a] /\ t[a][a] = channel[a][a]
      BY ONLY <1>1, <1>2, <2>9
    <3>2. channel'[q][p] = t[q][p]
      BY ONLY <1>1, <2>9, p \in Player
    <3>. QED
      BY ONLY <2>3, <3>1, <3>2
  <2>8. AfterTaking(q, p)
    BY <1>1, <1>2, <2>5, <2>6, <2>7 DEF AfterTaking, pkt
  <2>. QED
    BY <1>1, <1>3, <1>10, <2>8, TypeFacts DEF pkt
<1>11. CASE ~LateDiscover(pkt)
  <2>1. AfterTaking(q, p)
    <3>1. channel' = t
      BY <1>4, <1>11
    <3>. QED
      BY <1>1, <1>2, <1>9, <3>1 DEF AfterTaking, pkt
  <2> DEFINE r == [player[p] EXCEPT !.buffers = [player[p].buffers EXCEPT ![i] = new]]
  <2>. HIDE DEF new
  <2>2. player' = [player EXCEPT ![p] = r]
    BY <1>4, <1>11
  <2>3. /\ r \in State /\ r.buffers = [player[p].buffers EXCEPT ![i] = new]
        /\ r.send_seq = player[p].send_seq /\ r.phase = player[p].phase
        /\ r.nodetoplayer = player[p].nodetoplayer /\ r.playertonode = player[p].playertonode
    BY <1>1, <1>7, <1>8 DEF State
  <2>4. Knows(p, player[p])
    BY TypeFacts
  <2>5. Knows(p, r)
    BY <2>3, <2>4 DEF Knows, GotAll
  <2>. HIDE DEF r
  <2>6. player' \in [Player -> State] /\ player'[p] = r /\ \A a \in Player : a # p => player'[a] = player[a]
    BY <1>1, <2>2, <2>3
  <2>7. \A a \in Player : /\ Knows(a, player'[a]) /\ player'[a].send_seq = player[a].send_seq
                          /\ player'[a].phase = player[a].phase
    BY <2>3, <2>5, <2>6, TypeFacts
  <2>8. got' = IF Full(buf, f) THEN [got EXCEPT ![p][q] = Append(@, Whole(buf, f))] ELSE got
    BY <1>4, <1>5, <1>11
  <2>9. Reassembled(p, q, f, i, buf)
    BY <1>7, <2>3, <2>6, <2>8 DEF Reassembled, new
  <2>. QED
    BY <1>1, <1>4, <1>7, <1>8, <1>11, <2>1, <2>6, <2>7, <2>9 DEF f, pkt
<1>. QED
  BY <1>10, <1>11

LEMMA ModFacts ==
  ASSUME NEW k \in Nat
  PROVE  k % SeqMod \in Seqs /\ (k < SeqMod => k % SeqMod = k)
<1>1. SeqMod \in Nat \ {0}
  BY FragmentAssumption
<1>. QED
  BY <1>1 DEF Seqs

\* The fragments of the sender's k-th message.
Fragments(k, len) == [i \in 1 .. len |-> Fragment((k - 1) % SeqMod, i - 1, len, k)]

LEMMA FragmentsFacts ==
  ASSUME NEW k \in Nat \ {0}, NEW len \in 1 .. MaxLen
  PROVE  /\ Fragments(k, len) \in Seq(Packet) /\ Len(Fragments(k, len)) = len
         /\ \A i \in 1 .. len : /\ Fragments(k, len)[i].kind = "fragment"
                                /\ Fragments(k, len)[i].seq = (k - 1) % SeqMod
                                /\ Fragments(k, len)[i].fnum = i - 1 /\ Fragments(k, len)[i].num = len
                                /\ Fragments(k, len)[i].body = k
<1>1. len \in Nat \ {0} /\ k - 1 \in Nat /\ (k - 1) % SeqMod \in Seqs
  BY FragmentAssumption, ModFacts
<1>2. \A i \in 1 .. len : Fragment((k - 1) % SeqMod, i - 1, len, k) \in Packet
  BY <1>1 DEF Fragment, Packet, FragmentPacket
<1>3. Fragments(k, len) \in Seq(Packet) /\ Len(Fragments(k, len)) = len
  BY <1>1, <1>2 DEF Fragments
<1>4. \A i \in 1 .. len : Fragments(k, len)[i] = Fragment((k - 1) % SeqMod, i - 1, len, k)
  BY DEF Fragments
<1>. QED
  BY <1>3, <1>4 DEF Fragment

\* A message of p, its k-th, on the way to b.
SentTo(p, b, k, len) ==
  /\ channel'[p][b] = channel[p][b] \o Fragments(k, len)
  /\ mailed'[p][b] = Append(mailed[p][b], [id |-> k, len |-> len, early |-> player[b].phase # "game"])

LEMMA CmdSendStep ==
  ASSUME TypeInv, NEW p \in Player, NEW ns \in SUBSET Nodes, NEW len \in 1 .. MaxLen, CmdSend(p, ns, len)
  PROVE  /\ player' \in [Player -> State] /\ player'[p].send_seq >= player[p].send_seq
         /\ \A a \in Player : /\ Knows(a, player'[a]) /\ player'[a].buffers = player[a].buffers
                              /\ player'[a].phase = player[a].phase
                              /\ a # p => player'[a].send_seq = player[a].send_seq
         /\ channel' \in Lines /\ mailed' \in [Player -> [Player -> Seq(Mail)]]
         /\ \A a, b \in Player : \/ channel'[a][b] = channel[a][b] /\ mailed'[a][b] = mailed[a][b]
                                 \/ a = p /\ b # p /\ \E k \in player[p].send_seq + 1 .. player'[p].send_seq :
                                      SentTo(p, b, k, len)
<1> DEFINE Kth(n) == player[p].send_seq + Cardinality({m \in ns : m <= n})
           to == {n \in ns : n # 0}
           sent == player[p].send_seq + Cardinality(ns)
           r == [player[p] EXCEPT !.send_seq = sent]
<1>1. /\ channel \in Lines /\ player \in [Player -> State] /\ player[p] \in State /\ Knows(p, player[p])
      /\ mailed \in [Player -> [Player -> Seq(Mail)]]
  BY TypeFacts DEF TypeInv
<1>2. /\ player' = [player EXCEPT ![p] = r]
      /\ channel' = [channel EXCEPT ![p] = [q \in Player |->
           IF NodeOf(p, q) \in to THEN FragmentSendPacket(channel, p, NodeOf(p, q), Kth(NodeOf(p, q)), len)[p][q]
           ELSE channel[p][q]]]
      /\ mailed' = [mailed EXCEPT ![p] = [q \in Player |->
           IF NodeOf(p, q) \notin to THEN mailed[p][q]
           ELSE Append(mailed[p][q], [id |-> Kth(NodeOf(p, q)), len |-> len, early |-> player[q].phase # "game"])]]
  <2>1. player' = [player EXCEPT ![p] = r]
    BY <1>1 DEF CmdSend, State
  <2>. QED
    BY <2>1 DEF CmdSend
<1>3. /\ player[p].send_seq \in Nat /\ IsFiniteSet(ns) /\ Cardinality(ns) \in Nat
      /\ sent \in Nat /\ sent >= player[p].send_seq
  <2>1. IsFiniteSet(Nodes)
    BY NodeFacts, FS_Interval DEF Nodes
  <2>2. IsFiniteSet(ns) /\ Cardinality(ns) \in Nat
    BY <2>1, FS_Subset, FS_CardinalityType
  <2>3. player[p].send_seq \in Nat
    BY <1>1 DEF State
  <2>. QED
    BY <2>2, <2>3
<1>4. ASSUME NEW n \in to PROVE Kth(n) \in player[p].send_seq + 1 .. sent /\ Kth(n) \in Nat \ {0}
  <2> DEFINE M == {m \in ns : m <= n}
  <2>1. M \in SUBSET ns /\ n \in M
    BY <1>4, NodeFacts DEF Nodes
  <2>. HIDE DEF M
  <2>2. IsFiniteSet(M) /\ Cardinality(M) \in Nat /\ Cardinality(M) <= Cardinality(ns)
    BY <1>3, <2>1, FS_Subset, FS_CardinalityType
  <2>3. Cardinality(M) # 0
    BY <2>1, <2>2, FS_EmptySet
  <2>4. Kth(n) = player[p].send_seq + Cardinality(M)
    BY DEF M
  <2>. HIDE DEF Kth
  <2>. QED
    BY <1>3, <2>2, <2>3, <2>4
<1>5. /\ r \in State /\ r.send_seq = sent /\ r.buffers = player[p].buffers /\ r.phase = player[p].phase
      /\ r.nodetoplayer = player[p].nodetoplayer /\ r.playertonode = player[p].playertonode
  BY <1>1, <1>3 DEF State
<1>6. Knows(p, r)
  BY <1>1, <1>5 DEF Knows, GotAll
<1>. HIDE DEF r, sent
<1>7. player' \in [Player -> State] /\ player'[p] = r /\ \A a \in Player : a # p => player'[a] = player[a]
  BY <1>1, <1>2, <1>5
<1>8. /\ player'[p].send_seq = sent
      /\ \A a \in Player : /\ Knows(a, player'[a]) /\ player'[a].buffers = player[a].buffers
                           /\ player'[a].phase = player[a].phase
                           /\ a # p => player'[a].send_seq = player[a].send_seq
  BY <1>5, <1>6, <1>7, TypeFacts
<1>. HIDE DEF Kth
<1>9. ASSUME NEW q \in Player, NodeOf(p, q) \in to
      PROVE  /\ FragmentSendPacket(channel, p, NodeOf(p, q), Kth(NodeOf(p, q)), len)[p][q]
                  = channel[p][q] \o Fragments(Kth(NodeOf(p, q)), len)
             /\ channel[p][q] \o Fragments(Kth(NodeOf(p, q)), len) \in Seq(Packet)
             /\ q # p
  <2> DEFINE n == NodeOf(p, q)
             k == Kth(n)
  <2>1. n # 0 /\ PlayerOf(p, n) = q /\ q # p
    BY <1>9, NodeFacts
  <2>2. k \in Nat \ {0}
    BY <1>4, <1>9
  <2>. HIDE DEF n, k
  <2>3. channel[p][q] \in Seq(Packet) /\ Fragments(k, len) \in Seq(Packet)
    BY <1>1, <2>2, FragmentsFacts DEF Lines
  <2>4. FragmentSendPacket(channel, p, n, k, len) = [channel EXCEPT ![p][q] = @ \o Fragments(k, len)]
    BY <2>1 DEF FragmentSendPacket, Sent, Fragments
  <2>5. FragmentSendPacket(channel, p, n, k, len)[p][q] = channel[p][q] \o Fragments(k, len)
    BY <1>1, <2>4 DEF Lines
  <2>6. channel[p][q] \o Fragments(k, len) \in Seq(Packet)
    BY <2>3, ConcatProperties
  <2>. QED
    BY <2>1, <2>5, <2>6 DEF k, n
<1>10. ASSUME NEW q \in Player, NodeOf(p, q) \in to
       PROVE  Append(mailed[p][q], [id |-> Kth(NodeOf(p, q)), len |-> len, early |-> player[q].phase # "game"]) \in Seq(Mail)
  <2>1. Kth(NodeOf(p, q)) \in Nat
    BY <1>4, <1>10
  <2>2. [id |-> Kth(NodeOf(p, q)), len |-> len, early |-> player[q].phase # "game"] \in Mail
    BY <2>1 DEF Mail
  <2>3. mailed[p][q] \in Seq(Mail)
    BY <1>1
  <2>. QED
    BY <2>2, <2>3, AppendProperties
<1>. HIDE DEF to
<1>11. channel' \in Lines
  <2>1. \A q \in Player : channel[p][q] \in Seq(Packet)
    BY <1>1 DEF Lines
  <2>2. [q \in Player |->
           IF NodeOf(p, q) \in to THEN FragmentSendPacket(channel, p, NodeOf(p, q), Kth(NodeOf(p, q)), len)[p][q]
           ELSE channel[p][q]] \in [Player -> Seq(Packet)]
    BY <1>9, <2>1
  <2>. QED
    BY <1>1, <1>2, <2>2 DEF Lines
<1>12. mailed' \in [Player -> [Player -> Seq(Mail)]]
  <2>1. \A q \in Player : mailed[p][q] \in Seq(Mail)
    BY <1>1
  <2>2. [q \in Player |->
           IF NodeOf(p, q) \notin to THEN mailed[p][q]
           ELSE Append(mailed[p][q], [id |-> Kth(NodeOf(p, q)), len |-> len, early |-> player[q].phase # "game"])]
          \in [Player -> Seq(Mail)]
    BY <1>10, <2>1
  <2>. QED
    BY <1>1, <1>2, <2>2
<1>13. ASSUME NEW a \in Player, NEW b \in Player
       PROVE  \/ channel'[a][b] = channel[a][b] /\ mailed'[a][b] = mailed[a][b]
              \/ a = p /\ b # p /\ \E k \in player[p].send_seq + 1 .. player'[p].send_seq : SentTo(p, b, k, len)
  <2>1. CASE a # p
    BY <1>1, <1>2, <2>1 DEF Lines
  <2>2. CASE a = p /\ NodeOf(p, b) \notin to
    BY <1>1, <1>2, <2>2 DEF Lines
  <2>3. CASE a = p /\ NodeOf(p, b) \in to
    <3>1. /\ channel'[p][b] = FragmentSendPacket(channel, p, NodeOf(p, b), Kth(NodeOf(p, b)), len)[p][b]
          /\ mailed'[p][b] = Append(mailed[p][b], [id |-> Kth(NodeOf(p, b)), len |-> len,
                                                   early |-> player[b].phase # "game"])
      BY <1>1, <1>2, <2>3 DEF Lines
    <3>2. Kth(NodeOf(p, b)) \in player[p].send_seq + 1 .. player'[p].send_seq /\ b # p
      BY <1>4, <1>8, <1>9, <2>3
    <3>3. SentTo(p, b, Kth(NodeOf(p, b)), len)
      BY <1>9, <2>3, <3>1 DEF SentTo
    <3>. QED
      BY <2>3, <3>2, <3>3
  <2>. QED
    BY <2>1, <2>2, <2>3
<1>. QED
  BY <1>3, <1>8, <1>7, <1>11, <1>12, <1>13

LEMMA SomeSend ==
  ASSUME TypeInv, NEW p \in Player, CmdSendAny(p)
  PROVE  \E ns \in SUBSET Nodes, len \in 1 .. MaxLen : CmdSend(p, ns, len)
<1>1. PICK len \in 1 .. MaxLen : \/ \E q \in Others(p) : CmdSend(p, {player[p].playertonode[q]}, len)
                                 \/ CmdSend(p, Nodes, len) \/ CmdSend(p, Nodes \ {0}, len)
  BY DEF CmdSendAny
<1>2. ASSUME NEW q \in Others(p), CmdSend(p, {player[p].playertonode[q]}, len)
      PROVE  {player[p].playertonode[q]} \in SUBSET Nodes
  <2>1. player[p].phase = "game" /\ q \in Player
    BY <1>2 DEF CmdSend, Others
  <2>2. player[p].playertonode[q] = NodeOf(p, q)
    BY <2>1, TypeFacts
  <2>. QED
    BY <2>1, <2>2, NodeFacts
<1>. QED
  BY <1>1, <1>2

\* Lose takes a packet as a receiver does.
LEMMA LoseStep ==
  ASSUME TypeInv, NEW p \in Player, NEW q \in Others(p), Lose(p, q)
  PROVE  AfterTaking(p, q)
<1>1. channel \in Lines /\ q \in Player /\ q # p /\ channel[p][q] # <<>> /\ channel' = Taken(channel, p, q)
  BY TypeFacts DEF Lose, Others, Taken
<1>2. \A a, b \in Player : channel[a][b] \in Seq(Packet) /\ NoNews(channel[a][b], channel[a][b])
  BY <1>1, NoNewsFacts DEF Lines
<1>3. /\ channel' \in Lines /\ Head(channel[p][q]) \in Packet
      /\ \A a, b \in Player : channel'[a][b] = IF a = p /\ b = q THEN Tail(channel[p][q]) ELSE channel[a][b]
  BY <1>1, TakenLines
<1>. QED
  BY <1>1, <1>2, <1>3 DEF AfterTaking

-----------------------------------------------------------------------------
(***************************************************************************)
(* The types hold.                                                         *)
(***************************************************************************)
LEMMA InitType == Init => TypeInv
<1>. SUFFICES ASSUME Init PROVE TypeInv
  OBVIOUS
<1>1. /\ limit \in Limits /\ limit.losses \in Nat /\ losses = 0
      /\ player = [p \in Player |-> IF limit.found THEN Found(p) ELSE Discovering(p)]
      /\ mailed = [p \in Player |-> [q \in Player |-> <<>>]] /\ got = mailed /\ stray = [p \in Player |-> {}]
      /\ channel = [p \in Player |-> [q \in Player |->
                      IF limit.found /\ p = 0 /\ q # 0 THEN <<Discover(FALSE)>> ELSE <<>>]]
  BY LimitsAssumption DEF Init
<1>3. ASSUME NEW p \in Player
      PROVE  /\ Discovering(p) \in State /\ Knows(p, Discovering(p))
             /\ Found(p) \in State /\ Knows(p, Found(p))
  <2> DEFINE b == [i \in 1 .. Buffers |-> Free]
             node == [n \in {0} |-> p]
             whom == [q \in {p} |-> 0]
             nodes == [n \in Nodes |-> PlayerOf(p, n)]
             whoms == [q \in Player |-> NodeOf(p, q)]
  <2>1. /\ Nodes \in SUBSET Nat /\ Player \in SUBSET Nat /\ {0} \in SUBSET Nat /\ {p} \in SUBSET Nat /\ p \in Nat
        /\ 0 \in Nodes /\ PlayerOf(p, 0) = p /\ NodeOf(p, p) = 0
    <3>1. NumNodes \in Nat /\ Player = 0 .. NumNodes - 1 /\ Nodes = Player
      BY NodeFacts DEF Nodes
    <3>2. 0 \in Nodes /\ PlayerOf(p, 0) = p /\ NodeOf(p, p) = 0
      BY NodeFacts
    <3>. QED
      BY <3>1, <3>2
  <2>2. b \in [1 .. Buffers -> Buffer]
    <3>1. Free \in Buffer
      BY EmptyMap, <2>1, FragmentAssumption DEF Free, Buffer, Seqs
    <3>. QED
      BY <3>1
  <2>3. node \in Maps /\ whom \in Maps
    <3>1. node \in [{0} -> Nat] /\ whom \in [{p} -> Nat]
      BY <2>1
    <3>. HIDE DEF node, whom
    <3>. QED
      BY <2>1, <3>1 DEF Maps
  <2>4. nodes \in Maps /\ whoms \in Maps
    <3>1. nodes \in [Nodes -> Nat] /\ whoms \in [Player -> Nat]
      BY <2>1, NodeFacts
    <3>. HIDE DEF nodes, whoms
    <3>. QED
      BY <2>1, <3>1 DEF Maps
  <2>5. Discovering(p) = [phase |-> "discover", nodetoplayer |-> node, playertonode |-> whom, buffers |-> b, send_seq |-> 0]
    BY DEF Discovering
  <2>7. /\ DOMAIN node = {0} /\ node[0] = p /\ DOMAIN whom = {p} /\ whom[p] = 0
        /\ DOMAIN nodes = Nodes /\ DOMAIN whoms = Player
        /\ \A n \in Nodes : nodes[n] = PlayerOf(p, n)
        /\ \A q \in Player : whoms[q] = NodeOf(p, q)
    OBVIOUS
  <2>. HIDE DEF b, node, whom, nodes, whoms
  <2>6. Discovering(p) \in State
    BY <2>2, <2>3, <2>5 DEF State
  <2>8. Found(p) \in State /\ Found(p).phase = "game" /\ Found(p).nodetoplayer = nodes /\ Found(p).playertonode = whoms
    <3>1. Found(p) = [Discovering(p) EXCEPT !.phase = "game", !.nodetoplayer = nodes, !.playertonode = whoms]
      BY DEF Found, nodes, whoms
    <3>. QED
      BY <2>4, <2>6, <3>1 DEF State
  <2>9. Knows(p, Discovering(p))
    BY <2>1, <2>5, <2>7 DEF Knows
  <2>10. Player = {PlayerOf(p, n) : n \in Nodes}
    BY NodeFacts
  <2>11. Knows(p, Found(p))
    BY <2>7, <2>8, <2>10 DEF Knows, GotAll
  <2>. QED
    BY <2>6, <2>8, <2>9, <2>11
<1>4. player \in [Player -> State] /\ \A p \in Player : Knows(p, player[p])
  BY <1>1, <1>3
<1>5. channel \in [Player -> [Player -> Seq(Packet)]] /\ \A p \in Player : channel[p][p] = <<>>
  <2>1. Discover(FALSE) \in Packet
    BY PacketFacts
  <2> DEFINE d == <<Discover(FALSE)>>
  <2>2. <<>> \in Seq(Packet) /\ d \in Seq(Packet)
    <3> DEFINE e == Discover(FALSE)
    <3>1. e \in Packet
      BY <2>1
    <3>. HIDE DEF e
    <3>2. <<>> \in Seq(Packet) /\ <<e>> \in Seq(Packet)
      BY <3>1
    <3>. QED
      BY <3>2 DEF e
  <2>. HIDE DEF d
  <2>3. channel = [p \in Player |-> [q \in Player |-> IF limit.found /\ p = 0 /\ q # 0 THEN d ELSE <<>>]]
    BY <1>1 DEF d
  <2>. QED
    BY <2>2, <2>3
<1>6. /\ mailed \in [Player -> [Player -> Seq(Mail)]] /\ got \in [Player -> [Player -> Seq(Message)]]
      /\ stray \in [Player -> SUBSET Player]
      /\ \A p \in Player : mailed[p][p] = <<>> /\ got[p][p] = <<>>
  BY <1>1
<1>7. losses \in 0 .. limit.losses
  BY <1>1
<1>. QED
  BY <1>1, <1>4, <1>5, <1>6, <1>7 DEF TypeInv

LEMMA NextType == TypeInv /\ [Next]_vars => TypeInv'
<1>. SUFFICES ASSUME TypeInv, [Next]_vars PROVE TypeInv'
  OBVIOUS
<1>. USE DEF TypeInv
<1>1. ASSUME NEW p \in Player, SendDiscover(p) PROVE TypeInv'
  BY <1>1, SendDiscoverStep DEF SendDiscover, Lines
<1>2. ASSUME NEW p \in Player, CmdSendAny(p) PROVE TypeInv'
  <2>1. PICK ns \in SUBSET Nodes, len \in 1 .. MaxLen : CmdSend(p, ns, len)
    BY <1>2, SomeSend
  <2>2. /\ player' \in [Player -> State] /\ \A a \in Player : Knows(a, player'[a])
        /\ channel' \in Lines /\ mailed' \in [Player -> [Player -> Seq(Mail)]]
        /\ \A a, b \in Player : (channel'[a][b] = channel[a][b] /\ mailed'[a][b] = mailed[a][b]) \/ a # b
    <3>. HIDE DEF TypeInv
    <3>1. /\ player' \in [Player -> State] /\ channel' \in Lines /\ mailed' \in [Player -> [Player -> Seq(Mail)]]
          /\ \A a \in Player : Knows(a, player'[a])
      BY <2>1, CmdSendStep
    <3>2. \A a, b \in Player : (channel'[a][b] = channel[a][b] /\ mailed'[a][b] = mailed[a][b]) \/ a # b
      <4>1. \A a, b \in Player : \/ channel'[a][b] = channel[a][b] /\ mailed'[a][b] = mailed[a][b]
                                 \/ a = p /\ b # p /\ \E k \in player[p].send_seq + 1 .. player'[p].send_seq :
                                       SentTo(p, b, k, len)
        BY <2>1, CmdSendStep
      <4>. QED
        BY ONLY <4>1
    <3>. QED
      BY <3>1, <3>2
  <2>4. \A a \in Player : channel'[a][a] = channel[a][a] /\ mailed'[a][a] = mailed[a][a]
    BY <2>2
  <2>3. UNCHANGED <<got, stray, losses, limit>>
    BY <2>1 DEF CmdSend
  <2>. QED
    BY <2>2, <2>3, <2>4 DEF Lines
<1>3. ASSUME NEW p \in Player, NEW q \in Others(p), DiscoverPlayers(p, q) PROVE TypeInv'
  <2>1. /\ player' \in [Player -> State] /\ \A a \in Player : Knows(a, player'[a])
        /\ channel' \in Lines /\ \A a \in Player : channel'[a][a] = channel[a][a]
    BY <1>3, DiscoverPlayersStep DEF AfterTaking
  <2>2. UNCHANGED <<mailed, got, stray, losses, limit>>
    BY <1>3 DEF DiscoverPlayers
  <2>. QED
    BY <2>1, <2>2 DEF Lines
<1>4. ASSUME NEW p \in Player, NEW q \in Others(p), CmdGet(p, q) PROVE TypeInv'
  <2>0. q \in Player /\ q # p
    BY DEF Others
  <2>1. /\ player' \in [Player -> State] /\ \A a \in Player : Knows(a, player'[a])
        /\ channel' \in Lines /\ \A a \in Player : channel'[a][a] = channel[a][a]
        /\ channel[q][p] # <<>> /\ channel[q][p] \in Seq(Packet)
    BY <1>4, CmdGetStep DEF AfterTaking
  <2>2. UNCHANGED <<mailed, losses, limit>>
    BY <1>4 DEF CmdGet
  <2> DEFINE f == AsFragment(Head(channel[q][p]))
  <2>3. \/ got' = got /\ stray' = stray
        \/ /\ \E i \in 1 .. Buffers, buf \in Buffer : Reassembled(p, q, f, i, buf)
           /\ stray' = stray \/ stray' = [stray EXCEPT ![p] = @ \cup {q}]
    BY <1>4, CmdGetStep
  <2>4. stray' \in [Player -> SUBSET Player]
    <3>1. stray' = stray \/ stray' = [stray EXCEPT ![p] = @ \cup {q}]
      BY <2>3
    <3>2. stray \in [Player -> SUBSET Player] /\ stray[p] \cup {q} \in SUBSET Player
      BY <2>0
    <3>3. [stray EXCEPT ![p] = stray[p] \cup {q}] \in [Player -> SUBSET Player]
      BY ONLY <3>2
    <3>. QED
      BY ONLY <3>1, <3>2, <3>3
  <2>5. f \in FragmentPacket
    <3>1. Head(channel[q][p]) \in Packet
      BY <2>1, HeadTailProperties
    <3>. QED
      BY <3>1, PacketFacts
  <2>. HIDE DEF f
  <2>6. ASSUME NEW i \in 1 .. Buffers, NEW buf \in Buffer, Reassembled(p, q, f, i, buf)
        PROVE  got' \in [Player -> [Player -> Seq(Message)]] /\ \A a \in Player : got'[a][a] = got[a][a]
    <3>1. CASE ~Full(buf, f)
      BY <2>6, <3>1 DEF Reassembled
    <3>2. CASE Full(buf, f)
      <4>1. Whole(buf, f) \in Message
        <5>1. DOMAIN buf.parts = 0 .. f.num - 1 /\ buf.parts \in Maps /\ buf.last \in Nat
          BY <3>2 DEF Full, Buffer
        <5>2. \A j \in 0 .. f.num - 1 : buf.parts[j] \in Nat
          <6>1. PICK S \in SUBSET Nat : buf.parts \in [S -> Nat]
            BY <5>1 DEF Maps
          <6>. QED
            BY ONLY <5>1, <6>1
        <5>. QED
          BY <5>1, <5>2 DEF Whole, Message
      <4>2. got[p][q] \in Seq(Message)
        BY <2>0
      <4>3. Append(got[p][q], Whole(buf, f)) \in Seq(Message)
        BY <4>1, <4>2, AppendProperties
      <4>4. got' = [got EXCEPT ![p][q] = Append(got[p][q], Whole(buf, f))]
        BY <2>6, <3>2, <2>0 DEF Reassembled
      <4>. QED
        BY <2>0, <4>3, <4>4
    <3>. QED
      BY <3>1, <3>2
  <2>7. got' \in [Player -> [Player -> Seq(Message)]] /\ \A a \in Player : got'[a][a] = got[a][a]
    BY <2>3, <2>6
  <2>. QED
    BY <2>1, <2>2, <2>4, <2>7 DEF Lines
<1>5. ASSUME NEW p \in Player, NEW q \in Others(p), Lose(p, q) PROVE TypeInv'
  <2>1. channel' \in Lines /\ \A a \in Player : channel'[a][a] = channel[a][a]
    BY <1>5, LoseStep DEF AfterTaking
  <2>2. UNCHANGED <<player, mailed, got, stray, limit>> /\ losses' = losses + 1 /\ losses < limit.losses
    BY <1>5 DEF Lose
  <2>3. losses' \in 0 .. limit.losses
    <3>1. limit.losses \in Nat /\ losses \in 0 .. limit.losses
      BY TypeFacts
    <3>. QED
      BY <2>2, <3>1
  <2>. QED
    BY <2>1, <2>2, <2>3 DEF Lines
<1>6. CASE UNCHANGED vars
  BY <1>6 DEF vars
<1>. QED
  BY <1>1, <1>2, <1>3, <1>4, <1>5, <1>6 DEF Next

\* Types, and what a player knows of the nodes is so: for every number of players and however
\* their drivers number them.
THEOREM TypesHold == Spec => []TypeOK
<1>1. TypeInv => TypeOK
  <2>. SUFFICES ASSUME TypeInv PROVE TypeOK
    OBVIOUS
  <2>1. ASSUME NEW p \in Player
        PROVE  /\ player[p].phase \in {"discover", "game"}
               /\ \A i \in 1 .. Buffers : player[p].buffers[i].remotenode \in Nodes
                                          /\ player[p].buffers[i].seq \in 0 .. SeqMod - 1
    <3>1. player[p] \in State
      BY TypeFacts
    <3>2. \A i \in 1 .. Buffers : player[p].buffers[i] \in Buffer
      BY <3>1 DEF State
    <3>. QED
      BY <3>1, <3>2 DEF State, Buffer, Seqs
  <2>2. ASSUME NEW p \in Player
        PROVE  /\ DOMAIN player[p].nodetoplayer \subseteq Nodes
               /\ \A n \in DOMAIN player[p].nodetoplayer : player[p].nodetoplayer[n] = PlayerOf(p, n)
               /\ \A q \in DOMAIN player[p].playertonode : PlayerOf(p, player[p].playertonode[q]) = q
    <3>1. Knows(p, player[p])
      BY TypeFacts
    <3>2. \A q \in DOMAIN player[p].playertonode : q \in Player
      BY <3>1, NodeFacts DEF Knows
    <3>3. \A q \in DOMAIN player[p].playertonode : player[p].playertonode[q] = NodeOf(p, q)
      BY <3>1 DEF Knows
    <3>4. \A q \in DOMAIN player[p].playertonode : PlayerOf(p, player[p].playertonode[q]) = q
      BY <3>2, <3>3, NodeFacts
    <3>. QED
      BY <3>1, <3>4 DEF Knows
  <2>3. losses \in 0 .. limit.losses
    BY DEF TypeInv
  <2>. QED
    BY <2>1, <2>2, <2>3 DEF TypeOK
<1>. QED
  BY <1>1, InitType, NextType, PTL DEF Spec

-----------------------------------------------------------------------------
(***************************************************************************)
(* Whole messages in order.  On a line fragments are in the order they     *)
(* were sent in; what a buffer holds comes before what is on the line, and *)
(* while sequence numbers last it is of the message that the buffer is     *)
(* for.  So only the last fragment of a message can make it whole.         *)
(***************************************************************************)
InLine(ch) == {i \in DOMAIN ch : ch[i].kind = "fragment"}
Precedes(body, fnum, f) == body < f.body \/ (body = f.body /\ fnum < f.fnum)

\* f is a fragment of one of the messages.
FragmentOf(f, mail) ==
  /\ f.fnum < f.num /\ f.seq = (f.body - 1) % SeqMod
  /\ \E j \in DOMAIN mail : mail[j].id = f.body /\ mail[j].len = f.num

\* The line from one to another, whose messages are among the sender's first sent.
Line(ch, mail, sent) ==
  /\ \A j \in DOMAIN mail : mail[j].id \in 1 .. sent /\ \A k \in DOMAIN mail : j < k => mail[j].id < mail[k].id
  /\ \A i \in InLine(ch) : FragmentOf(ch[i], mail)
  /\ \A i, j \in InLine(ch) : i < j => Precedes(ch[i].body, ch[i].fnum, ch[j])

\* What buffers hold of node n.
Held(ch, sent, b, n) ==
  \A i \in 1 .. Buffers : b[i].remotenode = n => \A j \in DOMAIN b[i].parts :
    \/ j = MagicFnum
    \/ /\ b[i].parts[j] = b[i].seq + 1 /\ b[i].parts[j] <= sent
       /\ \A k \in InLine(ch) : Precedes(b[i].parts[j], j, ch[k])

\* The messages g that the game has got.
Reached(ch, mail, g) ==
  /\ \A i \in DOMAIN g : \E j \in DOMAIN mail : g[i] = [last |-> mail[j].len, ids |-> {mail[j].id}]
  /\ \A i, j \in DOMAIN g : i < j => \A x \in g[i].ids, y \in g[j].ids : x < y
  /\ \A i \in DOMAIN g : \A x \in g[i].ids, k \in InLine(ch) : x < ch[k].body

Ends(ch, mail, sent, b, n, g) ==
  Line(ch, mail, sent) /\ (sent <= SeqMod => Held(ch, sent, b, n) /\ Reached(ch, mail, g))

EndsInv ==
  \A p \in Player : \A q \in Others(p) :
    Ends(channel[p][q], mailed[p][q], player[p].send_seq, player[q].buffers, NodeOf(q, p), got[q][p])

\* The fragments of t are those of s without the first d packets.
Thinned(s, t, d) == \A i \in InLine(t) : i + d \in InLine(s) /\ t[i] = s[i + d]

LEMMA InLineFacts ==
  ASSUME NEW ch \in Seq(Packet)
  PROVE  /\ InLine(ch) \subseteq Nat \ {0} /\ InLine(ch) \subseteq DOMAIN ch
         /\ \A i \in InLine(ch) : ch[i] \in FragmentPacket /\ ch[i].body \in Nat /\ ch[i].fnum \in Nat
                                  /\ ch[i].num \in Nat \ {0} /\ ch[i].kind = "fragment"
<1>1. DOMAIN ch = 1 .. Len(ch) /\ Len(ch) \in Nat /\ \A i \in DOMAIN ch : ch[i] \in Packet
  BY ElementOfSeq
<1>2. \A i \in InLine(ch) : ch[i] \in FragmentPacket /\ ch[i].kind = "fragment"
  BY <1>1, PacketFacts DEF InLine
<1>3. \A i \in InLine(ch) : ch[i].body \in Nat /\ ch[i].fnum \in Nat /\ ch[i].num \in Nat \ {0}
  BY <1>2 DEF FragmentPacket
<1>. QED
  BY <1>1, <1>2, <1>3 DEF InLine

LEMMA ThinnedNews ==
  ASSUME NEW s \in Seq(Packet), NEW t \in Seq(Packet), NoNews(s, t)
  PROVE  Thinned(s, t, 0)
<1>. SUFFICES ASSUME NEW i \in InLine(t) PROVE i + 0 \in InLine(s) /\ t[i] = s[i + 0]
  BY DEF Thinned
<1>1. /\ DOMAIN t = 1 .. Len(t) /\ DOMAIN s = 1 .. Len(s) /\ Len(s) \in Nat /\ Len(t) \in Nat
      /\ i \in 1 .. Len(t) /\ t[i].kind = "fragment"
  BY DEF InLine
<1>2. ~(i > Len(s))
  BY <1>1 DEF NoNews
<1>3. i \in 1 .. Len(s) /\ i + 0 = i
  BY <1>1, <1>2
<1>4. t[i] = s[i]
  BY <1>3 DEF NoNews
<1>. QED
  BY <1>1, <1>3, <1>4 DEF InLine

LEMMA ThinnedTail ==
  ASSUME NEW s \in Seq(Packet), s # <<>>
  PROVE  Thinned(s, Tail(s), 1) /\ Tail(s) \in Seq(Packet)
<1>1. /\ Tail(s) \in Seq(Packet) /\ Len(Tail(s)) = Len(s) - 1
      /\ \A i \in 1 .. Len(Tail(s)) : Tail(s)[i] = s[i + 1]
  BY HeadTailProperties
<1>2. DOMAIN s = 1 .. Len(s) /\ Len(s) \in Nat /\ DOMAIN Tail(s) = 1 .. Len(Tail(s))
  BY <1>1
<1>3. ASSUME NEW i \in InLine(Tail(s)) PROVE i + 1 \in InLine(s) /\ Tail(s)[i] = s[i + 1]
  <2>1. i \in 1 .. Len(Tail(s)) /\ Tail(s)[i].kind = "fragment"
    BY <1>2 DEF InLine
  <2>2. i + 1 \in DOMAIN s
    BY <1>1, <1>2, <2>1
  <2>. QED
    BY <1>1, <2>1, <2>2 DEF InLine
<1>. QED
  BY <1>1, <1>3 DEF Thinned

\* What holds of a line holds of a part of it.
LEMMA ThinnedLine ==
  ASSUME NEW s \in Seq(Packet), NEW t \in Seq(Packet), NEW d \in {0, 1}, Thinned(s, t, d),
         NEW mail, NEW sent \in Nat, NEW more \in Nat, sent <= more, Line(s, mail, sent)
  PROVE  Line(t, mail, more)
<1>1. /\ InLine(s) \subseteq Nat \ {0} /\ InLine(t) \subseteq Nat \ {0}
      /\ \A i \in InLine(t) : i + d \in InLine(s) /\ t[i] = s[i + d]
  BY InLineFacts DEF Thinned
<1>2. \A j \in DOMAIN mail : mail[j].id \in 1 .. more /\ \A k \in DOMAIN mail : j < k => mail[j].id < mail[k].id
  BY DEF Line
<1>3. \A i \in InLine(t) : FragmentOf(t[i], mail)
  BY <1>1 DEF Line
<1>4. ASSUME NEW i \in InLine(t), NEW j \in InLine(t), i < j
      PROVE  Precedes(t[i].body, t[i].fnum, t[j])
  <2>1. i + d < j + d
    BY <1>1, <1>4
  <2>. QED
    BY <1>1, <2>1 DEF Line
<1>. QED
  BY <1>2, <1>3, <1>4 DEF Line

LEMMA ThinnedHeld ==
  ASSUME NEW s, NEW t, NEW d, Thinned(s, t, d), NEW sent, NEW b, NEW n, Held(s, sent, b, n)
  PROVE  Held(t, sent, b, n)
BY DEF Held, Thinned

LEMMA ThinnedReached ==
  ASSUME NEW s, NEW t, NEW d, Thinned(s, t, d), NEW mail, NEW g, Reached(s, mail, g)
  PROVE  Reached(t, mail, g)
BY DEF Reached, Thinned

LEMMA KeptEnds ==
  ASSUME NEW s \in Seq(Packet), NEW t \in Seq(Packet), NEW d \in {0, 1}, Thinned(s, t, d),
         NEW mail, NEW sent \in Nat, NEW more \in Nat, sent <= more,
         NEW b \in [1 .. Buffers -> Buffer], NEW n, NEW g,
         Ends(s, mail, sent, b, n, g)
  PROVE  Ends(t, mail, more, b, n, g)
<1>1. Line(t, mail, more)
  BY ThinnedLine DEF Ends
<1>2. ASSUME more <= SeqMod PROVE Held(t, more, b, n) /\ Reached(t, mail, g)
  <2>1. sent <= SeqMod
    BY <1>2, FragmentAssumption
  <2>2. Held(s, sent, b, n) /\ Reached(s, mail, g)
    BY <2>1 DEF Ends
  <2>3. Held(t, sent, b, n) /\ Reached(t, mail, g)
    BY <2>2, ThinnedHeld, ThinnedReached
  <2>4. Held(t, more, b, n)
    <3>. SUFFICES ASSUME NEW i \in 1 .. Buffers, b[i].remotenode = n, NEW j \in DOMAIN b[i].parts, j # MagicFnum,
                         Held(t, sent, b, n)
                  PROVE  /\ b[i].parts[j] = b[i].seq + 1 /\ b[i].parts[j] <= more
                         /\ \A k \in InLine(t) : Precedes(b[i].parts[j], j, t[k])
      BY <2>3 DEF Held
    <3> DEFINE x == b[i].parts[j]
    <3>1. x = b[i].seq + 1 /\ x <= sent /\ \A k \in InLine(t) : Precedes(x, j, t[k])
      BY DEF Held
    <3>2. b[i].seq \in Int
      BY DEF Buffer, Seqs
    <3>3. x <= more
      BY <3>1, <3>2
    <3>. QED
      BY <3>1, <3>3
  <2>. QED
    BY <2>3, <2>4
<1>. QED
  BY <1>1, <1>2 DEF Ends

\* A message, the k-th of the sender, enters the line.
LEMMA SentEnds ==
  ASSUME NEW s \in Seq(Packet), NEW mail \in Seq(Mail), NEW sent \in Nat, NEW more \in Nat,
         NEW k \in sent + 1 .. more, NEW len \in 1 .. MaxLen, NEW e \in BOOLEAN,
         NEW b \in [1 .. Buffers -> Buffer], NEW n, NEW g \in Seq(Message), Ends(s, mail, sent, b, n, g)
  PROVE  Ends(s \o Fragments(k, len), Append(mail, [id |-> k, len |-> len, early |-> e]), more, b, n, g)
<1> DEFINE t == s \o Fragments(k, len)
           new == Append(mail, [id |-> k, len |-> len, early |-> e])
           L == Len(s)
           M == Len(mail)
<1>1. /\ k \in Nat \ {0} /\ len \in Nat \ {0} /\ sent < k /\ k <= more /\ sent <= more
      /\ L \in Nat /\ DOMAIN s = 1 .. L /\ M \in Nat /\ DOMAIN mail = 1 .. M
  BY FragmentAssumption
<1>2. /\ Fragments(k, len) \in Seq(Packet) /\ Len(Fragments(k, len)) = len
      /\ \A i \in 1 .. len : /\ Fragments(k, len)[i].kind = "fragment"
                             /\ Fragments(k, len)[i].seq = (k - 1) % SeqMod
                             /\ Fragments(k, len)[i].fnum = i - 1 /\ Fragments(k, len)[i].num = len
                             /\ Fragments(k, len)[i].body = k
  BY <1>1, FragmentsFacts
<1>3. /\ t \in Seq(Packet) /\ Len(t) = L + len /\ DOMAIN t = 1 .. L + len
      /\ \A i \in 1 .. L + len : t[i] = IF i <= L THEN s[i] ELSE Fragments(k, len)[i - L]
  BY <1>1, <1>2, ConcatProperties
<1>4. /\ new \in Seq(Mail) /\ Len(new) = M + 1 /\ DOMAIN new = 1 .. M + 1
      /\ \A j \in 1 .. M : new[j] = mail[j]
      /\ new[M + 1] = [id |-> k, len |-> len, early |-> e]
  <2>1. [id |-> k, len |-> len, early |-> e] \in Mail
    BY <1>1 DEF Mail
  <2>. QED
    BY <1>1, <2>1, AppendProperties
<1>. HIDE DEF t, new, L, M
<1>5. \A i \in DOMAIN t : (i \in DOMAIN s /\ t[i] = s[i])
                          \/ (i \in L + 1 .. L + len /\ t[i].kind = "fragment" /\ t[i].seq = (k - 1) % SeqMod
                              /\ t[i].fnum = i - L - 1 /\ t[i].num = len /\ t[i].body = k)
  <2>. SUFFICES ASSUME NEW i \in 1 .. L + len
                PROVE  (i \in DOMAIN s /\ t[i] = s[i])
                       \/ (i \in L + 1 .. L + len /\ t[i].kind = "fragment" /\ t[i].seq = (k - 1) % SeqMod
                           /\ t[i].fnum = i - L - 1 /\ t[i].num = len /\ t[i].body = k)
    BY <1>3
  <2>1. CASE i <= L
    BY <1>1, <1>3, <2>1
  <2>2. CASE ~(i <= L)
    <3>1. i - L \in 1 .. len /\ i \in L + 1 .. L + len /\ (i - L) - 1 = i - L - 1
      BY <1>1, <2>2
    <3>2. t[i] = Fragments(k, len)[i - L]
      BY <1>3, <2>2
    <3>. QED
      BY <1>2, <3>1, <3>2
  <2>. QED
    BY <2>1, <2>2
<1>6. \A i \in InLine(t) : \/ i \in InLine(s) /\ t[i] = s[i]
                           \/ /\ i \in L + 1 .. L + len /\ t[i].seq = (k - 1) % SeqMod
                              /\ t[i].fnum = i - L - 1 /\ t[i].num = len /\ t[i].body = k
  BY <1>5 DEF InLine
<1>7. \A j \in DOMAIN mail : mail[j].id \in Nat /\ mail[j].id <= sent /\ mail[j].id \in 1 .. sent
  BY DEF Ends, Line
<1>8. \A i \in InLine(s) : /\ s[i].body \in Nat /\ s[i].body <= sent /\ s[i].fnum \in Nat
                           /\ i \in 1 .. L /\ FragmentOf(s[i], mail)
  <2>1. \A i \in InLine(s) : FragmentOf(s[i], mail)
    BY DEF Ends, Line
  <2>. QED
    BY <1>1, <1>7, <2>1, InLineFacts DEF FragmentOf
<1>9. Line(t, new, more)
  <2>1. \A j \in DOMAIN new : new[j].id \in 1 .. more /\ \A l \in DOMAIN new : j < l => new[j].id < new[l].id
    <3>1. \A j \in DOMAIN new : (j \in DOMAIN mail /\ new[j] = mail[j]) \/ (j = M + 1 /\ new[j].id = k)
      BY <1>1, <1>4
    <3>2. \A j, l \in DOMAIN mail : j < l => mail[j].id < mail[l].id
      BY DEF Ends, Line
    <3>3. ASSUME NEW j \in DOMAIN new, NEW l \in DOMAIN new, j < l PROVE new[j].id < new[l].id
      <4>1. j \in DOMAIN mail /\ new[j] = mail[j]
        BY <1>1, <1>4, <3>1, <3>3
      <4>. QED
        BY <1>1, <1>7, <3>1, <3>2, <3>3, <4>1
    <3>4. \A j \in DOMAIN new : new[j].id \in 1 .. more
      BY <1>1, <1>7, <3>1
    <3>. QED
      BY <3>3, <3>4
  <2>2. ASSUME NEW i \in InLine(t) PROVE FragmentOf(t[i], new)
    <3>1. CASE i \in InLine(s) /\ t[i] = s[i]
      <4>1. \A j \in DOMAIN mail : j \in DOMAIN new /\ new[j] = mail[j]
        BY <1>1, <1>4
      <4>2. FragmentOf(s[i], mail)
        BY <1>8, <3>1
      <4>. QED
        BY <3>1, <4>1, <4>2 DEF FragmentOf
    <3>2. CASE /\ i \in L + 1 .. L + len /\ t[i].seq = (k - 1) % SeqMod
               /\ t[i].fnum = i - L - 1 /\ t[i].num = len /\ t[i].body = k
      <4>1. M + 1 \in DOMAIN new /\ new[M + 1].id = k /\ new[M + 1].len = len
        BY <1>1, <1>4
      <4>2. t[i].fnum < t[i].num
        BY <1>1, <3>2
      <4>. QED
        BY <3>2, <4>1, <4>2 DEF FragmentOf
    <3>. QED
      BY <1>6, <3>1, <3>2
  <2>3. ASSUME NEW i \in InLine(t), NEW j \in InLine(t), i < j PROVE Precedes(t[i].body, t[i].fnum, t[j])
    <3>1. CASE i \in InLine(s) /\ j \in InLine(s) /\ t[i] = s[i] /\ t[j] = s[j]
      BY <2>3, <3>1 DEF Ends, Line
    <3>2. CASE i \in InLine(s) /\ t[i] = s[i] /\ t[j].body = k
      BY <1>1, <1>8, <3>2 DEF Precedes
    <3>3. CASE i \in L + 1 .. L + len /\ j \in InLine(s)
      BY <1>1, <1>8, <2>3, <3>3
    <3>4. CASE /\ i \in L + 1 .. L + len /\ t[i].fnum = i - L - 1 /\ t[i].body = k
               /\ j \in L + 1 .. L + len /\ t[j].fnum = j - L - 1 /\ t[j].body = k
      <4>1. t[i].fnum < t[j].fnum
        BY <1>1, <2>3, <3>4
      <4>. QED
        BY <3>4, <4>1 DEF Precedes
    <3>. QED
      BY <1>6, <3>1, <3>2, <3>3, <3>4
  <2>. QED
    BY <2>1, <2>2, <2>3 DEF Line
<1>10. ASSUME more <= SeqMod PROVE Held(t, more, b, n) /\ Reached(t, new, g)
  <2>1. Held(s, sent, b, n) /\ Reached(s, mail, g)
    <3>1. sent <= SeqMod
      BY <1>1, <1>10, FragmentAssumption
    <3>. QED
      BY <3>1 DEF Ends
  <2>2. Held(t, more, b, n)
    <3>. SUFFICES ASSUME NEW i \in 1 .. Buffers, b[i].remotenode = n, NEW j \in DOMAIN b[i].parts, j # MagicFnum
                  PROVE  /\ b[i].parts[j] = b[i].seq + 1 /\ b[i].parts[j] <= more
                         /\ \A m \in InLine(t) : Precedes(b[i].parts[j], j, t[m])
      BY DEF Held
    <3> DEFINE x == b[i].parts[j]
    <3>1. x = b[i].seq + 1 /\ x <= sent /\ \A m \in InLine(s) : Precedes(x, j, s[m])
      BY <2>1 DEF Held
    <3>2. b[i].seq \in Int
      BY DEF Buffer, Seqs
    <3>3. x <= more /\ x < k
      BY <1>1, <3>1, <3>2
    <3>. HIDE DEF x
    <3>4. \A m \in InLine(t) : Precedes(x, j, t[m])
      BY <1>6, <3>1, <3>3 DEF Precedes
    <3>. QED
      BY <3>1, <3>3, <3>4 DEF x
  <2>3. \A i \in DOMAIN g : \E j \in DOMAIN mail : g[i] = [last |-> mail[j].len, ids |-> {mail[j].id}]
    BY <2>1 DEF Reached
  <2>4. \A i \in DOMAIN g : \E j \in DOMAIN new : g[i] = [last |-> new[j].len, ids |-> {new[j].id}]
    <3>1. \A j \in DOMAIN mail : j \in DOMAIN new /\ new[j] = mail[j]
      BY <1>1, <1>4
    <3>. QED
      BY <2>3, <3>1
  <2>5. ASSUME NEW i \in DOMAIN g, NEW x \in g[i].ids, NEW m \in InLine(t) PROVE x < t[m].body
    <3>1. x <= sent /\ x \in Nat
      <4>1. PICK j \in DOMAIN mail : x = mail[j].id
        BY <2>3
      <4>. QED
        BY <1>7, <4>1
    <3>2. \A l \in InLine(s) : x < s[l].body
      BY <2>1 DEF Reached
    <3>3. x < k
      BY <1>1, <3>1
    <3>4. (m \in InLine(s) /\ t[m] = s[m]) \/ t[m].body = k
      BY <1>6
    <3>. QED
      BY ONLY <3>2, <3>3, <3>4
  <2>. QED
    BY <2>1, <2>2, <2>4, <2>5 DEF Reached
<1>. QED
  BY <1>9, <1>10 DEF Ends, t, new
\* Buffers of other nodes do not matter.
LEMMA OtherEnds ==
  ASSUME NEW s, NEW mail, NEW sent, NEW b, NEW n, NEW g, NEW c, Ends(s, mail, sent, b, n, g),
         \A i \in 1 .. Buffers : c[i] = b[i] \/ c[i].remotenode # n
  PROVE  Ends(s, mail, sent, c, n, g)
<1>1. ASSUME Held(s, sent, b, n) PROVE Held(s, sent, c, n)
  BY <1>1 DEF Held
<1>. QED
  BY <1>1 DEF Ends

\* The receiver puts the head of a line into buffer i of its buffers b, as fragment f of
\* node n. It becomes buf.
Storing(s, mail, sent, b, n, i, f, buf) ==
  /\ s \in Seq(Packet) /\ s # <<>> /\ mail \in Seq(Mail) /\ sent \in Nat /\ sent <= SeqMod
  /\ b \in [1 .. Buffers -> Buffer] /\ n \in Nodes /\ i \in 1 .. Buffers
  /\ f \in FragmentPacket /\ f = AsFragment(Head(s)) /\ buf = Store(b[i], n, f)
  /\ Line(s, mail, sent) /\ Held(s, sent, b, n)

\* Of a message other than the buffer's nothing is left in it.
LEMMA StoredHeld ==
  ASSUME NEW s, NEW mail, NEW sent, NEW b, NEW n, NEW i, NEW f, NEW buf, Storing(s, mail, sent, b, n, i, f, buf)
  PROVE  \A j \in DOMAIN buf.parts : j # MagicFnum =>
           /\ buf.parts[j] = f.seq + 1 /\ buf.parts[j] <= sent
           /\ \A k \in InLine(Tail(s)) : Precedes(buf.parts[j], j, Tail(s)[k])
           /\ j # f.fnum => \A k \in InLine(s) : Precedes(buf.parts[j], j, s[k])
<1>0. /\ s \in Seq(Packet) /\ s # <<>> /\ mail \in Seq(Mail) /\ sent \in Nat /\ sent <= SeqMod
      /\ b \in [1 .. Buffers -> Buffer] /\ n \in Nodes /\ i \in 1 .. Buffers
      /\ f \in FragmentPacket /\ f = AsFragment(Head(s)) /\ buf = Store(b[i], n, f)
      /\ Line(s, mail, sent) /\ Held(s, sent, b, n)
  BY DEF Storing
<1>. USE <1>0
<1>. SUFFICES ASSUME NEW j \in DOMAIN buf.parts, j # MagicFnum
              PROVE  /\ buf.parts[j] = f.seq + 1 /\ buf.parts[j] <= sent
                     /\ \A k \in InLine(Tail(s)) : Precedes(buf.parts[j], j, Tail(s)[k])
                     /\ j # f.fnum => \A k \in InLine(s) : Precedes(buf.parts[j], j, s[k])
  OBVIOUS
<1> DEFINE mine == b[i].remotenode = n /\ b[i].seq = f.seq
           t == Tail(s)
<1>1. b[i] \in Buffer
  OBVIOUS
<1>2. /\ buf.parts[f.fnum] = f.body
      /\ mine => /\ DOMAIN buf.parts = DOMAIN b[i].parts \cup {f.fnum}
                 /\ \A l \in DOMAIN b[i].parts : l # f.fnum => buf.parts[l] = b[i].parts[l]
      /\ ~mine => DOMAIN buf.parts = {f.fnum}
  BY <1>1, StoreFacts
<1>3. /\ s[1] = Head(s) /\ 1 \in DOMAIN s /\ Head(s) \in Packet
      /\ \A k \in InLine(t) : k + 1 \in InLine(s) /\ t[k] = s[k + 1] /\ k \in Nat \ {0}
  <2>1. /\ Head(s) = s[1] /\ Len(s) \in Nat \ {0} /\ DOMAIN s = 1 .. Len(s) /\ Head(s) \in Packet
        /\ Thinned(s, t, 1) /\ t \in Seq(Packet)
    BY ThinnedTail, HeadTailProperties
  <2>. HIDE DEF t
  <2>2. InLine(t) \subseteq Nat \ {0}
    BY <2>1, InLineFacts
  <2>. QED
    BY <2>1, <2>2 DEF Thinned
<1>. HIDE DEF t
<1>4. CASE j # f.fnum
  <2>1. b[i].remotenode = n /\ b[i].seq = f.seq /\ j \in DOMAIN b[i].parts /\ buf.parts[j] = b[i].parts[j]
    BY <1>2, <1>4
  <2>2. /\ b[i].parts[j] = b[i].seq + 1 /\ b[i].parts[j] <= sent
        /\ \A k \in InLine(s) : Precedes(b[i].parts[j], j, s[k])
    BY <2>1 DEF Held
  <2>. QED
    BY <1>3, <1>4, <2>1, <2>2 DEF t
<1>5. CASE j = f.fnum
  <2>1. Head(s).kind = "fragment" /\ f = Head(s)
    <3>1. CASE Head(s).kind = "fragment"
      BY <3>1 DEF AsFragment
    <3>2. CASE Head(s).kind # "fragment"
      BY <1>5, <3>2 DEF AsFragment, Fragment
    <3>. QED
      BY <3>1, <3>2
  <2>2. 1 \in InLine(s) /\ s[1] = f
    BY <1>3, <2>1 DEF InLine
  <2>3. /\ f.seq = (f.body - 1) % SeqMod /\ \E l \in DOMAIN mail : mail[l].id = f.body
        /\ \A l \in DOMAIN mail : mail[l].id \in 1 .. sent
    BY <2>2 DEF Line, FragmentOf
  <2>4. f.body \in 1 .. sent
    BY <2>3
  <2>5. f.body - 1 \in Nat /\ f.body - 1 < SeqMod /\ SeqMod \in Nat /\ f.body <= sent /\ (f.body - 1) + 1 = f.body
    <3>1. SeqMod \in Nat
      BY FragmentAssumption
    <3>. QED
      BY ONLY <1>0, <2>4, <3>1
  <2>6. f.seq = f.body - 1
    BY <2>3, <2>5, ModFacts
  <2>7. ASSUME NEW k \in InLine(t) PROVE Precedes(f.body, f.fnum, t[k])
    <3>1. k + 1 \in InLine(s) /\ t[k] = s[k + 1] /\ 1 < k + 1
      BY <1>3
    <3>. QED
      BY <2>2, <3>1 DEF Line
  <2>. QED
    BY <1>2, <1>5, <2>2, <2>5, <2>6, <2>7 DEF t
<1>. QED
  BY <1>4, <1>5

\* A message that is whole: its last fragment has made it so.
LEMMA WholeMessage ==
  ASSUME NEW s, NEW mail, NEW sent, NEW b, NEW n, NEW i, NEW f, NEW buf, Storing(s, mail, sent, b, n, i, f, buf),
         Full(buf, f)
  PROVE  /\ 1 \in InLine(s) /\ s[1] = f /\ f.fnum = f.num - 1 
         /\ Whole(buf, f) = [last |-> f.num, ids |-> {f.body}] /\ FragmentOf(f, mail)
<1>0. /\ s \in Seq(Packet) /\ s # <<>> /\ mail \in Seq(Mail) /\ sent \in Nat /\ sent <= SeqMod
      /\ b \in [1 .. Buffers -> Buffer] /\ n \in Nodes /\ i \in 1 .. Buffers
      /\ f \in FragmentPacket /\ f = AsFragment(Head(s)) /\ buf = Store(b[i], n, f)
      /\ Line(s, mail, sent) /\ Held(s, sent, b, n)
  BY DEF Storing
<1>. USE <1>0
<1>1. b[i] \in Buffer /\ f.fnum \in Nat /\ f.num \in Nat \ {0} /\ f.body \in Nat /\ f.seq \in Nat
  BY DEF FragmentPacket, Seqs
<1>2. /\ f.fnum \in DOMAIN buf.parts /\ buf.parts[f.fnum] = f.body
      /\ f.fnum = f.num - 1 => buf.last = f.num
  BY <1>1, StoreFacts
<1>3. DOMAIN buf.parts = 0 .. f.num - 1
  BY DEF Full
<1>4. Head(s).kind = "fragment" /\ f = Head(s)
  <2>1. CASE Head(s).kind = "fragment"
    BY <2>1 DEF AsFragment
  <2>2. CASE Head(s).kind # "fragment"
    <3>1. f.fnum = MagicFnum /\ f.num = MagicNum
      BY <2>2 DEF AsFragment, Fragment
    <3>2. MagicFnum >= MagicNum /\ MagicFnum \in Nat /\ MagicNum \in Nat
      BY FragmentAssumption
    <3>3. FALSE
      BY <1>2, <1>3, <3>1, <3>2
    <3>. QED
      BY <3>3
  <2>. QED
    BY <2>1, <2>2
<1>5. 1 \in InLine(s) /\ s[1] = f
  <2>1. s[1] = Head(s) /\ 1 \in DOMAIN s
    BY HeadTailProperties
  <2>. QED
    BY <1>4, <2>1 DEF InLine
<1>6. FragmentOf(f, mail)
  BY <1>5 DEF Line
<1>7. f.num <= MaxLen /\ f.fnum < f.num /\ MagicFnum > MaxLen /\ MagicFnum \in Nat /\ MaxLen \in Nat
  <2>1. PICK l \in DOMAIN mail : mail[l].len = f.num
    BY <1>6 DEF FragmentOf
  <2>2. mail[l] \in Mail
    BY ElementOfSeq
  <2>3. MagicFnum \in Nat /\ MagicNum \in Nat /\ MaxLen \in Nat /\ MagicFnum >= MagicNum /\ MagicNum > MaxLen
    BY FragmentAssumption
  <2>4. f.num \in 1 .. MaxLen /\ f.fnum < f.num
    BY <1>6, <2>1, <2>2 DEF Mail, FragmentOf
  <2>. QED
    BY <2>3, <2>4
<1>8. \A j \in 0 .. f.num - 1 : j # MagicFnum
  BY <1>1, <1>7
<1>9. \A j \in DOMAIN buf.parts : /\ buf.parts[j] = f.seq + 1
                                  /\ j # f.fnum => Precedes(buf.parts[j], j, f)
  <2>. SUFFICES ASSUME NEW j \in DOMAIN buf.parts
                PROVE  buf.parts[j] = f.seq + 1 /\ (j # f.fnum => Precedes(buf.parts[j], j, f))
    OBVIOUS
  <2>1. j # MagicFnum
    BY <1>3, <1>8
  <2>2. \A l \in DOMAIN buf.parts : l # MagicFnum =>
          /\ buf.parts[l] = f.seq + 1 /\ buf.parts[l] <= sent
          /\ \A k \in InLine(Tail(s)) : Precedes(buf.parts[l], l, Tail(s)[k])
          /\ l # f.fnum => \A k \in InLine(s) : Precedes(buf.parts[l], l, s[k])
    BY ONLY StoredHeld, Storing(s, mail, sent, b, n, i, f, buf)
  <2>. QED
    BY <1>5, <2>1, <2>2
<1>10. f.body = f.seq + 1
  BY <1>2, <1>9
<1>11. \A j \in 0 .. f.num - 1 : buf.parts[j] = f.body /\ (j # f.fnum => j < f.fnum)
  <2>1. \A j \in 0 .. f.num - 1 : buf.parts[j] = f.body /\ (j # f.fnum => Precedes(f.body, j, f))
    BY <1>3, <1>9, <1>10
  <2>2. ~(f.body < f.body)
    BY <1>1
  <2>. QED
    BY <2>1, <2>2 DEF Precedes
<1>12. f.fnum = f.num - 1
  <2>1. f.num - 1 \in 0 .. f.num - 1
    BY <1>1
  <2>2. f.num - 1 = f.fnum \/ f.num - 1 < f.fnum
    BY <1>11, <2>1
  <2>. QED
    BY <1>1, <1>7, <2>2
<1>13. {buf.parts[j] : j \in 0 .. f.num - 1} = {f.body}
  <2>1. f.num - 1 \in 0 .. f.num - 1
    BY <1>1
  <2>. QED
    BY <1>11, <2>1
<1>14. Whole(buf, f) = [last |-> f.num, ids |-> {f.body}]
  BY <1>2, <1>12, <1>13 DEF Whole
<1>. QED
  BY <1>5, <1>6, <1>12, <1>14
LEMMA SameMail ==
  ASSUME NEW ch, NEW mail \in Seq(Mail), NEW sent, Line(ch, mail, sent),
         NEW j \in DOMAIN mail, NEW k \in DOMAIN mail, mail[j].id = mail[k].id
  PROVE  j = k
<1>1. j \in Nat /\ k \in Nat /\ mail[j].id \in Nat
  BY DEF Line
<1>2. (j < k => mail[j].id < mail[k].id) /\ (k < j => mail[k].id < mail[j].id)
  BY DEF Line
<1>. QED
  BY <1>1, <1>2

\* The others on the line follow its head, and are of later messages if it is the last of its own.
LEMMA HeadFacts ==
  ASSUME NEW s \in Seq(Packet), s # <<>>, NEW f, f = Head(s), f.kind = "fragment",
         NEW mail \in Seq(Mail), NEW sent, Line(s, mail, sent)
  PROVE  /\ f \in FragmentPacket /\ 1 \in InLine(s) /\ s[1] = f /\ FragmentOf(f, mail)
         /\ \A k \in InLine(Tail(s)) : Precedes(f.body, f.fnum, Tail(s)[k])
         /\ f.fnum = f.num - 1 => \A k \in InLine(Tail(s)) : f.body < Tail(s)[k].body
<1> DEFINE t == Tail(s)
<1>1. s[1] = f /\ 1 \in InLine(s) /\ f \in FragmentPacket
  <2>1. s[1] = Head(s) /\ 1 \in DOMAIN s
    BY HeadTailProperties
  <2>2. 1 \in InLine(s)
    BY <2>1 DEF InLine
  <2>. QED
    BY <2>1, <2>2, InLineFacts
<1>2. Thinned(s, t, 1) /\ t \in Seq(Packet)
  BY ThinnedTail
<1>. HIDE DEF t
<1>3. ASSUME NEW k \in InLine(t) PROVE k + 1 \in InLine(s) /\ t[k] = s[k + 1] /\ 1 < k + 1
  <2>1. k \in Nat \ {0}
    BY <1>2, InLineFacts
  <2>. QED
    BY <1>2, <2>1 DEF Thinned
<1>4. FragmentOf(f, mail)
  BY <1>1 DEF Line
<1>5. ASSUME NEW k \in InLine(t) PROVE Precedes(f.body, f.fnum, t[k])
  BY <1>1, <1>3 DEF Line
<1>6. ASSUME f.fnum = f.num - 1, NEW k \in InLine(t) PROVE f.body < t[k].body
  <2>1. FragmentOf(t[k], mail)
    BY <1>3 DEF Line
  <2>2. ASSUME f.body = t[k].body PROVE FALSE
    <3>1. PICK j \in DOMAIN mail : mail[j].id = f.body /\ mail[j].len = f.num
      BY <1>4 DEF FragmentOf
    <3>2. PICK l \in DOMAIN mail : mail[l].id = f.body /\ mail[l].len = t[k].num
      BY <2>1, <2>2 DEF FragmentOf
    <3>3. j = l
      BY <3>1, <3>2, SameMail
    <3>4. t[k].num = f.num
      BY <3>1, <3>2, <3>3
    <3>5. t[k].fnum \in Nat /\ f.fnum \in Nat /\ f.num \in Nat /\ f.body \in Nat
      BY <1>1, <1>2, InLineFacts DEF FragmentPacket
    <3>6. f.fnum < t[k].fnum
      BY <1>5, <2>2, <3>5 DEF Precedes
    <3>7. t[k].fnum < f.num
      BY <2>1, <3>4 DEF FragmentOf
    <3>. QED
      BY <1>6, <3>5, <3>6, <3>7
  <2>. QED
    BY <1>5, <2>2 DEF Precedes
<1>. QED
  BY <1>1, <1>4, <1>5, <1>6 DEF t

\* A packet is taken from the line, and put into buffer i.
LEMMA StoredEnds ==
  ASSUME NEW s, NEW mail, NEW sent, NEW b, NEW n, NEW i, NEW f, NEW buf, Storing(s, mail, sent, b, n, i, f, buf),
         NEW g \in Seq(Message), Reached(s, mail, g),
         NEW c, c = [b EXCEPT ![i] = IF Full(buf, f) THEN [buf EXCEPT !.parts = <<>>] ELSE buf],
         NEW h, h = IF Full(buf, f) THEN Append(g, Whole(buf, f)) ELSE g
  PROVE  Held(Tail(s), sent, c, n) /\ Reached(Tail(s), mail, h)
<1>0. /\ s \in Seq(Packet) /\ s # <<>> /\ mail \in Seq(Mail) /\ sent \in Nat
      /\ b \in [1 .. Buffers -> Buffer] /\ n \in Nodes /\ i \in 1 .. Buffers
      /\ f \in FragmentPacket /\ buf = Store(b[i], n, f) /\ Line(s, mail, sent) /\ Held(s, sent, b, n)
  BY DEF Storing
<1> DEFINE t == Tail(s)
           new == IF Full(buf, f) THEN [buf EXCEPT !.parts = <<>>] ELSE buf
<1>1. Thinned(s, t, 1) /\ t \in Seq(Packet)
  BY <1>0, ThinnedTail
<1>2. Held(t, sent, b, n) /\ Reached(t, mail, g)
  BY <1>0, <1>1, ThinnedHeld, ThinnedReached
<1>3. buf \in Buffer /\ buf.remotenode = n /\ buf.seq = f.seq
  <2>1. b[i] \in Buffer
    BY <1>0
  <2>. QED
    BY <1>0, <2>1, StoreFacts
<1>4. \A j \in DOMAIN buf.parts : j # MagicFnum =>
        /\ buf.parts[j] = f.seq + 1 /\ buf.parts[j] <= sent
        /\ \A k \in InLine(Tail(s)) : Precedes(buf.parts[j], j, Tail(s)[k])
        /\ j # f.fnum => \A k \in InLine(s) : Precedes(buf.parts[j], j, s[k])
  BY ONLY StoredHeld, Storing(s, mail, sent, b, n, i, f, buf)
<1>5. /\ c[i] = new /\ \A l \in 1 .. Buffers : l # i => c[l] = b[l]
  BY <1>0
<1>6. /\ Full(buf, f) => DOMAIN new.parts = {}
      /\ ~Full(buf, f) => new = buf
  BY <1>3, EmptyMap DEF Buffer
<1>. HIDE DEF new, t
<1>7. Held(t, sent, c, n)
  <2>. SUFFICES ASSUME NEW l \in 1 .. Buffers, c[l].remotenode = n, NEW j \in DOMAIN c[l].parts, j # MagicFnum
                PROVE  /\ c[l].parts[j] = c[l].seq + 1 /\ c[l].parts[j] <= sent
                       /\ \A k \in InLine(t) : Precedes(c[l].parts[j], j, t[k])
    BY DEF Held
  <2>1. CASE l # i
    <3>1. c[l] = b[l]
      BY <1>5, <2>1
    <3>. QED
      BY <1>2, <3>1 DEF Held
  <2>2. CASE l = i
    <3>1. c[l] = buf
      BY <1>5, <1>6, <2>2
    <3>. QED
      BY <1>3, <1>4, <3>1 DEF t
  <2>. QED
    BY <2>1, <2>2
<1>8. CASE ~Full(buf, f)
  BY <1>2, <1>7, <1>8 DEF t
<1>9. CASE Full(buf, f)
  <2>1. /\ 1 \in InLine(s) /\ s[1] = f /\ f.fnum = f.num - 1
        /\ Whole(buf, f) = [last |-> f.num, ids |-> {f.body}] /\ FragmentOf(f, mail)
    BY ONLY WholeMessage, Storing(s, mail, sent, b, n, i, f, buf), Full(buf, f), <1>9
  <2> DEFINE w == Whole(buf, f)
             L == Len(g)
  <2>2. /\ L \in Nat /\ DOMAIN g = 1 .. L /\ DOMAIN h = 1 .. L + 1
        /\ \A x \in 1 .. L : h[x] = g[x]
        /\ h[L + 1] = w
    BY <1>9, AppendProperties
  <2>3. w.ids = {f.body} /\ w = [last |-> f.num, ids |-> {f.body}]
    BY <2>1
  <2>. HIDE DEF w, L
  <2>4. \A x \in DOMAIN h : (x \in DOMAIN g /\ h[x] = g[x]) \/ (x = L + 1 /\ h[x] = w)
    <3>1. \A x \in 1 .. L + 1 : x \in 1 .. L \/ x = L + 1
      BY <2>2
    <3>. QED
      BY ONLY <2>2, <3>1
  <2>5. \A x \in DOMAIN h : \E j \in DOMAIN mail : h[x] = [last |-> mail[j].len, ids |-> {mail[j].id}]
    <3>1. \E j \in DOMAIN mail : w = [last |-> mail[j].len, ids |-> {mail[j].id}]
      <4>1. PICK j \in DOMAIN mail : mail[j].id = f.body /\ mail[j].len = f.num
        BY <2>1 DEF FragmentOf
      <4>. QED
        BY ONLY <2>3, <4>1
    <3>2. \A x \in DOMAIN g : \E j \in DOMAIN mail : g[x] = [last |-> mail[j].len, ids |-> {mail[j].id}]
      BY <1>2 DEF Reached
    <3>. QED
      BY ONLY <2>4, <3>1, <3>2
  <2>6. ASSUME NEW x \in DOMAIN h, NEW y \in DOMAIN h, x < y, NEW u \in h[x].ids, NEW v \in h[y].ids
        PROVE  u < v
    <3>1. x \in DOMAIN g /\ h[x] = g[x]
      BY <2>2, <2>4, <2>6
    <3>2. CASE y \in DOMAIN g /\ h[y] = g[y]
      BY <1>2, <2>6, <3>1, <3>2 DEF Reached
    <3>3. CASE h[y] = w
      <4>1. v = s[1].body
        BY <2>1, <2>3, <2>6, <3>3
      <4>. QED
        BY <2>1, <2>6, <3>1, <4>1 DEF Reached
    <3>. QED
      BY <2>4, <3>2, <3>3
  <2>7. ASSUME NEW k \in InLine(t) PROVE f.body < t[k].body
    <3>1. s[1] = Head(s) /\ f.kind = "fragment"
      BY <1>0, HeadTailProperties DEF FragmentPacket
    <3>. QED
      BY <1>0, <2>1, <3>1, HeadFacts DEF t
  <2>8. ASSUME NEW x \in DOMAIN h, NEW u \in h[x].ids, NEW k \in InLine(t) PROVE u < t[k].body
    <3>1. CASE x \in DOMAIN g /\ h[x] = g[x]
      BY <1>2, <2>8, <3>1 DEF Reached
    <3>2. CASE h[x] = w
      BY <2>3, <2>7, <2>8, <3>2
    <3>. QED
      BY <2>4, <3>1, <3>2
  <2>9. Reached(t, mail, h)
    BY <2>5, <2>6, <2>8 DEF Reached
  <2>. QED
    BY <1>7, <2>9 DEF t
<1>. QED
  BY <1>8, <1>9
\* A line that has only lost packets, or got discover packets.
LEMMA KeptStep ==
  ASSUME TypeInv, EndsInv, channel' \in Lines, player' \in [Player -> State],
         NEW a \in Player, NEW b \in Others(a), player'[a].send_seq >= player[a].send_seq,
         NEW d \in {0, 1}, Thinned(channel[a][b], channel'[a][b], d)
  PROVE  Ends(channel'[a][b], mailed[a][b], player'[a].send_seq, player[b].buffers, NodeOf(b, a), got[b][a])
<1>1. b \in Player /\ player[a] \in State /\ player[b] \in State /\ player'[a] \in State /\ channel \in Lines
  BY TypeFacts DEF Others
<1>2. /\ player[a].send_seq \in Nat /\ player'[a].send_seq \in Nat
      /\ player[b].buffers \in [1 .. Buffers -> Buffer]
      /\ channel[a][b] \in Seq(Packet) /\ channel'[a][b] \in Seq(Packet)
  BY <1>1 DEF State, Lines
<1>3. player[a].send_seq <= player'[a].send_seq
  BY <1>2
<1>4. Ends(channel[a][b], mailed[a][b], player[a].send_seq, player[b].buffers, NodeOf(b, a), got[b][a])
  BY DEF EndsInv
<1>. QED
  BY ONLY <1>2, <1>3, <1>4, KeptEnds, d \in {0, 1}, Thinned(channel[a][b], channel'[a][b], d)

LEMMA TakenThinned ==
  ASSUME TypeInv, NEW p \in Player, NEW q \in Player, AfterTaking(q, p), NEW a \in Player, NEW b \in Player
  PROVE  \E d \in {0, 1} : Thinned(channel[a][b], channel'[a][b], d)
<1>1. channel[a][b] \in Seq(Packet) /\ channel'[a][b] \in Seq(Packet)
  BY TypeFacts DEF Lines, AfterTaking
<1>2. CASE a = q /\ b = p
  BY <1>1, <1>2, ThinnedTail DEF AfterTaking
<1>3. CASE a # q \/ b # p
  BY <1>1, <1>3, ThinnedNews DEF AfterTaking
<1>. QED
  BY <1>2, <1>3

LEMMA CmdGetEnds ==
  ASSUME TypeInv, EndsInv, NEW p \in Player, NEW q \in Others(p), CmdGet(p, q)
  PROVE  EndsInv'
<1>1. /\ AfterTaking(q, p) /\ player' \in [Player -> State] /\ mailed' = mailed
      /\ \A a \in Player : player'[a].send_seq = player[a].send_seq
  <2>1. mailed' = mailed
    BY DEF CmdGet
  <2>. QED
    BY <2>1, CmdGetStep
<1>2. q \in Player /\ q # p /\ channel' \in Lines /\ channel \in Lines
  BY <1>1, TypeFacts DEF Others, AfterTaking
<1> DEFINE f == AsFragment(Head(channel[q][p]))
<1>3. \/ player' = player /\ got' = got
      \/ \E i \in 1 .. Buffers, buf \in Buffer : Reassembled(p, q, f, i, buf)
  BY CmdGetStep
<1>4. f \in FragmentPacket
  BY <1>1, PacketFacts DEF AfterTaking
<1>. HIDE DEF f
<1>. SUFFICES ASSUME NEW a \in Player, NEW b \in Others(a)
              PROVE  Ends(channel'[a][b], mailed[a][b], player'[a].send_seq, player'[b].buffers, NodeOf(b, a), got'[b][a])
  BY <1>1 DEF EndsInv
<1>5. b \in Player /\ b # a
  BY DEF Others
<1>6. /\ player[a] \in State /\ player[b] \in State /\ player'[a] \in State
      /\ player[a].send_seq \in Nat /\ player[b].buffers \in [1 .. Buffers -> Buffer]
  <2>1. player[a] \in State /\ player[b] \in State /\ player'[a] \in State
    BY <1>1, <1>5, TypeFacts
  <2>. QED
    BY <2>1 DEF State
<1>7. Ends(channel'[a][b], mailed[a][b], player'[a].send_seq, player[b].buffers, NodeOf(b, a), got[b][a])
  <2>1. PICK d \in {0, 1} : Thinned(channel[a][b], channel'[a][b], d)
    BY <1>1, <1>2, <1>5, TakenThinned
  <2>2. player'[a].send_seq >= player[a].send_seq
    BY <1>1, <1>6
  <2>. QED
    BY <1>1, <1>2, <2>1, <2>2, KeptStep
<1>8. CASE player' = player /\ got' = got
  BY <1>7, <1>8
<1>9. ASSUME NEW i \in 1 .. Buffers, NEW buf \in Buffer, Reassembled(p, q, f, i, buf)
      PROVE  Ends(channel'[a][b], mailed[a][b], player'[a].send_seq, player'[b].buffers, NodeOf(b, a), got'[b][a])
  <2> DEFINE new == IF Full(buf, f) THEN [buf EXCEPT !.parts = <<>>] ELSE buf
  <2>1. /\ buf = Store(player[p].buffers[i], NodeOf(p, q), f)
        /\ player'[p].buffers = [player[p].buffers EXCEPT ![i] = new]
        /\ \A x \in Player : x # p => player'[x] = player[x]
        /\ got' = IF Full(buf, f) THEN [got EXCEPT ![p][q] = Append(@, Whole(buf, f))] ELSE got
    BY <1>9 DEF Reassembled
  <2>2. \A x, y \in Player : got'[x][y] = IF x = p /\ y = q /\ Full(buf, f) THEN Append(got[p][q], Whole(buf, f))
                                          ELSE got[x][y]
    BY <1>2, <2>1 DEF TypeInv
  <2>3. CASE b # p
    BY <1>5, <1>7, <2>1, <2>2, <2>3
  <2>4. CASE b = p /\ a # q
    <3>1. got'[b][a] = got[b][a]
      BY <1>5, <2>2, <2>4
    <3>2. new.remotenode = NodeOf(p, q)
      <4>1. player[p].buffers[i] \in Buffer /\ NodeOf(p, q) \in Nodes
        BY <1>2, <1>6, <2>4, NodeFacts
      <4>2. buf.remotenode = NodeOf(p, q)
        BY <1>4, <2>1, <4>1, StoreFacts
      <4>. QED
        BY <4>2 DEF Buffer
    <3>3. NodeOf(p, q) # NodeOf(p, a)
      BY <1>2, <2>4, OtherNodes
    <3>. HIDE DEF new
    <3>4. \A l \in 1 .. Buffers : player'[p].buffers[l] = player[p].buffers[l]
                                  \/ player'[p].buffers[l].remotenode # NodeOf(p, a)
      BY <1>6, <2>1, <2>4, <3>2, <3>3
    <3>5. \A l \in 1 .. Buffers : player'[b].buffers[l] = player[b].buffers[l]
                                  \/ player'[b].buffers[l].remotenode # NodeOf(b, a)
      BY <2>4, <3>4
    <3>6. Ends(channel'[a][b], mailed[a][b], player'[a].send_seq, player'[b].buffers, NodeOf(b, a), got[b][a])
      BY ONLY <1>7, <3>5, OtherEnds
    <3>. QED
      BY <3>1, <3>6
  <2>5. CASE b = p /\ a = q
    <3> DEFINE s == channel[q][p]
               mail == mailed[q][p]
               sent == player[q].send_seq
               n == NodeOf(p, q)
               g == got[p][q]
    <3>1. /\ s \in Seq(Packet) /\ s # <<>> /\ mail \in Seq(Mail) /\ sent \in Nat /\ n \in Nodes
          /\ g \in Seq(Message) /\ channel'[q][p] = Tail(s) /\ player[p].buffers \in [1 .. Buffers -> Buffer]
          /\ player'[q].send_seq = sent
      <4>1. s \in Seq(Packet) /\ s # <<>> /\ channel'[q][p] = Tail(s)
        BY <1>1 DEF AfterTaking
      <4>2. mail \in Seq(Mail) /\ g \in Seq(Message)
        BY <1>2 DEF TypeInv
      <4>3. n \in Nodes
        BY <1>2, NodeFacts
      <4>. QED
        BY <1>1, <1>2, <1>6, <2>5, <4>1, <4>2, <4>3
    <3>2. Ends(s, mail, sent, player[p].buffers, n, g)
      BY <1>2, <2>5, <1>5 DEF EndsInv
    <3>3. Line(Tail(s), mail, sent)
      BY <1>7, <2>5, <3>1 DEF Ends
    <3>4. got'[p][q] = IF Full(buf, f) THEN Append(g, Whole(buf, f)) ELSE g
      BY <1>2, <2>2
    <3>5. ASSUME sent <= SeqMod PROVE Held(Tail(s), sent, player'[p].buffers, n) /\ Reached(Tail(s), mail, got'[p][q])
      <4>1. Line(s, mail, sent) /\ Held(s, sent, player[p].buffers, n) /\ Reached(s, mail, g)
        BY <3>2, <3>5 DEF Ends
      <4>2. f = AsFragment(Head(s))
        BY DEF f
      <4>. HIDE DEF s, mail, sent, n, g
      <4>3. Storing(s, mail, sent, player[p].buffers, n, i, f, buf)
        <5>1. buf = Store(player[p].buffers[i], n, f)
          BY <2>1 DEF n
        <5>. QED
          BY <1>4, <3>1, <3>5, <4>1, <4>2, <5>1 DEF Storing
      <4> DEFINE x == player[p].buffers
                 c == player'[p].buffers
                 h == got'[p][q]
      <4>4. c = [x EXCEPT ![i] = IF Full(buf, f) THEN [buf EXCEPT !.parts = <<>>] ELSE buf]
        BY <2>1
      <4>5. /\ h = IF Full(buf, f) THEN Append(g, Whole(buf, f)) ELSE g
            /\ Storing(s, mail, sent, x, n, i, f, buf)
        BY <3>4, <4>3
      <4>. HIDE DEF x, c, h
      <4>6. Held(Tail(s), sent, c, n) /\ Reached(Tail(s), mail, h)
        BY ONLY <3>1, <4>1, <4>4, <4>5, StoredEnds
      <4>. QED
        BY <4>6 DEF c, h
    <3>6. Ends(Tail(s), mail, sent, player'[p].buffers, n, got'[p][q])
      BY ONLY <3>3, <3>5 DEF Ends
    <3>. QED
      BY <2>5, <3>1, <3>6
  <2>. QED
    BY <2>3, <2>4, <2>5
<1>. QED
  BY <1>3, <1>8, <1>9
LEMMA InitEnds == Init => EndsInv
<1>. SUFFICES ASSUME Init, NEW p \in Player, NEW q \in Others(p)
              PROVE  Ends(channel[p][q], mailed[p][q], player[p].send_seq, player[q].buffers, NodeOf(q, p), got[q][p])
  BY DEF EndsInv
<1>1. q \in Player
  BY DEF Others
<1>2. /\ player = [x \in Player |-> IF limit.found THEN Found(x) ELSE Discovering(x)]
      /\ mailed[p][q] = <<>> /\ got[q][p] = <<>>
      /\ channel[p][q] = IF limit.found /\ p = 0 /\ q # 0 THEN <<Discover(FALSE)>> ELSE <<>>
  BY <1>1 DEF Init
<1>3. InLine(channel[p][q]) = {}
  <2>1. \A i \in DOMAIN channel[p][q] : channel[p][q][i].kind = "discover"
    BY <1>2 DEF Discover
  <2>. QED
    BY <2>1 DEF InLine
<1>4. \A i \in 1 .. Buffers : player[q].buffers[i].parts = <<>>
  BY <1>1, <1>2 DEF Found, Discovering, Free
<1>5. DOMAIN mailed[p][q] = {} /\ DOMAIN got[q][p] = {}
  BY <1>2
<1>6. Line(channel[p][q], mailed[p][q], player[p].send_seq)
  BY <1>3, <1>5 DEF Line
<1>7. Held(channel[p][q], player[p].send_seq, player[q].buffers, NodeOf(q, p))
  BY <1>4, EmptyMap DEF Held
<1>8. Reached(channel[p][q], mailed[p][q], got[q][p])
  BY <1>5 DEF Reached
<1>. QED
  BY <1>6, <1>7, <1>8 DEF Ends

LEMMA NextEnds == TypeInv /\ EndsInv /\ [Next]_vars => EndsInv'
<1>. SUFFICES ASSUME TypeInv, EndsInv, [Next]_vars PROVE EndsInv'
  OBVIOUS
<1>1. ASSUME NEW p \in Player, SendDiscover(p) PROVE EndsInv'
  <2>1. UNCHANGED <<player, mailed, got>> /\ player \in [Player -> State] /\ channel \in Lines
    BY <1>1, TypeFacts DEF SendDiscover, TypeInv
  <2>2. channel' \in Lines /\ \A a, b \in Player : NoNews(channel[a][b], channel'[a][b])
    BY <1>1, SendDiscoverStep
  <2>3. ASSUME NEW a \in Player, NEW b \in Others(a)
        PROVE  Ends(channel'[a][b], mailed'[a][b], player'[a].send_seq, player'[b].buffers, NodeOf(b, a), got'[b][a])
    <3>1. b \in Player /\ channel[a][b] \in Seq(Packet) /\ channel'[a][b] \in Seq(Packet)
      BY <2>1, <2>2 DEF Others, Lines
    <3>2. Thinned(channel[a][b], channel'[a][b], 0)
      BY <2>2, <3>1, ThinnedNews
    <3>3. player'[a].send_seq >= player[a].send_seq
      BY <2>1 DEF State
    <3>. QED
      BY <2>1, <2>2, <3>2, <3>3, KeptStep
  <2>. QED
    BY <2>3 DEF EndsInv
<1>2. ASSUME NEW p \in Player, CmdSendAny(p) PROVE EndsInv'
  <2>1. PICK ns \in SUBSET Nodes, len \in 1 .. MaxLen : CmdSend(p, ns, len)
    BY <1>2, SomeSend
  <2>2. /\ player' \in [Player -> State] /\ player'[p].send_seq >= player[p].send_seq
        /\ \A a \in Player : player'[a].buffers = player[a].buffers /\ (a # p => player'[a].send_seq = player[a].send_seq)
        /\ channel' \in Lines
        /\ \A a, b \in Player : \/ channel'[a][b] = channel[a][b] /\ mailed'[a][b] = mailed[a][b]
                                \/ a = p /\ b # p /\ \E k \in player[p].send_seq + 1 .. player'[p].send_seq :
                                     SentTo(p, b, k, len)
    BY <2>1, CmdSendStep
  <2>3. got' = got
    BY <2>1 DEF CmdSend
  <2>4. ASSUME NEW a \in Player, NEW b \in Others(a)
        PROVE  Ends(channel'[a][b], mailed'[a][b], player'[a].send_seq, player'[b].buffers, NodeOf(b, a), got'[b][a])
    <3>1. /\ b \in Player /\ channel[a][b] \in Seq(Packet) /\ player[a] \in State /\ player'[a] \in State
          /\ player[b] \in State /\ mailed[a][b] \in Seq(Mail) /\ got[b][a] \in Seq(Message)
      BY <2>2, TypeFacts DEF Others, Lines, TypeInv
    <3>2. /\ player[a].send_seq \in Nat /\ player'[a].send_seq \in Nat
          /\ player[b].buffers \in [1 .. Buffers -> Buffer]
      BY <3>1 DEF State
    <3>3. player'[a].send_seq >= player[a].send_seq
      BY <2>2, <3>2
    <3>4. CASE channel'[a][b] = channel[a][b] /\ mailed'[a][b] = mailed[a][b]
      <4>1. Thinned(channel[a][b], channel'[a][b], 0)
        BY <3>1, <3>4, NoNewsFacts, ThinnedNews
      <4>2. Ends(channel'[a][b], mailed[a][b], player'[a].send_seq, player[b].buffers, NodeOf(b, a), got[b][a])
        BY <2>2, <3>3, <4>1, KeptStep
      <4>. QED
        BY <2>2, <2>3, <3>1, <3>4, <4>2
    <3>5. ASSUME a = p, NEW k \in player[p].send_seq + 1 .. player'[p].send_seq, SentTo(p, b, k, len)
          PROVE  Ends(channel'[a][b], mailed'[a][b], player'[a].send_seq, player'[b].buffers, NodeOf(b, a), got'[b][a])
      <4> DEFINE e == player[b].phase # "game"
                 s == channel[p][b]
                 mail == mailed[p][b]
                 sent == player[p].send_seq
                 more == player'[p].send_seq
                 c == player[b].buffers
                 n == NodeOf(b, p)
                 g == got[b][p]
      <4>1. Ends(s, mail, sent, c, n, g)
        BY <3>5 DEF EndsInv
      <4>2. /\ channel'[p][b] = s \o Fragments(k, len)
            /\ mailed'[p][b] = Append(mail, [id |-> k, len |-> len, early |-> e])
            /\ s \in Seq(Packet) /\ mail \in Seq(Mail) /\ g \in Seq(Message)
            /\ sent \in Nat /\ more \in Nat /\ c \in [1 .. Buffers -> Buffer] /\ k \in sent + 1 .. more
            /\ e \in BOOLEAN
        BY <3>1, <3>2, <3>5 DEF SentTo
      <4>. HIDE DEF s, mail, sent, more, c, n, g, e
      <4>3. Ends(s \o Fragments(k, len), Append(mail, [id |-> k, len |-> len, early |-> e]), more, c, n, g)
        BY ONLY <4>1, <4>2, len \in 1 .. MaxLen, SentEnds
      <4>. QED
        BY <2>2, <2>3, <3>1, <3>5, <4>2, <4>3 DEF s, mail, sent, more, c, n, g, e
    <3>. QED
      BY <2>2, <3>1, <3>4, <3>5
  <2>. QED
    BY <2>4 DEF EndsInv
<1>3. ASSUME NEW p \in Player, NEW q \in Others(p), DiscoverPlayers(p, q) PROVE EndsInv'
  <2>1. /\ AfterTaking(q, p) /\ player' \in [Player -> State] /\ q \in Player
        /\ \A a \in Player : player'[a].buffers = player[a].buffers /\ player'[a].send_seq = player[a].send_seq
    BY <1>3, DiscoverPlayersStep DEF Others
  <2>2. UNCHANGED <<mailed, got>>
    BY <1>3 DEF DiscoverPlayers
  <2>3. ASSUME NEW a \in Player, NEW b \in Others(a)
        PROVE  Ends(channel'[a][b], mailed'[a][b], player'[a].send_seq, player'[b].buffers, NodeOf(b, a), got'[b][a])
    <3>1. b \in Player /\ channel' \in Lines
      BY <2>1 DEF Others, AfterTaking
    <3>2. PICK d \in {0, 1} : Thinned(channel[a][b], channel'[a][b], d)
      BY <2>1, <3>1, TakenThinned
    <3>3. player'[a].send_seq >= player[a].send_seq
      <4>1. player[a] \in State
        BY TypeFacts
      <4>. QED
        BY <2>1, <4>1 DEF State
    <3>. QED
      BY <2>1, <2>2, <3>1, <3>2, <3>3, KeptStep
  <2>. QED
    BY <2>3 DEF EndsInv
<1>4. ASSUME NEW p \in Player, NEW q \in Others(p), CmdGet(p, q) PROVE EndsInv'
  BY <1>4, CmdGetEnds
<1>5. ASSUME NEW p \in Player, NEW q \in Others(p), Lose(p, q) PROVE EndsInv'
  <2>1. AfterTaking(p, q) /\ q \in Player /\ UNCHANGED <<player, mailed, got>> /\ player \in [Player -> State]
    BY <1>5, LoseStep DEF Lose, Others, TypeInv
  <2>2. ASSUME NEW a \in Player, NEW b \in Others(a)
        PROVE  Ends(channel'[a][b], mailed'[a][b], player'[a].send_seq, player'[b].buffers, NodeOf(b, a), got'[b][a])
    <3>1. b \in Player /\ channel' \in Lines
      BY <2>1 DEF Others, AfterTaking
    <3>2. PICK d \in {0, 1} : Thinned(channel[a][b], channel'[a][b], d)
      BY <2>1, <3>1, TakenThinned
    <3>3. player'[a].send_seq >= player[a].send_seq
      BY <2>1 DEF State
    <3>. QED
      BY <2>1, <3>1, <3>2, <3>3, KeptStep
  <2>. QED
    BY <2>2 DEF EndsInv
<1>6. CASE UNCHANGED vars
  BY <1>6 DEF vars, EndsInv
<1>. QED
  BY <1>1, <1>2, <1>3, <1>4, <1>5, <1>6 DEF Next

\* A game gets only messages that the player it is told of has sent to it, whole, in the order
\* they were sent and none twice, while sequence numbers last: for every number of players and
\* of reassembly buffers, whatever drivers lose and whenever others still look for players.
THEOREM MessagesWholeInOrder == Spec => []WholeInOrder
<1>1. TypeInv /\ EndsInv => WholeInOrder
  <2>. SUFFICES ASSUME TypeInv, EndsInv, NEW p \in Player, NEW q \in Player, player[p].send_seq <= SeqMod
                PROVE  /\ \A i \in DOMAIN got[q][p] : \E j \in DOMAIN mailed[p][q] :
                            got[q][p][i] = [last |-> mailed[p][q][j].len, ids |-> {mailed[p][q][j].id}]
                       /\ \A i, j \in DOMAIN got[q][p] : i < j => Max(got[q][p][i].ids) < Min(got[q][p][j].ids)
    BY DEF WholeInOrder
  <2>1. CASE p = q
    BY <2>1 DEF TypeInv
  <2>2. CASE p # q
    <3>1. Reached(channel[p][q], mailed[p][q], got[q][p])
      BY <2>2 DEF EndsInv, Ends, Others
    <3> DEFINE g == got[q][p]
    <3>2. \A i \in DOMAIN g : \E j \in DOMAIN mailed[p][q] :
            g[i] = [last |-> mailed[p][q][j].len, ids |-> {mailed[p][q][j].id}]
      BY <3>1 DEF Reached
    <3>3. \A j \in DOMAIN mailed[p][q] : mailed[p][q][j].id \in Nat
      <4>1. mailed[p][q] \in Seq(Mail)
        BY DEF TypeInv
      <4>2. \A j \in DOMAIN mailed[p][q] : mailed[p][q][j] \in Mail
        BY <4>1, ElementOfSeq
      <4>. QED
        BY <4>2 DEF Mail
    <3>4. \A i, j \in DOMAIN g : i < j => \A x \in g[i].ids, y \in g[j].ids : x < y
      BY <3>1 DEF Reached
    <3>. HIDE DEF g
    <3>5. \A i \in DOMAIN g : Max(g[i].ids) \in g[i].ids /\ Min(g[i].ids) \in g[i].ids
      <4>. SUFFICES ASSUME NEW i \in DOMAIN g PROVE Max(g[i].ids) \in g[i].ids /\ Min(g[i].ids) \in g[i].ids
        OBVIOUS
      <4>1. PICK x \in Nat : g[i].ids = {x}
        BY <3>2, <3>3
      <4>2. \E y \in g[i].ids : \A z \in g[i].ids : y >= z /\ y <= z
        BY <4>1
      <4>. QED
        BY <4>2 DEF Max, Min
    <3>6. \A i, j \in DOMAIN g : i < j => Max(g[i].ids) < Min(g[j].ids)
      BY <3>4, <3>5
    <3>. QED
      BY <3>2, <3>6 DEF g
  <2>. QED
    BY <2>1, <2>2
<1>. QED
  BY <1>1, InitType, NextType, InitEnds, NextEnds, PTL DEF Spec
-----------------------------------------------------------------------------
(***************************************************************************)
(* Nothing is lost.  If the drivers lose nothing, what is on the line from *)
(* one to another is just what has not arrived, so no node has begun more  *)
(* than one message, and one buffer for each other node is enough.         *)
(***************************************************************************)
\* A buffer has fragments of others only, and no message has two buffers.
Tidy(b) ==
  \A i \in 1 .. Buffers :
    /\ b[i].remotenode = 0 => b[i].parts = <<>>
    /\ \A j \in 1 .. Buffers :
         b[i].remotenode # 0 /\ b[j].remotenode = b[i].remotenode /\ b[j].seq = b[i].seq => j = i

OnLine(ch, id, fnum) == \E k \in InLine(ch) : ch[k].body = id /\ ch[k].fnum = fnum

\* Buffer i has the first c fragments of message msg of node n, and the others are on the line.
Begun(ch, msg, b, n, i, c) ==
  /\ c \in 1 .. msg.len - 1
  /\ b[i].remotenode = n /\ b[i].seq = (msg.id - 1) % SeqMod
  /\ DOMAIN b[i].parts = 0 .. c - 1 /\ \A j \in 0 .. c - 1 : b[i].parts[j] = msg.id
  /\ \A j \in c .. msg.len - 1 : OnLine(ch, msg.id, j)
  /\ \A k \in InLine(ch) : Precedes(msg.id, c - 1, ch[k])

HasGot(g, msg) == \E i \in DOMAIN g : g[i].ids = {msg.id}

\* A message is there, on the line, or has begun; and nothing else is in a buffer.
Arriving(ch, mail, g, b, n) ==
  /\ \A m \in DOMAIN mail : \/ HasGot(g, mail[m]) \/ \A j \in 0 .. mail[m].len - 1 : OnLine(ch, mail[m].id, j)
                            \/ \E i \in 1 .. Buffers, c \in Nat : Begun(ch, mail[m], b, n, i, c)
  /\ \A i \in 1 .. Buffers : b[i].remotenode = n /\ b[i].parts # <<>> =>
       \E m \in DOMAIN mail, c \in Nat : Begun(ch, mail[m], b, n, i, c)
  /\ \A i \in DOMAIN g : \E m \in DOMAIN mail :
       g[i].ids = {mail[m].id} /\ \A k \in InLine(ch) : mail[m].id < ch[k].body

\* Nothing that q gets has been lost, or mixed with anything else.
Reliable(q) == losses = 0 /\ stray[q] = {} /\ InTime(q)

ArriveInv ==
  \A q \in Player :
    /\ Tidy(player[q].buffers)
    /\ player[q].phase = "discover" => \A p \in Player : \A j \in DOMAIN mailed[p][q] : mailed[p][q][j].early
    /\ Reliable(q) => \A p \in Others(q) :
         Arriving(channel[p][q], mailed[p][q], got[q][p], player[q].buffers, NodeOf(q, p))

\* A discover packet that is added to a line, or any that is taken from it, leaves the rest.
LEMMA OnLineNews ==
  ASSUME NEW s \in Seq(Packet), NEW t \in Seq(Packet), NoNews(s, t), NEW id, NEW fnum, OnLine(s, id, fnum)
  PROVE  OnLine(t, id, fnum)
<1>1. PICK k \in InLine(s) : s[k].body = id /\ s[k].fnum = fnum
  BY DEF OnLine
<1>2. k \in 1 .. Len(s) /\ Len(s) \in Nat /\ Len(t) \in Nat /\ DOMAIN t = 1 .. Len(t) /\ s[k].kind = "fragment"
  BY DEF InLine
<1>3. k \in DOMAIN t /\ t[k] = s[k]
  BY <1>2 DEF NoNews
<1>4. k \in InLine(t)
  BY <1>2, <1>3 DEF InLine
<1>. QED
  BY <1>1, <1>3, <1>4 DEF OnLine

LEMMA OnLineTail ==
  ASSUME NEW s \in Seq(Packet), s # <<>>, NEW id, NEW fnum, OnLine(s, id, fnum),
         Head(s).kind = "discover" \/ Head(s).body # id \/ Head(s).fnum # fnum
  PROVE  OnLine(Tail(s), id, fnum)
<1>1. PICK k \in InLine(s) : s[k].body = id /\ s[k].fnum = fnum
  BY DEF OnLine
<1>2. /\ k \in 1 .. Len(s) /\ Len(s) \in Nat /\ s[k].kind = "fragment" /\ s[1] = Head(s)
      /\ Tail(s) \in Seq(Packet) /\ Len(Tail(s)) = Len(s) - 1 /\ DOMAIN Tail(s) = 1 .. Len(Tail(s))
      /\ \A i \in 1 .. Len(Tail(s)) : Tail(s)[i] = s[i + 1]
  BY HeadTailProperties DEF InLine
<1>3. k # 1
  BY <1>1, <1>2
<1>4. k - 1 \in 1 .. Len(Tail(s)) /\ (k - 1) + 1 = k
  BY <1>2, <1>3
<1>5. k - 1 \in InLine(Tail(s)) /\ Tail(s)[k - 1] = s[k]
  BY <1>2, <1>4 DEF InLine
<1>. QED
  BY <1>1, <1>5 DEF OnLine

\* Of message msg all stays as it is if its fragments stay on the line.
LEMMA KeptBegun ==
  ASSUME NEW s, NEW t, NEW d, Thinned(s, t, d), NEW msg, NEW b, NEW n, NEW i, NEW c, Begun(s, msg, b, n, i, c),
         \A j \in c .. msg.len - 1 : OnLine(s, msg.id, j) => OnLine(t, msg.id, j)
  PROVE  Begun(t, msg, b, n, i, c)
BY DEF Begun, Thinned

LEMMA KeptArriving ==
  ASSUME NEW s, NEW t, NEW d, Thinned(s, t, d), \A id, fnum : OnLine(s, id, fnum) => OnLine(t, id, fnum),
         NEW mail, NEW g, NEW b, NEW n, Arriving(s, mail, g, b, n)
  PROVE  Arriving(t, mail, g, b, n)
<1>1. ASSUME NEW msg, NEW i, NEW c, Begun(s, msg, b, n, i, c) PROVE Begun(t, msg, b, n, i, c)
  BY <1>1, KeptBegun
<1>2. ASSUME NEW x, \A k \in InLine(s) : x < s[k].body PROVE \A k \in InLine(t) : x < t[k].body
  BY <1>2 DEF Thinned
<1>3. \A m \in DOMAIN mail : \/ HasGot(g, mail[m]) \/ \A j \in 0 .. mail[m].len - 1 : OnLine(t, mail[m].id, j)
                             \/ \E i \in 1 .. Buffers, c \in Nat : Begun(t, mail[m], b, n, i, c)
  BY <1>1 DEF Arriving
<1>4. \A i \in 1 .. Buffers : b[i].remotenode = n /\ b[i].parts # <<>> =>
       \E m \in DOMAIN mail, c \in Nat : Begun(t, mail[m], b, n, i, c)
  BY <1>1 DEF Arriving
<1>5. \A i \in DOMAIN g : \E m \in DOMAIN mail :
       g[i].ids = {mail[m].id} /\ \A k \in InLine(t) : mail[m].id < t[k].body
  BY <1>2 DEF Arriving
<1>. QED
  BY <1>3, <1>4, <1>5 DEF Arriving

\* A buffer that is taken has nothing of node n, and becomes another's.
LEMMA OtherArriving ==
  ASSUME NEW ch, NEW mail, NEW g, NEW b, NEW n, Arriving(ch, mail, g, b, n), NEW e,
         \A i \in 1 .. Buffers : e[i] = b[i] \/ ((b[i].remotenode = n => b[i].parts = <<>>) /\ e[i].remotenode # n)
  PROVE  Arriving(ch, mail, g, e, n)
<1>1. ASSUME NEW msg, NEW i \in 1 .. Buffers, NEW c \in Nat, Begun(ch, msg, b, n, i, c)
      PROVE  Begun(ch, msg, e, n, i, c)
  <2>1. c # 0 /\ b[i].remotenode = n /\ DOMAIN b[i].parts = 0 .. c - 1
    BY <1>1 DEF Begun
  <2>2. 0 \in DOMAIN b[i].parts
    BY <2>1
  <2>3. e[i] = b[i]
    BY <2>1, <2>2, EmptyMap
  <2>. QED
    BY <1>1, <2>3 DEF Begun
<1>2. \A m \in DOMAIN mail : \/ HasGot(g, mail[m]) \/ \A j \in 0 .. mail[m].len - 1 : OnLine(ch, mail[m].id, j)
                             \/ \E i \in 1 .. Buffers, c \in Nat : Begun(ch, mail[m], e, n, i, c)
  BY <1>1 DEF Arriving
<1>3. \A i \in 1 .. Buffers : e[i].remotenode = n /\ e[i].parts # <<>> =>
       \E m \in DOMAIN mail, c \in Nat : Begun(ch, mail[m], e, n, i, c)
  BY <1>1 DEF Arriving
<1>. QED
  BY <1>2, <1>3 DEF Arriving
\* A message enters the line.
LEMMA SentArriving ==
  ASSUME NEW s \in Seq(Packet), NEW mail \in Seq(Mail), NEW sent \in Nat, NEW more \in Nat,
         NEW k \in sent + 1 .. more, NEW len \in 1 .. MaxLen, NEW e \in BOOLEAN,
         NEW b \in [1 .. Buffers -> Buffer], NEW n, NEW g, Line(s, mail, sent), Arriving(s, mail, g, b, n)
  PROVE  Arriving(s \o Fragments(k, len), Append(mail, [id |-> k, len |-> len, early |-> e]), g, b, n)
<1> DEFINE t == s \o Fragments(k, len)
           new == Append(mail, [id |-> k, len |-> len, early |-> e])
           L == Len(s)
           M == Len(mail)
<1>1. /\ k \in Nat \ {0} /\ len \in Nat \ {0} /\ sent < k
      /\ L \in Nat /\ DOMAIN s = 1 .. L /\ M \in Nat /\ DOMAIN mail = 1 .. M
  BY FragmentAssumption
<1>2. /\ Fragments(k, len) \in Seq(Packet) /\ Len(Fragments(k, len)) = len
      /\ \A i \in 1 .. len : /\ Fragments(k, len)[i].kind = "fragment"
                             /\ Fragments(k, len)[i].fnum = i - 1 /\ Fragments(k, len)[i].body = k
  BY <1>1, FragmentsFacts
<1>3. /\ t \in Seq(Packet) /\ Len(t) = L + len /\ DOMAIN t = 1 .. L + len
      /\ \A i \in 1 .. L + len : t[i] = IF i <= L THEN s[i] ELSE Fragments(k, len)[i - L]
  <2> DEFINE F == Fragments(k, len)
  <2>1. F \in Seq(Packet) /\ Len(F) = len
    BY <1>2
  <2>. HIDE DEF F
  <2>2. /\ s \o F \in Seq(Packet) /\ Len(s \o F) = L + len
        /\ \A i \in 1 .. L + len : (s \o F)[i] = IF i <= L THEN s[i] ELSE F[i - L]
    BY <2>1, ConcatProperties
  <2>3. DOMAIN (s \o F) = 1 .. L + len
    BY <2>2
  <2>. QED
    BY <2>2, <2>3 DEF F
<1>4. /\ DOMAIN new = 1 .. M + 1 /\ \A j \in 1 .. M : new[j] = mail[j]
      /\ new[M + 1].id = k /\ new[M + 1].len = len
  <2> DEFINE m == [id |-> k, len |-> len, early |-> e]
  <2>1. m \in Mail /\ m.id = k /\ m.len = len
    BY <1>1 DEF Mail
  <2>. HIDE DEF m
  <2>2. /\ Append(mail, m) \in Seq(Mail) /\ Len(Append(mail, m)) = M + 1
        /\ \A j \in 1 .. M : Append(mail, m)[j] = mail[j]
        /\ Append(mail, m)[M + 1] = m
    BY <1>1, <2>1, AppendProperties
  <2>. QED
    BY <2>1, <2>2 DEF m
<1>. HIDE DEF t, new, L, M
<1>5. \A i \in InLine(s) : i \in InLine(t) /\ t[i] = s[i]
  <2>1. \A i \in 1 .. L : i \in 1 .. L + len /\ t[i] = s[i]
    BY <1>1, <1>3
  <2>. QED
    BY <1>1, <1>3, <2>1 DEF InLine
<1>6. \A i \in InLine(t) : (i \in InLine(s) /\ t[i] = s[i]) \/ t[i].body = k
  <2>. SUFFICES ASSUME NEW i \in InLine(t) PROVE (i \in InLine(s) /\ t[i] = s[i]) \/ t[i].body = k
    OBVIOUS
  <2>1. i \in 1 .. L + len /\ t[i].kind = "fragment"
    BY <1>3 DEF InLine
  <2>2. CASE i <= L
    <3>1. i \in DOMAIN s /\ t[i] = s[i]
      BY <1>1, <1>3, <2>1, <2>2
    <3>. QED
      BY <2>1, <3>1 DEF InLine
  <2>3. CASE ~(i <= L)
    <3>1. i - L \in 1 .. len
      BY <1>1, <2>1, <2>3
    <3>. QED
      BY <1>2, <1>3, <2>1, <2>3, <3>1
  <2>. QED
    BY <2>2, <2>3
<1>7. \A j \in 0 .. len - 1 : OnLine(t, k, j)
  <2>. SUFFICES ASSUME NEW j \in 0 .. len - 1 PROVE OnLine(t, k, j)
    OBVIOUS
  <2>1. L + (j + 1) \in 1 .. L + len /\ ~(L + (j + 1) <= L) /\ (L + (j + 1)) - L = j + 1 /\ j + 1 \in 1 .. len /\ (j + 1) - 1 = j
    BY <1>1
  <2>2. t[L + (j + 1)] = Fragments(k, len)[j + 1]
    BY <1>3, <2>1
  <2>3. L + (j + 1) \in InLine(t) /\ t[L + (j + 1)].body = k /\ t[L + (j + 1)].fnum = j
    BY <1>2, <1>3, <2>1, <2>2 DEF InLine
  <2>. QED
    BY <2>3 DEF OnLine
<1>8. \A id, fnum : OnLine(s, id, fnum) => OnLine(t, id, fnum)
  BY <1>5 DEF OnLine
<1>9. \A m \in DOMAIN mail : m \in DOMAIN new /\ new[m] = mail[m] /\ mail[m].id < k
  <2>1. \A m \in DOMAIN mail : mail[m].id \in 1 .. sent
    BY DEF Line
  <2>. QED
    BY <1>1, <1>4, <2>1
<1>10. ASSUME NEW m \in DOMAIN mail, NEW i \in 1 .. Buffers, NEW c \in Nat, Begun(s, mail[m], b, n, i, c)
       PROVE  Begun(t, new[m], b, n, i, c)
  <2>1. \A x \in InLine(t) : Precedes(mail[m].id, c - 1, t[x])
    BY <1>6, <1>9, <1>10 DEF Begun, Precedes
  <2>. QED
    BY <1>8, <1>9, <1>10, <2>1 DEF Begun
<1>11. ASSUME NEW m \in DOMAIN new
       PROVE  \/ HasGot(g, new[m]) \/ \A j \in 0 .. new[m].len - 1 : OnLine(t, new[m].id, j)
              \/ \E i \in 1 .. Buffers, c \in Nat : Begun(t, new[m], b, n, i, c)
  <2>1. CASE m = M + 1
    BY <1>4, <1>7, <2>1
  <2>2. CASE m # M + 1
    <3>1. m \in DOMAIN mail /\ new[m] = mail[m]
      BY <1>1, <1>4, <2>2
    <3>2. \/ HasGot(g, mail[m]) \/ \A j \in 0 .. mail[m].len - 1 : OnLine(s, mail[m].id, j)
          \/ \E i \in 1 .. Buffers, c \in Nat : Begun(s, mail[m], b, n, i, c)
      BY <3>1 DEF Arriving
    <3>. QED
      BY <1>8, <1>10, <3>1, <3>2
  <2>. QED
    BY <2>1, <2>2
<1>12. \A i \in 1 .. Buffers : b[i].remotenode = n /\ b[i].parts # <<>> =>
         \E m \in DOMAIN new, c \in Nat : Begun(t, new[m], b, n, i, c)
  BY <1>9, <1>10 DEF Arriving
<1>13. \A i \in DOMAIN g : \E m \in DOMAIN new :
         g[i].ids = {new[m].id} /\ \A x \in InLine(t) : new[m].id < t[x].body
  BY <1>6, <1>9 DEF Arriving
<1>. QED
  BY <1>11, <1>12, <1>13 DEF Arriving, t, new

\* Only one message of a node has begun.
LEMMA OneBegun ==
  ASSUME NEW s \in Seq(Packet), NEW msg \in Mail, NEW new \in Mail, NEW b, NEW n, n # 0, Tidy(b),
         NEW i \in 1 .. Buffers, NEW c \in Nat, Begun(s, msg, b, n, i, c),
         NEW j \in 1 .. Buffers, NEW e \in Nat, Begun(s, new, b, n, j, e)
  PROVE  msg.id = new.id /\ i = j
<1>1. /\ c \in 1 .. msg.len - 1 /\ e \in 1 .. new.len - 1 /\ msg.len \in Int /\ new.len \in Int
      /\ msg.id \in Nat /\ new.id \in Nat
  BY FragmentAssumption DEF Begun, Mail
<1>2. c \in c .. msg.len - 1 /\ e \in e .. new.len - 1
  BY <1>1
<1>3. PICK k \in InLine(s) : s[k].body = msg.id /\ s[k].fnum = c
  BY <1>2 DEF Begun, OnLine
<1>4. PICK l \in InLine(s) : s[l].body = new.id /\ s[l].fnum = e
  BY <1>2 DEF Begun, OnLine
<1>5. msg.id <= new.id
  <2>1. Precedes(msg.id, c - 1, s[l])
    BY DEF Begun
  <2>. QED
    BY <1>1, <1>4, <2>1 DEF Precedes
<1>6. new.id <= msg.id
  <2>1. Precedes(new.id, e - 1, s[k])
    BY DEF Begun
  <2>. QED
    BY <1>1, <1>3, <2>1 DEF Precedes
<1>7. msg.id = new.id
  BY <1>1, <1>5, <1>6
<1>8. b[i].remotenode = n /\ b[j].remotenode = n /\ b[i].seq = b[j].seq
  BY <1>7 DEF Begun
<1>. QED
  BY <1>7, <1>8 DEF Tidy

\* The next fragment that arrives is that of the message that has begun.
LEMMA HeadBegun ==
  ASSUME NEW s \in Seq(Packet), s # <<>>, Head(s).kind = "fragment", NEW mail, NEW sent, Line(s, mail, sent),
         NEW msg \in Mail, NEW b, NEW n, NEW i, NEW c \in Nat, Begun(s, msg, b, n, i, c)
  PROVE  /\ Head(s).body = msg.id /\ Head(s).fnum = c /\ c # 0
         /\ b[i].remotenode = n /\ b[i].seq = Head(s).seq
<1>1. s[1] = Head(s) /\ 1 \in InLine(s) /\ s[1].body \in Nat /\ s[1].fnum \in Nat
  <2>1. s[1] = Head(s) /\ 1 \in DOMAIN s
    BY HeadTailProperties
  <2>2. 1 \in InLine(s)
    BY <2>1 DEF InLine
  <2>. QED
    BY <2>1, <2>2, InLineFacts
<1>2. c \in 1 .. msg.len - 1 /\ msg.len \in Int /\ msg.id \in Nat
  BY FragmentAssumption DEF Begun, Mail
<1>3. c \in c .. msg.len - 1
  BY <1>2
<1>4. PICK k \in InLine(s) : s[k].body = msg.id /\ s[k].fnum = c
  BY <1>3 DEF Begun, OnLine
<1>5. Precedes(msg.id, c - 1, s[1])
  BY <1>1 DEF Begun
<1>6. k = 1
  <2>1. k \in Nat \ {0}
    BY InLineFacts
  <2>2. ASSUME 1 < k PROVE FALSE
    <3>1. Precedes(s[1].body, s[1].fnum, s[k])
      BY <1>1, <2>2 DEF Line
    <3>. QED
      BY <1>1, <1>2, <1>4, <1>5, <3>1 DEF Precedes
  <2>. QED
    BY <2>1, <2>2
<1>7. s[1].body = msg.id /\ s[1].fnum = c
  BY <1>4, <1>6
<1>8. s[1].seq = (s[1].body - 1) % SeqMod
  BY <1>1 DEF Line, FragmentOf
<1>. QED
  BY <1>1, <1>2, <1>7, <1>8 DEF Begun

\* If every other node has begun at most one message, node n none, and there is a buffer for
\* each other node, one is free.
LEMMA FreeBuffer ==
  ASSUME Buffers >= NumNodes - 1, NEW b \in [1 .. Buffers -> Buffer], NEW n \in Nodes \ {0},
         \A i \in 1 .. Buffers : b[i].parts # <<>> => b[i].remotenode \in Nodes \ {0, n},
         \A i, j \in 1 .. Buffers :
           b[i].parts # <<>> /\ b[j].parts # <<>> /\ b[i].remotenode = b[j].remotenode => i = j
  PROVE  \E i \in 1 .. Buffers : b[i].parts = <<>>
<1>. SUFFICES ASSUME \A i \in 1 .. Buffers : b[i].parts # <<>> PROVE FALSE
  OBVIOUS
<1> DEFINE S == 1 .. Buffers
           T == Nodes \ {0, n}
           f == [i \in S |-> b[i].remotenode]
<1>1. Buffers \in Nat \ {0} /\ NumNodes \in Nat /\ Nodes = 0 .. NumNodes - 1 /\ n \in Nodes /\ n # 0
  BY FragmentAssumption, NodeFacts DEF Nodes
<1>2. IsFiniteSet(S) /\ Cardinality(S) = Buffers
  BY <1>1, FS_Interval
<1>3. 0 \in Nodes /\ 0 <= NumNodes - 1
  BY <1>1
<1>4. IsFiniteSet(Nodes) /\ Cardinality(Nodes) = NumNodes
  BY <1>1, <1>3, FS_Interval
<1>5. IsFiniteSet(Nodes \ {0}) /\ Cardinality(Nodes \ {0}) = NumNodes - 1
  BY <1>3, <1>4, FS_RemoveElement
<1>6. IsFiniteSet(T) /\ Cardinality(T) = NumNodes - 1 - 1
  <2>1. T = (Nodes \ {0}) \ {n} /\ n \in Nodes \ {0}
    BY <1>1
  <2>. QED
    BY <1>5, <2>1, FS_RemoveElement
<1>7. f \in Injection(S, T)
  <2>1. f \in [S -> T] /\ \A i, j \in S : f[i] = f[j] => i = j
    OBVIOUS
  <2>. HIDE DEF f
  <2>. QED
    BY <2>1 DEF Injection, IsInjective
<1>. HIDE DEF f, S, T
<1>8. Cardinality(S) <= Cardinality(T)
  BY <1>2, <1>6, <1>7, FS_Injection
<1>. QED
  BY <1>1, <1>2, <1>6, <1>8

\* The fragment f at the head of a line is put into buffer i, and nothing has been lost.
Arrives(s, mail, sent, g, b, n, i, f, buf) ==
  /\ s \in Seq(Packet) /\ s # <<>> /\ mail \in Seq(Mail) /\ g \in Seq(Message)
  /\ b \in [1 .. Buffers -> Buffer] /\ n \in Nodes \ {0} /\ i \in 1 .. Buffers
  /\ f = Head(s) /\ f \in FragmentPacket /\ buf = Store(b[i], n, f)
  /\ \/ b[i].remotenode = n /\ b[i].seq = f.seq
     \/ /\ \A k \in 1 .. Buffers : ~(b[k].remotenode = n /\ b[k].seq = f.seq)
        /\ b[i].parts = <<>>
  /\ Tidy(b) /\ Line(s, mail, sent) /\ Arriving(s, mail, g, b, n)

\* Its message m is not there yet.
Awaited(s, mail, g, f, m) ==
  /\ m \in DOMAIN mail /\ mail[m].id = f.body /\ mail[m].len = f.num /\ f.fnum < f.num
  /\ f.seq = (f.body - 1) % SeqMod /\ ~HasGot(g, mail[m])

LEMMA MessageAwaited ==
  ASSUME NEW s, NEW mail, NEW sent, NEW g, NEW b, NEW n, NEW i, NEW f, NEW buf,
         Arrives(s, mail, sent, g, b, n, i, f, buf)
  PROVE  \E m \in DOMAIN mail : Awaited(s, mail, g, f, m)
<1>0. /\ s \in Seq(Packet) /\ s # <<>> /\ mail \in Seq(Mail) /\ f = Head(s) /\ f \in FragmentPacket
      /\ Line(s, mail, sent) /\ Arriving(s, mail, g, b, n)
  BY DEF Arrives
<1>1. f.kind = "fragment" /\ f.body \in Nat
  BY <1>0 DEF FragmentPacket
<1>2. FragmentOf(f, mail) /\ 1 \in InLine(s) /\ s[1] = f
  BY <1>0, <1>1, HeadFacts
<1>3. PICK m \in DOMAIN mail : mail[m].id = f.body /\ mail[m].len = f.num /\ f.fnum < f.num /\ f.seq = (f.body - 1) % SeqMod
  BY <1>2 DEF FragmentOf
<1>4. ~HasGot(g, mail[m])
  <2>. SUFFICES ASSUME NEW x \in DOMAIN g, g[x].ids = {mail[m].id} PROVE FALSE
    BY DEF HasGot
  <2>1. PICK y \in DOMAIN mail : g[x].ids = {mail[y].id} /\ \A k \in InLine(s) : mail[y].id < s[k].body
    BY <1>0 DEF Arriving
  <2>2. mail[y].id = f.body /\ mail[y].id < f.body
    BY <1>2, <1>3, <2>1
  <2>. QED
    BY <1>1, <2>2
<1>. QED
  BY <1>3, <1>4 DEF Awaited

\* It is the next one of its message, and of the node there is no other.
LEMMA NextOfMessage ==
  ASSUME NEW s, NEW mail, NEW sent, NEW g, NEW b, NEW n, NEW i, NEW f, NEW buf,
         Arrives(s, mail, sent, g, b, n, i, f, buf)
  PROVE  /\ DOMAIN buf.parts = 0 .. f.fnum /\ \A j \in 0 .. f.fnum : buf.parts[j] = f.body
         /\ \A l \in 1 .. Buffers : l # i /\ b[l].remotenode = n => b[l].parts = <<>>
<1>0. /\ s \in Seq(Packet) /\ s # <<>> /\ mail \in Seq(Mail) /\ g \in Seq(Message)
      /\ b \in [1 .. Buffers -> Buffer] /\ n \in Nodes \ {0} /\ i \in 1 .. Buffers
      /\ f = Head(s) /\ f \in FragmentPacket /\ buf = Store(b[i], n, f)
      /\ \/ b[i].remotenode = n /\ b[i].seq = f.seq
         \/ /\ \A k \in 1 .. Buffers : ~(b[k].remotenode = n /\ b[k].seq = f.seq)
            /\ b[i].parts = <<>>
      /\ Tidy(b) /\ Line(s, mail, sent) /\ Arriving(s, mail, g, b, n)
  BY DEF Arrives
<1>1. f.kind = "fragment" /\ f.fnum \in Nat /\ f.body \in Nat /\ f.num \in Nat
  BY <1>0 DEF FragmentPacket
<1>2. ASSUME NEW m \in DOMAIN mail, NEW l \in 1 .. Buffers, NEW c \in Nat, Begun(s, mail[m], b, n, l, c)
      PROVE  /\ l = i /\ c = f.fnum /\ c # 0 /\ b[i].remotenode = n /\ b[i].seq = f.seq /\ mail[m].id = f.body
             /\ DOMAIN b[i].parts = 0 .. c - 1 /\ \A j \in 0 .. c - 1 : b[i].parts[j] = f.body
  <2>1. mail[m] \in Mail
    BY <1>0, ElementOfSeq
  <2>2. f.body = mail[m].id /\ f.fnum = c /\ c # 0 /\ b[l].remotenode = n /\ b[l].seq = f.seq
    <3> DEFINE msg == mail[m]
    <3>1. msg \in Mail /\ Begun(s, msg, b, n, l, c) /\ c \in Nat /\ Head(s).kind = "fragment"
      BY <1>0, <1>1, <1>2, <2>1
    <3>2. s \in Seq(Packet) /\ s # <<>> /\ Line(s, mail, sent) /\ f = Head(s)
      BY <1>0
    <3>. HIDE DEF msg
    <3>3. Head(s).body = msg.id /\ Head(s).fnum = c /\ c # 0 /\ b[l].remotenode = n /\ b[l].seq = Head(s).seq
      BY ONLY <3>1, <3>2, HeadBegun
    <3>. QED
      BY <3>2, <3>3 DEF msg
  <2>3. b[i].remotenode = n /\ b[i].seq = f.seq
    BY <1>0, <2>2
  <2>4. l = i
    BY <1>0, <2>2, <2>3 DEF Tidy
  <2>. QED
    BY <1>2, <2>2, <2>3, <2>4 DEF Begun
<1>3. ASSUME NEW l \in 1 .. Buffers, l # i, b[l].remotenode = n, b[l].parts # <<>> PROVE FALSE
  <2>1. \E m \in DOMAIN mail, c \in Nat : Begun(s, mail[m], b, n, l, c)
    BY <1>0, <1>3 DEF Arriving
  <2>. QED
    BY <1>2, <1>3, <2>1
<1>4. /\ b[i] \in Buffer /\ n \in Nodes
      /\ buf.parts[f.fnum] = f.body
      /\ b[i].remotenode = n /\ b[i].seq = f.seq =>
           /\ DOMAIN buf.parts = DOMAIN b[i].parts \cup {f.fnum}
           /\ \A j \in DOMAIN b[i].parts : j # f.fnum => buf.parts[j] = b[i].parts[j]
      /\ ~(b[i].remotenode = n /\ b[i].seq = f.seq) => DOMAIN buf.parts = {f.fnum}
  <2>1. b[i] \in Buffer /\ n \in Nodes
    BY <1>0
  <2>. QED
    BY <1>0, <2>1, StoreFacts
<1>5. CASE \E m \in DOMAIN mail, c \in Nat : Begun(s, mail[m], b, n, i, c)
  <2>1. PICK m \in DOMAIN mail, c \in Nat : Begun(s, mail[m], b, n, i, c)
    BY <1>5
  <2>2. /\ c = f.fnum /\ c # 0 /\ b[i].remotenode = n /\ b[i].seq = f.seq
        /\ DOMAIN b[i].parts = 0 .. c - 1 /\ \A j \in 0 .. c - 1 : b[i].parts[j] = f.body
    BY <1>0, <1>2, <2>1
  <2>3. DOMAIN buf.parts = 0 .. c - 1 \cup {c} /\ \A j \in 0 .. c - 1 : j # c => buf.parts[j] = f.body
    BY <1>4, <2>2
  <2>4. 0 .. c - 1 \cup {c} = 0 .. c /\ \A j \in 0 .. c : j = c \/ (j \in 0 .. c - 1 /\ j # c)
    OBVIOUS
  <2>. QED
    BY <1>3, <1>4, <2>2, <2>3, <2>4
<1>6. CASE ~ \E m \in DOMAIN mail, c \in Nat : Begun(s, mail[m], b, n, i, c)
  <2>1. b[i].remotenode = n => b[i].parts = <<>>
    BY <1>0, <1>6 DEF Arriving
  <2>2. DOMAIN buf.parts = {f.fnum}
    BY <1>4, <2>1, EmptyMap
  <2>3. f.fnum = 0
    <3>1. s[1] = f /\ 1 \in InLine(s)
      BY <1>0, <1>1, HeadFacts
    <3>2. PICK m \in DOMAIN mail : Awaited(s, mail, g, f, m)
      BY ONLY MessageAwaited, Arrives(s, mail, sent, g, b, n, i, f, buf)
    <3>3. mail[m].id = f.body /\ mail[m].len = f.num /\ f.fnum < f.num
      BY <3>2 DEF Awaited
    <3>4. ~HasGot(g, mail[m])
      BY <3>2 DEF Awaited
    <3>5. ASSUME NEW l \in 1 .. Buffers, NEW c \in Nat, Begun(s, mail[m], b, n, l, c) PROVE FALSE
      BY <1>2, <1>6, <3>5
    <3>6. OnLine(s, f.body, 0)
      <4>1. \A j \in 0 .. f.num - 1 : OnLine(s, f.body, j)
        BY <1>0, <3>3, <3>4, <3>5 DEF Arriving
      <4>2. 0 \in 0 .. f.num - 1
        BY <1>1, <3>3
      <4>. QED
        BY <4>1, <4>2
    <3>7. PICK k \in InLine(s) : s[k].body = f.body /\ s[k].fnum = 0
      BY <3>6 DEF OnLine
    <3>8. ASSUME 1 < k PROVE FALSE
      <4>1. Precedes(f.body, f.fnum, s[k])
        BY <1>0, <3>1, <3>8 DEF Line
      <4>. QED
        BY <1>1, <3>7, <4>1 DEF Precedes
    <3>9. k \in Nat \ {0}
      BY <1>0, InLineFacts
    <3>. QED
      BY <3>1, <3>7, <3>8, <3>9
  <2>4. 0 .. 0 = {0}
    OBVIOUS
  <2>. QED
    BY <1>3, <1>4, <2>2, <2>3, <2>4
<1>. QED
  BY <1>5, <1>6

\* What has arrived, and what is still to arrive, when it has been put there.
LEMMA NextArrived ==
  ASSUME NEW s, NEW mail, NEW sent, NEW g, NEW b, NEW n, NEW i, NEW f, NEW buf,
         Arrives(s, mail, sent, g, b, n, i, f, buf),
         NEW e, e = [b EXCEPT ![i] = IF Full(buf, f) THEN [buf EXCEPT !.parts = <<>>] ELSE buf],
         NEW h, h = IF Full(buf, f) THEN Append(g, Whole(buf, f)) ELSE g
  PROVE  Arriving(Tail(s), mail, h, e, n)
<1>0. /\ s \in Seq(Packet) /\ s # <<>> /\ mail \in Seq(Mail) /\ g \in Seq(Message)
      /\ b \in [1 .. Buffers -> Buffer] /\ n \in Nodes /\ i \in 1 .. Buffers
      /\ f = Head(s) /\ f \in FragmentPacket /\ buf = Store(b[i], n, f)
      /\ Line(s, mail, sent) /\ Arriving(s, mail, g, b, n)
  BY DEF Arrives
<1> DEFINE t == Tail(s)
<1>1. f.kind = "fragment" /\ f.fnum \in Nat /\ f.body \in Nat /\ f.num \in Nat
  BY <1>0 DEF FragmentPacket
<1>2. /\ \A k \in InLine(t) : Precedes(f.body, f.fnum, t[k])
      /\ f.fnum = f.num - 1 => \A k \in InLine(t) : f.body < t[k].body
      /\ Thinned(s, t, 1)
  BY <1>0, <1>1, HeadFacts, ThinnedTail
<1>3. /\ DOMAIN buf.parts = 0 .. f.fnum /\ \A j \in 0 .. f.fnum : buf.parts[j] = f.body
      /\ \A l \in 1 .. Buffers : l # i /\ b[l].remotenode = n => b[l].parts = <<>>
  BY ONLY NextOfMessage, Arrives(s, mail, sent, g, b, n, i, f, buf)
<1>4. PICK q \in DOMAIN mail : Awaited(s, mail, g, f, q)
  BY ONLY MessageAwaited, Arrives(s, mail, sent, g, b, n, i, f, buf)
<1>5. mail[q].id = f.body /\ mail[q].len = f.num /\ f.fnum < f.num /\ f.seq = (f.body - 1) % SeqMod /\ ~HasGot(g, mail[q])
  BY <1>4 DEF Awaited
<1>6. Full(buf, f) <=> f.fnum = f.num - 1
  <2>1. ASSUME 0 .. f.fnum = 0 .. f.num - 1 PROVE f.fnum = f.num - 1
    <3>1. f.fnum \in 0 .. f.fnum /\ f.num - 1 \in 0 .. f.num - 1
      BY <1>1, <1>5
    <3>2. f.num - 1 \in 0 .. f.fnum
      BY <2>1, <3>1
    <3>. QED
      BY <1>1, <1>5, <3>2
  <2>. QED
    BY <1>3, <2>1 DEF Full
<1>7. buf \in Buffer /\ buf.remotenode = n /\ buf.seq = f.seq
  <2>1. b[i] \in Buffer
    BY <1>0
  <2>. QED
    BY <1>0, <2>1, StoreFacts
<1>8. /\ \A l \in 1 .. Buffers : l # i => e[l] = b[l]
      /\ Full(buf, f) => e[i].parts = <<>>
      /\ ~Full(buf, f) => e[i] = buf
  BY <1>0, <1>7 DEF Buffer
<1>9. \A m \in DOMAIN mail : m # q => mail[m].id # f.body
  BY <1>0, <1>5, SameMail
<1>10. ASSUME NEW id, NEW fnum, OnLine(s, id, fnum), id # f.body \/ fnum # f.fnum
       PROVE  OnLine(t, id, fnum)
  BY <1>0, <1>10, OnLineTail
<1>11. ASSUME NEW m \in DOMAIN mail, NEW l \in 1 .. Buffers, NEW c \in Nat, Begun(s, mail[m], b, n, l, c)
       PROVE  m = q /\ c = f.fnum
  <2> DEFINE msg == mail[m]
  <2>1. msg \in Mail
    BY <1>0, ElementOfSeq
  <2>2. Begun(s, msg, b, n, l, c) /\ c \in Nat /\ Head(s).kind = "fragment"
    BY <1>0, <1>1, <1>11
  <2>3. s \in Seq(Packet) /\ s # <<>> /\ Line(s, mail, sent)
    BY <1>0
  <2>. HIDE DEF msg
  <2>4. Head(s).body = msg.id /\ Head(s).fnum = c
    BY ONLY <2>1, <2>2, <2>3, HeadBegun
  <2>. QED
    BY <1>0, <1>9, <2>4 DEF msg
<1>. HIDE DEF t
<1>12. \A x \in DOMAIN g : x \in DOMAIN h /\ h[x] = g[x]
  <2>1. CASE Full(buf, f)
    BY <1>0, <2>1, AppendProperties
  <2>2. CASE ~Full(buf, f)
    BY <2>2
  <2>. QED
    BY <2>1, <2>2
<1>13. \A msg : HasGot(g, msg) => HasGot(h, msg)
  BY <1>12 DEF HasGot
<1>14. \A j \in f.fnum + 1 .. f.num - 1 : OnLine(t, f.body, j)
  <2>1. \A j \in f.fnum + 1 .. f.num - 1 : j \in 0 .. f.num - 1 /\ j \in f.fnum .. f.num - 1 /\ j # f.fnum
    BY <1>1
  <2>2. \/ \A j \in 0 .. f.num - 1 : OnLine(s, f.body, j)
        \/ \E l \in 1 .. Buffers, c \in Nat : Begun(s, mail[q], b, n, l, c)
    BY <1>0, <1>5 DEF Arriving
  <2>3. ASSUME NEW l \in 1 .. Buffers, NEW c \in Nat, Begun(s, mail[q], b, n, l, c)
        PROVE  \A j \in f.fnum .. f.num - 1 : OnLine(s, f.body, j)
    <3>1. c = f.fnum
      BY <1>11, <2>3
    <3>. QED
      BY <1>5, <2>3, <3>1 DEF Begun
  <2>4. \A j \in f.fnum + 1 .. f.num - 1 : OnLine(s, f.body, j)
    BY <2>1, <2>2, <2>3
  <2>. QED
    BY <1>10, <2>1, <2>4
<1>15. ASSUME ~Full(buf, f) PROVE Begun(t, mail[q], e, n, i, f.fnum + 1)
  <2>1. f.fnum + 1 \in 1 .. mail[q].len - 1 /\ (f.fnum + 1) - 1 = f.fnum
    BY <1>1, <1>5, <1>6, <1>15
  <2>2. e[i] = buf
    BY <1>8, <1>15
  <2>. QED
    BY <1>2, <1>3, <1>5, <1>7, <1>14, <2>1, <2>2 DEF Begun
<1>16. ASSUME Full(buf, f) PROVE Len(g) + 1 \in DOMAIN h /\ h[Len(g) + 1].ids = {f.body}
  <2>1. DOMAIN h = 1 .. Len(g) + 1 /\ h[Len(g) + 1] = Whole(buf, f) /\ Len(g) \in Nat
    BY <1>0, <1>16, AppendProperties
  <2>2. {buf.parts[j] : j \in 0 .. f.num - 1} = {f.body}
    <3>1. 0 .. f.num - 1 = 0 .. f.fnum /\ 0 \in 0 .. f.fnum
      BY <1>1, <1>6, <1>16
    <3>. QED
      BY <1>3, <3>1
  <2>3. Whole(buf, f).ids = {buf.parts[j] : j \in 0 .. f.num - 1}
    BY ONLY TRUE DEF Whole
  <2>4. Len(g) + 1 \in 1 .. Len(g) + 1
    BY <2>1
  <2>. QED
    BY ONLY <2>1, <2>2, <2>3, <2>4
<1>17. ASSUME NEW m \in DOMAIN mail
       PROVE  \/ HasGot(h, mail[m]) \/ \A j \in 0 .. mail[m].len - 1 : OnLine(t, mail[m].id, j)
              \/ \E l \in 1 .. Buffers, c \in Nat : Begun(t, mail[m], e, n, l, c)
  <2>1. CASE m # q
    <3>1. HasGot(g, mail[m]) \/ \A j \in 0 .. mail[m].len - 1 : OnLine(s, mail[m].id, j)
      BY <1>0, <1>11, <2>1 DEF Arriving
    <3>2. mail[m].id # f.body
      BY <1>9, <2>1
    <3>. QED
      BY <1>10, <1>13, <3>1, <3>2
  <2>2. CASE m = q /\ Full(buf, f)
    BY <1>5, <1>16, <2>2 DEF HasGot
  <2>3. CASE m = q /\ ~Full(buf, f)
    <3>1. f.fnum + 1 \in Nat
      BY <1>1
    <3>. QED
      BY <1>0, <1>15, <2>3, <3>1
  <2>. QED
    BY <2>1, <2>2, <2>3
<1>18. ASSUME NEW l \in 1 .. Buffers, e[l].remotenode = n, e[l].parts # <<>>
       PROVE  \E m \in DOMAIN mail, c \in Nat : Begun(t, mail[m], e, n, l, c)
  <2>1. l = i /\ ~Full(buf, f)
    BY <1>3, <1>8, <1>18
  <2>2. f.fnum + 1 \in Nat
    BY <1>1
  <2>. QED
    BY <1>15, <2>1, <2>2
<1>19. ASSUME NEW x \in DOMAIN h
       PROVE  \E m \in DOMAIN mail : h[x].ids = {mail[m].id} /\ \A k \in InLine(t) : mail[m].id < t[k].body
  <2>1. CASE x \in DOMAIN g
    <3>1. PICK m \in DOMAIN mail : g[x].ids = {mail[m].id} /\ \A k \in InLine(s) : mail[m].id < s[k].body
      BY <1>0, <2>1 DEF Arriving
    <3>2. \A k \in InLine(t) : mail[m].id < t[k].body
      BY <1>2, <3>1 DEF Thinned
    <3>. QED
      BY <1>12, <2>1, <3>1, <3>2
  <2>2. CASE x \notin DOMAIN g
    <3>1. Full(buf, f)
      BY <1>19, <2>2
    <3>2. x = Len(g) + 1
      <4>1. h = Append(g, Whole(buf, f))
        BY <3>1
      <4>2. DOMAIN h = 1 .. Len(g) + 1 /\ DOMAIN g = 1 .. Len(g) /\ Len(g) \in Nat
        BY <1>0, <4>1, AppendProperties
      <4>. QED
        BY <1>19, <2>2, <4>2
    <3>. QED
      BY <1>2, <1>5, <1>6, <1>16, <3>1, <3>2
  <2>. QED
    BY <2>1, <2>2
<1>. QED
  BY <1>17, <1>18, <1>19 DEF Arriving, t

LEMMA TidyStored ==
  ASSUME NEW b \in [1 .. Buffers -> Buffer], Tidy(b), NEW n, n # 0, NEW s, NEW i, Chosen(b, n, s, i),
         NEW new, new.remotenode = n, new.seq = s, NEW e, e = [b EXCEPT ![i] = new]
  PROVE  Tidy(e)
<1>1. i \in 1 .. Buffers /\ e[i] = new /\ \A l \in 1 .. Buffers : l # i => e[l] = b[l]
  BY DEF Chosen
<1>2. ASSUME NEW l \in 1 .. Buffers, b[l].remotenode = n, b[l].seq = s PROVE l = i
  BY <1>1, <1>2 DEF Chosen, Tidy
<1>3. ASSUME NEW l \in 1 .. Buffers, NEW k \in 1 .. Buffers,
             e[l].remotenode # 0, e[k].remotenode = e[l].remotenode, e[k].seq = e[l].seq
      PROVE  k = l
  <2>1. CASE l = i
    BY <1>1, <1>2, <1>3, <2>1
  <2>2. CASE k = i
    BY <1>1, <1>2, <1>3, <2>2
  <2>3. CASE l # i /\ k # i
    BY <1>1, <1>3, <2>3 DEF Tidy
  <2>. QED
    BY <2>1, <2>2, <2>3
<1>4. ASSUME NEW l \in 1 .. Buffers, e[l].remotenode = 0 PROVE e[l].parts = <<>>
  BY <1>1, <1>4 DEF Tidy
<1>. QED
  BY <1>3, <1>4 DEF Tidy

\* A step of another kind leaves what is on a line.
LEMMA KeptOnLine ==
  ASSUME TypeInv, NEW p \in Player, NEW q \in Player, AfterTaking(q, p), NEW a \in Player, NEW x \in Player,
         a # q \/ x # p \/ Head(channel[q][p]).kind = "discover"
  PROVE  \E d \in {0, 1} : /\ Thinned(channel[a][x], channel'[a][x], d)
                           /\ \A id, fnum : OnLine(channel[a][x], id, fnum) => OnLine(channel'[a][x], id, fnum)
<1>1. channel[a][x] \in Seq(Packet) /\ channel'[a][x] \in Seq(Packet)
  BY TypeFacts DEF Lines, AfterTaking
<1>2. CASE a = q /\ x = p
  <2>1. /\ channel[q][p] \in Seq(Packet) /\ channel[q][p] # <<>> /\ channel'[q][p] = Tail(channel[q][p])
        /\ Head(channel[q][p]).kind = "discover"
    BY <1>2 DEF AfterTaking
  <2>2. \A id, fnum : OnLine(channel[q][p], id, fnum) => OnLine(channel'[q][p], id, fnum)
    BY <2>1, OnLineTail
  <2>3. Thinned(channel[q][p], channel'[q][p], 1)
    BY <2>1, ThinnedTail
  <2>. QED
    BY <1>2, <2>2, <2>3
<1>3. CASE a # q \/ x # p
  <2>1. NoNews(channel[a][x], channel'[a][x])
    BY <1>3 DEF AfterTaking
  <2>2. \A id, fnum : OnLine(channel[a][x], id, fnum) => OnLine(channel'[a][x], id, fnum)
    BY <1>1, <2>1, OnLineNews
  <2>3. Thinned(channel[a][x], channel'[a][x], 0)
    BY <1>1, <2>1, ThinnedNews
  <2>. QED
    BY <2>2, <2>3
<1>. QED
  BY <1>2, <1>3

\* What holds of the messages from a to q.
LEMMA ArriveFacts ==
  ASSUME TypeInv, EndsInv, ArriveInv, NEW q \in Player, Reliable(q), NEW a \in Others(q)
  PROVE  /\ a \in Player /\ a # q /\ NodeOf(q, a) \in Nodes \ {0} /\ Tidy(player[q].buffers)
         /\ channel[a][q] \in Seq(Packet) /\ mailed[a][q] \in Seq(Mail) /\ got[q][a] \in Seq(Message)
         /\ player[q].buffers \in [1 .. Buffers -> Buffer]
         /\ Line(channel[a][q], mailed[a][q], player[a].send_seq)
         /\ Arriving(channel[a][q], mailed[a][q], got[q][a], player[q].buffers, NodeOf(q, a))
         /\ \A l \in 1 .. Buffers :
              player[q].buffers[l].remotenode = NodeOf(q, a) /\ player[q].buffers[l].parts # <<>> =>
                \E msg \in Mail, c \in Nat : Begun(channel[a][q], msg, player[q].buffers, NodeOf(q, a), l, c)
<1>1. a \in Player /\ a # q /\ NodeOf(q, a) \in Nodes \ {0}
  BY OtherNodes
<1>2. channel[a][q] \in Seq(Packet) /\ mailed[a][q] \in Seq(Mail) /\ got[q][a] \in Seq(Message)
  BY <1>1, TypeFacts DEF TypeInv, Lines
<1>3. player[q].buffers \in [1 .. Buffers -> Buffer]
  BY TypeFacts DEF State
<1>4. Line(channel[a][q], mailed[a][q], player[a].send_seq)
  <2>1. q \in Others(a)
    BY <1>1 DEF Others
  <2>. QED
    BY <1>1, <2>1 DEF EndsInv, Ends
<1>5. Arriving(channel[a][q], mailed[a][q], got[q][a], player[q].buffers, NodeOf(q, a)) /\ Tidy(player[q].buffers)
  BY DEF ArriveInv
<1>6. \A m \in DOMAIN mailed[a][q] : mailed[a][q][m] \in Mail
  BY <1>2, ElementOfSeq
<1>7. ASSUME NEW l \in 1 .. Buffers, player[q].buffers[l].remotenode = NodeOf(q, a), player[q].buffers[l].parts # <<>>
      PROVE  \E msg \in Mail, c \in Nat : Begun(channel[a][q], msg, player[q].buffers, NodeOf(q, a), l, c)
  BY <1>5, <1>6, <1>7 DEF Arriving
<1>. QED
  BY <1>1, <1>2, <1>3, <1>4, <1>5, <1>7

\* No buffer is taken away from a message.
LEMMA NoneTaken ==
  ASSUME TypeInv, EndsInv, ArriveInv, Buffers >= NumNodes - 1, NEW p \in Player, Reliable(p), NEW q \in Others(p),
         channel[q][p] # <<>>, Head(channel[q][p]).kind = "fragment", NEW i,
         Chosen(player[p].buffers, NodeOf(p, q), Head(channel[q][p]).seq, i)
  PROVE  LET b == player[p].buffers
             n == NodeOf(p, q)
             s == Head(channel[q][p]).seq
         IN \/ b[i].remotenode = n /\ b[i].seq = s
            \/ (\A k \in 1 .. Buffers : ~(b[k].remotenode = n /\ b[k].seq = s)) /\ b[i].parts = <<>>
<1> DEFINE b == player[p].buffers
           n == NodeOf(p, q)
           s == Head(channel[q][p]).seq
<1>1. SUFFICES ASSUME \A k \in 1 .. Buffers : ~(b[k].remotenode = n /\ b[k].seq = s),
                      \A k \in 1 .. Buffers : b[k].parts # <<>>
               PROVE  FALSE
  BY DEF Chosen
<1>2. b \in [1 .. Buffers -> Buffer] /\ Tidy(b) /\ n \in Nodes \ {0}
  BY ArriveFacts
<1>3. ASSUME NEW l \in 1 .. Buffers PROVE b[l].remotenode \in Nodes \ {0, n}
  <2>1. b[l].remotenode \in Nodes
    BY <1>2 DEF Buffer
  <2>2. b[l].remotenode # 0
    BY <1>1, <1>2 DEF Tidy
  <2>3. ASSUME b[l].remotenode = n PROVE FALSE
    <3>1. PICK msg \in Mail, c \in Nat : Begun(channel[q][p], msg, b, n, l, c)
      BY <1>1, <2>3, ArriveFacts
    <3>2. channel[q][p] \in Seq(Packet) /\ Line(channel[q][p], mailed[q][p], player[q].send_seq)
      BY ArriveFacts
    <3>. HIDE DEF b, n
    <3>3. b[l].seq = Head(channel[q][p]).seq
      BY <3>1, <3>2, HeadBegun
    <3>. QED
      BY <1>1, <2>3, <3>3 DEF s
  <2>. QED
    BY <2>1, <2>2, <2>3
<1>4. ASSUME NEW l \in 1 .. Buffers, NEW k \in 1 .. Buffers, b[l].remotenode = b[k].remotenode PROVE l = k
  <2> DEFINE r == b[l].remotenode
             a == PlayerOf(p, r)
  <2>1. r \in Nodes /\ r # 0
    BY <1>3
  <2>2. a \in Player /\ NodeOf(p, a) = r /\ a # p
    <3>. HIDE DEF r
    <3>1. a \in Player /\ NodeOf(p, a) = r
      BY <2>1, NodeFacts
    <3>2. NodeOf(p, p) = 0
      BY NodeFacts
    <3>. HIDE DEF a
    <3>. QED
      BY ONLY <2>1, <3>1, <3>2
  <2>3. a \in Others(p)
    BY <2>2 DEF Others
  <2>4. PICK msg \in Mail, c \in Nat : Begun(channel[a][p], msg, b, r, l, c)
    BY <1>1, <2>2, <2>3, ArriveFacts
  <2>5. PICK new \in Mail, d \in Nat : Begun(channel[a][p], new, b, r, k, d)
    BY <1>1, <1>4, <2>2, <2>3, ArriveFacts
  <2>6. channel[a][p] \in Seq(Packet)
    BY <2>3, ArriveFacts
  <2>. HIDE DEF a, r, b
  <2>. QED
    BY <1>2, <2>1, <2>4, <2>5, <2>6, OneBegun
<1>. HIDE DEF b, n, s
<1>5. \E l \in 1 .. Buffers : b[l].parts = <<>>
  BY <1>2, <1>3, <1>4, FreeBuffer
<1>. QED
  BY <1>1, <1>5

LEMMA InitArrives == Init => ArriveInv
<1>. SUFFICES ASSUME Init, NEW q \in Player
              PROVE  /\ Tidy(player[q].buffers)
                     /\ \A p \in Player : DOMAIN mailed[p][q] = {}
                     /\ \A p \in Others(q) :
                          Arriving(channel[p][q], mailed[p][q], got[q][p], player[q].buffers, NodeOf(q, p))
  BY DEF ArriveInv
<1>1. \A i \in 1 .. Buffers : player[q].buffers[i].parts = <<>> /\ player[q].buffers[i].remotenode = 0
  BY DEF Init, Found, Discovering, Free
<1>2. \A p \in Player : DOMAIN mailed[p][q] = {} /\ DOMAIN got[q][p] = {}
  BY DEF Init
<1>3. Tidy(player[q].buffers)
  BY <1>1 DEF Tidy
<1>4. ASSUME NEW p \in Others(q)
      PROVE  Arriving(channel[p][q], mailed[p][q], got[q][p], player[q].buffers, NodeOf(q, p))
  <2>1. p \in Player
    BY DEF Others
  <2>. QED
    BY <1>1, <1>2, <2>1 DEF Arriving
<1>. QED
  BY <1>2, <1>3, <1>4

\* A step that changes no buffer, and only adds to a line or takes from it what is no fragment.
LEMMA StillArriving ==
  ASSUME TypeInv, EndsInv, ArriveInv, NEW q \in Player, Reliable(q), NEW a \in Others(q), NEW d \in {0, 1},
         Thinned(channel[a][q], channel'[a][q], d),
         \A id, fnum : OnLine(channel[a][q], id, fnum) => OnLine(channel'[a][q], id, fnum)
  PROVE  Arriving(channel'[a][q], mailed[a][q], got[q][a], player[q].buffers, NodeOf(q, a))
<1>1. Arriving(channel[a][q], mailed[a][q], got[q][a], player[q].buffers, NodeOf(q, a))
  BY ArriveFacts
<1>. QED
  BY <1>1, KeptArriving

LEMMA CmdGetArrives ==
  ASSUME TypeInv, EndsInv, ArriveInv, Buffers >= NumNodes - 1, NEW p \in Player, NEW q \in Others(p), CmdGet(p, q)
  PROVE  ArriveInv'
<1> DEFINE pkt == Head(channel[q][p])
           f == AsFragment(pkt)
           n == NodeOf(p, q)
<1>1. /\ AfterTaking(q, p) /\ UNCHANGED <<mailed, losses>>
      /\ \A a \in Player : player'[a].phase = player[a].phase
  BY CmdGetStep DEF CmdGet
<1>2. \/ LateDiscover(pkt) /\ player' = player /\ got' = got /\ stray' = stray
      \/ /\ ~LateDiscover(pkt)
         /\ \E i \in 1 .. Buffers, buf \in Buffer : Reassembled(p, q, f, i, buf)
         /\ stray' = IF pkt.kind = "fragment" THEN stray ELSE [stray EXCEPT ![p] = @ \cup {q}]
  BY CmdGetStep
<1>3. /\ q \in Player /\ q # p /\ n \in Nodes \ {0} /\ channel[q][p] \in Seq(Packet) /\ channel[q][p] # <<>>
      /\ pkt \in Packet /\ f \in FragmentPacket /\ channel'[q][p] = Tail(channel[q][p])
  BY <1>1, OtherNodes, PacketFacts DEF AfterTaking
<1>4. ASSUME NEW x \in Player, Reliable(x)' 
      PROVE  Reliable(x) /\ (x = p => LateDiscover(pkt) \/ pkt.kind = "fragment")
  <2>1. losses = 0 /\ stray'[x] = {} /\ InTime(x)
    BY <1>1, <1>4 DEF Reliable, InTime
  <2>2. stray \in [Player -> SUBSET Player]
    BY DEF TypeInv
  <2>3. stray[x] = {} /\ (x = p => LateDiscover(pkt) \/ pkt.kind = "fragment")
    BY <1>2, <1>3, <2>1, <2>2
  <2>. QED
    BY <2>1, <2>3 DEF Reliable
<1>5. \A x \in Player : player'[x].phase = "discover" =>
        \A a \in Player : \A j \in DOMAIN mailed'[a][x] : mailed'[a][x][j].early
  BY <1>1 DEF ArriveInv
<1>6. ASSUME NEW x \in Player, Reliable(x), NEW a \in Others(x), a # q \/ x # p \/ pkt.kind = "discover"
      PROVE  Arriving(channel'[a][x], mailed[a][x], got[x][a], player[x].buffers, NodeOf(x, a))
  <2>1. a \in Player
    BY DEF Others
  <2>2. PICK d \in {0, 1} : /\ Thinned(channel[a][x], channel'[a][x], d)
                            /\ \A id, fnum : OnLine(channel[a][x], id, fnum) => OnLine(channel'[a][x], id, fnum)
    BY <1>1, <1>3, <1>6, <2>1, KeptOnLine
  <2>. QED
    BY <1>6, <2>2, StillArriving
<1>. HIDE DEF f, n
<1>7. CASE LateDiscover(pkt) /\ player' = player /\ got' = got
  <2>1. pkt.kind = "discover"
    BY <1>7 DEF LateDiscover
  <2>2. \A x \in Player : Tidy(player'[x].buffers)
    BY <1>7 DEF ArriveInv
  <2>3. \A x \in Player : Reliable(x)' => \A a \in Others(x) :
          Arriving(channel'[a][x], mailed'[a][x], got'[x][a], player'[x].buffers, NodeOf(x, a))
    BY <1>1, <1>4, <1>6, <1>7, <2>1
  <2>. QED
    BY <1>5, <2>2, <2>3 DEF ArriveInv
<1>8. ASSUME NEW i \in 1 .. Buffers, NEW buf \in Buffer, Reassembled(p, q, f, i, buf), ~LateDiscover(pkt)
      PROVE  ArriveInv'
  <2> DEFINE b == player[p].buffers
             e == player'[p].buffers
             new == IF Full(buf, f) THEN [buf EXCEPT !.parts = <<>>] ELSE buf
  <2>1. /\ Chosen(b, n, f.seq, i) /\ buf = Store(b[i], n, f)
        /\ e = [b EXCEPT ![i] = new] /\ \A x \in Player : x # p => player'[x] = player[x]
        /\ got' = IF Full(buf, f) THEN [got EXCEPT ![p][q] = Append(@, Whole(buf, f))] ELSE got
    BY <1>8 DEF Reassembled, n
  <2>2. \A x, y \in Player : got'[x][y] = IF x = p /\ y = q /\ Full(buf, f) THEN Append(got[p][q], Whole(buf, f))
                                          ELSE got[x][y]
    BY <1>3, <2>1 DEF TypeInv
  <2>3. b \in [1 .. Buffers -> Buffer] /\ Tidy(b)
    BY TypeFacts DEF State, ArriveInv
  <2>4. new.remotenode = n /\ new.seq = f.seq
    <3>1. b[i] \in Buffer /\ n \in Nodes
      BY <1>3, <2>3
    <3>2. buf.remotenode = n /\ buf.seq = f.seq
      BY <1>3, <2>1, <3>1, StoreFacts
    <3>. QED
      BY <3>2 DEF Buffer
  <2>. HIDE DEF b, e, new
  <2>5. Tidy(e)
    BY <1>3, <2>1, <2>3, <2>4, TidyStored
  <2>6. \A x \in Player : Tidy(player'[x].buffers)
    BY <2>1, <2>5 DEF e, ArriveInv
  <2>7. ASSUME NEW x \in Player, Reliable(x)', NEW a \in Others(x)
        PROVE  Arriving(channel'[a][x], mailed[a][x], got'[x][a], player'[x].buffers, NodeOf(x, a))
    <3>1. Reliable(x) /\ a \in Player /\ a # x
      BY <1>4, <2>7 DEF Others
    <3>2. CASE x # p
      <4>1. got'[x][a] = got[x][a] /\ player'[x] = player[x]
        BY <2>1, <2>2, <3>1, <3>2
      <4>. QED
        BY <1>6, <3>1, <3>2, <4>1
    <3>3. CASE x = p
      <4>1. Reliable(p) /\ pkt.kind = "fragment" /\ f = pkt
        BY <1>4, <1>8, <2>7, <3>3 DEF f, AsFragment
      <4>2. \/ b[i].remotenode = n /\ b[i].seq = f.seq
            \/ (\A k \in 1 .. Buffers : ~(b[k].remotenode = n /\ b[k].seq = f.seq)) /\ b[i].parts = <<>>
        BY <1>3, <2>1, <4>1, NoneTaken DEF b, n
      <4>3. CASE a = q
        <5> DEFINE s == channel[q][p]
                   mail == mailed[q][p]
                   sent == player[q].send_seq
                   g == got[p][q]
                   h == got'[p][q]
        <5>1. /\ s \in Seq(Packet) /\ s # <<>> /\ mail \in Seq(Mail) /\ g \in Seq(Message) /\ f = Head(s)
              /\ Line(s, mail, sent) /\ Arriving(s, mail, g, b, n)
          BY <1>3, <4>1, ArriveFacts DEF b, n
        <5>2. h = IF Full(buf, f) THEN Append(g, Whole(buf, f)) ELSE g
          BY <1>3, <2>2
        <5>3. e = [b EXCEPT ![i] = IF Full(buf, f) THEN [buf EXCEPT !.parts = <<>>] ELSE buf]
          BY <2>1 DEF new
        <5>. HIDE DEF s, mail, sent, g, h
        <5>4. Arrives(s, mail, sent, g, b, n, i, f, buf)
          BY <1>3, <2>1, <2>3, <4>2, <5>1 DEF Arrives
        <5>5. Arriving(Tail(s), mail, h, e, n)
          BY ONLY <5>2, <5>3, <5>4, NextArrived
        <5>. QED
          BY <1>3, <3>3, <4>3, <5>5 DEF s, mail, h, e, n
      <4>4. CASE a # q
        <5> DEFINE r == NodeOf(p, a)
        <5>1. Arriving(channel'[a][p], mailed[a][p], got[p][a], b, r)
          BY <1>6, <3>1, <3>3, <4>4 DEF b
        <5>2. r # n
          BY <1>3, <3>1, <4>4, OtherNodes DEF n
        <5>3. \A l \in 1 .. Buffers : e[l] = b[l] \/ ((b[l].remotenode = r => b[l].parts = <<>>) /\ e[l].remotenode # r)
          BY <2>1, <2>3, <2>4, <4>2, <5>2
        <5>4. got'[p][a] = got[p][a]
          BY <2>2, <3>1, <4>4
        <5>. HIDE DEF r
        <5>5. Arriving(channel'[a][p], mailed[a][p], got[p][a], e, r)
          BY ONLY <5>1, <5>3, OtherArriving
        <5>. QED
          BY <3>3, <5>4, <5>5 DEF e, r
      <4>. QED
        BY <4>3, <4>4
    <3>. QED
      BY <3>2, <3>3
  <2>. QED
    BY <1>1, <1>5, <2>6, <2>7 DEF ArriveInv
<1>. QED
  BY <1>2, <1>7, <1>8

\* While q looks for players, only messages that it does not expect are sent to it.
LEMMA NoneExpected ==
  ASSUME TypeInv, EndsInv, ArriveInv, NEW q \in Player, Reliable(q), player[q].phase = "discover",
         NEW a \in Others(q), channel[a][q] # <<>>
  PROVE  Head(channel[a][q]).kind = "discover"
<1>1. DOMAIN mailed[a][q] = {}
  <2>1. a \in Player
    BY DEF Others
  <2>. QED
    BY <2>1 DEF ArriveInv, Reliable, InTime
<1>2. /\ channel[a][q] \in Seq(Packet) /\ mailed[a][q] \in Seq(Mail)
      /\ Line(channel[a][q], mailed[a][q], player[a].send_seq)
  BY ArriveFacts
<1>3. Head(channel[a][q]) \in Packet
  BY <1>2, HeadTailProperties
<1>4. ASSUME Head(channel[a][q]).kind = "fragment" PROVE FALSE
  <2>1. FragmentOf(Head(channel[a][q]), mailed[a][q])
    BY <1>2, <1>4, HeadFacts
  <2>. QED
    BY <1>1, <2>1 DEF FragmentOf
<1>. QED
  BY <1>3, <1>4, PacketFacts

LEMMA NextArrives ==
  ASSUME Buffers >= NumNodes - 1
  PROVE  TypeInv /\ EndsInv /\ ArriveInv /\ [Next]_vars => ArriveInv'
<1>. SUFFICES ASSUME TypeInv, EndsInv, ArriveInv, [Next]_vars PROVE ArriveInv'
  OBVIOUS
<1>1. ASSUME NEW p \in Player, SendDiscover(p) PROVE ArriveInv'
  <2>1. UNCHANGED <<player, mailed, got, stray, losses>>
    BY <1>1 DEF SendDiscover
  <2>2. channel' \in Lines /\ \A a, b \in Player : NoNews(channel[a][b], channel'[a][b])
    BY <1>1, SendDiscoverStep
  <2>3. ASSUME NEW q \in Player, Reliable(q), NEW a \in Others(q)
        PROVE  Arriving(channel'[a][q], mailed[a][q], got[q][a], player[q].buffers, NodeOf(q, a))
    <3>1. channel[a][q] \in Seq(Packet) /\ channel'[a][q] \in Seq(Packet) /\ NoNews(channel[a][q], channel'[a][q])
      BY <2>2, TypeFacts DEF Others, Lines
    <3>2. Thinned(channel[a][q], channel'[a][q], 0)
      BY <3>1, ThinnedNews
    <3>3. \A id, fnum : OnLine(channel[a][q], id, fnum) => OnLine(channel'[a][q], id, fnum)
      BY <3>1, OnLineNews
    <3>. QED
      BY <2>3, <3>2, <3>3, StillArriving
  <2>4. \A q \in Player : Reliable(q)' => Reliable(q)
    BY <2>1 DEF Reliable, InTime
  <2>. QED
    BY <2>1, <2>3, <2>4 DEF ArriveInv
<1>2. ASSUME NEW p \in Player, CmdSendAny(p) PROVE ArriveInv'
  <2>1. PICK ns \in SUBSET Nodes, len \in 1 .. MaxLen : CmdSend(p, ns, len)
    BY <1>2, SomeSend
  <2>2. /\ player' \in [Player -> State]
        /\ \A a \in Player : player'[a].buffers = player[a].buffers /\ player'[a].phase = player[a].phase
        /\ \A a, b \in Player : \/ channel'[a][b] = channel[a][b] /\ mailed'[a][b] = mailed[a][b]
                                \/ a = p /\ b # p /\ \E k \in player[p].send_seq + 1 .. player'[p].send_seq :
                                     SentTo(p, b, k, len)
    BY <2>1, CmdSendStep
  <2>3. UNCHANGED <<got, stray, losses>>
    BY <2>1 DEF CmdSend
  <2>4. ASSUME NEW a \in Player, NEW q \in Player
        PROVE  /\ \A j \in DOMAIN mailed[a][q] : j \in DOMAIN mailed'[a][q] /\ mailed'[a][q][j] = mailed[a][q][j]
               /\ \A j \in DOMAIN mailed'[a][q] : j \in DOMAIN mailed[a][q] \/ (mailed'[a][q][j].early <=> player[q].phase # "game")
    <3>1. CASE mailed'[a][q] = mailed[a][q]
      BY <3>1
    <3>2. ASSUME NEW k, SentTo(a, q, k, len)
          PROVE  /\ \A j \in DOMAIN mailed[a][q] : j \in DOMAIN mailed'[a][q] /\ mailed'[a][q][j] = mailed[a][q][j]
                 /\ \A j \in DOMAIN mailed'[a][q] : j \in DOMAIN mailed[a][q] \/ (mailed'[a][q][j].early <=> player[q].phase # "game")
      <4> DEFINE m == [id |-> k, len |-> len, early |-> player[q].phase # "game"]
                 mail == mailed[a][q]
      <4>1. mailed'[a][q] = Append(mail, m) /\ (m.early <=> player[q].phase # "game")
        BY <3>2 DEF SentTo
      <4>2. mail \in Seq(Mail)
        BY DEF TypeInv
      <4>. HIDE DEF m, mail
      <4>3. /\ Len(mail) \in Nat /\ DOMAIN mail = 1 .. Len(mail) /\ DOMAIN Append(mail, m) = 1 .. Len(mail) + 1
            /\ \A j \in 1 .. Len(mail) : Append(mail, m)[j] = mail[j]
            /\ Append(mail, m)[Len(mail) + 1] = m
        BY <4>2, AppendProperties
      <4>4. \A j \in 1 .. Len(mail) : j \in 1 .. Len(mail) + 1
        BY <4>3
      <4>5. \A j \in 1 .. Len(mail) + 1 : j \in 1 .. Len(mail) \/ j = Len(mail) + 1
        BY <4>3
      <4>. QED
        BY <4>1, <4>3, <4>4, <4>5 DEF mail
    <3>. QED
      BY <2>2, <3>1, <3>2
  <2>5. \A q \in Player : Reliable(q)' => Reliable(q)
    <3>. SUFFICES ASSUME NEW q \in Player, Reliable(q)' PROVE Reliable(q)
      OBVIOUS
    <3>1. \A a \in Player : \A j \in DOMAIN mailed'[a][q] : ~mailed'[a][q][j].early
      BY DEF Reliable, InTime
    <3>2. InTime(q)
      BY <2>4, <3>1 DEF InTime
    <3>. QED
      BY <2>3, <3>2 DEF Reliable
  <2>6. ASSUME NEW q \in Player, player'[q].phase = "discover", NEW a \in Player, NEW j \in DOMAIN mailed'[a][q]
        PROVE  mailed'[a][q][j].early
    <3>1. player[q].phase = "discover"
      BY <2>2, <2>6
    <3>2. \A i \in DOMAIN mailed[a][q] : mailed[a][q][i].early
      BY <3>1 DEF ArriveInv
    <3>. QED
      BY <2>4, <2>6, <3>1, <3>2
  <2>7. ASSUME NEW q \in Player, Reliable(q), NEW a \in Others(q)
        PROVE  Arriving(channel'[a][q], mailed'[a][q], got[q][a], player[q].buffers, NodeOf(q, a))
    <3>1. a \in Player /\ Arriving(channel[a][q], mailed[a][q], got[q][a], player[q].buffers, NodeOf(q, a))
      BY <2>7, ArriveFacts
    <3>2. ASSUME a = p, NEW k \in player[p].send_seq + 1 .. player'[p].send_seq, SentTo(p, q, k, len)
          PROVE  Arriving(channel'[a][q], mailed'[a][q], got[q][a], player[q].buffers, NodeOf(q, a))
      <4> DEFINE e == player[q].phase # "game"
                 s == channel[p][q]
                 mail == mailed[p][q]
                 sent == player[p].send_seq
                 more == player'[p].send_seq
                 c == player[q].buffers
                 n == NodeOf(q, p)
                 g == got[q][p]
      <4>1. Arriving(s, mail, g, c, n)
        BY <3>1, <3>2
      <4>2. sent \in Nat /\ more \in Nat
        <5>1. player[p] \in State /\ player'[p] \in State
          BY <2>2, TypeFacts
        <5>. QED
          BY <5>1 DEF State
      <4>3. s \in Seq(Packet) /\ mail \in Seq(Mail) /\ c \in [1 .. Buffers -> Buffer] /\ Line(s, mail, sent)
        BY <2>7, <3>2, ArriveFacts
      <4>4. /\ channel'[p][q] = s \o Fragments(k, len)
            /\ mailed'[p][q] = Append(mail, [id |-> k, len |-> len, early |-> e])
            /\ k \in sent + 1 .. more /\ e \in BOOLEAN
        BY <3>2 DEF SentTo
      <4>. HIDE DEF s, mail, sent, more, c, n, g, e
      <4>5. Arriving(s \o Fragments(k, len), Append(mail, [id |-> k, len |-> len, early |-> e]), g, c, n)
        BY ONLY <4>1, <4>2, <4>3, <4>4, len \in 1 .. MaxLen, SentArriving
      <4>. QED
        BY <3>2, <4>4, <4>5 DEF c, n, g
    <3>. QED
      BY <2>2, <3>1, <3>2
  <2>. QED
    BY <2>2, <2>3, <2>5, <2>6, <2>7 DEF ArriveInv
<1>3. ASSUME NEW p \in Player, NEW q \in Others(p), DiscoverPlayers(p, q) PROVE ArriveInv'
  <2>1. /\ AfterTaking(q, p) /\ player[p].phase = "discover" /\ q \in Player /\ channel[q][p] # <<>>
        /\ \A a \in Player : /\ player'[a].buffers = player[a].buffers
                             /\ player'[a].phase = player[a].phase \/ player'[a].phase = "game"
    BY <1>3, DiscoverPlayersStep DEF Others, AfterTaking
  <2>2. UNCHANGED <<mailed, got, stray, losses>>
    BY <1>3 DEF DiscoverPlayers
  <2>3. ASSUME NEW x \in Player, Reliable(x), NEW a \in Others(x)
        PROVE  Arriving(channel'[a][x], mailed[a][x], got[x][a], player[x].buffers, NodeOf(x, a))
    <3>1. a \in Player
      BY DEF Others
    <3>2. a # q \/ x # p \/ Head(channel[q][p]).kind = "discover"
      BY <2>1, <2>3, NoneExpected
    <3>3. PICK d \in {0, 1} : /\ Thinned(channel[a][x], channel'[a][x], d)
                              /\ \A id, fnum : OnLine(channel[a][x], id, fnum) => OnLine(channel'[a][x], id, fnum)
      BY <2>1, <3>1, <3>2, KeptOnLine
    <3>. QED
      BY <2>3, <3>3, StillArriving
  <2>4. \A x \in Player : Reliable(x)' => Reliable(x)
    BY <2>2 DEF Reliable, InTime
  <2>. QED
    BY <2>1, <2>2, <2>3, <2>4 DEF ArriveInv
<1>4. ASSUME NEW p \in Player, NEW q \in Others(p), CmdGet(p, q) PROVE ArriveInv'
  BY <1>4, CmdGetArrives
<1>5. ASSUME NEW p \in Player, NEW q \in Others(p), Lose(p, q) PROVE ArriveInv'
  <2>1. UNCHANGED <<player, mailed>> /\ losses' = losses + 1 /\ losses \in 0 .. limit.losses /\ limit.losses \in Nat
    BY <1>5, TypeFacts DEF Lose, TypeInv
  <2>2. losses' # 0
    BY <2>1
  <2>3. \A x \in Player : ~Reliable(x)'
    BY <2>2 DEF Reliable
  <2>. QED
    BY <2>1, <2>3 DEF ArriveInv
<1>6. CASE UNCHANGED vars
  BY <1>6 DEF vars, ArriveInv, Reliable, InTime
<1>. QED
  BY <1>1, <1>2, <1>3, <1>4, <1>5, <1>6 DEF Next

\* If the drivers lose nothing and there is a reassembly buffer for each other node, a message
\* to a player whose game runs gets there, however the fragments of several players arrive.
\* With REASSEMBLY_BUFFERS (8) this is so for up to 9 of the 16 nodes of doomnet.h.
THEOREM AllMessagesArrive ==
  ASSUME Buffers >= NumNodes - 1
  PROVE  Spec => []NothingLost
<1>1. TypeInv /\ EndsInv /\ ArriveInv => NothingLost
  <2>. SUFFICES ASSUME TypeInv, EndsInv, ArriveInv, losses = 0, NEW p \in Player, NEW q \in Player,
                       channel[p][q] = <<>>, stray[q] = {}, InTime(q), NEW j \in DOMAIN mailed[p][q]
                PROVE  \E i \in DOMAIN got[q][p] : got[q][p][i].ids = {mailed[p][q][j].id}
    BY DEF NothingLost
  <2>1. Reliable(q) /\ p \in Others(q)
    BY DEF Reliable, TypeInv, Others
  <2>2. /\ Arriving(channel[p][q], mailed[p][q], got[q][p], player[q].buffers, NodeOf(q, p))
        /\ mailed[p][q] \in Seq(Mail)
    BY <2>1, ArriveFacts
  <2> DEFINE msg == mailed[p][q][j]
  <2>3. msg \in Mail
    BY <2>2, ElementOfSeq
  <2>4. msg.len \in Nat \ {0}
    BY <2>3, FragmentAssumption DEF Mail
  <2>5. \A id, fnum : ~OnLine(channel[p][q], id, fnum)
    BY DEF OnLine, InLine
  <2>6. \/ HasGot(got[q][p], msg) \/ \A k \in 0 .. msg.len - 1 : OnLine(channel[p][q], msg.id, k)
        \/ \E i \in 1 .. Buffers, c \in Nat : Begun(channel[p][q], msg, player[q].buffers, NodeOf(q, p), i, c)
    BY <2>2 DEF Arriving
  <2>. HIDE DEF msg
  <2>7. ASSUME NEW i \in 1 .. Buffers, NEW c \in Nat,
               Begun(channel[p][q], msg, player[q].buffers, NodeOf(q, p), i, c)
        PROVE  FALSE
    <3>1. c \in 1 .. msg.len - 1 /\ \A k \in c .. msg.len - 1 : OnLine(channel[p][q], msg.id, k)
      BY <2>7 DEF Begun
    <3>2. c \in c .. msg.len - 1
      BY <2>4, <3>1
    <3>. QED
      BY <2>5, <3>1, <3>2
  <2>8. 0 \in 0 .. msg.len - 1
    BY <2>4
  <2>9. HasGot(got[q][p], msg)
    BY <2>5, <2>6, <2>7, <2>8
  <2>. QED
    BY <2>9 DEF HasGot, msg
<1>. QED
  BY <1>1, InitType, NextType, InitEnds, NextEnds, InitArrives, NextArrives, PTL DEF Spec

=============================================================================
