------------------------------ MODULE Metanet ------------------------------
(***************************************************************************)
(* The network-of-networks driver (net/metanet.c).  A machine has one      *)
(* driver for each network it is on; a packet is source-routed, each       *)
(* machine on its way taking the next hop off its destination and putting  *)
(* the hop it came by in front of its source.  Machines discover each      *)
(* other, agree on player numbers, play, forward each other's packets, and *)
(* quit.                                                                   *)
(*                                                                         *)
(* Machines are single-threaded; one iteration of the loop in GetPacket,   *)
(* with the packet it reads, is one step.  The drivers below are external: *)
(* they deliver in order what a neighbor sends, and may lose some of it.   *)
(***************************************************************************)
EXTENDS Integers, Sequences, FiniteSets, SequencesExt

CONSTANTS
  Machine,
  Forwarder,    \* the machines started with -forward
  Station,      \* nodes[0].station_id of each machine, a random number
  Neighbor,     \* Neighbor[m][d][n]: the machine that m's driver d calls node n
  MaxNodes,     \* MAXNETNODES
  MaxHops,      \* sizeof(node_addr_t): hops after the first
  EarlyQuits,   \* bound: whether a machine may quit before all have launched
  MaxExtras     \* bound: packets lost, and packets sent by games, together

\* Immediate neighbors of m, driver by driver: a hop <<d, n>> is what the code
\* packs into a byte as MAKE_ADDRESS(d - 1, n).
HopSeq == [m \in Machine |->
  [d \in DOMAIN Neighbor[m] |-> [n \in DOMAIN Neighbor[m][d] |-> <<d, n>>]]]
Hops == [m \in Machine |-> UNION {ToSet(HopSeq[m][d]) : d \in DOMAIN HopSeq[m]}]
At(m, hop) == Neighbor[m][hop[1]][hop[2]]

ASSUME ForwarderAssumption ==
  Forwarder \subseteq Machine /\ \A m \in Forwarder : Len(Neighbor[m]) >= 2
ASSUME StationAssumption ==
  /\ Station \in [Machine -> Nat]
  /\ \A m, k \in Machine : Station[m] = Station[k] => m = k
\* Two machines are on at most one network together, and see each other there.
ASSUME NeighborAssumption ==
  /\ Neighbor \in [Machine -> Seq(Seq(Machine))]
  /\ \A m \in Machine : \A h \in Hops[m] :
       /\ At(m, h) # m
       /\ \A g \in Hops[m] : At(m, g) = At(m, h) => g = h
       /\ \E g \in Hops[At(m, h)] : At(At(m, h), g) = m
ASSUME BoundsAssumption ==
  EarlyQuits \in BOOLEAN /\ MaxNodes \in Nat \ {0} /\ {MaxHops, MaxExtras} \subseteq Nat

VARIABLES
  phase,      \* "discover" (DiscoverNodes), "run" (the game, or RunForwarder), "exited"
  ready,      \* ready_start # 0
  due,        \* now - last_send > CLOCKS_PER_SEC, or last_send = 0
  nodes,      \* nodes[m][i + 1] is the entry nodes[i] of machine m
  inbox,      \* inbox[m][h]: packets in flight to m from its neighbor at hop h
  extras      \* packets lost, and packets sent by games, so far

vars == <<phase, ready, due, nodes, inbox, extras>>

\* The hop by which m's neighbor at hop h sees m.
Back == [m \in Machine |->
  [h \in Hops[m] |-> CHOOSE g \in Hops[At(m, h)] : At(At(m, h), g) = m]]

\* The machines that a path from m passes, and the one that it leads to.
Stops(m, path) ==
  LET stop[n \in 0 .. Len(path)] == IF n = 0 THEN m ELSE At(stop[n - 1], path[n])
  IN stop
Follow(m, path) == Stops(m, path)[Len(path)]

Broadcast == [i \in 1 .. MaxHops |-> <<8, 31>>]
NoHop == <<0, 0>>
NoBody == [launched |-> FALSE, forwarder |-> FALSE, station |-> 0, neighbors |-> <<>>]

\* An entry; flags got, forwarder and quit, and the fields of the discover message.
NewNode(hop, addr) == [hop |-> hop, addr |-> addr, got |-> FALSE, forwarder |-> FALSE,
                       quit |-> FALSE, station |-> 0, player |-> 0]
Self(m) == [NewNode(NoHop, <<>>) EXCEPT !.got = TRUE, !.forwarder = m \in Forwarder,
                                        !.station = Station[m]]

\* The hops of m's first drivers but those of driver d (0: no driver), and of all drivers.
HopsUpTo(m, d) ==
  LET hops[e \in 0 .. Len(Neighbor[m])] ==
        IF e = 0 THEN <<>> ELSE hops[e - 1] \o IF e = d THEN <<>> ELSE HopSeq[m][e]
  IN hops
HopsBut == [m \in Machine |-> [d \in 0 .. Len(Neighbor[m]) |-> HopsUpTo(m, d)[Len(Neighbor[m])]]]

FirstOf(s, k) == SubSeq(s, 1, IF Len(s) < k THEN Len(s) ELSE k)

\* InitNodes: at first we are only aware of our immediate neighbors.
InitNodes(m) ==
  FirstOf(<<Self(m)>> \o [i \in DOMAIN HopsBut[m][0] |-> NewNode(HopsBut[m][0][i], <<>>)],
          MaxNodes)

Init == /\ phase = [m \in Machine |-> "discover"]
        /\ ready = [m \in Machine |-> FALSE]
        /\ due = [m \in Machine |-> TRUE]
        /\ nodes = [m \in Machine |-> InitNodes(m)]
        /\ inbox = [m \in Machine |-> [h \in Hops[m] |-> <<>>]]
        /\ extras = 0

-----------------------------------------------------------------------------
(***************************************************************************)
(* Packets.  What a machine sends is a sequence of packets, each with its  *)
(* hop; origin is history.                                                 *)
(***************************************************************************)
Packet(h, type, src, dest, origin, body) ==
  [hop |-> h, type |-> type, src |-> src, dest |-> dest, origin |-> origin, body |-> body]

\* NetSendPacket: what m sends goes to the neighbor at the hop; nobody reads what is
\* sent to a machine that has exited.
NetSendPacket(box, m, p) ==
  IF phase[At(m, p.hop)] = "exited" THEN box
  ELSE [box EXCEPT ![At(m, p.hop)][Back[m][p.hop]] = Append(@, p)]

\* The same with several packets, one after the other.
BoxAfter(box, m, packets) ==
  LET after[n \in 0 .. Len(packets)] == IF n = 0 THEN box ELSE NetSendPacket(after[n - 1], m, packets[n])
  IN after
Delivered(box, m, packets) == BoxAfter(box, m, packets)[Len(packets)]

\* The same to several hops.
ToHops(hops, p) == [i \in DOMAIN hops |-> [p EXCEPT !.hop = hops[i]]]

\* SendDiscover: to one node, with the neighbors it can reach through us.
SendDiscover(m, node) ==
  Packet(node.hop, "discover", <<>>, node.addr, m,
         [launched |-> phase[m] # "discover", forwarder |-> m \in Forwarder,
          station |-> Station[m],
          neighbors |-> FirstOf(HopsBut[m][node.hop[1]], MaxNodes)])

\* SendBroadcast: a data packet to every neighbor but those of driver d.
SendBroadcast(m, d, src, origin) ==
  ToHops(HopsBut[m][d], Packet(NoHop, "data", src, Broadcast, origin, NoBody))

\* SendQuit.
SendQuit(m) == ToHops(HopsBut[m][0], Packet(NoHop, "quit", <<>>, Broadcast, m, NoBody))

\* PrependPreviousHop can fail.
TooManyHops(src) == Len(src) = MaxHops

\* ForwardBroadcast: leaf nodes only deliver it locally.  What is forwarded is
\* always a data packet.
ForwardBroadcast(m, h, p) ==
  IF Len(Neighbor[m]) < 2 \/ TooManyHops(p.src) THEN <<>>
    ELSE SendBroadcast(m, h[1], <<h>> \o p.src, p.origin)

\* Mutant: the hop the packet came by is not put in front of its source.
ForwardPacket_KeepSource(m, h, p) ==
  LET next == Head(p.dest)
  IN IF TooManyHops(p.src) \/ next \notin Hops[m] \/ next[1] = h[1] THEN <<>>
     ELSE <<[p EXCEPT !.hop = next, !.dest = Tail(@)]>>

\* ForwardPacket.
ForwardPacket(m, h, p) ==
  LET next == Head(p.dest)
  IN IF TooManyHops(p.src) \/ next \notin Hops[m] \/ next[1] = h[1] THEN <<>>
     ELSE <<[p EXCEPT !.hop = next, !.src = <<h>> \o @, !.dest = Tail(@)]>>

\* GetAndForward.
ForUs(p) == p.dest \in {Broadcast, <<>>}
GetAndForward(m, h, p) == CASE p.dest = Broadcast -> ForwardBroadcast(m, h, p)
                            [] p.dest = <<>>      -> <<>>
                            [] OTHER              -> ForwardPacket(m, h, p)

-----------------------------------------------------------------------------
(***************************************************************************)
(* The node table.                                                         *)
(***************************************************************************)
NodeForAddr(tbl, hop, addr) == {i \in DOMAIN tbl : tbl[i].hop = hop /\ tbl[i].addr = addr}

\* NodeOrAddNode; the table stays as it is if the node is there, or it is full.
NodeOrAddNode(tbl, hop, addr) ==
  IF NodeForAddr(tbl, hop, addr) # {} \/ Len(tbl) >= MaxNodes THEN tbl
    ELSE Append(tbl, NewNode(hop, addr))

\* Mutant: no node is learned of from another.
AddNeighbors_None(tbl, h, p) == tbl

\* The table with the first neighbors of the sender of a discover message, and with
\* all, unless they are too far.
WithNeighbors(tbl, h, p) ==
  LET with[n \in 0 .. Len(p.body.neighbors)] ==
        IF n = 0 THEN tbl ELSE NodeOrAddNode(with[n - 1], h, Append(p.src, p.body.neighbors[n]))
  IN with
AddNeighbors(tbl, h, p) ==
  IF Len(p.src) = MaxHops THEN tbl ELSE WithNeighbors(tbl, h, p)[Len(p.body.neighbors)]

\* A machine that has launched answers one that has not and changes nothing else.
FallenBehind(m, p) == phase[m] # "discover" /\ ~p.body.launched

\* The table after HandleDiscover.
Discovered(m, tbl, h, p) ==
  LET t == NodeOrAddNode(tbl, h, p.src)
      i == CHOOSE j \in NodeForAddr(t, h, p.src) : TRUE
  IN IF NodeForAddr(t, h, p.src) = {} \/ FallenBehind(m, p) THEN t
     ELSE AddNeighbors([t EXCEPT ![i].got = TRUE, ![i].quit = FALSE,
                                   ![i].forwarder = p.body.forwarder,
                                   ![i].station = p.body.station], h, p)

\* Mutant: no tit-for-tat.
Answer_None(m, tbl, h, p) == <<>>

\* HandleDiscover's answer to a machine that has fallen behind.
Answer(m, tbl, h, p) ==
  IF FallenBehind(m, p) /\ NodeForAddr(NodeOrAddNode(tbl, h, p.src), h, p.src) # {}
    THEN <<SendDiscover(m, NewNode(h, p.src))>> ELSE <<>>

\* The table after NodeQuit: the comparison of first_hop is of the node with
\* itself, so a quit flags every node whose address begins with the node's.
Quitted(tbl, h, p) ==
  IF NodeForAddr(tbl, h, p.src) = {} THEN tbl
    ELSE [i \in DOMAIN tbl |-> IF IsPrefix(p.src, tbl[i].addr)
                                 THEN [tbl[i] EXCEPT !.quit = TRUE] ELSE tbl[i]]

\* CheckReady finds two nodes with the same station ID: Error() ends the program.
Duplicates(tbl) == \E i, j \in DOMAIN tbl :
                     i < j /\ tbl[i].got /\ tbl[j].got /\ tbl[i].station = tbl[j].station

\* Mutant: only the immediate neighbors have to answer.
GotAllDiscovers_Neighbors(tbl) == \A i \in DOMAIN tbl : tbl[i].addr = <<>> => tbl[i].got

GotAllDiscovers(tbl) == \A i \in DOMAIN tbl : tbl[i].got

\* The loop of RearrangeNodes: if nodes[i] is a forwarder it is swapped with nodes[p].
Swapped(s, i) ==
  IF i < s.p /\ s.t[i + 1].forwarder
  THEN [p |-> s.p - 1, t |-> [s.t EXCEPT ![i + 1] = s.t[s.p + 1], ![s.p + 1] = s.t[i + 1]]]
  ELSE s
SwappedUpTo(s) ==
  LET after[i \in 0 .. Len(s.t)] == IF i = 0 THEN s ELSE Swapped(after[i - 1], i)
  IN after

\* Mutant: the loop starts at nodes[0], the machine itself.
RearrangeNodes_FromZero(tbl) ==
  SwappedUpTo(Swapped([p |-> Len(tbl) - 1, t |-> tbl], 0))[Len(tbl)].t

\* Mutant: the table is left as it was discovered.
RearrangeNodes_None(tbl) == tbl

\* RearrangeNodes: forwarders are swapped with nodes from the end.
RearrangeNodes(tbl) == SwappedUpTo([p |-> Len(tbl) - 1, t |-> tbl])[Len(tbl)].t

\* AssignPlayerNumbers: players are numbered in the order of their station IDs.
AssignPlayerNumbers(tbl) ==
  [i \in DOMAIN tbl |->
     IF tbl[i].forwarder THEN tbl[i]
     ELSE [tbl[i] EXCEPT !.player =
            Cardinality({j \in DOMAIN tbl : /\ ~tbl[j].forwarder
                                            /\ tbl[j].station < tbl[i].station})]]

\* doomcom.numplayers, and doomcom.numnodes.
NumPlayers(tbl) == Cardinality({i \in DOMAIN tbl : ~tbl[i].forwarder})

\* AllPlayersQuit.
AllPlayersQuit(tbl) == \A i \in 2 .. Len(tbl) : tbl[i].forwarder \/ tbl[i].quit

-----------------------------------------------------------------------------
(***************************************************************************)
(* Steps.                                                                  *)
(***************************************************************************)

\* One iteration of the loop in GetPacket: the first packet that has arrived is
\* forwarded and handled.  (A data packet for us ends GetPacket; the game, or the
\* loop of DiscoverNodes, calls it again.)
GetPacket(m, h) ==
  /\ phase[m] # "exited" /\ inbox[m][h] # <<>>
  /\ LET p == Head(inbox[m][h])
         rest == [inbox EXCEPT ![m][h] = Tail(@)]
     IN /\ inbox' = Delivered(rest, m, GetAndForward(m, h, p) \o
                       IF ForUs(p) /\ p.type = "discover" THEN Answer(m, nodes[m], h, p)
                                                          ELSE <<>>)
        /\ nodes' = [nodes EXCEPT ![m] =
                       CASE ForUs(p) /\ p.type = "discover" -> Discovered(m, @, h, p)
                         [] ForUs(p) /\ p.type = "quit"     -> Quitted(@, h, p)
                         [] OTHER                           -> @]
  /\ UNCHANGED <<phase, ready, due, extras>>

\* DiscoverNodes: it is time to send again, to all nodes known by now.
SendDiscovers(m) ==
  /\ phase[m] = "discover" /\ due[m]
  /\ due' = [due EXCEPT ![m] = FALSE]
  /\ inbox' = Delivered(inbox, m, [i \in 1 .. Len(nodes[m]) - 1 |->
                                    SendDiscover(m, nodes[m][i + 1])])
  /\ UNCHANGED <<phase, ready, nodes, extras>>

\* A second passes: it is long enough for every machine to send, for all that was
\* sent to arrive and be read, or get lost, and for CheckReady to see it.
Second ==
  /\ \A m \in Machine :
       /\ \A h \in Hops[m] : inbox[m][h] = <<>>
       /\ phase[m] = "discover" => ~due[m] /\ (GotAllDiscovers(nodes[m]) => ready[m])
  /\ due' = [m \in Machine |-> phase[m] = "discover"]
  /\ UNCHANGED <<phase, ready, nodes, inbox, extras>>

\* CheckReady, in DiscoverNodes: Error() ends the program.
CheckReady(m) ==
  /\ phase[m] = "discover" /\ ~ready[m]
  /\ IF Duplicates(nodes[m])
       THEN phase' = [phase EXCEPT ![m] = "exited"] /\ UNCHANGED ready
       ELSE /\ GotAllDiscovers(nodes[m])
            /\ ready' = [ready EXCEPT ![m] = TRUE] /\ UNCHANGED phase
  /\ UNCHANGED <<due, nodes, inbox, extras>>

\* A second later: the rest of main, up to the game or RunForwarder.
Launch(m) ==
  /\ phase[m] = "discover" /\ ready[m]
  /\ phase' = [phase EXCEPT ![m] = "run"]
  /\ nodes' = [nodes EXCEPT ![m] = AssignPlayerNumbers(RearrangeNodes(@))]
  /\ UNCHANGED <<ready, due, inbox, extras>>

\* SendFromBuffer: the game sends to a node, or to all (a broadcast of the
\* packet aggregation).
GameSends(m, dest) ==
  /\ phase[m] = "run" /\ m \notin Forwarder /\ extras < MaxExtras
  /\ inbox' = Delivered(inbox, m,
       IF dest = 0 THEN SendBroadcast(m, 0, <<>>, m)
       ELSE LET node == nodes[m][dest + 1]
            IN <<Packet(node.hop, "data", <<>>, node.addr, m, NoBody)>>)
  /\ extras' = extras + 1
  /\ UNCHANGED <<phase, ready, due, nodes>>

\* The game ends, or the forwarding loop; main sends quit packets and returns.
\* Nothing reads what is in flight to a machine that has exited.
Quit(m) ==
  /\ phase[m] = "run"
  /\ m \in Forwarder => AllPlayersQuit(nodes[m])
  /\ EarlyQuits \/ \A k \in Machine : phase[k] # "discover"
  /\ phase' = [phase EXCEPT ![m] = "exited"]
  /\ inbox' = Delivered([inbox EXCEPT ![m] = [h \in Hops[m] |-> <<>>]], m, SendQuit(m))
  /\ UNCHANGED <<ready, due, nodes, extras>>

\* A driver loses a packet.
Lose(m, h) ==
  /\ inbox[m][h] # <<>> /\ extras < MaxExtras
  /\ inbox' = [inbox EXCEPT ![m][h] = Tail(@)]
  /\ extras' = extras + 1
  /\ UNCHANGED <<phase, ready, due, nodes>>

Next ==
  \/ \E m \in Machine :
       \/ SendDiscovers(m) \/ CheckReady(m) \/ Launch(m) \/ Quit(m)
       \/ \E dest \in 0 .. NumPlayers(nodes[m]) - 1 : GameSends(m, dest)
       \/ \E h \in Hops[m] : GetPacket(m, h) \/ Lose(m, h)
  \/ Second

Spec == Init /\ [][Next]_vars

\* The machines' loops run, which lets seconds pass, and the drivers do not lose
\* everything (MaxExtras).
LiveSpec ==
  /\ Spec
  /\ WF_vars(\/ Second
             \/ \E m \in Machine : \/ SendDiscovers(m) \/ CheckReady(m)
                                  \/ \E h \in Hops[m] : GetPacket(m, h))
  /\ WF_vars(\E m \in Machine : Launch(m))

-----------------------------------------------------------------------------
(***************************************************************************)
(* Properties.                                                             *)
(***************************************************************************)
Path(node) == <<node.hop>> \o node.addr
Players == Machine \ Forwarder

\* The types: tables within MAXNETNODES, addresses within node_addr_t.
TypeOK ==
  /\ phase \in [Machine -> {"discover", "run", "exited"}]
  /\ ready \in [Machine -> BOOLEAN] /\ due \in [Machine -> BOOLEAN]
  /\ \A m \in Machine :
       /\ Len(nodes[m]) \in 1 .. MaxNodes /\ nodes[m][1].hop = NoHop
       /\ \A i \in 2 .. Len(nodes[m]) : nodes[m][i].hop \in Hops[m] /\ Len(nodes[m][i].addr) <= MaxHops
       /\ \A h \in Hops[m] : \A i \in DOMAIN inbox[m][h] : Len(inbox[m][h][i].src) <= MaxHops
  /\ extras \in 0 .. MaxExtras

\* Source routing: wherever a packet is on its way, the hop it comes by and its
\* source address lead back to the machine that sent it.
SourceLeadsBack ==
  \A m \in Machine : \A h \in Hops[m] : \A i \in DOMAIN inbox[m][h] :
    LET p == inbox[m][h][i] IN Follow(m, <<h>> \o p.src) = p.origin

\* What a machine has in its table is true of the machine that the entry's
\* address leads to, so that a game's packets reach the player it means and a
\* packet from there is taken for that player's.
TableIsTrue ==
  \A m \in Machine : \A i \in 2 .. Len(nodes[m]) :
    LET node == nodes[m][i]
        k == Follow(m, Path(node))
    IN node.got => node.station = Station[k] /\ node.forwarder = (k \in Forwarder)

\* No machine is told of itself.  (Where networks are in a loop it is, and
\* CheckReady ends the program.)
NeverSelf ==
  \A m \in Machine : \A i \in 2 .. Len(nodes[m]) : Follow(m, Path(nodes[m][i])) # m

\* All together: routes lead where they are said to.
RoutesAreTrue == SourceLeadsBack /\ TableIsTrue /\ NeverSelf

\* A machine launches with every other machine in its table, each once, although
\* it is told of them one by one.
LaunchesComplete ==
  \A m \in Machine : phase[m] = "run" =>
    /\ {Follow(m, Path(nodes[m][i])) : i \in 2 .. Len(nodes[m])} = Machine \ {m}
    /\ Len(nodes[m]) = Cardinality(Machine)

\* The players that launch number themselves 0, 1, ... without a gap or a clash,
\* and each gives every other player the number that the other gives itself.
PlayersAgree ==
  \A m \in Players : phase[m] = "run" =>
    \A i \in DOMAIN nodes[m] :
      LET k == IF i = 1 THEN m ELSE Follow(m, Path(nodes[m][i]))
      IN k \in Players =>
           nodes[m][i].player = Cardinality({j \in Players : Station[j] < Station[k]})

\* The node numbers of a game that has launched are the other players: it never
\* sends to a forwarder. "We do this so that the next layer up does not know that
\* there are any forwarding nodes at all" (net/metanet.c:645-646).
NodesArePlayers ==
  \A m \in Players : phase[m] = "run" =>
    {Follow(m, Path(nodes[m][i])) : i \in 2 .. NumPlayers(nodes[m])} = Players \ {m}

\* A node is marked as having quit when it, or a node it is reached through, has
\* (net/metanet.c:436-437).
QuitIsTrue ==
  \A m \in Machine : \A i \in 2 .. Len(nodes[m]) : nodes[m][i].quit =>
    \E n \in 0 .. Len(nodes[m][i].addr) :
      phase[Follow(m, Path([nodes[m][i] EXCEPT !.addr = SubSeq(@, 1, n)]))] = "exited"

\* All machines get into the game, whatever is lost: one that has launched still
\* answers those that have fallen behind.
AllLaunch == <>(\A m \in Machine : phase[m] # "discover")

=============================================================================
