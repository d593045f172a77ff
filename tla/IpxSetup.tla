------------------------------ MODULE IpxSetup ------------------------------
(***************************************************************************)
(* The IPX driver (net/ipxsetup.c on net/ipxnet.c).  Machines that have    *)
(* been told how many they are find each other by broadcasting, once a     *)
(* second, how many nodes they have found; a machine stops and launches    *)
(* its game when all that it knows of have found all.  Packets wait in a   *)
(* pool of listening ECBs, from which they are taken by time stamp, not by *)
(* arrival.                                                                *)
(*                                                                         *)
(* External: the network reaches every machine whose driver runs, except   *)
(* those that lose the packet, and does not return a broadcast to its      *)
(* sender; the IPX stack may use any ECB that listens.                     *)
(***************************************************************************)
EXTENDS Integers, Sequences, FiniteSets, FiniteSetsExt, SequencesExt

CONSTANTS
  Slots,      \* NUMPACKETS - 1: ECBs that listen
  Scenarios   \* what the machines are told, and bounds, see Scenario

ASSUME SlotsAssumption == Slots \in Nat \ {0}

VARIABLES
  scenario,  \* the scenario; it does not change
  machine,   \* machine[m]: the driver on m
  got,       \* got[m][s]: the times of the packets of s that the game of m got (history)
  losses,    \* packets the network has lost so far
  lastlost,  \* a broadcast that all had been found has been missed (history)
  aborts     \* times a user has aborted so far

vars == <<scenario, machine, got, losses, lastlost, aborts>>

\* The machines, by address: memcmp orders them like numbers. Each has its flags
\* -player (-1 without) and -dup; an old one runs the original IPXSETUP, which has
\* no such flags. All are told with -nodes how many they are.
flags == scenario.flags
Machine == DOMAIN flags
Wanted == Cardinality(Machine)

Scenario(addresses) ==
  [flags : [addresses -> [player : {-1} \cup 1 .. Cardinality(addresses), dup : Nat \ {0}, old : BOOLEAN]],
   backlog : Nat,   \* bound: broadcasts of one machine that wait at another
   sends : Nat,     \* bound: packets each game sends
   losses : Nat,    \* bound: packets lost by the network
   aborts : Nat]    \* bound: times a user aborts the driver during setup

ASSUME ScenariosAssumption ==
  \A s \in Scenarios :
    /\ IsFiniteSet(DOMAIN s.flags) /\ DOMAIN s.flags \subseteq Nat /\ s \in Scenario(DOMAIN s.flags)
    /\ \A m \in DOMAIN s.flags : s.flags[m].old => s.flags[m].player = -1 /\ s.flags[m].dup = 1

\* What the driver knows of a node, from its last setup packet; nodeaddr and
\* nodesetup together.  The own node is the first.
Node == [addr : Machine, found : 0 .. Wanted, player : {-1} \cup 0 .. Wanted, dup : Nat]

\* A packet in an ECB. In setup its time is -1.
NoPacket == [src |-> -1, time |-> -1, old |-> FALSE, found |-> 0, player |-> 0, dup |-> 0]

\* LookForNodes' beginning; plnumwanted and dupwanted are filled in when sending.
Off == [phase |-> "off", nodes |-> <<>>, doomnet_dup |-> 0, consoleplayer |-> -1,
        localtime |-> -1, pool |-> [i \in 1 .. Slots |-> NoPacket]]
Started(m) ==
  [Off EXCEPT !.phase = "setup", !.doomnet_dup = flags[m].dup,
              !.nodes = <<[addr |-> m, found |-> 1, player |-> 0, dup |-> 0]>>]

Init ==
  /\ scenario \in Scenarios
  /\ machine = [m \in Machine |-> Off]
  /\ got = [m \in Machine |-> [s \in Machine |-> <<>>]]
  /\ losses = 0 /\ lastlost = FALSE /\ aborts = 0

-----------------------------------------------------------------------------
(***************************************************************************)
(* net/ipxnet.c: each operator is about the state r of a machine.          *)
(***************************************************************************)
Listening(r) == {i \in 1 .. Slots : r.pool[i] = NoPacket}
Waiting(r) == 1 .. Slots \ Listening(r)

\* Mutant: the first packet found, whatever its time.
IPXGetPacket_First(r) == Min(Waiting(r))

\* IPXGetPacket: the ECB of the packet with the lowest time, the first of several.
IPXGetPacket(r) ==
  CHOOSE i \in Waiting(r) : \A j \in Waiting(r) :
    \/ r.pool[i].time < r.pool[j].time
    \/ r.pool[i].time = r.pool[j].time /\ i <= j

\* IPXReleasePacket: the ECB listens again.
IPXReleasePacket(r, i) == [r EXCEPT !.pool[i] = NoPacket]

\* The ECBs in which a packet may arrive.
Receivers(r) == IF r.phase \in {"setup", "game"} THEN Listening(r) ELSE {}

\* IPXSendPacket: m, left in state r, has sent pkt; it arrives at d in the ECB
\* into[d], or, if that is 0, not at all.
IPXSendPacket(m, r, pkt, into) ==
  LET missed == {d \in DOMAIN into : into[d] = 0}
      lost == {d \in missed : Receivers(machine[d]) # {}}
  IN /\ \A d \in DOMAIN into \ missed : into[d] \in Receivers(machine[d])
     /\ losses' = losses + Cardinality(lost) /\ losses' <= scenario.losses
     /\ lastlost' = (lastlost \/ (pkt.found = Wanted /\ missed # {}))
     /\ machine' = [d \in Machine |-> IF d = m THEN r
                      ELSE IF d \in DOMAIN into \ missed THEN [machine[d] EXCEPT !.pool[into[d]] = pkt]
                      ELSE machine[d]]

-----------------------------------------------------------------------------
(***************************************************************************)
(* net/ipxsetup.c                                                          *)
(***************************************************************************)

\* Mutant: a node that is known is not found.
NodeForAddress_None(r, addr) == 0

\* NodeForAddress, 0 for -1.
NodeForAddress(r, addr) ==
  Max({0} \cup {i \in DOMAIN r.nodes : r.nodes[i].addr = addr})

\* The new node cannot play with us: it is an original IPXSETUP while we have
\* -player, or it wants the same player number.
Clashes(m, pkt) == flags[m].player # -1 /\ (pkt.old \/ pkt.player = flags[m].player)

\* Mutant: a node that is known is not updated.
ProcessSetupPacket_KeepOld(m, r, pkt) ==
  IF pkt.time # -1 \/ NodeForAddress(r, pkt.src) # 0 THEN r
  ELSE [r EXCEPT !.nodes = Append(@, [addr |-> pkt.src, found |-> pkt.found,
                                      player |-> pkt.player, dup |-> pkt.dup]),
                 !.doomnet_dup = Max({@, pkt.dup})]

\* Mutant: a higher -dup is not taken over.
ProcessSetupPacket_NoAdjust(m, r, pkt) ==
  LET setup == [addr |-> pkt.src, found |-> pkt.found, player |-> pkt.player, dup |-> pkt.dup]
      n == NodeForAddress(r, pkt.src)
  IN IF pkt.time # -1 THEN r
     ELSE IF n # 0 THEN [r EXCEPT !.nodes[n] = setup]
     ELSE IF Clashes(m, pkt) THEN [Off EXCEPT !.phase = "error"]
     ELSE [r EXCEPT !.nodes = Append(@, setup)]

\* ProcessSetupPacket. Of an old packet, too short for them, the player is -1 and
\* dup 1.
ProcessSetupPacket(m, r, pkt) ==
  LET setup == [addr |-> pkt.src, found |-> pkt.found,
                player |-> IF pkt.old THEN -1 ELSE pkt.player, dup |-> IF pkt.old THEN 1 ELSE pkt.dup]
      n == NodeForAddress(r, pkt.src)
  IN IF pkt.time # -1 THEN r
     ELSE IF n # 0 THEN [r EXCEPT !.nodes[n] = setup]
     ELSE IF Clashes(m, pkt) THEN [Off EXCEPT !.phase = "error"]
     ELSE [r EXCEPT !.nodes = Append(@, setup), !.doomnet_dup = Max({@, setup.dup})]

\* Mutant: it is enough that we have found all.
AllFound_Own(r) == r.nodes[1].found = Wanted

\* All nodes have found all others: nodesfound is nodeswanted for as many nodes,
\* from the first on, as are wanted.
AllFound(r) ==
  LET complete == {i \in DOMAIN r.nodes : \A j \in 1 .. i : r.nodes[j].found = Wanted}
  IN Cardinality(complete) = Wanted

\* Mutant: numbers that others ask for are not skipped.
DetermineConsolePlayer_NoSkip(m, r) ==
  IF flags[m].player # -1 THEN flags[m].player - 1
  ELSE Cardinality({i \in 1 .. Wanted : r.nodes[i].player = -1 /\ r.nodes[i].addr < m})

\* DetermineConsolePlayer: without -player, the number of a machine is the first
\* that is left when those asked for and those of lower addresses are given out.
DetermineConsolePlayer(m, r) ==
  LET nodes == {r.nodes[i] : i \in 1 .. Wanted}
      lower == Cardinality({n \in nodes : n.player = -1 /\ n.addr < m})
      Free(p) == \A n \in nodes : p # n.player - 1
  IN IF flags[m].player # -1 THEN flags[m].player - 1
     ELSE CHOOSE p \in 0 .. 2 * Wanted :
            Free(p) /\ Cardinality({q \in 0 .. p - 1 : Free(q)}) = lower

-----------------------------------------------------------------------------
\* The user starts the driver: InitNetwork, LookForNodes.
Start(m) ==
  /\ machine[m].phase = "off"
  /\ machine' = [machine EXCEPT ![m] = Started(m)]
  /\ UNCHANGED <<scenario, got, losses, lastlost, aborts>>

\* LookForNodes listens: it takes a packet that has arrived.
Listen(m) ==
  /\ machine[m].phase = "setup" /\ Waiting(machine[m]) # {}
  /\ LET i == IPXGetPacket(machine[m])
     IN machine' = [machine EXCEPT ![m] =
          ProcessSetupPacket(m, IPXReleasePacket(@, i), @.pool[i])]
  /\ UNCHANGED <<scenario, got, losses, lastlost, aborts>>

\* LookForNodes, when a second has passed and not all have found all: it notes how
\* many it has found and tells everybody.
Broadcast(m, into) ==
  LET own == [addr |-> m, found |-> Len(machine[m].nodes), player |-> flags[m].player,
              dup |-> machine[m].doomnet_dup]
  IN /\ machine[m].phase = "setup" /\ Waiting(machine[m]) = {} /\ ~AllFound(machine[m])
     /\ \A d \in Machine : Cardinality({i \in Waiting(machine[d]) :
                             machine[d].pool[i].src = m}) < scenario.backlog
     /\ IPXSendPacket(m, [machine[m] EXCEPT !.nodes[1] = own],
          [src |-> m, time |-> -1, old |-> flags[m].old, found |-> own.found,
           player |-> own.player, dup |-> own.dup], into)
     /\ UNCHANGED <<scenario, got, aborts>>

\* LookForNodes returns, and main launches the game.
Launch(m) ==
  /\ machine[m].phase = "setup" /\ Waiting(machine[m]) = {} /\ AllFound(machine[m])
  /\ machine' = [machine EXCEPT ![m].phase = "game", ![m].localtime = 0,
                                ![m].consoleplayer = DetermineConsolePlayer(m, machine[m])]
  /\ UNCHANGED <<scenario, got, losses, lastlost, aborts>>

\* CheckAbort: the user ends the driver, to start it again.
Abort(m) ==
  /\ machine[m].phase = "setup" /\ aborts < scenario.aborts
  /\ machine' = [machine EXCEPT ![m] = Off]
  /\ aborts' = aborts + 1
  /\ UNCHANGED <<scenario, got, losses, lastlost>>

\* NetCallback(CMD_SEND): the game sends to node n; the time stamp counts.
CmdSend(m, n, into) ==
  LET r == [machine[m] EXCEPT !.localtime = @ + 1]
  IN /\ machine[m].phase = "game" /\ machine[m].localtime < scenario.sends
     /\ n \in 2 .. Wanted /\ DOMAIN into = {machine[m].nodes[n].addr}
     /\ IPXSendPacket(m, r, [NoPacket EXCEPT !.src = m, !.time = r.localtime], into)
     /\ UNCHANGED <<scenario, got, aborts>>

\* NetCallback(CMD_GET): packets of setup and of strangers are dropped.
CmdGet(m) ==
  /\ machine[m].phase = "game" /\ Waiting(machine[m]) # {}
  /\ LET i == IPXGetPacket(machine[m])
         pkt == machine[m].pool[i]
     IN /\ machine' = [machine EXCEPT ![m] = IPXReleasePacket(@, i)]
        /\ got' = IF pkt.time = -1 \/ NodeForAddress(machine[m], pkt.src) = 0 THEN got
                  ELSE [got EXCEPT ![m][pkt.src] = Append(@, pkt.time)]
  /\ UNCHANGED <<scenario, losses, lastlost, aborts>>

Others(m) == Machine \ {m}
BroadcastAny(m) == \E into \in [Others(m) -> 0 .. Slots] : Broadcast(m, into)
SendAny(m) == \E n \in 2 .. Wanted, d \in Others(m), i \in 0 .. Slots : CmdSend(m, n, [x \in {d} |-> i])

Next == \E m \in Machine :
          \/ Start(m) \/ Listen(m) \/ Launch(m) \/ Abort(m) \/ CmdGet(m)
          \/ BroadcastAny(m) \/ SendAny(m)

Spec == Init /\ [][Next]_vars

\* Every user starts the driver, its loop runs, games poll, and seconds pass (the
\* bound on what waits may disable Broadcast now and then). The loop finds no more
\* packets again and again: it runs much faster than once a second. (Packets that
\* have the same time are taken by place, so one could be passed over for ever.)
LiveSpec ==
  /\ Spec
  /\ \A m \in UNION {DOMAIN s.flags : s \in Scenarios} :
       /\ WF_vars(m \in Machine /\ (Start(m) \/ Listen(m) \/ Launch(m) \/ CmdGet(m)))
       /\ SF_vars(m \in Machine /\ BroadcastAny(m))
       /\ []<>(m \in Machine => Waiting(machine[m]) = {})

-----------------------------------------------------------------------------
(***************************************************************************)
(* Properties.                                                             *)
(***************************************************************************)
Packet == [src : Machine, time : {-1} \cup 1 .. scenario.sends, old : BOOLEAN, found : 0 .. Wanted,
           player : {-1} \cup 0 .. Wanted, dup : Nat]
Driver == [phase : {"off", "setup", "game", "error"}, nodes : Seq(Node), doomnet_dup : Nat,
           consoleplayer : -1 .. Wanted, localtime : -1 .. scenario.sends,
           pool : [1 .. Slots -> Packet \cup {NoPacket}]]

\* The types. No more nodes are known than there are machines, each once.
TypeOK ==
  /\ scenario \in Scenarios
  /\ machine \in [Machine -> Driver]
  /\ \A m \in Machine : \A i, j \in DOMAIN machine[m].nodes :
       machine[m].nodes[i].addr = machine[m].nodes[j].addr => i = j
  /\ got \in [Machine -> [Machine -> Seq(Nat)]]
  /\ losses \in 0 .. scenario.losses /\ lastlost \in BOOLEAN /\ aborts \in 0 .. scenario.aborts

InGame == {m \in Machine : machine[m].phase = "game"}

\* The machines that launch have different player numbers, without gaps when all
\* have, and the ones they asked for, although each works its number out alone from
\* tables in different orders, filled by packets of different age.
PlayersDiffer ==
  /\ \A m, n \in InGame : machine[m].consoleplayer = machine[n].consoleplayer => m = n
  /\ \A m \in InGame : machine[m].consoleplayer < Wanted
  /\ \A m \in InGame : flags[m].player # -1 => machine[m].consoleplayer = flags[m].player - 1

\* "Adjusting to match" (net/ipxsetup.c:171): all play with the same -dup, the
\* highest, in whatever order they heard of each other; an original IPXSETUP cannot
\* adjust.
DupsAgree ==
  (\A m \in Machine : ~flags[m].old) =>
    \A m \in InGame : machine[m].doomnet_dup = Max({flags[n].dup : n \in Machine})

\* "we are done if all nodes have found all other nodes": nobody launches while
\* another still lacks a node, or has gone, unless that one has been started again.
LaunchesTogether ==
  aborts = 0 => \A m \in InGame, n \in Machine :
    machine[n].phase \in {"setup", "game"} /\ Len(machine[n].nodes) = Wanted

\* "if multiple packets are waiting, return them in order by time" (net/ipxnet.c):
\* a game gets another's packets in the order they were sent, whichever ECBs they
\* arrived in.
InOrder ==
  \A m, n \in Machine : \A i, j \in DOMAIN got[m][n] : i < j => got[m][n][i] < got[m][n][j]

\* All machines launch if nobody aborts, no two want the same number, and none misses
\* the news that another has found all: the driver does not repeat that when it has
\* launched.
AllLaunch ==
  <>[](\/ InGame = Machine
       \/ lastlost \/ aborts > 0 \/ scenario.backlog > 1
       \/ \E m \in Machine : machine[m].phase = "error")
=============================================================================
