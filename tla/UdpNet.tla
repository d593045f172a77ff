------------------------------- MODULE UdpNet -------------------------------
(***************************************************************************)
(* Internet play: the UDP driver (net/udpipx.c) and the server that one of *)
(* the drivers runs inside its own calls (net/dbserver.c).  A driver       *)
(* registers with the server, again each second until the server answers,  *)
(* and then sends everything to the server, which forwards it to the       *)
(* address it is meant for or to all clients.                              *)
(*                                                                         *)
(* External: UDP, which loses, repeats and delays datagrams, and drops     *)
(* those for a closed port.                                                *)
(***************************************************************************)
EXTENDS Integers, Sequences, FiniteSets, Bags, SequencesExt

CONSTANTS
  Client,       \* the machines that run the driver
  Host,         \* the one of them with -server
  ipxsocket,    \* ipxsocket[c]: machines of one game have the same
  MAXNETNODES,  \* clients the server takes
  MaxTries,     \* registrations sent before the driver gives up (5 in the code)
  Limits        \* bounds of which a behaviour has one, see Limit

RegSocket == 2
ShutdownSocket == 86

Limit ==
  [flight : Nat,  \* bound: datagrams under way when a client sends another
   faults : Nat,  \* bound: datagrams lost or repeated
   quits : Nat]   \* bound: times a user ends a driver

ASSUME ClientAssumption == Host \in Client /\ IsFiniteSet(Client)
ASSUME SocketAssumption == ipxsocket \in [Client -> Nat \ {RegSocket, ShutdownSocket}]
ASSUME NumberAssumption == MAXNETNODES \in Nat /\ MaxTries \in Nat \ {0}
ASSUME LimitAssumption == Limits \subseteq Limit

VARIABLES
  limit,   \* the bounds of this behaviour; it does not change
  client,  \* client[c]: the driver of c
  server,  \* the server, in the host's driver
  net,     \* datagrams under way, a bag
  heard,   \* heard[c]: from whom the driver of c has returned packets (history)
  faults,  \* datagrams lost or repeated so far
  quits,   \* drivers ended by users so far
  stale    \* a driver has sent a packet with a socket that is not its own (history)

vars == <<limit, client, server, net, heard, faults, quits, stale>>

\* A UDP address, a machine and a port, is an IPX address as well; each start of a
\* driver binds another port.
Null == <<"null">>
Broadcast == <<"broadcast">>
Server == <<"server">>
PortOf(c) == <<c, client[c].port>>

\* A datagram: UDP source and destination, and of the IPX header both addresses and
\* the sockets, which are always equal.
Datagram(from, to, src, dest, socket) ==
  [from |-> from, to |-> to, src |-> src, dest |-> dest, socket |-> socket]

\* A driver that is not connected, and a machine whose driver does not run; the port
\* counts its starts.
Unconnected(phase, port, tries) ==
  [phase |-> phase, port |-> port, tries |-> tries, local_addr |-> Null, socket |-> 0]
Off(port) == Unconnected("off", port, 0)

Init ==
  /\ limit \in Limits
  /\ client = [c \in Client |-> Off(0)]
  /\ server = [up |-> FALSE, clients |-> <<>>]
  /\ net = EmptyBag
  /\ heard = [c \in Client |-> {}]
  /\ faults = 0 /\ quits = 0 /\ stale = FALSE

Running == {c \in Client : client[c].phase # "off"}
Connected == {c \in Client : client[c].phase \in {"setup", "game"}}
Open == {PortOf(c) : c \in Running} \cup (IF server.up THEN {Server} ELSE {})

-----------------------------------------------------------------------------
(***************************************************************************)
(* net/dbserver.c                                                          *)
(***************************************************************************)
ServerClients(s) == ToSet(s.clients)

\* Mutant: the list is not searched first.
NewClient_Again(s, addr) ==
  IF Len(s.clients) >= MAXNETNODES THEN s ELSE [s EXCEPT !.clients = Append(@, addr)]

\* NewClient: a client is listed once, while there is room.
NewClient(s, addr) ==
  IF addr \in ServerClients(s) \/ Len(s.clients) >= MAXNETNODES THEN s
  ELSE [s EXCEPT !.clients = Append(@, addr)]

\* The reply tells the client its own address.
RegistrationReply(addr) == {Datagram(Server, addr, Broadcast, addr, RegSocket)}

\* Mutant: a broadcast goes back to its sender, too.
ForwardTo_All(s, d) == IF d.dest = Broadcast THEN ServerClients(s) ELSE {d.dest}

\* Mutant: the comparison with the sender is turned round.
ForwardTo_Sender(s, d) == IF d.dest = Broadcast THEN ServerClients(s) \cap {d.from} ELSE {d.dest}

\* ForwardPacket: where a packet goes.
ForwardTo(s, d) == IF d.dest = Broadcast THEN ServerClients(s) \ {d.from} ELSE {d.dest}
ForwardPacket(s, d) == {[d EXCEPT !.from = Server, !.to = addr] : addr \in ForwardTo(s, d)}

IsRegistrationPacket(d) == d.dest = Null /\ d.socket = RegSocket

\* RunServer: packets of strangers are dropped.
MayForward(s, d) == d.from \in ServerClients(s)

\* One datagram in the loop of RunServer, which the host's driver runs in all its
\* calls.
RunServer(d) ==
  /\ server.up /\ BagIn(d, net) /\ d.to = Server
  /\ LET s == IF IsRegistrationPacket(d) THEN NewClient(server, d.from) ELSE server
         sent == IF IsRegistrationPacket(d)
                 THEN IF d.from \in ServerClients(s) THEN RegistrationReply(d.from) ELSE {}
                 ELSE IF MayForward(s, d) THEN ForwardPacket(s, d) ELSE {}
     IN /\ server' = s
        /\ net' = (net (-) SetToBag({d})) (+) SetToBag(sent)
  /\ UNCHANGED <<limit, client, heard, faults, quits, stale>>

\* SendShutdown: three times to each client.
SendShutdown ==
  LET msgs == {Datagram(Server, addr, Null, addr, ShutdownSocket) : addr \in ServerClients(server)}
  IN [d \in msgs |-> 3]

\* The driver of c ends: ShutdownNetwork, and ShutdownServer on the host.
Ended(c) ==
  /\ client' = [client EXCEPT ![c] = Off(@.port)]
  /\ heard' = [heard EXCEPT ![c] = {}]
  /\ IF c = Host
     THEN net' = net (+) SendShutdown /\ server' = [up |-> FALSE, clients |-> <<>>]
     ELSE UNCHANGED <<net, server>>

-----------------------------------------------------------------------------
(***************************************************************************)
(* net/udpipx.c                                                            *)
(***************************************************************************)
Registration(addr) == SetToBag({Datagram(addr, Server, Null, Null, RegSocket)})
MaySend == BagCardinality(net) < limit.flight

\* InitNetwork: StartServer on the host, then Connect, which registers at once.
Start(c) ==
  /\ client[c].phase = "off" /\ client[c].port <= limit.quits
  /\ client' = [client EXCEPT ![c] = Unconnected("connecting", @.port + 1, 1)]
  /\ server' = IF c = Host THEN [up |-> TRUE, clients |-> <<>>] ELSE server
  /\ net' = net (+) Registration(<<c, client[c].port + 1>>)
  /\ UNCHANGED <<limit, heard, faults, quits, stale>>

\* Connect, another second later.
SendRegistration(c) ==
  /\ client[c].phase = "connecting" /\ client[c].tries < MaxTries /\ MaySend
  /\ client' = [client EXCEPT ![c].tries = @ + 1]
  /\ net' = net (+) Registration(PortOf(c))
  /\ UNCHANGED <<limit, server, heard, faults, quits, stale>>

\* Connect: no response from the server in five seconds.
GiveUp(c) ==
  /\ client[c].phase = "connecting" /\ client[c].tries = MaxTries
  /\ Ended(c)
  /\ UNCHANGED <<limit, faults, quits, stale>>

\* Mutant: any packet ends the wait for the reply.
IsReply_Any(d) == d.from = Server
IsReply(d) == d.from = Server /\ d.socket = RegSocket

\* CheckRegistrationReply, and the end of InitNetwork.
CheckRegistrationReply(c, d) ==
  /\ client[c].phase = "connecting" /\ BagIn(d, net) /\ d.to = PortOf(c)
  /\ client' = IF ~IsReply(d) THEN client
               ELSE [client EXCEPT ![c].phase = "setup", ![c].local_addr = d.dest, ![c].tries = 0,
                                   ![c].socket = ipxsocket[c]]
  /\ net' = net (-) SetToBag({d})
  /\ UNCHANGED <<limit, server, heard, faults, quits, stale>>

\* The sockets in the only packet buffer, which the last datagram has filled.
Sockets(c) == client[c].socket

\* IPXSendPacket: to all, or to one that has been heard.
IPXSendPacket(c, dest) ==
  /\ c \in Connected /\ MaySend
  /\ dest \in IF client[c].phase = "setup" THEN {Broadcast} ELSE heard[c]
  /\ net' = net (+) SetToBag({Datagram(PortOf(c), Server, client[c].local_addr, dest, Sockets(c))})
  /\ stale' = (stale \/ Sockets(c) # ipxsocket[c])
  /\ UNCHANGED <<limit, client, server, heard, faults, quits>>

ForUs(c, d) == d.from = Server /\ d.dest \in {client[c].local_addr, Broadcast}

\* Mutant: a game in progress is aborted, too.
ServerHasShutDown_InGame(c, d) == ForUs(c, d) /\ d.socket = ShutdownSocket

\* IPXGetPacket: the server has shut down, and no game is in progress.
ServerHasShutDown(c, d) ==
  ForUs(c, d) /\ d.socket = ShutdownSocket /\ client[c].phase # "game"

\* IPXGetPacket: every datagram is received into the one packet buffer.
IPXGetPacket(c, d) ==
  /\ c \in Connected /\ BagIn(d, net) /\ d.to = PortOf(c)
  /\ LET taken == net (-) SetToBag({d})
     IN IF ServerHasShutDown(c, d)
        THEN /\ client' = [client EXCEPT ![c] = Off(@.port)]
             /\ heard' = [heard EXCEPT ![c] = {}]
             /\ server' = IF c = Host THEN [up |-> FALSE, clients |-> <<>>] ELSE server
             /\ net' = IF c = Host THEN taken (+) SendShutdown ELSE taken
        ELSE /\ client' = [client EXCEPT ![c].socket = d.socket]
             /\ heard' = IF ForUs(c, d) /\ d.socket = ipxsocket[c]
                         THEN [heard EXCEPT ![c] = @ \cup {d.src}] ELSE heard
             /\ net' = taken /\ server' = server
  /\ UNCHANGED <<limit, faults, quits, stale>>

\* IPXStartGame: LookForNodes has found somebody.
IPXStartGame(c) ==
  /\ client[c].phase = "setup" /\ heard[c] # {}
  /\ client' = [client EXCEPT ![c].phase = "game"]
  /\ UNCHANGED <<limit, server, net, heard, faults, quits, stale>>

\* The user ends the driver, or its game.
Quit(c) ==
  /\ client[c].phase # "off" /\ quits < limit.quits
  /\ Ended(c)
  /\ quits' = quits + 1
  /\ UNCHANGED <<limit, faults, stale>>

-----------------------------------------------------------------------------
\* UDP loses a datagram, or repeats it; those for a closed port are dropped.
Lose(d) ==
  /\ faults < limit.faults /\ BagIn(d, net)
  /\ net' = net (-) SetToBag({d}) /\ faults' = faults + 1
  /\ UNCHANGED <<limit, client, server, heard, quits, stale>>
Repeat(d) ==
  /\ faults < limit.faults /\ BagIn(d, net)
  /\ net' = net (+) SetToBag({d}) /\ faults' = faults + 1
  /\ UNCHANGED <<limit, client, server, heard, quits, stale>>
Drop(d) ==
  /\ BagIn(d, net) /\ d.to \notin Open
  /\ net' = net (-) SetToBag({d})
  /\ UNCHANGED <<limit, client, server, heard, faults, quits, stale>>

Receive(c) == \E d \in DOMAIN net : CheckRegistrationReply(c, d) \/ IPXGetPacket(c, d)
Send(c) == \E dest \in heard[c] \cup {Broadcast} : IPXSendPacket(c, dest)

Next ==
  \/ \E c \in Client : \/ Start(c) \/ SendRegistration(c) \/ GiveUp(c) \/ Receive(c)
                       \/ Send(c) \/ IPXStartGame(c) \/ Quit(c)
  \/ \E d \in DOMAIN net : RunServer(d) \/ Lose(d) \/ Repeat(d) \/ Drop(d)

Spec == Init /\ [][Next]_vars

\* The drivers are started, poll and send; with two clients, all that one receives
\* is from the other or from the server. The bound on what is under way may
\* disable a send now and then.
LiveSpec ==
  /\ Spec
  /\ WF_vars(\E d \in DOMAIN net : Drop(d))
  /\ \A c \in Client :
       /\ SF_vars(Start(c) \/ SendRegistration(c) \/ GiveUp(c))
       /\ SF_vars(\E d \in DOMAIN net : d.from[1] = c /\ RunServer(d))
       /\ SF_vars(Receive(c)) /\ SF_vars(Send(c))

-----------------------------------------------------------------------------
(***************************************************************************)
(* Properties.                                                             *)
(***************************************************************************)
Address == {<<c, p>> : c \in Client, p \in 1 .. limit.quits + 1}
Socket == {0, RegSocket, ShutdownSocket} \cup {ipxsocket[c] : c \in Client}
Driver == [phase : {"off", "connecting", "setup", "game"}, port : 0 .. limit.quits + 1,
           tries : 0 .. MaxTries, local_addr : Address \cup {Null, Broadcast}, socket : Socket]

\* The types. The server's list has no client twice and never more than it has room for,
\* however often clients register and are started again.
TypeOK ==
  /\ limit \in Limits
  /\ client \in [Client -> Driver]
  /\ server \in [up : BOOLEAN, clients : Seq(Address)] /\ (server.up <=> client[Host].phase # "off")
  /\ IsInjective(server.clients) /\ Len(server.clients) <= MAXNETNODES
  /\ IsABag(net) /\ heard \in [Client -> SUBSET (Address \cup {Broadcast})]
  /\ faults \in 0 .. limit.faults /\ quits \in 0 .. limit.quits /\ stale \in BOOLEAN

\* A client that believes it is connected is on the server's list and knows its own address,
\* whichever replies were lost, repeated or late: unless the server was started again, or
\* somebody's packet went out with the registration socket (see OtherGamesIgnored).
ConnectedIsListed ==
  client[Host].port <= 1 /\ server.up /\ ~stale =>
    \A c \in Connected : client[c].local_addr = PortOf(c) /\ PortOf(c) \in ServerClients(server)

\* Only registered clients are heard by others, and nobody hears itself.
OnlyClientsHeard ==
  client[Host].port <= 1 /\ server.up /\ ~stale =>
    \A c \in Client : heard[c] \subseteq ServerClients(server) \ {PortOf(c)}

\* "We don't abort the program if the game's in progress" (net/udpipx.c:341): a driver
\* whose game runs ends only when its user ends it.
GameGoesOn ==
  [][\A c \in Client : client[c].phase = "game" /\ client'[c].phase = "off" => quits' = quits + 1]_vars

\* Clients of the same game all hear each other in the end, or have given up: unless one
\* was ended or not let in, or one sends with a socket that is not its own.
AllHear ==
  <>[](\/ \A c, d \in Client : c = d \/ ipxsocket[c] # ipxsocket[d] \/ PortOf(d) \in heard[c]
       \/ quits > 0 \/ stale
       \/ \E c \in Client : client[c].phase = "off")

\* "If there are other games in progress on the server, we definitely want to ignore them"
\* (net/udpipx.c:332): a driver returns only packets of its own game.
OtherGamesIgnored ==
  \A c, d \in Client : \A p \in 1 .. limit.quits + 1 :
    <<d, p>> \in heard[c] => ipxsocket[c] = ipxsocket[d]
=============================================================================
