---------------------------- MODULE UdpNetProof ----------------------------
(***************************************************************************)
(* Proofs about UdpNet, for any number of machines and games, any size of  *)
(* the server's list and any number of faults and restarts.                *)
(***************************************************************************)
EXTENDS UdpNet, SequenceTheorems, TLAPS

-----------------------------------------------------------------------------
(***************************************************************************)
(* Addresses, bags and the list of the server.                             *)
(***************************************************************************)
LEMMA SpecialAddresses ==
  /\ Null # Broadcast /\ Null # Server /\ Broadcast # Server
  /\ Null \notin Address /\ Broadcast \notin Address /\ Server \notin Address
<1>1. ASSUME NEW a \in Address PROVE Len(a) = 2
  BY <1>1 DEF Address
<1>2. Len(Null) = 1 /\ Len(Broadcast) = 1 /\ Len(Server) = 1
  BY DEF Null, Broadcast, Server
<1>3. Null # Broadcast /\ Null # Server /\ Broadcast # Server
  BY DEF Null, Broadcast, Server
<1>. QED
  BY <1>1, <1>2, <1>3

LEMMA SetToBagFacts == ASSUME NEW S PROVE IsABag(SetToBag(S)) /\ DOMAIN SetToBag(S) = S
BY DEF IsABag, SetToBag

LEMMA BagAddFacts ==
  ASSUME NEW B, IsABag(B), NEW C, IsABag(C)
  PROVE  IsABag(B (+) C) /\ DOMAIN (B (+) C) = DOMAIN B \cup DOMAIN C
<1>1. \A x \in DOMAIN B : B[x] \in Nat /\ B[x] > 0
  BY DEF IsABag
<1>2. \A x \in DOMAIN C : C[x] \in Nat /\ C[x] > 0
  BY DEF IsABag
<1>. QED
  BY <1>1, <1>2 DEF IsABag, (+)

LEMMA BagTakeFacts ==
  ASSUME NEW B, IsABag(B), NEW d
  PROVE  IsABag(B (-) SetToBag({d})) /\ DOMAIN (B (-) SetToBag({d})) \subseteq DOMAIN B
<1>1. \A x \in DOMAIN B : B[x] \in Nat /\ B[x] > 0
  BY DEF IsABag
<1>. QED
  BY <1>1 DEF IsABag, (-), SetToBag

-----------------------------------------------------------------------------
(***************************************************************************)
(* The inductive invariant: TypeOK, what a datagram under way can be, and  *)
(* what running drivers know.                                              *)
(***************************************************************************)
\* Every datagram goes to the server or comes from it, only a registration has no
\* destination, and what has no source is a registration or the server's farewell.
DatagramOK(d) ==
  /\ d \in [from : Address \cup {Server}, to : Address \cup {Server},
            src : Address \cup {Null, Broadcast}, dest : Address \cup {Null, Broadcast},
            socket : Socket]
  /\ d.from = Server <=> d.to # Server
  /\ d.dest = Null => d.socket = RegSocket /\ d.from # Server
  /\ d.src = Null => d.socket \in {RegSocket, ShutdownSocket}

DatagramsOK == \A d \in DOMAIN net : DatagramOK(d)

\* A running driver has a port; a connected one has an address.
DriversOK ==
  \A c \in Client : /\ c \in Running => client[c].port > 0
                    /\ c \in Connected => client[c].local_addr # Null
                    /\ c \notin Connected => heard[c] = {}

TypeInv == TypeOK /\ DatagramsOK /\ DriversOK

\* Before the first start of the host nobody is connected and the server has sent nothing.
Fresh ==
  client[Host].port = 0 =>
    Connected = {} /\ \A d \in DOMAIN net : d.from # Server /\ d.dest = Null

\* What the server has sent goes to one of its clients; its replies tell the client the
\* address they go to, and a forwarded packet is from another client.
SentOK(d) ==
  /\ d.to \in ServerClients(server)
  /\ d.socket = RegSocket => d.dest = d.to
  /\ d.src # Null /\ d.socket # RegSocket =>
       d.src \in ServerClients(server) \ {d.to}

\* What a client has sent names the client as its source, and is for others.
AskedOK(d) ==
  d.dest # Null => /\ d.from \in ServerClients(server) /\ d.src = d.from /\ d.socket # RegSocket
                   /\ d.dest \in (ServerClients(server) \cup {Broadcast}) \ {d.from}

\* The host has been started once and nobody has sent with a wrong socket.
FirstServer == client[Host].port <= 1 /\ server.up /\ ~stale

ClientsListed ==
  \A c \in Connected : client[c].local_addr = PortOf(c) /\ PortOf(c) \in ServerClients(server)
HeardListed == \A c \in Client : heard[c] \subseteq ServerClients(server) \ {PortOf(c)}
NetListed == \A d \in DOMAIN net : IF d.from = Server THEN SentOK(d) ELSE AskedOK(d)
Listed == FirstServer => ClientsListed /\ HeardListed /\ NetListed

Inv == TypeInv /\ Fresh /\ Listed
-----------------------------------------------------------------------------
(***************************************************************************)
(* TypeInv.                                                                *)
(***************************************************************************)
LEMMA TypeFacts ==
  ASSUME TypeInv
  PROVE  /\ limit.quits \in Nat /\ limit.faults \in Nat
         /\ Host \in Client
         /\ {0, RegSocket, ShutdownSocket} \subseteq Socket
         /\ \A c \in Client : ipxsocket[c] \in Socket \ {RegSocket, ShutdownSocket}
         /\ \A c \in Running : PortOf(c) \in Address
         /\ ServerClients(server) \subseteq Address
         /\ \A s \in [up : BOOLEAN, clients : Seq(Address)] : ServerClients(s) \subseteq Address
<1>1. limit \in Limit
  BY LimitAssumption DEF TypeInv, TypeOK
<1>2. limit.quits \in Nat /\ limit.faults \in Nat
  BY <1>1 DEF Limit
<1>3. \A c \in Client : ipxsocket[c] \in Socket \ {RegSocket, ShutdownSocket}
  BY SocketAssumption DEF Socket
<1>4. ASSUME NEW c \in Running PROVE PortOf(c) \in Address
  BY <1>2, <1>4 DEF Running, PortOf, Address, Driver, TypeInv, TypeOK, DriversOK
<1>5. ASSUME NEW s \in [up : BOOLEAN, clients : Seq(Address)] PROVE ServerClients(s) \subseteq Address
  BY ElementOfSeq DEF ServerClients, ToSet
<1>. QED
  BY <1>2, <1>3, <1>4, <1>5, ClientAssumption DEF Socket, TypeInv, TypeOK

LEMMA NewClientFacts ==
  ASSUME NEW A, NEW s \in [up : BOOLEAN, clients : Seq(A)], NEW addr \in A,
         IsInjective(s.clients), Len(s.clients) <= MAXNETNODES
  PROVE  /\ NewClient(s, addr) \in [up : BOOLEAN, clients : Seq(A)]
         /\ NewClient(s, addr).up = s.up
         /\ IsInjective(NewClient(s, addr).clients)
         /\ Len(NewClient(s, addr).clients) <= MAXNETNODES
         /\ ServerClients(s) \subseteq ServerClients(NewClient(s, addr))
<1>1. CASE addr \in ServerClients(s) \/ Len(s.clients) >= MAXNETNODES
  BY <1>1 DEF NewClient
<1>2. CASE ~(addr \in ServerClients(s) \/ Len(s.clients) >= MAXNETNODES)
  <2> DEFINE q == Append(s.clients, addr)
  <2>1. /\ q \in Seq(A) /\ Len(q) = Len(s.clients) + 1 /\ q[Len(s.clients) + 1] = addr
        /\ \A i \in 1 .. Len(s.clients) : q[i] = s.clients[i]
    OBVIOUS
  <2>2. NewClient(s, addr) = [s EXCEPT !.clients = q]
    BY <1>2 DEF NewClient
  <2>3. \A i \in 1 .. Len(s.clients) : s.clients[i] # addr
    BY <1>2 DEF ServerClients, ToSet
  <2>4. IsInjective(q)
    BY <2>1, <2>3 DEF IsInjective
  <2>5. Len(q) <= MAXNETNODES
    BY <1>2, <2>1, NumberAssumption
  <2>6. ToSet(s.clients) \subseteq ToSet(q)
    BY <2>1 DEF ToSet
  <2>. QED
    BY <2>1, <2>2, <2>4, <2>5, <2>6 DEF ServerClients
<1>. QED
  BY <1>1, <1>2

LEMMA SameLimit ==
  ASSUME limit' = limit
  PROVE  /\ Address' = Address /\ Driver' = Driver
         /\ \A d : DatagramOK(d) => DatagramOK(d)'
BY DEF Address, Driver, DatagramOK

\* The bag of datagrams under way stays one of possible datagrams when datagrams are
\* taken from it or possible ones are added.
LEMMA TakeType ==
  ASSUME TypeInv, limit' = limit, NEW d, net' = net (-) SetToBag({d})
  PROVE  IsABag(net') /\ DatagramsOK'
BY BagTakeFacts, SameLimit DEF TypeInv, TypeOK, DatagramsOK

LEMMA AddType ==
  ASSUME TypeInv, limit' = limit, NEW C, IsABag(C), \A d \in DOMAIN C : DatagramOK(d),
         net' = net (+) C
  PROVE  IsABag(net') /\ DatagramsOK'
<1>1. IsABag(net') /\ DOMAIN net' = DOMAIN net \cup DOMAIN C
  BY BagAddFacts DEF TypeInv, TypeOK
<1>. QED
  BY <1>1, SameLimit DEF TypeInv, DatagramsOK

LEMMA ReplaceType ==
  ASSUME TypeInv, limit' = limit, NEW C, IsABag(C), \A d \in DOMAIN C : DatagramOK(d),
         NEW d, net' = (net (-) SetToBag({d})) (+) C
  PROVE  IsABag(net') /\ DatagramsOK'
<1> DEFINE B == net (-) SetToBag({d})
<1>0. IsABag(B) /\ DOMAIN B \subseteq DOMAIN net
  BY BagTakeFacts DEF TypeInv, TypeOK
<1>1. IsABag(net') /\ DOMAIN net' = DOMAIN B \cup DOMAIN C
  <2> HIDE DEF B
  <2>. QED
    BY <1>0, BagAddFacts DEF B
<1>. QED
  BY <1>0, <1>1, SameLimit DEF TypeInv, DatagramsOK

\* The three kinds of datagrams that are made.
LEMMA RegistrationType ==
  ASSUME TypeInv, NEW addr \in Address
  PROVE  IsABag(Registration(addr)) /\ \A d \in DOMAIN Registration(addr) : DatagramOK(d)
<1>1. DatagramOK(Datagram(addr, Server, Null, Null, RegSocket))
  BY TypeFacts, SpecialAddresses DEF DatagramOK, Datagram
<1>. QED
  BY <1>1, SetToBagFacts DEF Registration

LEMMA SendShutdownType ==
  ASSUME TypeInv
  PROVE  IsABag(SendShutdown) /\ \A d \in DOMAIN SendShutdown : DatagramOK(d)
<1>1. ASSUME NEW addr \in ServerClients(server)
      PROVE  DatagramOK(Datagram(Server, addr, Null, addr, ShutdownSocket))
  BY <1>1, TypeFacts, SpecialAddresses DEF DatagramOK, Datagram
<1>2. IsABag(SendShutdown)
  BY DEF IsABag, SendShutdown
<1>. QED
  BY <1>1, <1>2 DEF SendShutdown

LEMMA ForwardType ==
  ASSUME TypeInv, NEW d \in DOMAIN net, d.to = Server, ~IsRegistrationPacket(d), MayForward(server, d)
  PROVE  \A f \in ForwardPacket(server, d) : DatagramOK(f)
<1>1. DatagramOK(d) /\ d.dest # Null
  BY DEF TypeInv, DatagramsOK, DatagramOK, IsRegistrationPacket
<1>2. ForwardTo(server, d) \subseteq Address
  BY <1>1, TypeFacts DEF ForwardTo, DatagramOK
<1>3. ASSUME NEW addr \in Address PROVE DatagramOK([d EXCEPT !.from = Server, !.to = addr])
  BY <1>1, <1>3, SpecialAddresses DEF DatagramOK
<1>. QED
  BY <1>2, <1>3 DEF ForwardPacket

LEMMA StartType == ASSUME TypeInv, NEW c \in Client, Start(c) PROVE TypeInv'
<1> DEFINE addr == <<c, client[c].port + 1>>
           r == Unconnected("connecting", client[c].port + 1, 1)
<1>1. limit' = limit /\ client' = [client EXCEPT ![c] = r]
  BY DEF Start, TypeInv, TypeOK
<1>2. addr \in Address /\ r \in Driver
  <2>1. client[c].port + 1 \in 1 .. limit.quits + 1
    BY TypeFacts DEF Start, Driver, TypeInv, TypeOK
  <2>. QED
    BY <2>1, TypeFacts, NumberAssumption DEF Address, Driver, Unconnected
<1>3. client' \in [Client -> Driver]
  BY <1>1, <1>2 DEF TypeInv, TypeOK
<1>4. IsABag(net') /\ DatagramsOK'
  BY <1>1, <1>2, RegistrationType, AddType DEF Start
<1>5. /\ server' \in [up : BOOLEAN, clients : Seq(Address)]
      /\ server'.up <=> client'[Host].phase # "off"
      /\ IsInjective(server'.clients) /\ Len(server'.clients) <= MAXNETNODES
  BY <1>1, TypeFacts, NumberAssumption DEF Start, TypeInv, TypeOK, IsInjective, Unconnected
<1>6. DriversOK'
  <2>1. /\ r.phase = "connecting" /\ r.port = client[c].port + 1 /\ r.port > 0
        /\ client[c].phase = "off" /\ heard[c] = {}
    <3>1. client[c] \in Driver /\ client[c].phase = "off" /\ (c \notin Connected => heard[c] = {})
      BY DEF Start, TypeInv, TypeOK, DriversOK
    <3>2. client[c].port \in Nat
      BY <3>1 DEF Driver
    <3>3. c \notin Connected
      BY <3>1 DEF Connected
    <3>. QED
      BY <3>1, <3>2, <3>3 DEF Unconnected
  <2>2. /\ client'[c] = r /\ heard' = heard
        /\ \A x \in Client : x # c => client'[x] = client[x]
    BY <1>1 DEF Start, TypeInv, TypeOK
  <2>. HIDE DEF r
  <2>3. client'[c].port > 0 /\ c \notin Connected' /\ heard'[c] = {}
    BY <2>1, <2>2 DEF Connected
  <2>4. ASSUME NEW x \in Client, x # c
        PROVE  /\ client'[x] = client[x] /\ heard'[x] = heard[x]
               /\ (x \in Connected' <=> x \in Connected) /\ (x \in Running' <=> x \in Running)
    BY <2>2, <2>4 DEF Connected, Running
  <2>. QED
    BY <2>3, <2>4 DEF TypeInv, DriversOK
<1>. QED
  BY <1>1, <1>3, <1>4, <1>5, <1>6, SameLimit DEF Start, TypeInv, TypeOK

\* A driver that ends, whatever becomes of the datagrams under way.
ServerOK ==
  /\ server \in [up : BOOLEAN, clients : Seq(Address)]
  /\ server.up <=> client[Host].phase # "off"
  /\ IsInjective(server.clients) /\ Len(server.clients) <= MAXNETNODES

LEMMA OffType ==
  ASSUME TypeInv, limit' = limit, NEW c \in Client,
         client' = [client EXCEPT ![c] = Off(@.port)], heard' = [heard EXCEPT ![c] = {}],
         server' = IF c = Host THEN [up |-> FALSE, clients |-> <<>>] ELSE server
  PROVE  /\ client' \in [Client -> Driver] /\ heard' \in [Client -> SUBSET (Address \cup {Broadcast})]
         /\ ServerOK' /\ DriversOK'
<1>1. Off(client[c].port) \in Driver
  BY TypeFacts, NumberAssumption DEF Off, Unconnected, Driver, TypeInv, TypeOK
<1>2. client' \in [Client -> Driver]
  BY <1>1 DEF TypeInv, TypeOK
<1>3. ServerOK'
  BY TypeFacts, SameLimit, NumberAssumption
     DEF ServerOK, TypeInv, TypeOK, IsInjective, Off, Unconnected
<1>4. DriversOK'
  BY <1>2 DEF TypeInv, TypeOK, DriversOK, Running, Connected, Off, Unconnected
<1>. QED
  BY <1>2, <1>3, <1>4 DEF TypeInv, TypeOK

LEMMA EndedType ==
  ASSUME TypeInv, limit' = limit, faults' = faults, quits' \in 0 .. limit.quits, stale' = stale,
         NEW c \in Client, Ended(c)
  PROVE  TypeInv'
<1>1. IsABag(net') /\ DatagramsOK'
  <2>1. CASE c = Host
    BY <2>1, SendShutdownType, AddType DEF Ended
  <2>2. CASE c # Host
    BY <2>2, SameLimit DEF Ended, TypeInv, TypeOK, DatagramsOK
  <2>. QED
    BY <2>1, <2>2
<1>2. server' = IF c = Host THEN [up |-> FALSE, clients |-> <<>>] ELSE server
  BY DEF Ended
<1>3. /\ client' \in [Client -> Driver] /\ heard' \in [Client -> SUBSET (Address \cup {Broadcast})]
      /\ ServerOK' /\ DriversOK'
  BY <1>2, OffType DEF Ended
<1>. QED
  BY <1>1, <1>3, SameLimit DEF ServerOK, TypeInv, TypeOK

LEMMA SendRegistrationType ==
  ASSUME TypeInv, NEW c \in Client, SendRegistration(c)
  PROVE  TypeInv'
<1>1. client[c].tries + 1 \in 0 .. MaxTries
  BY NumberAssumption DEF SendRegistration, TypeInv, TypeOK, Driver
<1>2. client' \in [Client -> Driver]
  <2>1. client[c] \in Driver
    BY DEF TypeInv, TypeOK
  <2>2. [client[c] EXCEPT !.tries = client[c].tries + 1] \in Driver
    BY <1>1, <2>1 DEF Driver
  <2>. QED
    BY <2>2 DEF SendRegistration, TypeInv, TypeOK
<1>3. IsABag(net') /\ DatagramsOK'
  <2>1. PortOf(c) \in Address /\ limit' = limit /\ net' = net (+) Registration(PortOf(c))
    BY TypeFacts DEF SendRegistration, Running
  <2>2. IsABag(Registration(PortOf(c))) /\ \A d \in DOMAIN Registration(PortOf(c)) : DatagramOK(d)
    BY <2>1, RegistrationType
  <2>. QED
    BY <2>1, <2>2, AddType
<1>4. DriversOK' /\ (client'[Host].phase = client[Host].phase)
  BY TypeFacts DEF SendRegistration, TypeInv, TypeOK, DriversOK, Running, Connected
<1>. QED
  BY <1>2, <1>3, <1>4, SameLimit DEF SendRegistration, TypeInv, TypeOK

LEMMA CheckRegistrationReplyType ==
  ASSUME TypeInv, NEW c \in Client, NEW d \in DOMAIN net, CheckRegistrationReply(c, d)
  PROVE  TypeInv'
<1>1. IsABag(net') /\ DatagramsOK'
  BY TakeType DEF CheckRegistrationReply
<1>2. /\ client' \in [Client -> Driver] /\ DriversOK'
      /\ client'[Host].phase = "off" <=> client[Host].phase = "off"
  <2>1. CASE ~IsReply(d)
    BY <2>1 DEF CheckRegistrationReply, TypeInv, TypeOK, DriversOK, Running, Connected
  <2>2. CASE IsReply(d)
    <3>1. d.dest \in Address \cup {Null, Broadcast} /\ d.dest # Null
      BY <2>2 DEF IsReply, TypeInv, DatagramsOK, DatagramOK
    <3>2. client' \in [Client -> Driver]
      <4> DEFINE r == [client[c] EXCEPT !.phase = "setup", !.local_addr = d.dest, !.tries = 0,
                                        !.socket = ipxsocket[c]]
      <4>1. client[c] \in Driver /\ client' = [client EXCEPT ![c] = r]
        BY <2>2 DEF CheckRegistrationReply, TypeInv, TypeOK
      <4>2. r \in Driver
        <5>1. 0 \in 0 .. MaxTries /\ ipxsocket[c] \in Socket
          BY TypeFacts, NumberAssumption
        <5>. QED
          BY <3>1, <4>1, <5>1 DEF Driver
      <4>. QED
        BY <4>1, <4>2 DEF TypeInv, TypeOK
    <3>3. DriversOK' /\ (client'[Host].phase = "off" <=> client[Host].phase = "off")
      BY <2>2, <3>1, TypeFacts
         DEF CheckRegistrationReply, TypeInv, TypeOK, DriversOK, Running, Connected
    <3>. QED
      BY <3>2, <3>3
  <2>. QED
    BY <2>1, <2>2
<1>. QED
  BY <1>1, <1>2, SameLimit DEF CheckRegistrationReply, TypeInv, TypeOK

LEMMA IPXSendPacketType ==
  ASSUME TypeInv, NEW c \in Client, NEW dest \in heard[c] \cup {Broadcast}, IPXSendPacket(c, dest)
  PROVE  TypeInv'
<1> DEFINE d == Datagram(PortOf(c), Server, client[c].local_addr, dest, Sockets(c))
<1>1. DatagramOK(d)
  <2>1. client[c] \in Driver /\ client[c].local_addr # Null /\ dest \in Address \cup {Broadcast}
    BY DEF IPXSendPacket, TypeInv, TypeOK, DriversOK
  <2>2. PortOf(c) \in Address
    BY TypeFacts DEF IPXSendPacket, Connected, Running
  <2>. QED
    BY <2>1, <2>2, SpecialAddresses DEF DatagramOK, Datagram, Sockets, Driver
<1>2. IsABag(net') /\ DatagramsOK'
  BY <1>1, SetToBagFacts, AddType DEF IPXSendPacket
<1>3. DriversOK'
  BY DEF IPXSendPacket, TypeInv, DriversOK, Running, Connected
<1>4. stale' \in BOOLEAN
  BY DEF IPXSendPacket
<1>. QED
  BY <1>2, <1>3, <1>4, SameLimit DEF IPXSendPacket, TypeInv, TypeOK

LEMMA IPXGetPacketType ==
  ASSUME TypeInv, NEW c \in Client, NEW d \in DOMAIN net, IPXGetPacket(c, d)
  PROVE  TypeInv'
<1>1. DatagramOK(d)
  BY DEF TypeInv, DatagramsOK
<1>2. CASE ServerHasShutDown(c, d)
  <2>1. IsABag(net') /\ DatagramsOK'
    <3>1. CASE c = Host
      BY <1>2, <3>1, SendShutdownType, ReplaceType DEF IPXGetPacket
    <3>2. CASE c # Host
      BY <1>2, <3>2, TakeType DEF IPXGetPacket
    <3>. QED
      BY <3>1, <3>2
  <2>2. /\ client' \in [Client -> Driver] /\ heard' \in [Client -> SUBSET (Address \cup {Broadcast})]
        /\ ServerOK' /\ DriversOK'
    BY <1>2, OffType DEF IPXGetPacket
  <2>. QED
    BY <2>1, <2>2, SameLimit DEF IPXGetPacket, ServerOK, TypeInv, TypeOK
<1>3. CASE ~ServerHasShutDown(c, d)
  <2>1. IsABag(net') /\ DatagramsOK'
    BY <1>3, TakeType DEF IPXGetPacket
  <2>2. client' \in [Client -> Driver] /\ client'[Host].phase = client[Host].phase
    <3>1. client' = [client EXCEPT ![c].socket = d.socket] /\ d.socket \in Socket
      BY <1>1, <1>3 DEF IPXGetPacket, DatagramOK
    <3>2. client \in [Client -> Driver] /\ client[c] \in Driver
      BY DEF TypeInv, TypeOK
    <3>3. /\ [client[c] EXCEPT !.socket = d.socket] \in Driver
          /\ [client[c] EXCEPT !.socket = d.socket].phase = client[c].phase
      BY <3>1, <3>2 DEF Driver
    <3>. QED
      BY <3>1, <3>2, <3>3, TypeFacts
  <2>3. heard' \in [Client -> SUBSET (Address \cup {Broadcast})] /\ DriversOK'
    <3>1. d.socket = ipxsocket[c] => d.src \in Address \cup {Broadcast}
      BY <1>1, TypeFacts DEF DatagramOK
    <3>2. heard' \in [Client -> SUBSET (Address \cup {Broadcast})]
      <4>1. heard' = heard \/ (d.socket = ipxsocket[c] /\ heard' = [heard EXCEPT ![c] = @ \cup {d.src}])
        BY <1>3 DEF IPXGetPacket
      <4>. QED
        BY <3>1, <4>1 DEF TypeInv, TypeOK
    <3>3. DriversOK'
      <4>1. /\ client' = [client EXCEPT ![c].socket = d.socket] /\ c \in Connected
            /\ \A x \in Client : x # c => heard'[x] = heard[x]
        BY <1>3 DEF IPXGetPacket, TypeInv, TypeOK
      <4>2. \A x \in Client : /\ client'[x].phase = client[x].phase /\ client'[x].port = client[x].port
                              /\ client'[x].local_addr = client[x].local_addr
        BY <4>1 DEF TypeInv, TypeOK
      <4>. QED
        BY <4>1, <4>2 DEF TypeInv, DriversOK, Running, Connected
    <3>. QED
      BY <3>2, <3>3
  <2>. QED
    BY <1>3, <2>1, <2>2, <2>3, SameLimit DEF IPXGetPacket, TypeInv, TypeOK
<1>. QED
  BY <1>2, <1>3

LEMMA IPXStartGameType == ASSUME TypeInv, NEW c \in Client, IPXStartGame(c) PROVE TypeInv'
<1>1. client' \in [Client -> Driver]
  <2>1. client[c] \in Driver
    BY DEF TypeInv, TypeOK
  <2>2. [client[c] EXCEPT !.phase = "game"] \in Driver
    BY <2>1 DEF Driver
  <2>. QED
    BY <2>2 DEF IPXStartGame, TypeInv, TypeOK
<1>2. DriversOK' /\ (client'[Host].phase = "off" <=> client[Host].phase = "off")
  BY TypeFacts DEF IPXStartGame, TypeInv, TypeOK, DriversOK, Running, Connected
<1>. QED
  BY <1>1, <1>2, SameLimit DEF IPXStartGame, TypeInv, TypeOK, DatagramsOK

LEMMA RunServerType == ASSUME TypeInv, NEW d \in DOMAIN net, RunServer(d) PROVE TypeInv'
<1>1. DatagramOK(d) /\ d.from \in Address
  BY SpecialAddresses DEF RunServer, TypeInv, DatagramsOK, DatagramOK
<1>2. DriversOK'
  BY DEF RunServer, TypeInv, DriversOK, Running, Connected
<1>3. CASE IsRegistrationPacket(d)
  <2> DEFINE s == NewClient(server, d.from)
             sent == IF d.from \in ServerClients(s) THEN RegistrationReply(d.from) ELSE {}
  <2>1. server' = s /\ net' = (net (-) SetToBag({d})) (+) SetToBag(sent)
    BY <1>3 DEF RunServer
  <2>2. \A f \in sent : DatagramOK(f)
    BY <1>1, TypeFacts, SpecialAddresses DEF RegistrationReply, Datagram, DatagramOK
  <2>3. IsABag(net') /\ DatagramsOK'
    BY <2>1, <2>2, SetToBagFacts, ReplaceType DEF RunServer
  <2>. QED
    BY <1>1, <1>2, <2>1, <2>3, NewClientFacts, SameLimit DEF RunServer, TypeInv, TypeOK
<1>4. CASE ~IsRegistrationPacket(d)
  <2> DEFINE sent == IF MayForward(server, d) THEN ForwardPacket(server, d) ELSE {}
  <2>1. server' = server /\ net' = (net (-) SetToBag({d})) (+) SetToBag(sent)
    BY <1>4 DEF RunServer
  <2>2. \A f \in sent : DatagramOK(f)
    BY <1>4, ForwardType DEF RunServer
  <2>3. IsABag(net') /\ DatagramsOK'
    BY <2>1, <2>2, SetToBagFacts, ReplaceType DEF RunServer
  <2>. QED
    BY <1>2, <2>1, <2>3, SameLimit DEF RunServer, TypeInv, TypeOK
<1>. QED
  BY <1>3, <1>4

LEMMA NetworkType ==
  ASSUME TypeInv, NEW d \in DOMAIN net, Lose(d) \/ Repeat(d) \/ Drop(d)
  PROVE  TypeInv'
<1>1. DriversOK'
  BY DEF Lose, Repeat, Drop, TypeInv, DriversOK, Running, Connected
<1>2. IsABag(net') /\ DatagramsOK'
  <2>1. CASE Repeat(d)
    BY <2>1, SetToBagFacts, AddType DEF Repeat, TypeInv, DatagramsOK
  <2>2. CASE Lose(d) \/ Drop(d)
    BY <2>2, TakeType DEF Lose, Drop
  <2>. QED
    BY <2>1, <2>2
<1>3. faults' \in 0 .. limit.faults
  BY TypeFacts DEF Lose, Repeat, Drop, TypeInv, TypeOK
<1>. QED
  BY <1>1, <1>2, <1>3, SameLimit DEF Lose, Repeat, Drop, TypeInv, TypeOK

LEMMA TypeInit == Init => TypeInv
<1> SUFFICES ASSUME Init PROVE TypeInv
  OBVIOUS
<1>1. limit \in Limit
  BY LimitAssumption DEF Init
<1>2. client \in [Client -> Driver] /\ heard \in [Client -> SUBSET (Address \cup {Broadcast})]
  BY <1>1, NumberAssumption DEF Init, Driver, Off, Unconnected, Limit, Socket
<1>3. IsABag(net) /\ DatagramsOK
  BY SetToBagFacts DEF Init, EmptyBag, DatagramsOK
<1>4. DriversOK
  BY DEF Init, DriversOK, Off, Unconnected, Running, Connected
<1>5. ServerOK
  BY ClientAssumption, NumberAssumption DEF Init, ServerOK, IsInjective, Off, Unconnected
<1>. QED
  <2>1. limit \in Limits /\ faults \in 0 .. limit.faults /\ quits \in 0 .. limit.quits
    BY <1>1 DEF Init, Limit
  <2>2. stale \in BOOLEAN
    BY DEF Init
  <2>. QED
    BY <2>1, <2>2, <1>2, <1>3, <1>4, <1>5 DEF TypeInv, TypeOK, ServerOK

LEMMA TypeStep == TypeInv /\ [Next]_vars => TypeInv'
<1> SUFFICES ASSUME TypeInv, [Next]_vars PROVE TypeInv'
  OBVIOUS
<1>1. ASSUME NEW c \in Client, Start(c) PROVE TypeInv'
  BY <1>1, StartType
<1>2. ASSUME NEW c \in Client, SendRegistration(c) PROVE TypeInv'
  BY <1>2, SendRegistrationType
<1>3. ASSUME NEW c \in Client, GiveUp(c) PROVE TypeInv'
  BY <1>3, EndedType DEF GiveUp, TypeInv, TypeOK
<1>4. ASSUME NEW c \in Client, Receive(c) PROVE TypeInv'
  BY <1>4, CheckRegistrationReplyType, IPXGetPacketType DEF Receive
<1>5. ASSUME NEW c \in Client, Send(c) PROVE TypeInv'
  BY <1>5, IPXSendPacketType DEF Send
<1>6. ASSUME NEW c \in Client, IPXStartGame(c) PROVE TypeInv'
  BY <1>6, IPXStartGameType
<1>7. ASSUME NEW c \in Client, Quit(c) PROVE TypeInv'
  <2>1. quits' \in 0 .. limit.quits
    BY <1>7, TypeFacts DEF Quit, TypeInv, TypeOK
  <2>. QED
    BY <1>7, <2>1, EndedType DEF Quit
<1>8. ASSUME NEW d \in DOMAIN net, RunServer(d) PROVE TypeInv'
  BY <1>8, RunServerType
<1>9. ASSUME NEW d \in DOMAIN net, Lose(d) \/ Repeat(d) \/ Drop(d) PROVE TypeInv'
  BY <1>9, NetworkType
<1>10. CASE UNCHANGED vars
  BY <1>10, SameLimit
     DEF vars, TypeInv, TypeOK, DatagramsOK, DriversOK, Running, Connected
<1>. QED
  BY <1>1, <1>2, <1>3, <1>4, <1>5, <1>6, <1>7, <1>8, <1>9, <1>10 DEF Next

\* The types: for any number of machines and clients, the server's list (clients[] and
\* num_clients of net/dbserver.c) has no client twice and never more than it has room
\* for, whatever is lost, repeated or started again.
THEOREM TypesHold == Spec => []TypeOK
<1>1. TypeInv => TypeOK
  BY DEF TypeInv
<1>. QED
  BY TypeInit, TypeStep, <1>1, PTL DEF Spec

\* "We don't abort the program if the game's in progress" (net/udpipx.c:341): of all that
\* can happen to a driver in a game, only its user ends it, not the farewell of the server
\* and not the end of the wait for the first reply.
THEOREM GameGoesOnHolds == Spec => GameGoesOn
<1> DEFINE Ends(c) == client[c].phase = "game" /\ client'[c].phase = "off"
           OnlyUsers == \A c \in Client : client[c].phase = "game" /\ client'[c].phase = "off" => quits' = quits + 1
<1>1. TypeInv /\ [Next]_vars => [OnlyUsers]_vars
  <2> SUFFICES ASSUME TypeInv, Next, NEW c \in Client, Ends(c) PROVE quits' = quits + 1
    BY DEF vars
  <2>1. client \in [Client -> Driver]
    BY DEF TypeInv, TypeOK
  <2>2. ASSUME NEW x \in Client, Start(x) \/ SendRegistration(x) \/ GiveUp(x) PROVE FALSE
    BY <2>1, <2>2 DEF Start, SendRegistration, GiveUp, Ended
  <2>3. ASSUME NEW x \in Client, NEW d \in DOMAIN net, CheckRegistrationReply(x, d) PROVE FALSE
    BY <2>1, <2>3 DEF CheckRegistrationReply
  <2>4. ASSUME NEW x \in Client, NEW d \in DOMAIN net, IPXGetPacket(x, d) PROVE FALSE
    <3>1. \/ client' = [client EXCEPT ![x] = Off(@.port)] /\ client[x].phase # "game"
          \/ client' = [client EXCEPT ![x].socket = d.socket]
      BY <2>4 DEF IPXGetPacket, ServerHasShutDown
    <3>. QED
      BY <2>1, <3>1 DEF Driver
  <2>5. ASSUME NEW x \in Client, IPXStartGame(x) PROVE FALSE
    BY <2>1, <2>5 DEF IPXStartGame
  <2>6. ASSUME NEW x \in Client, Send(x) PROVE FALSE
    BY <2>6 DEF Send, IPXSendPacket
  <2>7. ASSUME NEW d \in DOMAIN net, RunServer(d) \/ Lose(d) \/ Repeat(d) \/ Drop(d) PROVE FALSE
    BY <2>7 DEF RunServer, Lose, Repeat, Drop
  <2>8. ASSUME NEW x \in Client, Quit(x) PROVE quits' = quits + 1
    BY <2>8 DEF Quit
  <2>. QED
    BY <2>2, <2>3, <2>4, <2>5, <2>6, <2>7, <2>8 DEF Next, Receive
<1>. QED
  BY TypeInit, TypeStep, <1>1, PTL DEF Spec, GameGoesOn

-----------------------------------------------------------------------------
(***************************************************************************)
(* Inv.  The host's first start finds nobody connected, and from then on   *)
(* the list only grows until the server goes down.                         *)
(***************************************************************************)
\* Nothing is known to have started while the host has not.
LEMMA BeforeHost ==
  ASSUME Inv, client[Host].port = 0
  PROVE  /\ Connected = {} /\ ~server.up /\ \A c \in Client : heard[c] = {}
         /\ \A d \in DOMAIN net : d.from # Server /\ d.dest = Null
BY TypeFacts DEF Inv, Fresh, TypeInv, TypeOK, DriversOK, Running

LEMMA NetAdd ==
  ASSUME Inv, NEW S, net' = net (+) SetToBag(S)
  PROVE  DOMAIN net' = DOMAIN net \cup S
<1> DEFINE C == SetToBag(S)
<1>1. IsABag(C) /\ DOMAIN C = S
  BY SetToBagFacts
<1>. HIDE DEF C
<1>. QED
  BY <1>1, BagAddFacts DEF C, Inv, TypeInv, TypeOK

LEMMA NetTake ==
  ASSUME Inv, NEW d, net' = net (-) SetToBag({d})
  PROVE  DOMAIN net' \subseteq DOMAIN net
BY BagTakeFacts DEF Inv, TypeInv, TypeOK

LEMMA NetReplace ==
  ASSUME Inv, NEW d, NEW S, net' = (net (-) SetToBag({d})) (+) SetToBag(S)
  PROVE  DOMAIN net' \subseteq DOMAIN net \cup S
<1> DEFINE B == net (-) SetToBag({d})
           C == SetToBag(S)
<1>1. IsABag(B) /\ DOMAIN B \subseteq DOMAIN net /\ IsABag(C) /\ DOMAIN C = S
  BY BagTakeFacts, SetToBagFacts DEF Inv, TypeInv, TypeOK
<1>. HIDE DEF B, C
<1>2. DOMAIN (B (+) C) = DOMAIN B \cup DOMAIN C
  BY <1>1, BagAddFacts
<1>. QED
  BY <1>1, <1>2 DEF B, C

\* A step that changes no port and no address, connects nobody and only takes datagrams.
LEMMA QuietStep ==
  ASSUME Inv, server' = server, stale' = stale,
         \A c \in Client : /\ client'[c].port = client[c].port
                           /\ client'[c].local_addr = client[c].local_addr \/ c \notin Connected'
                           /\ heard'[c] \subseteq heard[c],
         Connected' \subseteq Connected, DOMAIN net' \subseteq DOMAIN net
  PROVE  Fresh' /\ Listed'
<1>1. \A c \in Client : PortOf(c)' = PortOf(c)
  BY DEF PortOf
<1>2. \A d : (SentOK(d) => SentOK(d)') /\ (AskedOK(d) => AskedOK(d)')
  BY DEF SentOK, AskedOK
<1>. QED
  BY <1>1, <1>2, TypeFacts
     DEF Inv, Fresh, Listed, FirstServer, ClientsListed, HeardListed, NetListed, Connected

LEMMA EndedListed ==
  ASSUME Inv, NEW c \in Client, stale' = stale, c \in Running,
         client' = [client EXCEPT ![c] = Off(@.port)], heard' = [heard EXCEPT ![c] = {}],
         server' = IF c = Host THEN [up |-> FALSE, clients |-> <<>>] ELSE server,
         c # Host => DOMAIN net' \subseteq DOMAIN net
  PROVE  Fresh' /\ Listed'
<1>1. /\ client \in [Client -> Driver] /\ heard \in [Client -> SUBSET (Address \cup {Broadcast})]
      /\ client[c].port > 0
  BY DEF Inv, TypeInv, TypeOK, DriversOK
<1>2. /\ \A x \in Client : client'[x].port = client[x].port
      /\ \A x \in Client : x # c => client'[x] = client[x] /\ heard'[x] = heard[x]
      /\ client'[c].phase = "off" /\ heard'[c] = {}
  BY <1>1 DEF Off, Unconnected
<1>3. CASE c = Host
  BY <1>1, <1>2, <1>3 DEF Fresh, Listed, FirstServer
<1>4. CASE c # Host
  BY <1>2, <1>4, QuietStep DEF Connected
<1>. QED
  BY <1>3, <1>4

LEMMA StartListed == ASSUME Inv, NEW c \in Client, Start(c) PROVE Fresh' /\ Listed'
<1> DEFINE r == Datagram(<<c, client[c].port + 1>>, Server, Null, Null, RegSocket)
<1>1. /\ client \in [Client -> Driver] /\ Host \in Client /\ heard[c] = {}
      /\ client[c].port \in Nat
  <2>1. /\ TypeInv /\ client \in [Client -> Driver] /\ client[c].phase = "off"
        /\ (c \notin Connected => heard[c] = {})
    BY DEF Inv, TypeInv, TypeOK, DriversOK, Start
  <2>2. c \notin Connected /\ client[c].port \in Nat
    BY <2>1 DEF Connected, Driver
  <2>. QED
    BY <2>1, <2>2, TypeFacts
<1>2. /\ \A x \in Client : x # c => client'[x] = client[x]
      /\ client'[c].phase = "connecting" /\ client'[c].port = client[c].port + 1
      /\ Connected' = Connected /\ heard' = heard /\ stale' = stale
  BY <1>1 DEF Start, Unconnected, Connected
<1>3. DOMAIN net' = DOMAIN net \cup {r}
  BY NetAdd DEF Start, Registration
<1>4. r.dest = Null /\ r.from # Server
  BY SpecialAddresses DEF r, Datagram, Server
<1>5. Fresh'
  BY <1>1, <1>2, <1>3, <1>4 DEF Fresh, Inv
<1>6. CASE c = Host
  <2>1. ASSUME client'[Host].port <= 1 PROVE Connected' = {} /\ \A x \in Client : heard'[x] = {}
    BY <1>1, <1>2, <1>6, <2>1, BeforeHost
  <2>2. ASSUME client'[Host].port <= 1, NEW d \in DOMAIN net' PROVE d.from # Server /\ d.dest = Null
    BY <1>1, <1>2, <1>3, <1>4, <1>6, <2>2, BeforeHost
  <2>. QED
    BY <1>5, <2>1, <2>2 DEF Listed, FirstServer, ClientsListed, HeardListed, NetListed, AskedOK
<1>7. CASE c # Host
  <2>1. server' = server /\ (FirstServer' => FirstServer)
    BY <1>1, <1>2, <1>7 DEF Start, FirstServer
  <2>2. \A x \in Client : x # c => PortOf(x)' = PortOf(x)
    BY <1>2 DEF PortOf
  <2>3. \A d \in DOMAIN net' : d \in DOMAIN net \/ (d.from # Server /\ d.dest = Null)
    BY <1>3, <1>4
  <2>4. c \notin Connected'
    BY <1>2 DEF Connected
  <2>. QED
    BY <1>1, <1>2, <1>5, <2>1, <2>2, <2>3, <2>4
       DEF Inv, Listed, ClientsListed, HeardListed, NetListed, SentOK, AskedOK, Connected
<1>. QED
  BY <1>6, <1>7

LEMMA SendRegistrationListed ==
  ASSUME Inv, NEW c \in Client, SendRegistration(c) PROVE Fresh' /\ Listed'
<1> DEFINE r == Datagram(PortOf(c), Server, Null, Null, RegSocket)
<1>1. DOMAIN net' = DOMAIN net \cup {r}
  BY NetAdd DEF SendRegistration, Registration
<1>2. r.dest = Null /\ r.from # Server
  BY SpecialAddresses DEF r, Datagram, PortOf, Server
<1>3. /\ \A x \in Client : /\ client'[x].port = client[x].port /\ client'[x].phase = client[x].phase
                           /\ client'[x].local_addr = client[x].local_addr
      /\ Host \in Client
  BY TypeFacts DEF SendRegistration, Inv, TypeInv, TypeOK, Driver
<1>4. Connected' = Connected /\ \A x \in Client : PortOf(x)' = PortOf(x)
  BY <1>3 DEF Connected, PortOf
<1>5. Fresh'
  BY <1>1, <1>2, <1>3, <1>4 DEF Fresh, Inv
<1>6. FirstServer' => FirstServer
  BY <1>3 DEF FirstServer, SendRegistration
<1>. QED
  BY <1>1, <1>2, <1>3, <1>4, <1>5, <1>6
     DEF SendRegistration, Inv, Listed, ClientsListed, HeardListed, NetListed, SentOK, AskedOK, Connected

LEMMA CheckRegistrationReplyListed ==
  ASSUME Inv, NEW c \in Client, NEW d \in DOMAIN net, CheckRegistrationReply(c, d)
  PROVE  Fresh' /\ Listed'
<1>1. DOMAIN net' \subseteq DOMAIN net
  BY NetTake DEF CheckRegistrationReply
<1>2. CASE ~IsReply(d)
  BY <1>1, <1>2, QuietStep DEF CheckRegistrationReply, Connected
<1>3. CASE IsReply(d)
  <2>1. /\ \A x \in Client : client'[x].port = client[x].port
        /\ \A x \in Client : x # c => client'[x] = client[x]
        /\ client'[c].local_addr = d.dest /\ Host \in Client
    BY <1>3, TypeFacts DEF CheckRegistrationReply, Inv, TypeInv, TypeOK, Driver
  <2>2. \A x \in Client : PortOf(x)' = PortOf(x)
    BY <2>1 DEF PortOf
  <2>3. client[Host].port # 0
    BY <1>3, BeforeHost DEF IsReply
  <2>4. ASSUME FirstServer PROVE d.dest = PortOf(c) /\ PortOf(c) \in ServerClients(server)
    BY <1>3, <2>4 DEF IsReply, CheckRegistrationReply, Inv, Listed, NetListed, SentOK
  <2>5. FirstServer' => FirstServer
    BY <2>1 DEF FirstServer, CheckRegistrationReply
  <2>6. server' = server /\ heard' = heard
    BY DEF CheckRegistrationReply
  <2>. QED
    BY <1>1, <2>1, <2>2, <2>3, <2>4, <2>5, <2>6
       DEF Inv, Fresh, Listed, ClientsListed, HeardListed, NetListed, SentOK, AskedOK, Connected
<1>. QED
  BY <1>2, <1>3

LEMMA IPXSendPacketListed ==
  ASSUME Inv, NEW c \in Client, NEW dest \in heard[c] \cup {Broadcast}, IPXSendPacket(c, dest)
  PROVE  Fresh' /\ Listed'
<1> DEFINE d == Datagram(PortOf(c), Server, client[c].local_addr, dest, Sockets(c))
<1>1. DOMAIN net' = DOMAIN net \cup {d}
  BY NetAdd DEF IPXSendPacket
<1>2. client[Host].port # 0
  BY BeforeHost DEF IPXSendPacket
<1>3. d.from # Server
  BY DEF Datagram, PortOf, Server
<1>4. ASSUME FirstServer' PROVE FirstServer /\ AskedOK(d)
  <2>1. FirstServer /\ Sockets(c) = ipxsocket[c]
    BY <1>4 DEF FirstServer, IPXSendPacket
  <2>2. Sockets(c) # RegSocket
    BY <2>1, TypeFacts DEF Inv
  <2>3. client[c].local_addr = PortOf(c) /\ PortOf(c) \in ServerClients(server)
    BY <2>1 DEF IPXSendPacket, Inv, Listed, ClientsListed
  <2>4. dest \in (ServerClients(server) \cup {Broadcast}) \ {PortOf(c)}
    BY <2>1 DEF Inv, Listed, HeardListed, PortOf, Broadcast
  <2>. QED
    BY <2>1, <2>2, <2>3, <2>4 DEF AskedOK, Datagram
<1>. QED
  BY <1>1, <1>2, <1>3, <1>4
     DEF IPXSendPacket, Inv, Fresh, Listed, ClientsListed, HeardListed, NetListed, SentOK, AskedOK,
         Connected, PortOf

LEMMA IPXGetPacketListed ==
  ASSUME Inv, NEW c \in Client, NEW d \in DOMAIN net, IPXGetPacket(c, d)
  PROVE  Fresh' /\ Listed'
<1>1. CASE ServerHasShutDown(c, d)
  <2>1. c # Host => DOMAIN net' \subseteq DOMAIN net
    BY <1>1, NetTake DEF IPXGetPacket
  <2>. QED
    BY <1>1, <2>1, EndedListed DEF IPXGetPacket, Connected, Running
<1>2. CASE ~ServerHasShutDown(c, d)
  <2>1. /\ DOMAIN net' \subseteq DOMAIN net /\ server' = server /\ stale' = stale
        /\ client' = [client EXCEPT ![c].socket = d.socket]
        /\ \/ heard' = heard
           \/ /\ heard' = [heard EXCEPT ![c] = @ \cup {d.src}]
              /\ d.from = Server /\ d.socket = ipxsocket[c]
    BY <1>2, NetTake DEF IPXGetPacket, ForUs
  <2>2. /\ \A x \in Client : /\ client'[x].port = client[x].port /\ client'[x].phase = client[x].phase
                             /\ client'[x].local_addr = client[x].local_addr
        /\ Host \in Client /\ heard \in [Client -> SUBSET (Address \cup {Broadcast})]
    BY <2>1, TypeFacts DEF Inv, TypeInv, TypeOK, Driver
  <2>3. Connected' = Connected /\ \A x \in Client : PortOf(x)' = PortOf(x)
    BY <2>2 DEF Connected, PortOf
  <2>4. client[Host].port # 0
    BY BeforeHost DEF IPXGetPacket
  <2>5. ASSUME FirstServer, d.from = Server, d.socket = ipxsocket[c]
        PROVE  d.src \in ServerClients(server) \ {PortOf(c)}
    <3>1. d.socket \notin {RegSocket, ShutdownSocket} /\ d.src # Null
      BY <2>5, TypeFacts DEF Inv, TypeInv, DatagramsOK, DatagramOK
    <3>. QED
      BY <2>5, <3>1 DEF IPXGetPacket, Inv, Listed, NetListed, SentOK
  <2>6. FirstServer' => FirstServer
    BY <2>1, <2>2 DEF FirstServer
  <2>7. HeardListed /\ FirstServer => HeardListed'
    BY <2>1, <2>2, <2>3, <2>5 DEF HeardListed
  <2>. QED
    BY <2>1, <2>2, <2>3, <2>4, <2>6, <2>7
       DEF Inv, Fresh, Listed, ClientsListed, NetListed, SentOK, AskedOK, Connected
<1>. QED
  BY <1>1, <1>2

LEMMA IPXStartGameListed == ASSUME Inv, NEW c \in Client, IPXStartGame(c) PROVE Fresh' /\ Listed'
<1>1. /\ \A x \in Client : /\ client'[x].port = client[x].port
                           /\ client'[x].local_addr = client[x].local_addr
                           /\ client'[x].phase \in {"setup", "game"} => client[x].phase \in {"setup", "game"}
      /\ DOMAIN client' = Client
  BY DEF IPXStartGame, Inv, TypeInv, TypeOK, Driver
<1>. QED
  BY <1>1, QuietStep DEF IPXStartGame, Connected

LEMMA RunServerListed == ASSUME Inv, NEW d \in DOMAIN net, RunServer(d) PROVE Fresh' /\ Listed'
<1>1. client[Host].port # 0 /\ client' = client /\ heard' = heard /\ stale' = stale
  BY BeforeHost DEF RunServer
<1>2. \A x \in Client : PortOf(x)' = PortOf(x)
  BY <1>1 DEF PortOf
<1>3. DatagramOK(d) /\ d.from \in Address /\ d.from # Server
  BY SpecialAddresses DEF RunServer, Inv, TypeInv, DatagramsOK, DatagramOK
<1>4. CASE IsRegistrationPacket(d)
  <2> DEFINE s == NewClient(server, d.from)
             sent == IF d.from \in ServerClients(s) THEN RegistrationReply(d.from) ELSE {}
  <2>1. server' = s /\ net' = (net (-) SetToBag({d})) (+) SetToBag(sent)
    BY <1>4 DEF RunServer
  <2>2. DOMAIN net' \subseteq DOMAIN net \cup sent
    BY <2>1, NetReplace
  <2>3. ServerClients(server) \subseteq ServerClients(server') /\ server'.up = server.up
    BY <1>3, <2>1, NewClientFacts DEF Inv, TypeInv, TypeOK
  <2>4. \A f \in sent : f.from = Server /\ SentOK(f)'
    BY <2>1 DEF RegistrationReply, Datagram, SentOK
  <2>5. \A f : (SentOK(f) => SentOK(f)') /\ (AskedOK(f) => AskedOK(f)')
    BY <2>3 DEF SentOK, AskedOK
  <2>6. FirstServer' => FirstServer
    BY <1>1, <2>3 DEF FirstServer
  <2>. QED
    BY <1>1, <1>2, <2>2, <2>3, <2>4, <2>5, <2>6
       DEF Inv, Fresh, Listed, ClientsListed, HeardListed, NetListed, Connected
<1>5. CASE ~IsRegistrationPacket(d)
  <2> DEFINE sent == IF MayForward(server, d) THEN ForwardPacket(server, d) ELSE {}
  <2>1. server' = server /\ net' = (net (-) SetToBag({d})) (+) SetToBag(sent)
    BY <1>5 DEF RunServer
  <2>2. DOMAIN net' \subseteq DOMAIN net \cup sent
    BY <2>1, NetReplace
  <2>3. \A f \in sent : f.from = Server
    BY <1>3 DEF ForwardPacket, DatagramOK
  <2>4. ASSUME FirstServer, NEW f \in sent PROVE SentOK(f)
    <3>1. PICK addr \in ForwardTo(server, d) : f = [d EXCEPT !.from = Server, !.to = addr]
      BY <2>4 DEF ForwardPacket
    <3>2. d.dest # Null /\ AskedOK(d)
      BY <1>3, <1>5, <2>4 DEF Inv, Listed, NetListed, IsRegistrationPacket, DatagramOK
    <3>3. addr \in ServerClients(server) \ {d.from}
      BY <3>2 DEF ForwardTo, AskedOK
    <3>4. f.to = addr /\ f.socket = d.socket /\ f.src = d.src
      BY <1>3, <3>1 DEF DatagramOK
    <3>. QED
      BY <3>2, <3>3, <3>4 DEF SentOK, AskedOK
  <2>5. FirstServer' => FirstServer
    BY <1>1, <2>1 DEF FirstServer
  <2>. QED
    BY <1>1, <1>2, <2>1, <2>2, <2>3, <2>4, <2>5
       DEF Inv, Fresh, Listed, ClientsListed, HeardListed, NetListed, SentOK, AskedOK, Connected
<1>. QED
  BY <1>4, <1>5

LEMMA NetworkListed ==
  ASSUME Inv, NEW d \in DOMAIN net, Lose(d) \/ Repeat(d) \/ Drop(d)
  PROVE  Fresh' /\ Listed'
<1>1. DOMAIN net' \subseteq DOMAIN net
  BY NetAdd, NetTake DEF Lose, Repeat, Drop
<1>. QED
  BY <1>1, QuietStep DEF Lose, Repeat, Drop, Connected

LEMMA InvInit == Init => Inv
<1> SUFFICES ASSUME Init PROVE Inv
  OBVIOUS
<1>1. Connected = {} /\ DOMAIN net = {} /\ ~server.up
  BY SetToBagFacts DEF Init, Connected, Off, Unconnected, EmptyBag
<1>. QED
  BY <1>1, TypeInit DEF Inv, Fresh, Listed, FirstServer

LEMMA InvStep == Inv /\ [Next]_vars => Inv'
<1> SUFFICES ASSUME Inv, [Next]_vars PROVE Fresh' /\ Listed'
  BY TypeStep DEF Inv
<1>1. ASSUME NEW c \in Client, Start(c) PROVE Fresh' /\ Listed'
  BY <1>1, StartListed
<1>2. ASSUME NEW c \in Client, SendRegistration(c) PROVE Fresh' /\ Listed'
  BY <1>2, SendRegistrationListed
<1>3. ASSUME NEW c \in Client, GiveUp(c) \/ Quit(c) PROVE Fresh' /\ Listed'
  BY <1>3, EndedListed DEF GiveUp, Quit, Ended, Running
<1>4. ASSUME NEW c \in Client, Receive(c) PROVE Fresh' /\ Listed'
  BY <1>4, CheckRegistrationReplyListed, IPXGetPacketListed DEF Receive
<1>5. ASSUME NEW c \in Client, Send(c) PROVE Fresh' /\ Listed'
  BY <1>5, IPXSendPacketListed DEF Send
<1>6. ASSUME NEW c \in Client, IPXStartGame(c) PROVE Fresh' /\ Listed'
  BY <1>6, IPXStartGameListed
<1>7. ASSUME NEW d \in DOMAIN net, RunServer(d) PROVE Fresh' /\ Listed'
  BY <1>7, RunServerListed
<1>8. ASSUME NEW d \in DOMAIN net, Lose(d) \/ Repeat(d) \/ Drop(d) PROVE Fresh' /\ Listed'
  BY <1>8, NetworkListed
<1>9. CASE UNCHANGED vars
  BY <1>9, QuietStep DEF vars, Connected
<1>. QED
  BY <1>1, <1>2, <1>3, <1>4, <1>5, <1>6, <1>7, <1>8, <1>9 DEF Next

\* Who believes to be connected is known to the server under the address it has told:
\* InitNetwork waits for a reply that only follows NewClient, and RunServer never takes
\* a client off its list.  Inv is needed because the belief rests on datagrams under way.
THEOREM ConnectedAreListed == Spec => []ConnectedIsListed
<1>1. Inv => ConnectedIsListed
  BY DEF Inv, Listed, FirstServer, ClientsListed, ConnectedIsListed
<1>. QED
  BY InvInit, InvStep, <1>1, PTL DEF Spec

\* A driver hears registered clients, and never itself: ForwardPacket leaves out the
\* sender of a broadcast, and nobody sends to itself because nobody hears itself.
THEOREM OnlyClientsAreHeard == Spec => []OnlyClientsHeard
<1>1. Inv => OnlyClientsHeard
  BY DEF Inv, Listed, FirstServer, HeardListed, OnlyClientsHeard
<1>. QED
  BY InvInit, InvStep, <1>1, PTL DEF Spec

-----------------------------------------------------------------------------
(***************************************************************************)
(* Games on one server.  OtherGamesIgnored fails when a packet goes out    *)
(* with the socket of the datagram received before it; that is the only    *)
(* way it fails, whatever is lost or started again.                        *)
(***************************************************************************)
OwnSocket(d) ==
  /\ \A c \in Client : \A p \in 1 .. limit.quits + 1 : d.src = <<c, p>> => d.socket = ipxsocket[c]
  /\ d.from = Server /\ d.socket = RegSocket => d.dest = d.to
  /\ d.from # Server /\ d.dest # Null => d.socket # RegSocket

GamesApart ==
  ~stale => /\ OtherGamesIgnored
            /\ \A c \in Connected : client[c].local_addr = PortOf(c)
            /\ \A d \in DOMAIN net : OwnSocket(d)

\* A step that connects nobody, and sends only with proper sockets.
LEMMA ApartStep ==
  ASSUME GamesApart, limit' = limit, stale' = stale,
         \A c \in Client : heard'[c] \subseteq heard[c],
         \A c \in Connected' : /\ c \in Connected /\ client'[c].port = client[c].port
                               /\ client'[c].local_addr = client[c].local_addr,
         \A d \in DOMAIN net' : d \in DOMAIN net \/ OwnSocket(d)
  PROVE  GamesApart'
<1>1. \A d : OwnSocket(d) => OwnSocket(d)'
  BY DEF OwnSocket
<1>2. OtherGamesIgnored => OtherGamesIgnored'
  BY DEF OtherGamesIgnored
<1>. QED
  BY <1>1, <1>2 DEF GamesApart, PortOf

LEMMA RegistrationApart ==
  ASSUME NEW addr, addr # Server PROVE OwnSocket(Datagram(addr, Server, Null, Null, RegSocket))
BY DEF OwnSocket, Datagram, Null, Server

LEMMA ShutdownApart ==
  ASSUME Inv PROVE IsABag(SendShutdown) /\ \A d \in DOMAIN SendShutdown : OwnSocket(d)
<1>1. \A addr : OwnSocket(Datagram(Server, addr, Null, addr, ShutdownSocket))
  BY DEF OwnSocket, Datagram, Null, Server, RegSocket, ShutdownSocket
<1>. QED
  BY <1>1, SendShutdownType DEF SendShutdown, Inv

LEMMA EndedApart ==
  ASSUME Inv, GamesApart, limit' = limit, stale' = stale, NEW c \in Client,
         client' = [client EXCEPT ![c] = Off(@.port)], heard' = [heard EXCEPT ![c] = {}],
         DOMAIN net' \subseteq DOMAIN net \cup DOMAIN SendShutdown
  PROVE  GamesApart'
<1>1. \A x \in Client : heard'[x] \subseteq heard[x]
  BY DEF Inv, TypeInv, TypeOK
<1>2. \A x \in Client : x # c => client'[x] = client[x]
  BY DEF Inv, TypeInv, TypeOK
<1>3. client'[c].phase = "off"
  BY DEF Inv, TypeInv, TypeOK, Off, Unconnected
<1>. QED
  BY <1>1, <1>2, <1>3, ShutdownApart, ApartStep DEF Connected

LEMMA StartApart ==
  ASSUME Inv, GamesApart, NEW c \in Client, Start(c) \/ SendRegistration(c)
  PROVE  GamesApart'
<1>1. PICK addr : addr # Server /\ net' = net (+) Registration(addr)
  BY DEF Start, SendRegistration, PortOf, Server
<1>2. DOMAIN net' \subseteq DOMAIN net \cup {Datagram(addr, Server, Null, Null, RegSocket)}
  BY <1>1, NetAdd DEF Registration
<1>3. \A x \in Client : x # c => client'[x] = client[x]
  BY DEF Start, SendRegistration, Inv, TypeInv, TypeOK
<1>4. client'[c].phase = "connecting"
  BY DEF Start, SendRegistration, Inv, TypeInv, TypeOK, Driver, Unconnected
<1>. QED
  BY <1>1, <1>2, <1>3, <1>4, RegistrationApart, ApartStep DEF Start, SendRegistration, Connected

LEMMA CheckRegistrationReplyApart ==
  ASSUME Inv, GamesApart, NEW c \in Client, NEW d \in DOMAIN net, CheckRegistrationReply(c, d)
  PROVE  GamesApart'
<1>1. DOMAIN net' \subseteq DOMAIN net
  BY NetTake DEF CheckRegistrationReply
<1>2. CASE ~IsReply(d)
  BY <1>1, <1>2, ApartStep DEF CheckRegistrationReply, Connected
<1>3. CASE IsReply(d)
  <2>1. /\ \A x \in Client : x # c => client'[x] = client[x]
        /\ client'[c].port = client[c].port /\ client'[c].local_addr = d.dest
    BY <1>3 DEF CheckRegistrationReply, Inv, TypeInv, TypeOK, Driver
  <2>2. ~stale => d.dest = PortOf(c)
    BY <1>3 DEF IsReply, CheckRegistrationReply, GamesApart, OwnSocket
  <2>3. \A f : OwnSocket(f) => OwnSocket(f)'
    BY DEF OwnSocket, CheckRegistrationReply
  <2>4. OtherGamesIgnored => OtherGamesIgnored'
    BY DEF OtherGamesIgnored, CheckRegistrationReply
  <2>. QED
    BY <1>1, <2>1, <2>2, <2>3, <2>4 DEF CheckRegistrationReply, GamesApart, PortOf, Connected
<1>. QED
  BY <1>2, <1>3

LEMMA IPXSendPacketApart ==
  ASSUME Inv, GamesApart, NEW c \in Client, NEW dest, IPXSendPacket(c, dest)
  PROVE  GamesApart'
<1> DEFINE d == Datagram(PortOf(c), Server, client[c].local_addr, dest, Sockets(c))
<1>1. DOMAIN net' = DOMAIN net \cup {d}
  BY NetAdd DEF IPXSendPacket
<1>2. ASSUME ~stale' PROVE ~stale /\ OwnSocket(d)
  <2>1. ~stale /\ Sockets(c) = ipxsocket[c]
    BY <1>2 DEF IPXSendPacket
  <2>2. Sockets(c) # RegSocket
    BY <2>1, TypeFacts DEF Inv
  <2>3. client[c].local_addr = PortOf(c)
    BY <2>1 DEF IPXSendPacket, GamesApart
  <2>4. d.src = <<c, client[c].port>> /\ d.from # Server /\ d.socket = Sockets(c)
    BY <2>3 DEF Datagram, PortOf, Server
  <2>. QED
    BY <2>1, <2>2, <2>4 DEF OwnSocket
<1>3. \A f : OwnSocket(f) => OwnSocket(f)'
  BY DEF OwnSocket, IPXSendPacket
<1>4. OtherGamesIgnored => OtherGamesIgnored'
  BY DEF OtherGamesIgnored, IPXSendPacket
<1>. QED
  BY <1>1, <1>2, <1>3, <1>4 DEF IPXSendPacket, GamesApart, PortOf, Connected

LEMMA IPXGetPacketApart ==
  ASSUME Inv, GamesApart, NEW c \in Client, NEW d \in DOMAIN net, IPXGetPacket(c, d)
  PROVE  GamesApart'
<1>1. CASE ServerHasShutDown(c, d)
  <2> DEFINE B == net (-) SetToBag({d})
  <2>1. IsABag(B) /\ DOMAIN B \subseteq DOMAIN net
    BY BagTakeFacts DEF Inv, TypeInv, TypeOK
  <2>2. net' = B \/ net' = B (+) SendShutdown
    BY <1>1 DEF IPXGetPacket
  <2>. HIDE DEF B
  <2>3. DOMAIN net' \subseteq DOMAIN net \cup DOMAIN SendShutdown
    <3>1. IsABag(SendShutdown)
      BY ShutdownApart
    <3>2. DOMAIN (B (+) SendShutdown) = DOMAIN B \cup DOMAIN SendShutdown
      BY <2>1, <3>1, BagAddFacts
    <3>. QED
      BY <2>1, <2>2, <3>2
  <2>. QED
    BY <1>1, <2>3, EndedApart DEF IPXGetPacket
<1>2. CASE ~ServerHasShutDown(c, d)
  <2>1. DOMAIN net' \subseteq DOMAIN net
    BY <1>2, NetTake DEF IPXGetPacket
  <2>2. \A x \in Client : /\ client'[x].phase = client[x].phase /\ client'[x].port = client[x].port
                          /\ client'[x].local_addr = client[x].local_addr
    <3>1. client' = [client EXCEPT ![c].socket = d.socket]
      BY <1>2 DEF IPXGetPacket
    <3>. QED
      BY <3>1 DEF Inv, TypeInv, TypeOK, Driver
  <2>3. \A f : OwnSocket(f) => OwnSocket(f)'
    BY DEF OwnSocket, IPXGetPacket
  <2>4. ASSUME OtherGamesIgnored, OwnSocket(d) PROVE OtherGamesIgnored'
    <3>1. \/ heard' = heard
          \/ d.socket = ipxsocket[c] /\ heard' = [heard EXCEPT ![c] = @ \cup {d.src}]
      BY <1>2 DEF IPXGetPacket
    <3>2. DOMAIN heard = Client /\ limit' = limit
      BY DEF Inv, TypeInv, TypeOK, IPXGetPacket
    <3>. QED
      BY <2>4, <3>1, <3>2 DEF OtherGamesIgnored, OwnSocket
  <2>. QED
    BY <2>1, <2>2, <2>3, <2>4 DEF IPXGetPacket, GamesApart, PortOf, Connected
<1>. QED
  BY <1>1, <1>2

LEMMA RunServerApart ==
  ASSUME Inv, GamesApart, NEW d \in DOMAIN net, RunServer(d)
  PROVE  GamesApart'
<1> DEFINE s == IF IsRegistrationPacket(d) THEN NewClient(server, d.from) ELSE server
           sent == IF IsRegistrationPacket(d)
                   THEN IF d.from \in ServerClients(s) THEN RegistrationReply(d.from) ELSE {}
                   ELSE IF MayForward(s, d) THEN ForwardPacket(s, d) ELSE {}
<1>1. DOMAIN net' \subseteq DOMAIN net \cup sent
  <2>1. net' = (net (-) SetToBag({d})) (+) SetToBag(sent)
    BY DEF RunServer
  <2>. HIDE DEF sent
  <2>. QED
    BY <2>1, NetReplace
<1>2. DatagramOK(d) /\ d.from # Server
  BY SpecialAddresses DEF RunServer, Inv, TypeInv, DatagramsOK, DatagramOK
<1>3. ASSUME ~stale, NEW f \in sent PROVE OwnSocket(f)
  <2>1. CASE IsRegistrationPacket(d)
    BY <1>3, <2>1 DEF RegistrationReply, OwnSocket, Datagram, Broadcast
  <2>2. CASE ~IsRegistrationPacket(d)
    <3>1. PICK addr : f = [d EXCEPT !.from = Server, !.to = addr]
      BY <1>3, <2>2 DEF ForwardPacket
    <3>2. f.src = d.src /\ f.socket = d.socket /\ f.from = Server
      BY <1>2, <3>1 DEF DatagramOK
    <3>3. OwnSocket(d) /\ d.dest # Null
      BY <1>2, <1>3, <2>2 DEF GamesApart, IsRegistrationPacket, DatagramOK
    <3>. QED
      BY <1>2, <3>2, <3>3 DEF OwnSocket
  <2>. QED
    BY <2>1, <2>2
<1>4. CASE stale
  BY <1>4 DEF GamesApart, RunServer
<1>5. CASE ~stale
  <2>1. \A f \in DOMAIN net' : f \in DOMAIN net \/ OwnSocket(f)
    BY <1>1, <1>3, <1>5
  <2>. QED
    BY <2>1, ApartStep DEF RunServer, Connected
<1>. QED
  BY <1>4, <1>5

LEMMA ApartInit == Init => GamesApart
BY SetToBagFacts
   DEF Init, GamesApart, OtherGamesIgnored, Connected, Off, Unconnected, EmptyBag

LEMMA ApartNext == Inv /\ GamesApart /\ [Next]_vars => GamesApart'
<1> SUFFICES ASSUME Inv, GamesApart, [Next]_vars PROVE GamesApart'
  OBVIOUS
<1>1. ASSUME NEW c \in Client, Start(c) \/ SendRegistration(c) PROVE GamesApart'
  BY <1>1, StartApart
<1>2. ASSUME NEW c \in Client, GiveUp(c) \/ Quit(c) PROVE GamesApart'
  <2>1. Ended(c) /\ limit' = limit /\ stale' = stale
    BY <1>2 DEF GiveUp, Quit
  <2>2. DOMAIN net' \subseteq DOMAIN net \cup DOMAIN SendShutdown
    BY <2>1, ShutdownApart, BagAddFacts DEF Ended, Inv, TypeInv, TypeOK
  <2>. QED
    BY <2>1, <2>2, EndedApart DEF Ended
<1>3. ASSUME NEW c \in Client, Receive(c) PROVE GamesApart'
  BY <1>3, CheckRegistrationReplyApart, IPXGetPacketApart DEF Receive
<1>4. ASSUME NEW c \in Client, Send(c) PROVE GamesApart'
  BY <1>4, IPXSendPacketApart DEF Send
<1>5. ASSUME NEW c \in Client, IPXStartGame(c) PROVE GamesApart'
  <2>1. \A x \in Client : /\ client'[x].port = client[x].port
                          /\ client'[x].local_addr = client[x].local_addr
                          /\ client'[x].phase \in {"setup", "game"} => client[x].phase \in {"setup", "game"}
    BY <1>5 DEF IPXStartGame, Inv, TypeInv, TypeOK, Driver
  <2>. QED
    BY <1>5, <2>1, ApartStep DEF IPXStartGame, Connected
<1>6. ASSUME NEW d \in DOMAIN net, RunServer(d) PROVE GamesApart'
  BY <1>6, RunServerApart
<1>7. ASSUME NEW d \in DOMAIN net, Lose(d) \/ Repeat(d) \/ Drop(d) PROVE GamesApart'
  <2>1. DOMAIN net' \subseteq DOMAIN net
    BY <1>7, NetAdd, NetTake DEF Lose, Repeat, Drop
  <2>. QED
    BY <1>7, <2>1, ApartStep DEF Lose, Repeat, Drop, Connected
<1>8. CASE UNCHANGED vars
  BY <1>8, ApartStep DEF vars, Connected
<1>. QED
  BY <1>1, <1>2, <1>3, <1>4, <1>5, <1>6, <1>7, <1>8 DEF Next

\* "If there are other games in progress on the server, we definitely want to ignore them"
\* (net/udpipx.c:332): as long as no packet has gone out with the socket of the datagram
\* received before it, every driver returns packets of its own game only, even after the
\* server was started again with an empty list.
THEOREM OnlyStaleSocketsMixGames == Spec => [](~stale => OtherGamesIgnored)
<1>1. GamesApart => (~stale => OtherGamesIgnored)
  BY DEF GamesApart
<1>. QED
  BY InvInit, InvStep, ApartInit, ApartNext, <1>1, PTL DEF Spec
=============================================================================
