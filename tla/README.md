# Vanilla Utilities: specifications and proofs

TLA+ models of the network drivers of the Vanilla Utilities (`src/`), the TLC
runs that check them and the TLAPS proofs about them. `PROJECT.json` lists the
components, the runs, the mutants that show that each property can fail, the
source lines behind each definition, the hazards and the findings.

## 1. The system

A Doom *network driver* is a DOS program that hooks a software interrupt, starts
the game as a child process and is called back by it: `CMD_SEND` hands over a
packet for a node, `CMD_GET` asks for one (`net/doomnet.c`). The driver finds the
other players before the game starts, decides who is which player, and moves
packets of at most 512 bytes; Doom itself checks and retransmits. The drivers
differ in what is below: a serial line, an infrared port, a parallel port, IPX,
UDP, or other drivers. They are driven from three sides: the main program
(discovery, before the game), the game's calls (an `INT` instruction, so with
interrupts off), and hardware interrupts.

| Component | State it keeps | Operations | Interacts with | What makes it hard, and what makes it correct |
| --- | --- | --- | --- | --- |
| Packet aggregation (`net/pktaggr.c`) | one held-back packet and how many nodes it is for | send to a node, flush | called by METANET and SIRSETUP, calls their send function | order between held-back and direct packets; every destination gets what was sent to it, in order, and nothing stays held back |
| Infrared driver, arbitration (`net/sirsetup.c:468-695`) | node table with IDs, what each has found and wants, player numbers asked for | broadcast once a second, process setup packets, last packet and flush | the other machines, all over one medium, two that transmit at once lose both packets; then token passing | no acknowledgement of the last packet, flags adjusted in whatever order packets come; all found at launch, different numbers, the same settings |
| Infrared driver, token passing (`net/sirsetup.c`) | ring of packets out, ring in, transmit offset, token state, timer | driver calls, serial receive and transmit handlers, timeout | `serport.c` above the UART; other nodes over one shared half-duplex medium | a token lost or duplicated, a receiver that stops when full, a queue that drops a packet being sent; one transmitter, order, nothing with tics displaced, queues drain |
| UART driver (`net/serport.c`) | transmit buffer, `transmitting`, `receiving` | interrupt handler, JumpStart, ResumeReceive | calls SerialByteReceived / SerialMoreTXData of the driver above | flags shared by interrupt and main code; transmission and reception must always be restarted by somebody |
| Serial driver (`net/sersetup.c`) | byte rings, decoder state, modem dialogue | driver calls, framing, modem commands, event loop | `serport.c`, `serarb.c`, the modem | rings that overflow in the middle of a frame; framing transparent to contents, and in step again after a loss |
| Serial arbitration (`net/serarb.c`) | own ID, stage, protocol, time of last send | start, poll | through the driver's own calls, the other player | no acknowledgement of the last packet, stale retransmissions, an older peer; different player numbers, both launch |
| Network of networks (`net/metanet.c`) | table of nodes with source routes and status | discovery, receive/forward, game send, launch, quit | several drivers below, one per network; other machines | each machine learns the topology piecewise and in any order; routes true, tables complete, players agree, nobody left behind |
| Parallel driver (`net/parport.c`, `parsetup.c`, `plio.asm`) | ring of receive buffers | send, interrupt handler, NextPacket | the port, `serarb.c` | two that send at once do not hear each other, a full ring overwrites its last buffer; what is not overwritten arrives whole, once, in order |
| IPX setup (`net/ipxsetup.c`) | node table, setup data of every node | discovery by broadcast, driver calls | `ipxnet.c` or `udpipx.c` | nodes leave discovery at different times, player numbers wanted by several |
| IPX and UDP transports (`net/ipxnet.c`, `net/udpipx.c`) | packet pool; connection to the server | send, get, release; connect | IPX stack, DOS sockets | packets of discovery and game told apart by time; oldest packet first; server goes away |
| UDP server (`net/dbserver.c`) | list of client addresses | register, forward, shut down | UDP clients | lost registration, a client twice, the list full |
| Solo driver (`net/solo-net.c`), pass-through (`net/passthru.c`) | packet queue of the imaginary players | driver calls | the game | answers in step with the game |
| Game adapters (`adapters/`) | reassembly buffers, node map | fragment and reassemble, discover players | a Doom driver below, a COMMIT or ROTTCOM game above | fragments of several messages interleaved; players that start late |
| Control drivers (`ctrl/`) | demo position, calibration | one command per tic | the game's control interrupt | range arithmetic |
| Statistics driver (`stat/`) | captured levels | capture, report | the game | game mode discovered from partial evidence, capture limit |
| Interrupt hooks (`lib/ints.c`) | old vectors, chain flags, PIC mask | hook, restore | all drivers; several programs share an IRQ | restoring out of order, one EOI per interrupt |
| Command lines (`lib/flag.c`), library, sockets, build, tests | - | parsing, logging, I/O | - | not about state over time |

The hazards of each component, with the line where each bites, are listed in
`PROJECT.json`.

## 2. Modules

| Module | Models |
| --- | --- |
| `PktOrder` | what packet aggregation promises: each destination receives what was sent to it, in order |
| `PktAggr` | `net/pktaggr.c`, implements `PktOrder` |
| `PktAggrProof` | proofs about `PktAggr` |
| `SirSetup` | `net/sirsetup.c` in game, with what it uses of `net/serport.c` and `net/pktaggr.c` |
| `SirSetupProof` | proofs about `SirSetup` |
| `SirArb` | `net/sirsetup.c` before the game |
| `SirStart` | composes `SirArb` with `SirSetup`: the infrared driver from its start |
| `SirStartProof` | proofs about `SirStart`, that is about the arbitration of `SirArb` |
| `SerArb` | `net/serarb.c` between two players |
| `SerModem` | the modem dialogue and event loop of `net/sersetup.c`, on top of `SerArb` |
| `SerLine` | `net/sersetup.c` in game with `net/serport.c`, one direction |
| `ParPort` | the parallel driver in game: `net/parport.c`, `parsetup.c`, `plio.asm` |
| `SerDriver` | composes `SerModem` with `SerLine` or `ParPort`: the serial and parallel drivers from their start |
| `SerDriverProof` | proofs about `SerDriver`, that is about `SerArb`, `SerModem`, `SerLine` and `ParPort` |
| `Metanet` | `net/metanet.c` on several machines |
| `MetanetProof` | proofs about `Metanet` |
| `IpxSetup` | `net/ipxsetup.c` on `net/ipxnet.c`, several machines |
| `IpxSetupProof` | proofs about `IpxSetup` |
| `UdpNet` | `net/udpipx.c` and `net/dbserver.c`, several machines and the server of one |
| `UdpNetProof` | proofs about `UdpNet` |
| `Adapter` | `adapters/nodemap.c`, `fragment.c` and the calls of `vcommit.c` and `vrottcom.c` |
| `AdapterProof` | proofs about `Adapter` |
| `MC*` | constants of the runs |

Conventions. A driver's call and an interrupt handler are one step each, because
interrupts are off in both: the game calls by `INT`, which clears IF, and nothing
sets it again before the return (`net/doomnet.c:42-47`). A polling loop before the
game is a step per packet or per second. An operator that ends in `(t)`, `(r)` or
`(tbl)`, or has such a parameter, gives the state after a C function that changes
it. Variables named *history* are not in the program. `Mutant:` marks a variant of
the next definition with a plausible bug; no specification uses it.

A record of bounds (`setup`, `scenario`, `limit`) is a variable that never changes
and is chosen by Init: a run then covers several small instances, each with the
one thing that it is about (a loss, a restart, a burst of packets), where one
instance with all of them would be too large.

The two compositions have a step `Begin`, from arbitration to the game. It needs
that all machines have launched and resets the variables of arbitration, which
nothing reads any more, so that the states of the two parts are added up and not
multiplied. The parts share what arbitration has decided: `SirStart` needs that
the player numbers given are those that the token passes around by.

### Packet aggregation: `PktAggr`

`pending_buffer` and `pending_count` are the C variables. `SendToNode` and
`SendToOther` are AggregatedSendPacket with a destination that is, or is not, a
node of the game; the first (through the operator `SendInSequence`) sends on,
holds back or completes a sequence
(`ContinuesSequence`, `Hold`, `PassThrough`). `Get` is the flush at the start of a
driver's GetPacket. A broadcast is given to all destinations. Contents are
model values; `Oversize` are those longer than the buffer.

### Infrared driver: `SirArb`, `SirSetup`, `SirStart`

`SirArb`: `station[s]` is a driver before the game: `nodes` is `node_data` (the own
node first), `out` the packets it has sent and that are not transmitted, `in` those
that have come. A station ID is a random number of which only the order matters.
`Announce`, `Listen`, `LastAnnounce` and `LaunchDoom` are LookForNodes: once a
second a setup packet, a packet taken, the last packet when AllNodesReady, and
FlushArbitrationPackets with what follows in main. Every other machine hears a
packet as it is transmitted (`Transmit`) except those that lose it, which also
stands for two that transmit at once. `ProcessSetupPacket` adjusts -nodes and -dup
and ends the program when two want the same player number. For the machines in
`wrapped` the end of the flush, a 16-bit number, has wrapped, and nothing is waited
for.

`SirSetup`: `node[n]` is the state of a driver: `outque` and `inque` from tail to
head, `begun` (the header and data of the first packet have been taken by the
interrupt), the bytes of the packet being received (`partial`: none, a packet's,
or something no checksum matches), the token `state`, whether the timer has
`expired`, the transmit buffer `tx`, and the UART. The medium carries two kinds
of symbol, the data of a packet and the mark that ends it (end, or handoff to a
player). A symbol is heard by all others in the step that sends it; a subset may
lose it. Steps: `CmdSend`, `CmdGet` (the driver's calls), `TxISR` (the UART has
sent its buffer; receivers hear it) and `Expire` (time passes). `CmdSend` contains
the whole of SendPacket: which packet is displaced, the timeout check and the
start of transmission.

Packets have three lengths: empty (a handoff with nothing to send), without tics
(the game sends these without end while it waits), and with tics.

### Serial and parallel drivers: `SerArb`, `SerModem`, `SerLine`, `ParPort`, `SerDriver`

`SerArb`: one `Poll` is one call of PollArbitratePlayers with any number of the
packets that are on their way having arrived. A player may run an original
SERSETUP, modelled from the comment in `net/serarb.c:79-86` and the protocol that
the code accepts. Equal IDs are Error(), which ends the program.

`SerModem`: Dial and Answer as the chain of responses that the event loop waits for
(`expected`): OK, then CONNECT for the one that dials, RING and then CONNECT for the
one that answers. `PollModemResponse` reads the lines of the modem up to the one
that is expected and throws the others away. With -bg the game is launched at the
OK, and its calls run the loop. An original SERSETUP is modelled on a direct line only.
The modems and the telephone line are external: a
modem does a command and answers, rings again and again, and may give up.

`SerLine`: bytes. A packet is framed (FRAMECHAR doubled, then FRAMECHAR and 0), goes
through `outque`, `serial_tx_buffer`, one byte in the sending UART, one in the
receiving one, and `inque`. `ReadByte` is an iteration of the loop of ReadPacket, `Read`
the state of the decoder after each of some bytes; `ReadPacket` reads up to the first end
of a packet, or all there is. `Packets` are the packets that a reader in some state will
make of some bytes; `Underway` are the bytes that have been queued and not been read, and
`OnItsWay` what they will make. These three serve the properties.
`Arrive` is the receive interrupt,
or, when that is disabled, the overrun of the UART. The UART is an 8250; the
16550's FIFO only moves bytes in larger steps.

`ParPort`: `port[p]` has the ring of `rx_buffers` with its head and tail, the packet
that a CMD_SEND is sending and whether an interrupt is pending. In the code a transfer
is a handshake for each nibble; both machines do nothing else meanwhile, so it is the
one step `ReceiveISR`, which takes the packet, or `FailingISR` (wrong checksum,
timeout), after which the buffer's contents are garbage and its length is what it was.
`WriteTimeout` needs the other side to be in CMD_SEND as well, with interrupts off,
because otherwise its handler answers at once. An interrupt that is handled when the
other side no longer asks is `SpuriousISR`.

### Network of networks: `Metanet`

A machine is a sequence of drivers (`Neighbor`), a hop is a driver and a node of
it, and a packet's source and destination are sequences of hops. `GetPacket` is
one iteration of the code's loop: forward what is not for us (`GetAndForward`),
then handle it. `Launch` is what follows discovery in `main`: RearrangeNodes and
AssignPlayerNumbers. The drivers below are external: in order, lossy. `origin` is
history: who really sent a packet.

### IPX: `IpxSetup`

`machine[m]` is a driver: `phase`, the table `nodes` (`nodeaddr` and `nodesetup`
together, the own node first), `doomnet_dup`, `consoleplayer`, the time stamp
`localtime` (-1 during setup) and `pool`, the listening ECBs. A packet arrives in any
ECB that listens and is taken by time stamp (`IPXGetPacket`); what finds no ECB is
missed. `Listen`, `Broadcast` and `Launch` are LookForNodes; `CmdSend` and `CmdGet`
NetCallback in the game; `Abort` is CheckAbort, after which the user may `Start`
again. A machine may run the original IPXSETUP, whose packets lack -player and -dup.

### UDP: `UdpNet`

`client[c]` is a driver, with `local_addr` and the `socket` that is in its only packet
buffer; `server` is the list of the server, which runs inside the calls of its host's
driver; `net` is a bag of datagrams, so that they come in any order. `Start`,
`SendRegistration`, `GiveUp` and `CheckRegistrationReply` are Connect; `RunServer` is
one datagram in the server's loop; `IPXSendPacket` and `IPXGetPacket` are what
`net/ipxsetup.c` calls, of which the model only keeps that it broadcasts in setup and
sends to those it has heard in the game. A driver that is started again has another
port, so that the server sees another client.

### Adapters: `Adapter`

`player[p]` is an adapter: the maps between nodes and players, the reassembly
buffers and the sequence number. Each player's driver numbers the nodes in its own
way (`peer`). `DiscoverPlayers` and `SendDiscover` are its loop, after which the game's
calls are `CmdSend` (to one, to all others, to all, in one or more fragments) and
`CmdGet` (one packet of the loop of FragmentGetPacket, which answers late
discover packets first). A discover packet that is no request is read as a
fragment, as in the code, with the values of its bytes (`MagicSeq` and so on; the
sequence number, 86 of 256 in the code, is 1 of 3 in the run, so that it is in use).
`NothingLost` speaks of a player all of whose messages were sent `InTime`, when its
game ran. Otherwise DiscoverPlayers may have thrown the first half of a message away;
the second then keeps a buffer that another's message needs.

## 3. Runs

| Run | Bounds | Shows |
| --- | --- | --- |
| `pktaggr` | 4 nodes, 3 contents of which one too long, 3 sends per node | order (also as refinement of `PktOrder`), nothing lost, repeated or held back |
| `sir_pair` | 2 players, rings of 3, a flooding game, 2 tic packets each, a lost symbol, a takeover | rings never overrun, one transmitter until the timeout makes a second token, tics in order and at most once, a flood displaces no tics |
| `sir_start` | a pair that loses a packet, one whose flush time is wrapped, a pair with the same -player, three machines with different -nodes, -player and -dup; the first pair goes on to the game, with rings of 3 and endless sends without tics | all found at launch, numbers and settings agree, all launch, every output queue drains again and again |
| `serial` | modems or a direct line, -bg or not, all -player flags, random IDs 0 and 7, an older peer, 3 packets under way, one lost; then 3 packets of 1-2 bytes with FRAMECHARs, ring of 8, transmit buffer of 2, a byte lost; or 6 packets against 2 over parallel ports with 4 buffers, one transfer failing | both connect, with different player numbers and those launched with; framing is transparent; a loss or overflow garbles at most two packets; what is queued goes out; a full ring of parallel buffers loses only what it overwrites |
| `metanet` | chain player - forwarder - player, a lost packet or a packet of a game | routes, tables, player numbers, game nodes, all machines launch |
| `ipx` | 2 ECBs; three machines with flags; pairs with all flags and an original IPXSETUP, with a packet lost; a pair that a user aborts and starts again; a pair that plays, 3 packets each | joint launch, different numbers, the same -dup, packets in the order of their time stamps, all launch |
| `udp` | 2 drivers, one with the server, 2 registrations each; a datagram lost or repeated with 2 under way, or a driver ended and started again | who is connected is listed, only clients are heard, a game outlives the server, all hear each other |
| `adapters` | 3 players, 2 buffers, 3 sequence numbers, 2 fragments; five limits (below) | discovery ends, messages are whole, in order, and all arrive when nothing is lost |
| `serline_stuck` | `SerLine` as in `serial`, nothing lost | *violation*: reception stops for good |
| `meta_forwarders` | chain player - forwarder - forwarder - player, a lost packet | *violation*: a forwarder among the game's nodes |
| `meta_quit` | chain | *violation*: nodes marked as having quit that have not |
| `udp_games` | `udp` with the drivers in different games | *violation*: a packet of another game is taken for one of the own |

Why the bounds are enough. `pktaggr`: three sends per node give every order of a
sequence broken off, resumed and completed. The rings of three slots hold two
packets: full, with the first being sent, is where SendPacket displaces one. One
loss exercises each place where a loss matters, the driver's state being the same
again after it. In `serial` a frame is three to five bytes, so the eight-byte
ring meets both thresholds, QUESIZE - 1 (refuse) and QUESIZE - 4 (throw out), in
the middle of a frame and of an escape; arbitration has three packets under way, so
that two stale ones precede a new one; six packets fill the four parallel buffers
and overwrite the last one twice. `metanet` has a route with an intermediate
hop; two such hops are in `meta_forwarders`, whose full state space is too large
for a passing run. `ipx`: with one broadcast of each machine waiting at another a
packet can already be older than what its sender knows now; two ECBs are filled by
two packets, in either order, and the third is missed. Three machines are the least
where two know each other and not the third. `sir_start` needs three machines for
the same reason, and three values of -dup for what is adjusted twice. `udp`: a
client, the client on the server's host and the server are all roles that there
are; two registrations make a late reply meet a connected driver. `adapters`: with
three players two of them send to the third, and with two buffers the second message
of one takes a buffer over. Its five limits are: discovery from nothing with a loss;
the end of discovery with a message of two players each and a loss; bursts of two
messages and one; two messages with a loss; as many messages as there are sequence
numbers.

Bounds that are not of the system only delay a send (`backlog`, `flight`, `channel`,
`MaxLink`) or end the behaviour (`MaxSends`, `messages`, `sends`); the runs that have
the latter do not check for deadlock. `SirPair` and `PktAggr` do.

### Fairness

`SirSetup`: every node's UART finishes what it sends (`Interrupt`), time passes
(`Expire`), every game keeps calling CMD_GET and player 0's keeps calling CMD_SEND
with a packet, which Doom does several times per tic while it waits for others.
Nothing is assumed of what the other games send. `Paced` adds that a game is slower
than the line: while its node transmits its queue nothing is added to it,
otherwise the last packet, which carries the handoff, never comes.

`SirArb` in `SirStart`: users start the driver, its loop takes what has come, seconds
pass, and what is sent goes out. The loop finds its queue empty again and again,
because it runs much faster than once a second. Strong fairness where the step needs
an empty queue, which packets keep filling. `Continued` names the setups that are
followed to the end.

`SerDriver`: modems obey and ring, both drivers run, their loops or games poll,
seconds pass for each (strong fairness only because the bound on packets under way
may disable the step now and then). In the game the UART transmits and raises its
interrupts, bytes arrive, the game polls. Nothing is assumed of parallel ports.

`Metanet`: some machine makes a step of its loop or a second passes, and a machine
that may launch does. `IpxSetup`: as `SirArb`. `UdpNet`: drivers are started, poll,
and send; strong fairness because of the bound on datagrams under way. `Adapter`: the
loops run, seconds pass, games poll.

A step that may lose something, a user who ends a driver and a call that fails are
never fair.

## 4. Findings

 1. `net/sersetup.c:230`: ReadPacket throws a full input queue away without
    ResumeReceive; if the receive interrupt had been disabled it stays so.
    (`serline_stuck`)
 2. `net/metanet.c:650`: RearrangeNodes does not re-examine the node it swaps in;
    with two forwarders one can stay among the game's nodes. (`meta_forwarders`)
 3. `net/metanet.c:450`: NodeQuit compares a field with itself; a quit of a
    neighbor marks every node as having quit. (`meta_quit`)
 4. `net/udpipx.c:308`: packets are received into the buffer that is sent from, and
    the sockets in it are not set again; after a packet of another game was ignored
    the driver's own packets go out as that game's. (`udp_games`)

Behaviour that no document excludes, kept in the models:

- The timeout of player 0 of the infrared driver makes a second token although
  nothing was lost, when the other node is slow; hence `OneTransmitterUntilTimeout`.
- Discovery ends without an acknowledgement: the last packet of a machine is not
  repeated, and its loss leaves the others waiting (`lastlost` in `SerArb`, `SirArb`
  and `IpxSetup`). FlushArbitrationPackets of the infrared driver computes its end in
  an `int`; when that wraps it does not wait, and the last packet may not go out. A
  machine of the infrared driver that is started again has another station ID, and
  the others never have as many as they want.
- With more than two values of -dup, machines of the infrared driver may disagree on
  it: a packet's value is compared with the own flag, and the last that is greater
  wins (`Adjusted`, which is why `GamesAgree` speaks of two).
- A broadcast forwarded by METANET is always a data packet, also when it was a quit
  (`SendBroadcast`).
- CheckLateDiscover does not recognize a reply (`adapters/nodemap.c:77-79`), which is
  then put into a reassembly buffer and can displace a message (`stray` in `Adapter`).
  With sequence numbers used again, what is left of an old message can be taken for a
  part of a new one.
- There are 8 reassembly buffers and up to 16 nodes. Each of the others can have begun a
  message, so beyond 9 nodes a buffer can be taken over although nothing is lost; with
  one buffer fewer than other nodes TLC finds `NothingLost` violated.
- A broadcast that carries the registration socket, left in the buffer by a late
  reply, can be taken for a registration reply (`stale` in `UdpNet`).

## 5. Proofs

All theorems are about the specifications that the runs check, for every value of
the constants that the named assumptions of the modules allow. Most invariants that
a run checks are not inductive; each proof module begins with the one that is, gives
a lemma per C function (what it keeps of a driver's record, or adds to it) and then a
step per action. TLC finds each of them true on the instance of the run, too (for
`ArriveInv` with a finite range of `c`, for `Expect` with a few `w`).

`PktAggrProof`, for any number of nodes and any contents: `AggregationTypes`,
`AggregationSafe` (`NothingLostOrRepeated`, with the types and `HeldIsIncomplete`)
and `AggregationRefines` (every behaviour implements `PktOrder`). The invariant
relates the three places a packet can be in: for a node up to `pending_count`
what was sent is what went out and the held-back packet; for the others it is
what went out. It is inductive because only `ContinuesSequence` extends the
held-back sequence.

`SirSetupProof`, for any number of players, any ring size, any losses:

- `SirTypeCorrect`: types, and no ring holds more than QUEUE_LEN - 1 packets. One
  lemma per operator states that it keeps a node's type (`...Kept`).
- `OneToken`: `OneTransmitterUntilTimeout`. This is not inductive: it says
  nothing of the handoff that is under way. `TokenInv` counts the places where
  the token can be, a node in state TRANSMIT or a handoff in a transmit buffer
  or kept by a UART, and says that there is at most one until the timer makes
  another; a node's transmitter runs only if the token is there.
- `TicsStayInOrder`: `TicsInOrder`. A tic goes through a queue, a transmitter, a
  partly received packet, a UART that holds its byte back and a ring before a game gets
  it. `TicsLine` says that along these places tics get older, at every receiver.
- `FloodSpares`: the action property `TicsSurviveFlood`, that CMD_SEND without tics
  displaces none from a full queue; from the types only, by cases of what is displaced.

`SirStartProof`, for any number of machines with any flags, any losses: `AllFound`
and `PlayersAgree`. A setup packet may be old, so the invariant `ArbInv` speaks of
packets that wait to go out or to be read as of entries in a table: whatever says of
a machine that it has found as many as it wants, that machine is `Complete`, and
completeness is kept. A machine that leaves has all of these from all the others, hence
they are complete too, and stay so. The player numbers differ because
AssignPlayerNumbers ranks the same machines by the same flags on each of them. Assumed
(`NodesAssumption`): the users together know how many machines there are: no -nodes
is more, and any fewer machines have one among them that wants more. Without it the
code launches a game of a part of the machines.

`IpxSetupProof`, for any scenarios (machines, flags, ECBs, losses, aborts):

- `TypesHold`: a table has nobody twice.
- `PlayersDifferHolds`, `DupsAgreeHolds`: `Inv` says that a table's flags are those of
  the machines in it, that no other machine that is known asks for the number that one asks
  for itself, and that `doomnet_dup` is at least every -dup in the table. When
  all are found the table has all machines, since it has no one twice and there are as many.
- `LaunchesTogetherHolds`: `Together` says, of tables and of packets that wait, that
  who tells that it has found all has done so, and does not forget it, unless aborted.
- `InOrderHolds`: `Ordered`. A game's packets in a pool have different times, all later
  than those it has got; so taking the lowest time is in order whichever ECBs they are in.

`UdpNetProof`, for any number of clients and games, any faults and restarts:

- `TypesHold`: the list has no one twice and no more than MAXNETNODES.
- `ConnectedAreListed`, `OnlyClientsAreHeard`: a reply tells a driver an address, so
  `Listed` says of each datagram under way, whether the server or a client has sent
  it, what addresses it may name. Both properties except a server that was started
  again and a registration socket left in the buffer (section 4); without these
  exceptions they are false.
- `GameGoesOnHolds`: an action property.
- `OnlyStaleSocketsMixGames`: finding 4 is the only way in which games mix. If no
  packet has gone out with the socket of the datagram before it, each game hears its own
  machines only, also after the server was started again.

`AdapterProof`, for any number of players that number each other in any way, any number
of buffers, fragments and sequence numbers:

- `TypesHold`: who is known as a node is who it is, although answers come late.
- `MessagesWholeInOrder`: `EndsInv` is about the line from each to each. What a buffer
  holds was sent before anything on the line, and while a sequence number is not used again
  it is of one message only; so a message is whole just when its last fragment comes
  with all before it in the buffer, and what was got is older than what is on the line.
- `AllMessagesArrive`: `NothingLost`, if there are as many buffers as other nodes (needed,
  section 4). `ArriveInv` says of each message that it was got, that all of
  it is on the line, or that a buffer has the first part and the line the rest, and
  that a buffer has nothing else. So a node uses one buffer at a time, and some
  buffer is free or the node's own when a message begins. Sequence numbers may be used
  again here. The run's limits have messages or discovery; the theorem has both.

`MetanetProof`, for any machines on any networks, any lengths of tables and addresses,
any packets lost and any packets of games under way:

- `TypesHold`, `RoutesHold` (`SourceLeadsBack`, `TableIsTrue`): `True` says of a packet that
  its source leads back to where it is from and its content was true there, and of an
  entry that its address is a route, at whose end is a machine like the entry says. A
  hop forward and a hop back (`ForwardPacket` moves a hop from the destination to the
  source) keep the route: the lemmas about paths.
- `RoutesAreTrueHolds`: a table has no route back to its own machine. It assumes
  `NoLoops`: in a ring of forwarders a machine is told of itself.
- `LaunchesCompleteHolds`, `PlayersAgreeHolds`: `Ready` says that a table is `Closed` (who
  has been heard of, its neighbors are in the table, or that is full) and, when the
  machine is ready, `Settled`: all heard of and no machine twice, since otherwise the
  program ends with an error. So the table has what can be reached. Assumed:
  `Connected` (routes as long as addresses may be reach everyone) and that tables have
  room for all machines. Both are what the program needs; loops are allowed here. Players
  then rank the same machines by the same numbers.
- `NodesArePlayersHolds`: assumes one forwarder at most; with two it is false (finding 2).

`SerDriverProof`, for any random IDs, flags, modems that give up, buffer sizes, packets and
losses, and queues that hold a packet of FRAMECHARs with its frame (`SizesAssumption`; the
code's hold two):

- `LaunchesAsAgreedHolds`: players 0 and 1, and those that the games were launched with. A
  stage says what the other side has heard, so `ArbInv` says of a player and of each packet
  on its way that what their stage promises of the other side is so; `LaunchOK` which player
  a game was launched as by -bg, before arbitration, and that this is forced by the ID.
- `OnlyLastOverwrittenHolds`: `ParOK`. What a game has got, what waits in the ring, and
  the buffer after the ring that the interrupt has just filled are in order; all buffers
  beyond are empty (`Clean`), so an interrupt that is not for a packet leaves nothing
  that was taken before.
- `IntactHolds`: `LineInv`. While nothing is lost what the game has got and what its reader
  will make of all bytes under way is what was sent, and these bytes end with a packet.
  Lemma `FrameRead` is that framing is transparent: from the start of a packet a frame
  makes just the packet it was made of, whatever that contains. Where the bytes are cut
  by interrupts or by an empty queue makes no difference (`PacketsOn`, that a reader reads
  a part and then the rest), and a step that moves bytes moves the same ones.
- `ResyncHolds`: `Resync`, that each time bytes are lost at most two packets of those got
  are none of those sent, in order. `Expect` says so of whatever bytes will follow, which is
  what makes it inductive. A loss leaves the reader in a state other than the one it would
  be in; `ReadersAgree` shows that of the same bytes two readers in any states make the
  same packets after at most two each: at the first byte that is no FRAMECHAR they come
  to agree on what is escaped, for which one may end a packet, and at the next end of a
  packet they are in the same state.
- `DriverTypesHold`: the types of all four; no queue or ring exceeds its buffer.

With these, every invariant that a passing run checks is stated by a theorem. What a function
over a sequence gives (the packets of a reader, the end of a path, what a poll leaves) is
shown by induction up to a number (`UpTo`): the set of the numbers for which it holds, of
which the least that is missing would have a predecessor. The recursion theorems of the
library take an operator, so that each recursive function is first shown to be what it is
defined to be in the same way (`StopsDef` and the like).

What is not proved, and why:

- Liveness (`AllLaunch`, `QueuesDrain`, `AllDiscover`, `ModemsConnect`, `QueueGoesOut` and the
  others) needs fairness and ENABLED, which the prover does not know. It is
  model-checked only.
- The four runs of section 4 refute a property on an instance; there is nothing to prove.

## 6. Not modelled, and the plan

Every invariant of a passing run is proved; what is left to prove are properties not
stated yet, of parts that are not modelled.

Parts that could be modelled next: the byte framing of the infrared driver (a
FRAMECHAR in the last slot of the transmit buffer), the races of JumpStart and
ResumeReceive outside the game with interrupts on, chained interrupts
(`lib/ints.c`), the solo driver, game mode discovery and capture (`stat/`), axis
adjustment (`ctrl/analogjs.c`), argument reordering (`lib/flag.c`).

Left out for good: binary socket interfaces (`net/dossock.c`, `ws2patch.c`,
`llcall.asm`), assembly I/O loops (`plio.asm`), logging, printing, build scripts,
and the parsing of flags as text: they are I/O or wording. Torn 32-bit queue indices
on a 16-bit processor depend on the compiler's word order and are not modelled.
