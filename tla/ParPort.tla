------------------------------ MODULE ParPort ------------------------------
(***************************************************************************)
(* The parallel port driver in game (net/parsetup.c, parport.c, plio.asm); *)
(* before, it arbitrates with SerArb.  A machine asks for the other's      *)
(* attention by an interrupt and waits until it is ready; the interrupt    *)
(* handler then takes the whole packet into a ring of buffers, from which  *)
(* the game's calls take it.                                               *)
(*                                                                         *)
(* Interrupts are off in the game's calls: two that send at once do not    *)
(* hear each other, and time out.  A transfer is one step, as both         *)
(* machines do nothing else meanwhile.                                     *)
(***************************************************************************)
EXTENDS SerArb, SequencesExt

CONSTANTS
  NUM_RX_BUFFERS,
  MaxWrites,     \* MaxWrites[p]: bound, packets that p's game sends
  MaxFailures    \* bound: transfers with a wrong checksum or a timeout

ASSUME BuffersAssumption == NUM_RX_BUFFERS \in {2, 4, 8, 16}
ASSUME ParAssumption == MaxWrites \in [Player -> Nat] /\ MaxFailures \in Nat

VARIABLES
  port,         \* port[p]: the driver of p, see ParInit
  received,     \* received[p]: packets that PacketReceived was called for (history)
  overwritten,  \* overwritten[p]: those that were then destroyed in their buffer (history)
  taken,        \* taken[p]: packets that the game of p got (history)
  failures      \* transfers that failed so far

parVars == <<port, received, overwritten, taken, failures>>

\* A packet is the number of the call that sends it; 0 stands for none, and for what
\* is left of a transfer that failed. A buffer's len is 0 or not.
Buffer == 0 .. NUM_RX_BUFFERS - 1
Empty == [data |-> 0, len |-> 0]

\* The packet that p's CMD_SEND is sending, calls so far, whether p is interrupted, and
\* the ring.
ParInit ==
  /\ port = [p \in Player |->
       [writing |-> 0, written |-> 0, irq |-> FALSE,
        rx_buffers |-> [i \in Buffer |-> Empty], rx_buffer_head |-> 0, rx_buffer_tail |-> 0]]
  /\ received = [p \in Player |-> <<>>] /\ taken = [p \in Player |-> <<>>]
  /\ overwritten = [p \in Player |-> {}]
  /\ failures = 0

Following(i) == (i + 1) % NUM_RX_BUFFERS

-----------------------------------------------------------------------------
\* CMD_SEND: WritePacket, send_pkt requests an interrupt.
WritePacket(p) ==
  /\ port[p].writing = 0 /\ port[p].written < MaxWrites[p]
  /\ port' = [port EXCEPT ![p].writing = port[p].written + 1, ![p].written = @ + 1,
                          ![Other(p)].irq = TRUE]
  /\ UNCHANGED <<received, overwritten, taken, failures>>

\* send_pkt_4: the other side is not listening, as it sends, too.
WriteTimeout(p) ==
  /\ port[p].writing # 0 /\ port[Other(p)].writing # 0
  /\ port' = [port EXCEPT ![p].writing = 0]
  /\ UNCHANGED <<received, overwritten, taken, failures>>

\* Mutant: the head always advances.
PacketReceived_Advance(r, pkt) ==
  [r EXCEPT !.rx_buffers[r.rx_buffer_head] = [data |-> pkt, len |-> 1],
            !.rx_buffer_head = Following(@)]

\* PacketReceived: the head does not advance onto the tail, and the last buffer is
\* overwritten.
PacketReceived(r, pkt) ==
  [r EXCEPT !.rx_buffers[r.rx_buffer_head] = [data |-> pkt, len |-> 1],
            !.rx_buffer_head = IF Following(@) # r.rx_buffer_tail THEN Following(@) ELSE @]

\* The packet in the head's buffer, which a transfer destroys.
Destroyed(r) == IF r.rx_buffers[r.rx_buffer_head].len # 0
                THEN {r.rx_buffers[r.rx_buffer_head].data} \ {0} ELSE {}

\* ReceiveISR, PLIORecvPacket: the other side no longer asks.
SpuriousISR(p) ==
  /\ port[p].irq /\ port[p].writing = 0 /\ port[Other(p)].writing = 0
  /\ port' = [port EXCEPT ![p].irq = FALSE]
  /\ UNCHANGED <<received, overwritten, taken, failures>>

\* ReceiveISR, PLIORecvPacket and the rest of the other side's send_pkt.
ReceiveISR(p) ==
  LET r == [port[p] EXCEPT !.irq = FALSE]
      pkt == port[Other(p)].writing
  IN /\ port[p].irq /\ port[p].writing = 0 /\ pkt # 0
     /\ port' = [port EXCEPT ![p] = PacketReceived(r, pkt), ![Other(p)].writing = 0]
     /\ received' = [received EXCEPT ![p] = Append(@, pkt)]
     /\ overwritten' = [overwritten EXCEPT ![p] = @ \cup Destroyed(r)]
     /\ UNCHANGED <<taken, failures>>

\* The same with a wrong checksum or a timeout: the buffer's contents are lost.
FailingISR(p) ==
  LET r == [port[p] EXCEPT !.irq = FALSE]
  IN /\ port[p].irq /\ port[p].writing = 0 /\ port[Other(p)].writing # 0
     /\ failures < MaxFailures /\ failures' = failures + 1
     /\ port' = [port EXCEPT ![p] = [r EXCEPT !.rx_buffers[r.rx_buffer_head].data = 0],
                             ![Other(p)].writing = 0]
     /\ overwritten' = [overwritten EXCEPT ![p] = @ \cup Destroyed(r)]
     /\ UNCHANGED <<received, taken>>

\* CMD_GET: NextPacket. No packet is too long for the game.
NextPacket(p) ==
  LET r == port[p]
  IN /\ r.writing = 0 /\ r.rx_buffer_head # r.rx_buffer_tail
     /\ port' = [port EXCEPT ![p] = [r EXCEPT !.rx_buffer_tail = Following(@),
                                             !.rx_buffers[r.rx_buffer_tail].len = 0]]
     /\ taken' = [taken EXCEPT ![p] = Append(@, r.rx_buffers[r.rx_buffer_tail].data)]
     /\ UNCHANGED <<received, overwritten, failures>>

ParNext ==
  \E p \in Player : \/ WritePacket(p) \/ WriteTimeout(p) \/ NextPacket(p)
                    \/ SpuriousISR(p) \/ ReceiveISR(p) \/ FailingISR(p)

-----------------------------------------------------------------------------
(***************************************************************************)
(* Properties.                                                             *)
(***************************************************************************)

\* The types.
ParTypeOK ==
  /\ port \in [Player ->
       [writing : Nat, written : Nat, irq : BOOLEAN, rx_buffers : [Buffer -> [data : Nat, len : {0, 1}]],
        rx_buffer_head : Buffer, rx_buffer_tail : Buffer]]
  /\ failures \in 0 .. MaxFailures
  /\ \A p \in Player : overwritten[p] \subseteq ToSet(received[p])

\* The packets between tail and head, and the one in the head's buffer.
Waiting(r) ==
  LET n == (r.rx_buffer_head - r.rx_buffer_tail) % NUM_RX_BUFFERS
  IN [k \in 1 .. n |-> r.rx_buffers[(r.rx_buffer_tail + k - 1) % NUM_RX_BUFFERS].data]
Kept(r) ==
  LET last == r.rx_buffers[r.rx_buffer_head]
  IN IF last.len # 0 /\ last.data # 0 THEN <<last.data>> ELSE <<>>

\* "If there are no more buffers available, we will end up overwriting a packet"
\* (net/parport.c:71): but only the last one. Whatever the handler does while the game
\* does not poll, or a failed transfer leaves in a buffer, the game gets the packets that
\* were not overwritten, in the order they were sent in, whole, and each once.
OnlyLastOverwritten ==
  \A p \in Player :
    LET game == taken[p] \o Waiting(port[p]) \o Kept(port[p])
    IN /\ ToSet(game) = ToSet(received[p]) \ overwritten[p]
       /\ \A i, j \in DOMAIN game : i < j => game[i] < game[j]
=============================================================================
