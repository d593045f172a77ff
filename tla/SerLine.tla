------------------------------ MODULE SerLine ------------------------------
(***************************************************************************)
(* The serial driver in game (net/sersetup.c, net/serport.c), in one       *)
(* direction: the game of one player sends packets, the game of the other  *)
(* gets them.  (The two directions share no state.)  A packet becomes a    *)
(* frame of bytes that goes through outque, serial_tx_buffer, the UARTs    *)
(* and inque, each of which can run full.                                  *)
(*                                                                         *)
(* The driver's callback runs with interrupts off, and so does the ISR, so *)
(* each is one step.  The UART is an 8250: one byte on its way out, one    *)
(* kept at the receiver.                                                   *)
(***************************************************************************)
EXTENDS Integers, Sequences, FiniteSetsExt

CONSTANTS
  QueSize,     \* QUESIZE
  TxLen,       \* SERIAL_TX_BUFFER_LEN
  MaxPacket,   \* MAXPACKET
  Contents,    \* Contents[k]: what the k-th packet of the game may be
  MaxNoise     \* bound: bytes lost on the line

Frame == 112   \* FRAMECHAR
Bytes == 0 .. 255

ASSUME SizesAssumption == {QueSize, TxLen, MaxPacket} \subseteq Nat \ {0} /\ QueSize >= 2 * MaxPacket + 2
ASSUME ContentsAssumption ==
  /\ Contents \in Seq(SUBSET Seq(0 .. 255))
  /\ \A i, j \in DOMAIN Contents : i # j => Contents[i] \cap Contents[j] = {}
  /\ \A i \in DOMAIN Contents : \A p \in Contents[i] : Len(p) <= MaxPacket
ASSUME NoiseAssumption == MaxNoise \in Nat

VARIABLES
  tx,       \* the sender: outque, serial_tx_buffer, transmitting, and the UART
  rx,       \* the receiver: inque, receiving, the UART, and ReadPacket's state
  sent,     \* packets sent by the game (history)
  got,      \* packets the other game got (history)
  noise,    \* bytes lost on the line so far
  upsets    \* times bytes were lost, for whatever reason (history)

lineVars == <<tx, rx, sent, got, noise, upsets>>

LineInit ==
  /\ tx = [outque |-> <<>>, buffer |-> <<>>, transmitting |-> FALSE, uart |-> <<>>]
  /\ rx = [inque |-> <<>>, receiving |-> TRUE, uart |-> <<>>,
           packet |-> <<>>, inescape |-> FALSE, newpacket |-> FALSE]
  /\ sent = <<>> /\ got = <<>> /\ noise = 0 /\ upsets = 0

-----------------------------------------------------------------------------
(***************************************************************************)
(* Transmit: each operator gives the sender's state t after a call.        *)
(***************************************************************************)

\* Mutant: a FRAMECHAR in the packet is not doubled.
Framed_NoEscape(p) == p \o <<Frame, 0>>

\* WritePacket: FRAMECHAR is doubled, and followed by another byte it is the end.
\* Escaped(p)[k] is what the first k bytes become.
Escape(b) == IF b = Frame THEN <<Frame, Frame>> ELSE <<b>>
Escaped(p) ==
  LET after[k \in 0 .. Len(p)] == IF k = 0 THEN <<>> ELSE after[k - 1] \o Escape(p[k])
  IN after
Framed(p) == Escaped(p)[Len(p)] \o <<Frame, 0>>

\* SerialMoreTXData, which takes its bytes off outque; RefillTXBuffer.
RefillTXBuffer(t) ==
  LET n == IF Len(t.outque) < TxLen THEN Len(t.outque) ELSE TxLen
  IN [t EXCEPT !.buffer = SubSeq(t.outque, 1, n), !.outque = SubSeq(@, n + 1, Len(@))]

\* TransmitNextByte.
TransmitNextByte(t) ==
  [t EXCEPT !.uart = <<Head(t.buffer)>>, !.buffer = Tail(@), !.transmitting = TRUE]

\* Send the next byte if there is one, else transmission stops.
TransmitOrStop(t) ==
  LET u == IF t.buffer = <<>> THEN RefillTXBuffer(t) ELSE t
  IN IF u.buffer = <<>> THEN [u EXCEPT !.transmitting = FALSE] ELSE TransmitNextByte(u)

\* Mutant: only the interrupts transmit.
JumpStart_Never(t) == t

\* JumpStart.
JumpStart(t) == IF t.transmitting THEN t ELSE TransmitOrStop(t)

\* WriteBuffer: if this would overrun outque, everything else is thrown out.
Overruns(bytes) == Len(tx.outque) + Len(bytes) > QueSize

\* Mutant: the queue is never thrown out.
WriteBuffer_NoLimit(bytes) == JumpStart([tx EXCEPT !.outque = @ \o bytes])

WriteBuffer(bytes) ==
  JumpStart([tx EXCEPT !.outque = (IF Overruns(bytes) THEN <<>> ELSE @) \o bytes])

-----------------------------------------------------------------------------
(***************************************************************************)
(* Receive: each operator gives the receiver's state r after a call.       *)
(***************************************************************************)
IsFull(r) == Len(r.inque) = QueSize - 1

\* DoReceiveByte with SerialByteReceived, which refuses a byte that does not fit;
\* DisableReceive.
DoReceiveByte(r, b) ==
  IF IsFull(r) THEN [r EXCEPT !.receiving = FALSE] ELSE [r EXCEPT !.inque = Append(@, b)]

\* The next packet begins after the last has ended.
Begun(r) == IF r.newpacket THEN [r EXCEPT !.packet = <<>>, !.newpacket = FALSE] ELSE r

\* Mutant: after a literal FRAMECHAR the next byte is still escaped.
ReadByte_StillEscaped(r, b) ==
  LET s == Begun(r)
  IN IF s.inescape /\ b # Frame THEN [s EXCEPT !.inescape = FALSE, !.newpacket = TRUE]
     ELSE IF b = Frame /\ ~s.inescape THEN [s EXCEPT !.inescape = TRUE]
     ELSE [s EXCEPT !.packet = IF Len(@) < MaxPacket THEN Append(@, b) ELSE @]

\* An iteration of ReadPacket: after a FRAMECHAR another one is a byte of the packet, and
\* anything else its end. Bytes beyond MAXPACKET are dropped.
ReadByte(r, b) ==
  LET s == Begun(r)
  IN IF s.inescape /\ b # Frame THEN [s EXCEPT !.inescape = FALSE, !.newpacket = TRUE]
     ELSE IF b = Frame /\ ~s.inescape THEN [s EXCEPT !.inescape = TRUE]
     ELSE [s EXCEPT !.inescape = FALSE,
                    !.packet = IF Len(@) < MaxPacket THEN Append(@, b) ELSE @]

\* The state after each of the bytes.
Reader == [packet : Seq(Bytes), inescape : BOOLEAN, newpacket : BOOLEAN]
ReaderOf(r) == [packet |-> r.packet, inescape |-> r.inescape, newpacket |-> r.newpacket]
Iteration == [r \in Reader |-> [b \in Bytes |-> ReadByte(r, b)]]
Read(r, bytes) ==
  LET after[k \in 0 .. Len(bytes)] == IF k = 0 THEN Begun(r) ELSE Iteration[after[k - 1]][bytes[k]]
  IN after

\* ReadPacket throws everything out when inque is about to overflow.
Overflowing(r) == Len(r.inque) > QueSize - 4

\* What ReadByte gives one by one: inque, and, if that was full and the first read
\* makes ResumeReceive fetch it, the byte that waits in the UART.
Arrived(r) == IF r.inque = <<>> \/ r.receiving THEN r.inque ELSE r.inque \o r.uart

\* Otherwise ReadPacket reads up to the end of a packet, or all there is.
ReadPacket(r) ==
  LET bytes == Arrived(r)
      after == Read(ReaderOf(r), bytes)
      n == Min({k \in DOMAIN bytes : after[k].newpacket} \cup {Len(bytes)})
  IN [inque |-> SubSeq(bytes, n + 1, Len(bytes)),
      receiving |-> r.receiving \/ r.inque # <<>>,
      uart |-> IF r.receiving \/ r.inque # <<>> THEN <<>> ELSE r.uart,
      packet |-> after[n].packet, inescape |-> after[n].inescape, newpacket |-> after[n].newpacket]

-----------------------------------------------------------------------------
\* CMD_SEND: NetCallback, WritePacket.
CmdSend(p) ==
  /\ Len(sent) < Len(Contents) /\ p \in Contents[Len(sent) + 1]
  /\ tx' = WriteBuffer(Framed(p))
  /\ sent' = Append(sent, p)
  /\ upsets' = IF Overruns(Framed(p)) THEN upsets + 1 ELSE upsets
  /\ UNCHANGED <<rx, got, noise>>

\* The transmit interrupt of ISR8250: the UART can take another byte.
TxISR ==
  /\ tx.transmitting /\ tx.uart = <<>>
  /\ tx' = TransmitOrStop(tx)
  /\ UNCHANGED <<rx, sent, got, noise, upsets>>

\* A byte arrives: the receive interrupt of ISR8250 reads it, or, while that is
\* disabled, it stays in the UART and replaces the one before.
Arrive ==
  /\ tx.uart # <<>>
  /\ tx' = [tx EXCEPT !.uart = <<>>]
  /\ rx' = IF rx.receiving THEN DoReceiveByte(rx, tx.uart[1]) ELSE [rx EXCEPT !.uart = tx.uart]
  /\ upsets' = IF (rx.receiving /\ IsFull(rx)) \/ rx.uart # <<>> THEN upsets + 1 ELSE upsets
  /\ UNCHANGED <<sent, got, noise>>

\* A byte is lost on the line.
Noise ==
  /\ tx.uart # <<>> /\ noise < MaxNoise
  /\ tx' = [tx EXCEPT !.uart = <<>>]
  /\ noise' = noise + 1 /\ upsets' = upsets + 1
  /\ UNCHANGED <<rx, sent, got>>

\* CMD_GET: NetCallback, ReadPacket.
CmdGet ==
  /\ IF Overflowing(rx)
       THEN /\ rx' = [rx EXCEPT !.inque = <<>>, !.newpacket = TRUE]
            /\ upsets' = upsets + 1 /\ UNCHANGED got
       ELSE /\ rx' = ReadPacket(rx)
            /\ got' = IF rx'.newpacket THEN Append(got, rx'.packet) ELSE got
            /\ UNCHANGED upsets
  /\ UNCHANGED <<tx, sent, noise>>

LineNext == \/ Len(sent) < Len(Contents) /\ \E p \in Contents[Len(sent) + 1] : CmdSend(p)
            \/ CmdGet \/ TxISR \/ Arrive \/ Noise

LineSpec == LineInit /\ [][LineNext]_lineVars

\* The UART transmits and raises its interrupts, and the game keeps calling.
LineLiveSpec == LineSpec /\ WF_lineVars(TxISR) /\ WF_lineVars(Arrive) /\ WF_lineVars(CmdGet)

-----------------------------------------------------------------------------
(***************************************************************************)
(* Properties.                                                             *)
(***************************************************************************)
\* The types: no queue exceeds its ring, and no packet its buffer.
LineTypeOK ==
  /\ tx \in [outque : Seq(Bytes), buffer : Seq(Bytes), transmitting : BOOLEAN, uart : Seq(Bytes)]
  /\ Len(tx.outque) <= QueSize /\ Len(tx.buffer) <= TxLen /\ Len(tx.uart) <= 1
  /\ rx \in [inque : Seq(Bytes), receiving : BOOLEAN, uart : Seq(Bytes),
             packet : Seq(Bytes), inescape : BOOLEAN, newpacket : BOOLEAN]
  /\ Len(rx.inque) < QueSize /\ Len(rx.uart) <= 1 /\ Len(rx.packet) <= MaxPacket
  /\ noise \in 0 .. MaxNoise /\ upsets \in Nat

\* The packets that a reader makes of bytes: Made(r, bytes)[k] of the first k.
Made(r, bytes) ==
  LET after == Read(r, bytes)
      made[k \in 0 .. Len(bytes)] ==
        IF k = 0 THEN <<>>
        ELSE IF after[k].newpacket THEN Append(made[k - 1], after[k].packet) ELSE made[k - 1]
  IN made
Packets(r, bytes) == Made(r, bytes)[Len(bytes)]

\* The bytes still on their way, and the packets they will make after what has been read.
Underway == rx.inque \o rx.uart \o tx.uart \o tx.buffer \o tx.outque
OnItsWay == Packets(ReaderOf(rx), Underway)

\* As long as no byte is lost, what the other game has got and what is on its way
\* to it are the packets sent, byte for byte and in order: framing is transparent
\* to any contents and to any point at which ReadPacket runs out of bytes.
Intact == upsets = 0 => got \o OnItsWay = sent

\* But for at most n of its packets, a is b with packets left out: f says where in b the
\* packet is, 0 that it is none of them.
MostlyFrom(a, b, n) ==
  \E f \in [DOMAIN a -> 0 .. Len(b)] :
    /\ \A i \in DOMAIN a : f[i] # 0 => a[i] = b[f[i]]
    /\ \A i, j \in DOMAIN a : i < j /\ f[i] # 0 /\ f[j] # 0 => f[i] < f[j]
    /\ Cardinality({i \in DOMAIN a : f[i] = 0}) <= n

\* Losing bytes, to noise or to full queues, garbles two packets each time at most, and
\* then the driver is in step again: the other packets that the game gets are those
\* sent, in the order they were sent in, each at most once.
Resync == MostlyFrom(got, sent, 2 * upsets)

\* What has been queued goes out, whatever the other side does: outque never waits
\* for an interrupt that nothing will raise.
QueueGoesOut == []<>(tx.outque = <<>> /\ tx.buffer = <<>>)

\* "Invoked when new rx buffer space has been made available; if we previously
\* turned off receive, we can now rewrite the IER to turn rx notifications back on
\* again" (net/serport.c:447-449).
ReceiveResumes == []<>rx.receiving

=============================================================================
