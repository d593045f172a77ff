--------------------------- MODULE SerDriverProof ---------------------------
(***************************************************************************)
(* Proofs about the serial and parallel drivers (SerDriver), for any IDs,  *)
(* flags, queue sizes and packets, whatever is lost.                       *)
(***************************************************************************)
EXTENDS SerDriver, FiniteSetTheorems, SequenceTheorems, WellFoundedInduction, NaturalsInduction, TLAPS

-----------------------------------------------------------------------------
(***************************************************************************)
(* Arbitration: the inductive invariant.                                   *)
(***************************************************************************)
ID == ForcedFirst .. ForcedSecond
PacketT == [new : BOOLEAN, id : -1 .. ForcedSecond, player : -1 .. 1, stage : 0 .. 3]
Phase == {"off", "connected", "arbitrate", "game", "error"}

ArbTypes ==
  /\ old \in {{}, {1}} /\ localid \in [Player -> ID]
  /\ phase \in [Player -> Phase]
  /\ consoleplayer \in [Player -> Player]
  /\ stage \in [Player -> 0 .. 3]
  /\ new_protocol \in [Player -> BOOLEAN] /\ due \in [Player -> BOOLEAN]
  /\ link \in [Player -> Seq(PacketT)]
  /\ losses \in 0 .. MaxLosses /\ lastlost \in BOOLEAN

\* A second that has passed will send one packet.
Due(p) == IF due[p] THEN 1 ELSE 0
Bounded == Len(link[0]) + Len(link[1]) + Due(0) + Due(1) <= MaxLink + 1

\* A stage tells what the other side has heard, also that in a packet on its way.
StageOK(p) ==
  /\ stage[p] >= 2 => stage[Other(p)] > 0
  /\ stage[p] = 3 => stage[Other(p)] >= 2
  /\ phase[p] \in {"off", "connected"} => stage[p] = 0

\* pkt is on its way to p.
PacketOK(p, pkt) ==
  /\ pkt.stage > 0 => stage[Other(p)] > 0
  /\ pkt.stage >= 2 => stage[Other(p)] >= 2
  /\ pkt.stage = 3 => stage[p] >= 2
  /\ old = {} => pkt.new /\ pkt.id = localid[Other(p)]
  /\ old # {} /\ p = 1 => pkt.new \/ pkt.player = consoleplayer[0]
  /\ old # {} /\ p = 0 => /\ ~pkt.new
                          /\ pkt.player = consoleplayer[0] => pkt.stage = 0
                          /\ pkt.player # consoleplayer[0] => consoleplayer[1] # consoleplayer[0]

\* Two new sides agree as soon as they hear of each other. Of the others the original
\* SERSETUP has another number than the new one when it has a stage.
NumbersOK ==
  /\ old = {} => \A p \in Player :
       /\ new_protocol[p]
       /\ stage[p] > 0 => /\ consoleplayer[p] = Ordered(localid[p], localid[Other(p)])
                          /\ phase[p] = "error" \/ localid[p] # localid[Other(p)]
  /\ old # {} => /\ ~new_protocol[1]
                 /\ stage[1] > 0 \/ stage[0] >= 2 => consoleplayer[1] # consoleplayer[0]

ArbInv ==
  /\ ArbTypes /\ Bounded /\ NumbersOK
  /\ \A p \in Player : StageOK(p) /\ \A i \in DOMAIN link[p] : PacketOK(p, link[p][i])

-----------------------------------------------------------------------------
(***************************************************************************)
(* Modems: the inductive invariant.                                        *)
(***************************************************************************)
Line == {"OK", "RING", "CONNECT", "NO_CARRIER"}

ModemTypes ==
  /\ modem \in BOOLEAN /\ background \in [Player -> BOOLEAN]
  /\ expected \in [Player -> {"none", "OK", "RING", "CONNECT"}]
  /\ command \in [Player -> {"none", "startup", "dial", "answer"}]
  /\ reply \in [Player -> Seq(Line)]
  /\ call \in {"none", "ringing", "up", "failed"}
  /\ launched \in [Player -> {-1, 0, 1}]

Quiet(lines) == \A i \in DOMAIN lines : lines[i] # "CONNECT"

\* The caller dials once, and nothing comes of it before the call is up.
CallOK ==
  /\ ~modem => call = "none" /\ \A p \in Player : expected[p] = "none" /\ command[p] = "none"
  /\ command[Answerer] # "dial"
  /\ command[Dialer] = "dial" => call = "none"
  /\ command[Dialer] = "dial" \/ call # "none" =>
       /\ expected[Dialer] # "OK"
       /\ expected[Dialer] = "none" => phase[Dialer] # "off"
  /\ modem /\ call # "up" => \A p \in Player : phase[p] = "off" /\ Quiet(reply[p])

\* With -bg, what the game was launched with.
LaunchOK(p) ==
  /\ expected[p] # "none" => phase[p] \in {"off", "connected"}
  /\ background[p] => modem /\ localid[p] \in {ForcedFirst, ForcedSecond}
  /\ /\ background[p]
     /\ expected[p] \in {"RING", "CONNECT"} \/ phase[p] \in {"arbitrate", "game", "error"}
     => launched[p] = BackgroundPlayer(p)
  /\ phase[p] = "game" => stage[p] >= 2 /\ launched[p] = consoleplayer[p]

ModemInv ==
  /\ ArbInv /\ ModemTypes /\ CallOK
  /\ modem => old = {}
  /\ \A p \in Player : LaunchOK(p)

-----------------------------------------------------------------------------
(***************************************************************************)
(* Induction up to a number, and the recursive functions.                  *)
(***************************************************************************)
LEMMA LeastNumber ==
  ASSUME NEW S \in SUBSET Nat, S # {}
  PROVE  \E x \in S : \A y \in S : x <= y
<1>1. PICK x \in S : \A y \in S : ~ (<<y, x>> \in OpToRel(<, Nat))
  BY NatLessThanWellFounded, WFMin
<1>2. \A y \in Nat : y < x => <<y, x>> \in OpToRel(<, Nat)
  BY DEF OpToRel
<1>3. \A y \in S : ~(y < x) /\ y \in Nat /\ x \in Nat
  BY <1>1, <1>2
<1>. QED
  BY <1>3

\* What holds for 0 and, with n - 1, for n, holds up to the end: S are those for which it
\* holds.
LEMMA UpTo ==
  ASSUME NEW last \in Nat, NEW S, 0 \in S, \A n \in 1 .. last : n - 1 \in S => n \in S
  PROVE  0 .. last \subseteq S
<1>. SUFFICES ASSUME (0 .. last) \ S # {} PROVE FALSE
  OBVIOUS
<1>1. (0 .. last) \ S \in SUBSET Nat
  OBVIOUS
<1>2. PICK x \in (0 .. last) \ S : \A y \in (0 .. last) \ S : x <= y
  BY <1>1, LeastNumber
<1>3. x # 0 /\ x \in 1 .. last
  OBVIOUS
<1>4. x - 1 \in 0 .. last /\ ~(x <= x - 1)
  BY <1>3
<1>5. x - 1 \in S
  BY <1>2, <1>4
<1>. QED
  BY <1>3, <1>5

ProcessedTo(p, r, pkts, k, f) ==
  f = [n \in 0 .. k |-> IF n = 0 THEN r ELSE Process(p, f[n - 1], pkts[n])]

LEMMA ProcessedDef ==
  ASSUME NEW p, NEW r, NEW pkts, Len(pkts) \in Nat
  PROVE  ProcessedTo(p, r, pkts, Len(pkts), Processed(p, r, pkts))
<1> DEFINE S == {k \in 0 .. Len(pkts) : \E f : ProcessedTo(p, r, pkts, k, f)}
<1>1. 0 \in S
  <2> DEFINE f == [n \in 0 .. 0 |-> r]
  <2>1. ProcessedTo(p, r, pkts, 0, f)
    BY DEF ProcessedTo
  <2>. QED
    BY <2>1
<1>2. ASSUME NEW k \in 1 .. Len(pkts), k - 1 \in S PROVE k \in S
  <2>1. PICK f : ProcessedTo(p, r, pkts, k - 1, f)
    BY <1>2
  <2> DEFINE g == [n \in 0 .. k |-> IF n = k THEN Process(p, f[k - 1], pkts[k]) ELSE f[n]]
  <2>2. ASSUME NEW n \in 0 .. k PROVE g[n] = IF n = 0 THEN r ELSE Process(p, g[n - 1], pkts[n])
    <3>1. CASE n = 0
      BY <2>1, <3>1 DEF ProcessedTo
    <3>2. CASE n \in 1 .. k - 1
      <4>1. n \in 0 .. k - 1 /\ n # k /\ n - 1 # k /\ n - 1 \in 0 .. k
        BY <3>2
      <4>2. f[n] = Process(p, f[n - 1], pkts[n])
        BY <2>1, <3>2, <4>1 DEF ProcessedTo
      <4>. QED
        BY <3>2, <4>1, <4>2
    <3>3. CASE n = k
      <4>1. k - 1 # k /\ k - 1 \in 0 .. k /\ k # 0
        OBVIOUS
      <4>. QED
        BY <3>3, <4>1
    <3>. QED
      BY <3>1, <3>2, <3>3
  <2>3. ProcessedTo(p, r, pkts, k, g)
    BY <2>2 DEF ProcessedTo
  <2>. QED
    BY <2>3
<1>3. Len(pkts) \in S
  <2>1. Len(pkts) \in 0 .. Len(pkts)
    OBVIOUS
  <2>. HIDE DEF S
  <2>. QED
    BY <1>1, <1>2, <2>1, UpTo
<1>4. PICK f : ProcessedTo(p, r, pkts, Len(pkts), f)
  BY <1>3
<1>. QED
  BY <1>4 DEF Processed, ProcessedTo

LEMMA ProcessedFacts ==
  ASSUME NEW p, NEW r, NEW pkts, Len(pkts) \in Nat
  PROVE  /\ Processed(p, r, pkts)[0] = r
         /\ \A n \in 1 .. Len(pkts) :
              Processed(p, r, pkts)[n] = Process(p, Processed(p, r, pkts)[n - 1], pkts[n])
BY ProcessedDef DEF ProcessedTo

-----------------------------------------------------------------------------
(***************************************************************************)
(* Arbitration.                                                            *)
(***************************************************************************)
StateT == [stage : 0 .. 3, due : BOOLEAN, new : BOOLEAN, console : Player, error : BOOLEAN]

\* What a side may become while it processes packets.
StateOK(p, r) ==
  /\ r \in StateT
  /\ stage[p] > 0 => r.stage > 0
  /\ r.stage >= 2 => stage[Other(p)] > 0
  /\ r.stage = 3 => stage[Other(p)] >= 2
  /\ old = {} => /\ r.new
                 /\ r.stage > 0 => /\ r.console = Ordered(localid[p], localid[Other(p)])
                                   /\ r.error \/ localid[p] # localid[Other(p)]
  /\ old # {} /\ p = 1 => /\ ~r.new
                          /\ r.console = consoleplayer[1] \/ r.console # consoleplayer[0]
                          /\ r.stage > 0 => r.console # consoleplayer[0]
  /\ old # {} /\ p = 0 => /\ r.console = consoleplayer[0]
                          /\ r.stage >= 2 => consoleplayer[1] # consoleplayer[0]

LEMMA Players == 0 \in Player /\ 1 \in Player /\ Other(0) = 1 /\ Other(1) = 0
                 /\ \A p \in Player : Other(p) \in Player /\ Other(p) # p
BY DEF Player, Other

LEMMA IDs ==
  /\ ForcedFirst \in ID /\ ForcedSecond \in ID /\ ForcedFirst # ForcedSecond
  /\ \A x \in ID : x \in Int /\ ForcedFirst <= x /\ x <= ForcedSecond
<1>1. ForcedFirst \in Int /\ ForcedSecond \in Int /\ ForcedFirst < ForcedSecond
  BY DEF ForcedFirst, ForcedSecond
<1>. QED
  BY <1>1 DEF ID

LEMMA ArbTyped ==
  ASSUME ArbTypes, NEW p \in Player
  PROVE  /\ localid[p] \in ID /\ localid[p] \in Int
         /\ phase[p] \in Phase /\ consoleplayer[p] \in Player /\ stage[p] \in 0 .. 3
         /\ new_protocol[p] \in BOOLEAN /\ due[p] \in BOOLEAN
         /\ link[p] \in Seq(PacketT) /\ Len(link[p]) \in Nat
         /\ \A i \in 1 .. Len(link[p]) : link[p][i] \in PacketT
<1>1. localid[p] \in ID
  BY DEF ArbTypes
<1>2. localid[p] \in Int
  BY <1>1, IDs
<1>3. /\ phase[p] \in Phase /\ consoleplayer[p] \in Player /\ stage[p] \in 0 .. 3
      /\ new_protocol[p] \in BOOLEAN /\ due[p] \in BOOLEAN /\ link[p] \in Seq(PacketT)
  BY DEF ArbTypes
<1>. QED
  BY <1>1, <1>2, <1>3, ElementOfSeq, LenProperties

\* An iteration of ProcessPackets, at a side that has not completed.
LEMMA ProcessKeeps ==
  ASSUME ArbInv, NEW p \in Player, stage[p] < 2, NEW pkt \in PacketT, PacketOK(p, pkt),
         NEW r, StateOK(p, r)
  PROVE  StateOK(p, Process(p, r, pkt))
<1> DEFINE q == Other(p)  s == Process(p, r, pkt)
<1>. SUFFICES StateOK(p, s)
  OBVIOUS
<1>1. /\ pkt.stage \in 0 .. 2 /\ pkt.new \in BOOLEAN /\ pkt.id \in -1 .. ForcedSecond
      /\ pkt.stage > 0 => stage[q] > 0
      /\ pkt.stage = 2 => stage[q] >= 2
  <2>1. stage[p] \in 0 .. 3 /\ pkt.stage \in 0 .. 3 /\ stage[q] \in 0 .. 3
    BY Players, ArbTyped DEF ArbInv, PacketT
  <2>. QED
    BY <2>1 DEF PacketOK, PacketT
<1>2. r \in StateT /\ q \in Player
  BY Players DEF StateOK
<1>3. localid[p] \in Int /\ localid[q] \in Int /\ consoleplayer[0] \in Player /\ consoleplayer[1] \in Player
  BY Players, ArbTyped DEF ArbInv
<1>7. old = {} \/ old = {1}
  BY DEF ArbInv, ArbTypes
<1>4. CASE old = {}
  <2>1. pkt.new /\ pkt.id = localid[q] /\ p \notin old
    BY <1>4 DEF PacketOK
  <2>2. /\ s = [stage |-> NextStage(pkt, r.console, r.stage), due |-> TRUE, new |-> pkt.new,
                error |-> r.error \/ (pkt.new /\ pkt.id = localid[p]), console |-> Ordered(localid[p], pkt.id)]
        /\ NextStage(pkt, r.console, r.stage) = pkt.stage + 1
    BY <2>1 DEF Process, NextStage
  <2>3. Ordered(localid[p], pkt.id) \in Player
    BY DEF Ordered, Player
  <2>5. pkt.stage + 1 \in 0 .. 3
    BY <1>1
  <2> DEFINE e == r.error \/ (pkt.new /\ pkt.id = localid[p])  c == Ordered(localid[p], pkt.id)
  <2>6. e \in BOOLEAN /\ (e \/ localid[p] # localid[q]) /\ c = Ordered(localid[p], localid[q]) /\ c \in Player
    BY <2>1, <2>3
  <2>7. s = [stage |-> pkt.stage + 1, due |-> TRUE, new |-> pkt.new, error |-> e, console |-> c]
    BY <2>2
  <2>. HIDE DEF s, e, c
  <2>4. /\ s \in StateT /\ s.stage = pkt.stage + 1 /\ s.new /\ s.console = Ordered(localid[p], localid[q])
        /\ s.error \/ localid[p] # localid[q]
    BY <1>1, <2>1, <2>5, <2>6, <2>7 DEF StateT
  <2>. QED
    BY <1>1, <1>4, <2>4 DEF StateOK
<1>5. CASE old = {1} /\ p = 0
  <2>1. /\ ~pkt.new /\ p \notin old /\ r.console = consoleplayer[0]
        /\ pkt.player = consoleplayer[0] => pkt.stage = 0
        /\ pkt.player # consoleplayer[0] => consoleplayer[1] # consoleplayer[0]
    BY <1>5 DEF PacketOK, StateOK
  <2>2. s = [stage |-> NextStage(pkt, r.console, r.stage), due |-> TRUE, new |-> pkt.new,
             error |-> r.error \/ (pkt.new /\ pkt.id = localid[p]), console |-> r.console]
    BY <2>1 DEF Process
  <2>3. NextStage(pkt, r.console, r.stage) = IF pkt.player = consoleplayer[0] THEN 1 ELSE pkt.stage + 1
    BY <2>1 DEF NextStage
  <2> DEFINE e == r.error \/ (pkt.new /\ pkt.id = localid[p])  n == NextStage(pkt, r.console, r.stage)
  <2>5. e \in BOOLEAN
    OBVIOUS
  <2>6. n \in 0 .. 3 /\ n = IF pkt.player = consoleplayer[0] THEN 1 ELSE pkt.stage + 1
    BY <1>1, <2>3
  <2>7. s = [stage |-> n, due |-> TRUE, new |-> pkt.new, error |-> e, console |-> r.console]
    BY <2>2
  <2>. HIDE DEF s, e, n
  <2>4. /\ s \in StateT /\ s.console = consoleplayer[0]
        /\ s.stage = IF pkt.player = consoleplayer[0] THEN 1 ELSE pkt.stage + 1
    BY <1>1, <1>3, <2>1, <2>5, <2>6, <2>7 DEF StateT
  <2>. QED
    BY <1>1, <1>5, <2>1, <2>4 DEF StateOK
<1>6. CASE old = {1} /\ p = 1
  <2>1. /\ p \in old
        /\ pkt.new \/ pkt.player = consoleplayer[0]
        /\ r.console = consoleplayer[1] \/ r.console # consoleplayer[0]
        /\ stage[1] > 0 => consoleplayer[1] # consoleplayer[0]
    BY <1>6 DEF PacketOK, StateOK, ArbInv, NumbersOK
  <2>2. CASE pkt.new
    BY <1>6, <2>2, <2>1 DEF Process
  <2>3. CASE ~pkt.new /\ pkt.player = r.console
    <3>1. s = [stage |-> 0, due |-> TRUE, new |-> r.new, error |-> r.error, console |-> Other(r.console)]
      BY <2>1, <2>3 DEF Process
    <3>2. Other(r.console) \in Player /\ Other(r.console) # consoleplayer[0] /\ stage[1] = 0
      <4>1. r.console \in Player /\ r.console = consoleplayer[0]
        BY <1>2, <2>1, <2>3 DEF StateT
      <4>2. Other(r.console) \in Player /\ Other(r.console) # consoleplayer[0]
        BY <4>1, Players
      <4>3. consoleplayer[1] = consoleplayer[0] /\ stage[1] \in 0 .. 3
        BY <2>1, <4>1, Players, ArbTyped DEF ArbInv
      <4>. QED
        BY <2>1, <4>2, <4>3
    <3>3. s \in StateT /\ s.stage = 0 /\ s.new = r.new /\ s.console # consoleplayer[0]
      BY <1>2, <3>1, <3>2 DEF StateT
    <3>. HIDE DEF s
    <3>. QED
      BY <1>6, <3>2, <3>3 DEF StateOK
  <2>4. CASE ~pkt.new /\ pkt.player # r.console
    <3>1. s = [stage |-> pkt.stage + 1, due |-> TRUE, new |-> r.new, error |-> r.error, console |-> r.console]
      BY <2>1, <2>4 DEF Process
    <3>2. s \in StateT /\ s.stage = pkt.stage + 1 /\ s.new = r.new /\ s.console = r.console
      BY <1>1, <1>2, <3>1 DEF StateT
    <3>. HIDE DEF s
    <3>. QED
      BY <1>1, <1>6, <2>1, <2>4, <3>2 DEF StateOK
  <2>. QED
    BY <2>2, <2>3, <2>4
<1>. QED
  BY <1>4, <1>5, <1>6, <1>7 DEF Player

\* The first n of a sequence, and the others.
LEMMA Split ==
  ASSUME NEW S, NEW s \in Seq(S), NEW n \in 0 .. Len(s)
  PROVE  /\ SubSeq(s, 1, n) \in Seq(S) /\ Len(SubSeq(s, 1, n)) = n
         /\ \A i \in 1 .. n : SubSeq(s, 1, n)[i] = s[i]
         /\ SubSeq(s, n + 1, Len(s)) \in Seq(S) /\ Len(SubSeq(s, n + 1, Len(s))) = Len(s) - n
         /\ \A i \in 1 .. Len(s) - n : SubSeq(s, n + 1, Len(s))[i] = s[n + i]
         /\ s = SubSeq(s, 1, n) \o SubSeq(s, n + 1, Len(s))
<1>1. Len(s) \in Nat /\ n \in Nat
  BY LenProperties
<1>2. /\ \A i \in 1 .. n : s[i] \in S
      /\ \A i \in n + 1 .. Len(s) : s[i] \in S
      /\ \A i \in 1 .. Len(s) : s[i] \in S
  BY <1>1, ElementOfSeq
<1>3. SubSeq(s, 1, n) \in Seq(S) /\ Len(SubSeq(s, 1, n)) = n /\ \A i \in 1 .. n : SubSeq(s, 1, n)[i] = s[i]
  <2>1. /\ SubSeq(s, 1, n) \in Seq(S) /\ Len(SubSeq(s, 1, n)) = IF 1 <= n THEN n - 1 + 1 ELSE 0
        /\ \A i \in 1 .. n - 1 + 1 : SubSeq(s, 1, n)[i] = s[1 + i - 1]
    BY <1>1, <1>2, SubSeqProperties
  <2>. QED
    BY <1>1, <2>1
<1>4. /\ SubSeq(s, n + 1, Len(s)) \in Seq(S) /\ Len(SubSeq(s, n + 1, Len(s))) = Len(s) - n
      /\ \A i \in 1 .. Len(s) - n : SubSeq(s, n + 1, Len(s))[i] = s[n + i]
  <2>1. /\ SubSeq(s, n + 1, Len(s)) \in Seq(S)
        /\ Len(SubSeq(s, n + 1, Len(s))) = IF n + 1 <= Len(s) THEN Len(s) - (n + 1) + 1 ELSE 0
        /\ \A i \in 1 .. Len(s) - (n + 1) + 1 : SubSeq(s, n + 1, Len(s))[i] = s[n + 1 + i - 1]
    BY <1>1, <1>2, SubSeqProperties
  <2>. QED
    BY <1>1, <2>1
<1>5. s = SubSeq(s, 1, n) \o SubSeq(s, n + 1, Len(s))
  <2>1. 1 \in 1 .. Len(s) + 1 /\ n \in 1 - 1 .. Len(s) /\ Len(s) \in n .. Len(s)
    BY <1>1
  <2>2. SubSeq(s, 1, n) \o SubSeq(s, n + 1, Len(s)) = SubSeq(s, 1, Len(s))
    BY <2>1, ConcatAdjacentSubSeq
  <2>. QED
    BY <2>2, SubSeqFull
<1>. QED
  BY <1>3, <1>4, <1>5

LEMMA ProcessPacketsKeeps ==
  ASSUME ArbInv, NEW p \in Player, stage[p] < 2, NEW n \in 0 .. Len(link[p]), NEW now, StateOK(p, now)
  PROVE  StateOK(p, ProcessPackets(p, now, SubSeq(link[p], 1, n)))
<1> DEFINE pkts == SubSeq(link[p], 1, n)  after == Processed(p, now, pkts)
<1>1. link[p] \in Seq(PacketT) /\ \A i \in 1 .. Len(link[p]) : link[p][i] \in PacketT /\ PacketOK(p, link[p][i])
  BY ArbTyped, LenProperties DEF ArbInv
<1>2. Len(pkts) = n /\ n \in Nat /\ \A i \in 1 .. n : pkts[i] = link[p][i] /\ i \in 1 .. Len(link[p])
  BY <1>1, Split, LenProperties
<1>. HIDE DEF pkts
<1>3. after[0] = now /\ \A k \in 1 .. n : after[k] = Process(p, after[k - 1], pkts[k])
  BY <1>2, ProcessedFacts
<1> DEFINE S == {k \in 0 .. n : StateOK(p, after[k])}
<1>4. 0 \in S
  BY <1>2, <1>3
<1>5. ASSUME NEW k \in 1 .. n, k - 1 \in S PROVE k \in S
  <2>1. pkts[k] \in PacketT /\ PacketOK(p, pkts[k]) /\ StateOK(p, after[k - 1])
    BY <1>1, <1>2, <1>5
  <2>. QED
    BY <1>2, <1>3, <2>1, ProcessKeeps
<1>6. n \in S
  <2>1. n \in 0 .. n
    BY <1>2
  <2>. HIDE DEF S
  <2>. QED
    BY <1>2, <1>4, <1>5, <2>1, UpTo
<1>. QED
  BY <1>2, <1>6 DEF ProcessPackets, pkts

\* A poll begins with the side's own state.
Now(p) == [stage |-> stage[p], due |-> due[p], new |-> new_protocol[p],
           console |-> consoleplayer[p], error |-> FALSE]

LEMMA NowOK ==
  ASSUME ArbInv, NEW p \in Player, phase[p] = "arbitrate"
  PROVE  StateOK(p, Now(p))
<1> DEFINE r == Now(p)
<1>. SUFFICES StateOK(p, r)
  OBVIOUS
<1>1. /\ r \in StateT /\ r.stage = stage[p] /\ r.new = new_protocol[p] /\ r.console = consoleplayer[p]
  BY ArbTyped DEF Now, StateT, ArbInv
<1>. HIDE DEF r
<1>2. CASE p = 0
  BY <1>1, <1>2, Players DEF StateOK, ArbInv, StageOK, NumbersOK
<1>3. CASE p = 1
  BY <1>1, <1>3, Players DEF StateOK, ArbInv, StageOK, NumbersOK
<1>. QED
  BY <1>2, <1>3 DEF Player

\* What a poll of p does: it becomes r, and sends nothing or what it has become.
PollsTo(p, n, r, out) ==
  /\ phase[p] = "arbitrate" /\ stage[p] < 2 /\ n + Due(p) > 0 /\ StateOK(p, r)
  /\ out = <<>> \/ out = <<Announce(p, r.stage, r.new, r.console)>>
  /\ phase' = IF r.error THEN [phase EXCEPT ![p] = "error"] ELSE phase
  /\ stage' = [stage EXCEPT ![p] = r.stage]
  /\ new_protocol' = [new_protocol EXCEPT ![p] = r.new]
  /\ consoleplayer' = [consoleplayer EXCEPT ![p] = r.console]
  /\ due' = [due EXCEPT ![p] = FALSE]
  /\ link' = [link EXCEPT ![p] = SubSeq(@, n + 1, Len(@)), ![Other(p)] = @ \o out]
  /\ UNCHANGED <<old, localid, losses, lastlost>>

LEMMA Polled ==
  ASSUME ArbInv, NEW p \in Player, NEW n \in 0 .. Len(link[p]), Poll(p, n)
  PROVE  \E r, out : PollsTo(p, n, r, out)
<1> DEFINE r == ProcessPackets(p, Now(p), SubSeq(link[p], 1, n))
           out == IF r.due /\ ~r.error /\ Hears(Other(p))
                     THEN <<Announce(p, r.stage, r.new, r.console)>> ELSE <<>>
<1>1. phase[p] = "arbitrate" /\ stage[p] < 2 /\ n + Due(p) > 0
  BY DEF Poll, Due
<1>2. StateOK(p, r)
  BY <1>1, NowOK, ProcessPacketsKeeps
<1>3. out = <<>> \/ out = <<Announce(p, r.stage, r.new, r.console)>>
  OBVIOUS
<1>4. /\ phase' = IF r.error THEN [phase EXCEPT ![p] = "error"] ELSE phase
      /\ stage' = [stage EXCEPT ![p] = r.stage]
      /\ new_protocol' = [new_protocol EXCEPT ![p] = r.new]
      /\ consoleplayer' = [consoleplayer EXCEPT ![p] = r.console]
      /\ due' = [due EXCEPT ![p] = FALSE]
      /\ link' = [link EXCEPT ![p] = SubSeq(@, n + 1, Len(@)), ![Other(p)] = @ \o out]
      /\ UNCHANGED <<old, localid, losses, lastlost>>
  BY DEF Poll, Now
<1>. HIDE DEF r, out
<1>5. PollsTo(p, n, r, out)
  BY <1>1, <1>2, <1>3, <1>4 DEF PollsTo
<1>. QED
  BY <1>5

LEMMA Announced ==
  ASSUME ArbInv, NEW p \in Player, NEW r, StateOK(p, r)
  PROVE  LET pkt == Announce(p, r.stage, r.new, r.console)
         IN /\ pkt \in PacketT /\ pkt.stage = r.stage /\ pkt.new = r.new
            /\ r.new => pkt.id = localid[p]
            /\ ~r.new => pkt.player = r.console
<1> DEFINE i == IF r.new THEN localid[p] ELSE -1
           c == IF r.new THEN -1 ELSE r.console
           pkt == Announce(p, r.stage, r.new, r.console)
<1>1. r \in StateT /\ r.stage \in 0 .. 3 /\ r.new \in BOOLEAN /\ r.console \in {0, 1}
  BY DEF StateOK, StateT, Player
<1>2. ForcedSecond \in Int /\ -1 \in -1 .. ForcedSecond /\ \A x \in ID : x \in -1 .. ForcedSecond
  <2>1. ForcedFirst = 0 /\ ForcedSecond \in Int /\ ForcedSecond >= 0
    BY DEF ForcedFirst, ForcedSecond
  <2>. QED
    BY <2>1 DEF ID
<1>3. i \in -1 .. ForcedSecond
  BY <1>2, ArbTyped DEF ArbInv
<1>4. c \in -1 .. 1
  BY <1>1
<1>5. pkt = [new |-> r.new, id |-> i, player |-> c, stage |-> r.stage]
  BY DEF Announce
<1>6. /\ r.new => i = localid[p]
      /\ ~r.new => c = r.console
  OBVIOUS
<1>. HIDE DEF i, c, pkt
<1>7. /\ pkt \in PacketT /\ pkt.stage = r.stage /\ pkt.new = r.new
      /\ r.new => pkt.id = localid[p]
      /\ ~r.new => pkt.player = r.console
  BY <1>1, <1>3, <1>4, <1>5, <1>6 DEF PacketT
<1>. QED
  BY <1>7 DEF pkt

LEMMA Sums ==
  ASSUME NEW a \in Nat, NEW b \in Nat, NEW c \in 0 .. 1, NEW d, NEW e, NEW m \in Nat, NEW s \in Int,
         s <= m + 1, a + b + c <= s, (d = 0 /\ e = c) \/ (e = 0 /\ d = c)
  PROVE  a + b + d + e <= m + 1
OBVIOUS

\* What it does to the packets on their way.
LinksOf(p, n, r, out, q) ==
  /\ Len(link'[p]) = Len(link[p]) - n /\ \A i \in 1 .. Len(link'[p]) : link'[p][i] = link[p][n + i]
  /\ Len(link'[q]) = Len(link[q]) + Len(out)
  /\ \A i \in 1 .. Len(link[q]) : link'[q][i] = link[q][i]
  /\ out # <<>> => link'[q][Len(link[q]) + 1] = Announce(p, r.stage, r.new, r.console)
  /\ Len(out) \in 0 .. 1 /\ (Len(out) = 0 <=> out = <<>>)

LEMMA PollTypes ==
  ASSUME ArbInv, NEW p \in Player, NEW n \in 0 .. Len(link[p]), NEW r, NEW out, PollsTo(p, n, r, out)
  PROVE  ArbTypes' /\ Bounded' /\ LinksOf(p, n, r, out, Other(p))
<1> DEFINE q == Other(p)  pkt == Announce(p, r.stage, r.new, r.console)
<1>1. q \in Player /\ q # p /\ link[p] \in Seq(PacketT) /\ link[q] \in Seq(PacketT)
      /\ Len(link[p]) \in Nat /\ Len(link[q]) \in Nat /\ n \in Nat
  BY Players, ArbTyped DEF ArbInv
<1>2. pkt \in PacketT
  BY Announced DEF PollsTo
<1>3. out = <<>> \/ out = <<pkt>>
  BY DEF PollsTo
<1>4. link'[p] = SubSeq(link[p], n + 1, Len(link[p])) /\ link'[q] = link[q] \o out
      /\ DOMAIN link' = Player
  BY <1>1 DEF PollsTo, ArbInv, ArbTypes
<1>. HIDE DEF pkt
<1>5. out \in Seq(PacketT) /\ Len(out) \in 0 .. 1 /\ (Len(out) = 0 <=> out = <<>>)
      /\ (out # <<>> => Len(out) = 1 /\ out[1] = pkt)
  <2>1. CASE out = <<>>
    BY <2>1
  <2>2. CASE out = <<pkt>>
    BY <1>2, <2>2
  <2>. QED
    BY <1>3, <2>1, <2>2
<1>6. /\ link'[p] \in Seq(PacketT) /\ Len(link'[p]) = Len(link[p]) - n
      /\ \A i \in 1 .. Len(link'[p]) : link'[p][i] = link[p][n + i]
  BY <1>1, <1>4, Split
<1>7. /\ link'[q] \in Seq(PacketT) /\ Len(link'[q]) = Len(link[q]) + Len(out)
      /\ \A i \in 1 .. Len(link[q]) + Len(out) :
           link'[q][i] = IF i <= Len(link[q]) THEN link[q][i] ELSE out[i - Len(link[q])]
  BY <1>1, <1>4, <1>5, ConcatProperties
<1>8. /\ \A i \in 1 .. Len(link[q]) : link'[q][i] = link[q][i]
      /\ out # <<>> => link'[q][Len(link[q]) + 1] = pkt
  <2>1. \A i \in 1 .. Len(link[q]) : i \in 1 .. Len(link[q]) + Len(out) /\ i <= Len(link[q])
    BY <1>1, <1>5
  <2>2. ASSUME out # <<>> PROVE link'[q][Len(link[q]) + 1] = pkt
    <3> DEFINE j == Len(link[q]) + 1
    <3>1. j \in 1 .. Len(link[q]) + Len(out) /\ ~(j <= Len(link[q])) /\ j - Len(link[q]) = 1
      BY <1>1, <1>5, <2>2
    <3>. HIDE DEF j
    <3>2. link'[q][j] = out[1]
      BY <1>7, <3>1
    <3>. QED
      BY <1>5, <2>2, <3>2 DEF j
  <2>. QED
    BY <1>7, <2>1, <2>2
<1>9. ArbTypes'
  <2>1. r \in StateT
    BY DEF PollsTo, StateOK
  <2>2. phase' \in [Player -> Phase]
    BY <1>1 DEF PollsTo, ArbInv, ArbTypes, Phase
  <2>3. stage' \in [Player -> 0 .. 3] /\ consoleplayer' \in [Player -> Player]
    BY <2>1 DEF PollsTo, ArbInv, ArbTypes, StateT
  <2>4. new_protocol' \in [Player -> BOOLEAN] /\ due' \in [Player -> BOOLEAN]
    BY <2>1 DEF PollsTo, ArbInv, ArbTypes, StateT
  <2>5. link' \in [Player -> Seq(PacketT)]
    <3>1. Player = {p, q}
      BY DEF Player, Other
    <3>2. link' = [link EXCEPT ![p] = SubSeq(link[p], n + 1, Len(link[p])), ![q] = link[q] \o out]
      BY <1>1 DEF PollsTo
    <3>3. link \in [Player -> Seq(PacketT)]
      BY DEF ArbInv, ArbTypes
    <3>. QED
      BY <1>1, <1>4, <1>6, <1>7, <3>1, <3>2, <3>3
  <2>6. old' \in {{}, {1}} /\ localid' \in [Player -> ID] /\ losses' \in 0 .. MaxLosses /\ lastlost' \in BOOLEAN
    BY DEF PollsTo, ArbInv, ArbTypes
  <2>. QED
    BY <2>2, <2>3, <2>4, <2>5, <2>6 DEF ArbTypes
<1>10. Bounded'
  <2>1. due'[p] = FALSE /\ due'[q] = due[q]
    BY <1>1 DEF PollsTo, ArbInv, ArbTypes
  <2>2. /\ n + Due(p) > 0 /\ Due(p) \in 0 .. 1 /\ Due(q) \in 0 .. 1
        /\ Len(link[0]) + Len(link[1]) + Due(0) + Due(1) <= MaxLink + 1 /\ MaxLink \in Nat
    <3>1. Due(p) \in 0 .. 1 /\ Due(q) \in 0 .. 1
      BY DEF Due
    <3>2. n + Due(p) > 0
      BY DEF PollsTo
    <3>3. Len(link[0]) + Len(link[1]) + Due(0) + Due(1) <= MaxLink + 1
      BY DEF ArbInv, Bounded
    <3>. QED
      BY <3>1, <3>2, <3>3, BoundsAssumption
  <2>3. /\ Len(link'[p]) = Len(link[p]) - n /\ Len(link'[q]) = Len(link[q]) + Len(out)
        /\ Len(out) \in 0 .. 1 /\ n \in 0 .. Len(link[p]) /\ Len(link[p]) \in Nat /\ Len(link[q]) \in Nat
    BY <1>1, <1>5, <1>6, <1>7
  <2>4. Len(link'[p]) + Len(link'[q]) + Due(q) <= Len(link[p]) + Len(link[q]) + Due(p) + Due(q)
    <3> DEFINE a == Len(link[p])  b == Len(link[q])  c == Len(out)  d == Due(p)
    <3>1. /\ n + d > 0 /\ d \in 0 .. 1 /\ c \in 0 .. 1 /\ a \in Nat /\ b \in Nat /\ n \in 0 .. a
          /\ Len(link'[p]) = a - n /\ Len(link'[q]) = b + c /\ Due(q) \in 0 .. 1
      BY <2>2, <2>3
    <3>. HIDE DEF a, b, c, d
    <3>2. (a - n) + (b + c) + Due(q) <= a + b + d + Due(q)
      BY <3>1
    <3>. QED
      BY <3>1, <3>2 DEF a, b, c, d
  <2>5. (IF due'[p] THEN 1 ELSE 0) = 0 /\ (IF due'[q] THEN 1 ELSE 0) = Due(q)
    BY <2>1 DEF Due
  <2>6. CASE p = 0
    <3>1. q = 1
      BY <2>6, Players
    <3>2. Len(link'[0]) + Len(link'[1]) + (IF due'[0] THEN 1 ELSE 0) + (IF due'[1] THEN 1 ELSE 0) <= MaxLink + 1
      <4>1. /\ (IF due'[0] THEN 1 ELSE 0) = 0 /\ (IF due'[1] THEN 1 ELSE 0) = Due(1)
            /\ Len(link'[0]) + Len(link'[1]) + Due(1) <= Len(link[0]) + Len(link[1]) + Due(0) + Due(1)
        BY <2>4, <2>5, <2>6, <3>1
      <4>2. Len(link'[0]) \in Nat /\ Len(link'[1]) \in Nat /\ Due(0) \in 0 .. 1 /\ Due(1) \in 0 .. 1
            /\ Len(link[0]) \in Nat /\ Len(link[1]) \in Nat
        BY <2>2, <2>3, <2>6, <3>1
      <4>3. Len(link[0]) + Len(link[1]) + Due(0) + Due(1) <= MaxLink + 1 /\ MaxLink \in Nat
        BY <2>2
      <4> DEFINE a == Len(link'[0])  b == Len(link'[1])  c == Due(1)  x == Len(link[0])  y == Len(link[1])  u == Due(0)  v == Due(1)  s == x + y + u + v
                 d == IF due'[0] THEN 1 ELSE 0  e == IF due'[1] THEN 1 ELSE 0
      <4>4. a \in Nat /\ b \in Nat /\ c \in 0 .. 1 /\ MaxLink \in Nat
        BY <4>2, <4>3
      <4>5. s \in Int /\ s <= MaxLink + 1
        <5>1. x \in Nat /\ y \in Nat /\ u \in 0 .. 1 /\ v \in 0 .. 1
          BY <4>2
        <5>2. s <= MaxLink + 1
          BY <4>3
        <5>3. s \in Int
          <6>. HIDE DEF x, y, u, v
          <6>. QED
            BY <5>1
        <5>. QED
          BY <5>2, <5>3
      <4>6. a + b + c <= s
        BY <4>1
      <4>7. (d = 0 /\ e = c) \/ (e = 0 /\ d = c)
        BY <4>1
      <4>8. a + b + d + e <= MaxLink + 1
        <5>. HIDE DEF a, b, c, d, e, s, x, y, u, v
        <5>. QED
          BY <4>4, <4>5, <4>6, <4>7, Sums
      <4>. QED
        BY <4>8
    <3>. QED
      BY <3>2 DEF Bounded, Due
  <2>7. CASE p = 1
    <3>1. q = 0
      BY <2>7, Players
    <3>2. Len(link'[0]) + Len(link'[1]) + (IF due'[0] THEN 1 ELSE 0) + (IF due'[1] THEN 1 ELSE 0) <= MaxLink + 1
      <4>1. /\ (IF due'[1] THEN 1 ELSE 0) = 0 /\ (IF due'[0] THEN 1 ELSE 0) = Due(0)
            /\ Len(link'[1]) + Len(link'[0]) + Due(0) <= Len(link[1]) + Len(link[0]) + Due(1) + Due(0)
        BY <2>4, <2>5, <2>7, <3>1
      <4>2. Len(link'[0]) \in Nat /\ Len(link'[1]) \in Nat /\ Due(0) \in 0 .. 1 /\ Due(1) \in 0 .. 1
            /\ Len(link[0]) \in Nat /\ Len(link[1]) \in Nat
        BY <2>2, <2>3, <2>7, <3>1
      <4>3. Len(link[0]) + Len(link[1]) + Due(0) + Due(1) <= MaxLink + 1 /\ MaxLink \in Nat
        BY <2>2
      <4> DEFINE a == Len(link'[0])  b == Len(link'[1])  c == Due(0)  x == Len(link[0])  y == Len(link[1])  u == Due(0)  v == Due(1)  s == x + y + u + v
                 d == IF due'[0] THEN 1 ELSE 0  e == IF due'[1] THEN 1 ELSE 0
      <4>4. a \in Nat /\ b \in Nat /\ c \in 0 .. 1 /\ MaxLink \in Nat
        BY <4>2, <4>3
      <4>5. s \in Int /\ s <= MaxLink + 1
        <5>1. x \in Nat /\ y \in Nat /\ u \in 0 .. 1 /\ v \in 0 .. 1
          BY <4>2
        <5>2. s <= MaxLink + 1
          BY <4>3
        <5>3. s \in Int
          <6>. HIDE DEF x, y, u, v
          <6>. QED
            BY <5>1
        <5>. QED
          BY <5>2, <5>3
      <4>6. a + b + c <= s
        <5>1. b + a + c <= y + x + v + u
          BY <4>1
        <5>2. x \in Nat /\ y \in Nat /\ u \in 0 .. 1 /\ v \in 0 .. 1
          BY <4>2
        <5>3. a + b + c <= x + y + u + v
          <6>. HIDE DEF a, b, c, x, y, u, v
          <6>. QED
            BY <4>4, <5>1, <5>2
        <5>. QED
          BY <5>3
      <4>7. (d = 0 /\ e = c) \/ (e = 0 /\ d = c)
        BY <4>1
      <4>8. a + b + d + e <= MaxLink + 1
        <5>. HIDE DEF a, b, c, d, e, s, x, y, u, v
        <5>. QED
          BY <4>4, <4>5, <4>6, <4>7, Sums
      <4>. QED
        BY <4>8
    <3>. QED
      BY <3>2 DEF Bounded, Due
  <2>. QED
    BY <2>6, <2>7 DEF Player
<1>. QED
  BY <1>5, <1>6, <1>7, <1>8, <1>9, <1>10, Zenon DEF LinksOf, pkt

\* What a poll of p changes.
LEMMA PollChanges ==
  ASSUME ArbInv, NEW p \in Player, NEW n \in 0 .. Len(link[p]), NEW r, NEW out, PollsTo(p, n, r, out)
  PROVE  LET q == Other(p)
         IN /\ stage'[p] = r.stage /\ consoleplayer'[p] = r.console /\ new_protocol'[p] = r.new
            /\ stage'[q] = stage[q] /\ consoleplayer'[q] = consoleplayer[q]
            /\ new_protocol'[q] = new_protocol[q] /\ phase'[q] = phase[q]
            /\ phase'[p] = IF r.error THEN "error" ELSE "arbitrate"
            /\ old' = old /\ localid' = localid /\ stage[p] \in 0 .. 1
            /\ r.stage \in 0 .. 3 /\ stage[q] \in 0 .. 3
<1>1. Other(p) \in Player /\ Other(p) # p
  BY Players
<1>2. r \in StateT /\ stage[p] \in 0 .. 3 /\ stage[p] < 2
  BY ArbTyped DEF PollsTo, StateOK, ArbInv
<1>3. r.stage \in 0 .. 3 /\ stage[p] \in 0 .. 1 /\ stage[Other(p)] \in 0 .. 3
  BY <1>1, <1>2, ArbTyped DEF StateT, ArbInv
<1>. QED
  BY <1>1, <1>3 DEF PollsTo, ArbInv, ArbTypes

LEMMA PollNumbers ==
  ASSUME ArbInv, NEW p \in Player, NEW n \in 0 .. Len(link[p]), NEW r, NEW out, PollsTo(p, n, r, out)
  PROVE  NumbersOK' /\ \A x \in Player : StageOK(x)'
<1> DEFINE q == Other(p)
<1>1. q \in Player /\ q # p /\ Other(q) = p /\ Player = {p, q} /\ Player = {0, 1}
  BY DEF Player, Other
<1>2. /\ stage'[p] = r.stage /\ consoleplayer'[p] = r.console /\ new_protocol'[p] = r.new
      /\ stage'[q] = stage[q] /\ consoleplayer'[q] = consoleplayer[q]
      /\ new_protocol'[q] = new_protocol[q] /\ phase'[q] = phase[q]
      /\ phase'[p] = IF r.error THEN "error" ELSE "arbitrate"
      /\ old' = old /\ localid' = localid /\ stage[p] \in 0 .. 1
      /\ r.stage \in 0 .. 3 /\ stage[q] \in 0 .. 3
  BY PollChanges
<1>3. StateOK(p, r) /\ StageOK(p) /\ StageOK(q) /\ NumbersOK
  BY <1>1 DEF PollsTo, ArbInv
<1>. HIDE DEF q
<1>4. StageOK(p)' /\ StageOK(q)'
  <2>1. /\ r.stage >= 2 => stage[q] > 0
        /\ r.stage = 3 => stage[q] >= 2
        /\ stage[p] > 0 => r.stage > 0
    BY <1>3 DEF StateOK, q
  <2>2. /\ stage[q] >= 2 => stage[p] > 0
        /\ stage[q] = 3 => stage[p] >= 2
        /\ phase[q] \in {"off", "connected"} => stage[q] = 0
    BY <1>1, <1>3 DEF StageOK
  <2>3. StageOK(p)'
    BY <1>2, <2>1 DEF StageOK, q
  <2>4. StageOK(q)'
    BY <1>1, <1>2, <2>1, <2>2 DEF StageOK
  <2>. QED
    BY <2>3, <2>4
<1>5. ASSUME old = {}
      PROVE  \A x \in Player :
               /\ new_protocol'[x]
               /\ stage'[x] > 0 => /\ consoleplayer'[x] = Ordered(localid[x], localid[Other(x)])
                                   /\ phase'[x] = "error" \/ localid[x] # localid[Other(x)]
  <2>1. /\ new_protocol[q]
        /\ stage[q] > 0 => /\ consoleplayer[q] = Ordered(localid[q], localid[Other(q)])
                           /\ phase[q] = "error" \/ localid[q] # localid[Other(q)]
    BY <1>1, <1>3, <1>5 DEF NumbersOK
  <2>2. /\ r.new
        /\ r.stage > 0 => /\ r.console = Ordered(localid[p], localid[Other(p)])
                          /\ r.error \/ localid[p] # localid[Other(p)]
    BY <1>3, <1>5 DEF StateOK
  <2>. QED
    BY <1>1, <1>2, <2>1, <2>2
<1>6. ASSUME old # {}
      PROVE  /\ ~new_protocol'[1]
             /\ stage'[1] > 0 \/ stage'[0] >= 2 => consoleplayer'[1] # consoleplayer'[0]
  <2>1. /\ ~new_protocol[1]
        /\ stage[1] > 0 \/ stage[0] >= 2 => consoleplayer[1] # consoleplayer[0]
    BY <1>3, <1>6 DEF NumbersOK
  <2>2. CASE p = 0
    <3>1. q = 1 /\ r.console = consoleplayer[0] /\ (r.stage >= 2 => consoleplayer[1] # consoleplayer[0])
      BY <1>3, <1>6, <2>2, Players DEF StateOK, q
    <3>. QED
      BY <1>2, <2>1, <2>2, <3>1
  <2>3. CASE p = 1
    <3>1. q = 0 /\ ~r.new /\ (r.console = consoleplayer[1] \/ r.console # consoleplayer[0])
          /\ (r.stage > 0 => r.console # consoleplayer[0])
      BY <1>3, <1>6, <2>3, Players DEF StateOK, q
    <3>. QED
      BY <1>2, <2>1, <2>3, <3>1
  <2>. QED
    BY <1>1, <2>2, <2>3
<1>. QED
  BY <1>1, <1>2, <1>4, <1>5, <1>6 DEF NumbersOK

LEMMA PollPackets ==
  ASSUME ArbInv, NEW p \in Player, NEW n \in 0 .. Len(link[p]), NEW r, NEW out, PollsTo(p, n, r, out)
  PROVE  \A x \in Player : \A i \in 1 .. Len(link'[x]) : PacketOK(x, link[x][i])'
<1> DEFINE q == Other(p)
<1>1. q \in Player /\ q # p /\ Other(q) = p /\ Player = {p, q} /\ Player = {0, 1}
  BY DEF Player, Other
<1>2. /\ stage'[p] = r.stage /\ consoleplayer'[p] = r.console
      /\ stage'[q] = stage[q] /\ consoleplayer'[q] = consoleplayer[q]
      /\ old' = old /\ localid' = localid /\ stage[p] \in 0 .. 1
      /\ r.stage \in 0 .. 3 /\ stage[q] \in 0 .. 3
  BY PollChanges
<1>3. StateOK(p, r) /\ (old = {} \/ old # {}) /\ r \in StateT
  BY DEF PollsTo, StateOK
<1>4. ASSUME NEW pkt \in PacketT, PacketOK(p, pkt) PROVE PacketOK(p, pkt)'
  <2>1. /\ pkt.stage > 0 => stage[q] > 0
        /\ pkt.stage >= 2 => stage[q] >= 2
        /\ pkt.stage # 3
    BY <1>2, <1>4 DEF PacketOK
  <2>2. CASE old = {}
    <3>1. pkt.new /\ pkt.id = localid[q]
      BY <1>4, <2>2 DEF PacketOK
    <3>. QED
      BY <1>2, <2>1, <2>2, <3>1 DEF PacketOK
  <2>3. CASE old # {} /\ p = 0
    <3>1. /\ ~pkt.new
          /\ pkt.player = consoleplayer[0] => pkt.stage = 0
          /\ pkt.player # consoleplayer[0] => consoleplayer[1] # consoleplayer[0]
          /\ consoleplayer'[0] = consoleplayer[0] /\ consoleplayer'[1] = consoleplayer[1]
      BY <1>2, <1>3, <1>4, <2>3, Players DEF PacketOK, StateOK
    <3>. QED
      BY <1>2, <2>1, <2>3, <3>1 DEF PacketOK
  <2>4. CASE old # {} /\ p = 1
    <3>1. (pkt.new \/ pkt.player = consoleplayer[0]) /\ consoleplayer'[0] = consoleplayer[0]
      BY <1>2, <1>4, <2>4, Players DEF PacketOK
    <3>. QED
      BY <1>2, <2>1, <2>4, <3>1 DEF PacketOK
  <2>. QED
    BY <1>1, <2>2, <2>3, <2>4
<1>5. ASSUME NEW pkt \in PacketT, PacketOK(q, pkt) PROVE PacketOK(q, pkt)'
  <2>1. /\ pkt.stage > 0 => r.stage > 0
        /\ pkt.stage \in 0 .. 1
    <3>1. pkt.stage \in 0 .. 3
      BY DEF PacketT
    <3>2. pkt.stage > 0 => stage[p] > 0
      BY <1>1, <1>5 DEF PacketOK
    <3>3. pkt.stage >= 2 => stage[p] >= 2
      BY <1>1, <1>5 DEF PacketOK
    <3>4. stage[p] > 0 => r.stage > 0
      BY <1>3 DEF StateOK
    <3>. QED
      BY <1>2, <3>1, <3>2, <3>3, <3>4
  <2>2. CASE old = {}
    <3>1. pkt.new /\ pkt.id = localid[p]
      BY <1>1, <1>5, <2>2 DEF PacketOK
    <3>. QED
      BY <1>1, <1>2, <2>1, <2>2, <3>1 DEF PacketOK
  <2>3. CASE old # {} /\ p = 0
    <3>1. q = 1 /\ (pkt.new \/ pkt.player = consoleplayer[0]) /\ consoleplayer'[0] = consoleplayer[0]
      BY <1>2, <1>3, <1>5, <2>3, Players DEF PacketOK, StateOK
    <3>. QED
      BY <1>1, <1>2, <2>1, <2>3, <3>1 DEF PacketOK
  <2>4. CASE old # {} /\ p = 1
    <3>1. /\ q = 0 /\ ~pkt.new
          /\ pkt.player = consoleplayer[0] => pkt.stage = 0
          /\ pkt.player # consoleplayer[0] => consoleplayer[1] # consoleplayer[0]
          /\ r.console = consoleplayer[1] \/ r.console # consoleplayer[0]
      BY <1>3, <1>5, <2>4, Players DEF PacketOK, StateOK
    <3>2. consoleplayer'[0] = consoleplayer[0] /\ consoleplayer'[1] = r.console
      BY <1>2, <2>4, <3>1
    <3>. QED
      BY <1>1, <1>2, <2>1, <2>4, <3>1, <3>2 DEF PacketOK
  <2>. QED
    BY <1>1, <2>2, <2>3, <2>4
<1>6. ASSUME NEW pkt, pkt.stage = r.stage, pkt.new = r.new, r.new => pkt.id = localid[p],
             ~r.new => pkt.player = r.console
      PROVE  PacketOK(q, pkt)'
  <2>1. /\ r.stage = 3 => stage[q] >= 2
        /\ stage'[p] = r.stage /\ stage'[q] = stage[q] /\ Other(q) = p
    BY <1>1, <1>2, <1>3 DEF StateOK
  <2>2. CASE old = {}
    <3>1. r.new
      BY <1>3, <2>2 DEF StateOK
    <3>. QED
      BY <1>1, <1>2, <1>6, <2>1, <2>2, <3>1 DEF PacketOK
  <2>3. CASE old # {} /\ p = 0
    <3>1. q = 1 /\ r.console = consoleplayer[0] /\ consoleplayer'[0] = r.console
      BY <1>2, <1>3, <2>3, Players DEF StateOK
    <3>. QED
      BY <1>1, <1>2, <1>6, <2>1, <2>3, <3>1 DEF PacketOK
  <2>4. CASE old # {} /\ p = 1
    <3>1. q = 0 /\ ~r.new /\ (r.stage > 0 => r.console # consoleplayer[0])
      BY <1>3, <2>4, Players DEF StateOK
    <3>2. consoleplayer'[0] = consoleplayer[0] /\ consoleplayer'[1] = r.console
      BY <1>2, <2>4, <3>1
    <3>3. r.stage \in 0 .. 3
      BY <1>2
    <3>. QED
      BY <1>1, <1>2, <1>6, <2>1, <2>4, <3>1, <3>2, <3>3 DEF PacketOK
  <2>. QED
    BY <1>1, <2>2, <2>3, <2>4
<1>7. /\ Len(link'[p]) = Len(link[p]) - n /\ \A i \in 1 .. Len(link'[p]) : link'[p][i] = link[p][n + i]
      /\ Len(link'[q]) = Len(link[q]) + Len(out)
      /\ \A i \in 1 .. Len(link[q]) : link'[q][i] = link[q][i]
      /\ out # <<>> => link'[q][Len(link[q]) + 1] = Announce(p, r.stage, r.new, r.console)
      /\ Len(out) \in 0 .. 1 /\ (Len(out) = 0 <=> out = <<>>)
  <2>1. LinksOf(p, n, r, out, q)
    BY PollTypes
  <2>. HIDE DEF q
  <2>. QED
    BY <2>1, Zenon DEF LinksOf
<1>8. \A x \in Player : Len(link[x]) \in Nat /\ \A i \in 1 .. Len(link[x]) : link[x][i] \in PacketT /\ PacketOK(x, link[x][i])
  BY ArbTyped, LenProperties DEF ArbInv
<1>. HIDE DEF q
<1>9. ASSUME NEW i \in 1 .. Len(link'[p]) PROVE PacketOK(p, link[p][i])'
  <2> DEFINE pkt == link[p][n + i]
  <2>1. n + i \in 1 .. Len(link[p])
    BY <1>7, <1>8
  <2>2. link'[p][i] = pkt /\ pkt \in PacketT /\ PacketOK(p, pkt)
    BY <1>7, <1>8, <2>1
  <2>. HIDE DEF pkt
  <2>3. PICK e \in PacketT : e = pkt
    BY <2>2
  <2>4. PacketOK(p, e)'
    BY <1>4, <2>2, <2>3
  <2>. QED
    BY <2>2, <2>3, <2>4 DEF PacketOK
<1>10. ASSUME NEW i \in 1 .. Len(link'[q]) PROVE PacketOK(q, link[q][i])'
  <2>1. CASE i \in 1 .. Len(link[q])
    <3>1. PICK e \in PacketT : e = link[q][i] /\ PacketOK(q, e)
      BY <1>1, <1>8, <2>1
    <3>2. link'[q][i] = e
      BY <1>7, <2>1, <3>1
    <3>3. PacketOK(q, e)'
      BY <1>5, <3>1
    <3>. QED
      BY <3>2, <3>3 DEF PacketOK
  <2>2. CASE i \notin 1 .. Len(link[q])
    <3>1. i = Len(link[q]) + 1 /\ out # <<>>
      <4> DEFINE a == Len(link[q])  b == Len(link'[q])  c == Len(out)
      <4>1. a \in Nat
        BY <1>1, <1>8
      <4>4. b = a + c /\ c \in 0 .. 1 /\ (c = 0 <=> out = <<>>)
        BY <1>7
      <4>2. i \in 1 .. b /\ i \notin 1 .. a
        BY <2>2
      <4>3. i = a + 1 /\ out # <<>>
        <5>. HIDE DEF a, b, c
        <5>. QED
          BY <4>1, <4>2, <4>4
      <4>. QED
        BY <4>3
    <3>2. link'[q][i] = Announce(p, r.stage, r.new, r.console)
      BY <1>7, <3>1
    <3>3. PICK e \in PacketT : e = Announce(p, r.stage, r.new, r.console)
      BY <1>3, Announced
    <3>4. /\ e.stage = r.stage /\ e.new = r.new
          /\ r.new => e.id = localid[p]
          /\ ~r.new => e.player = r.console
      BY <1>3, <3>3, Announced
    <3>5. PacketOK(q, e)'
      BY <1>6, <3>4
    <3>. QED
      BY <3>2, <3>3, <3>5 DEF PacketOK
  <2>. QED
    BY <2>1, <2>2
<1>. QED
  BY <1>1, <1>9, <1>10

LEMMA PollKeeps ==
  ASSUME ArbInv, NEW p \in Player, NEW n \in 0 .. Len(link[p]), Poll(p, n)
  PROVE  ArbInv'
<1>1. PICK r, out : PollsTo(p, n, r, out)
  BY Polled
<1>2. ArbTypes' /\ Bounded'
  BY <1>1, PollTypes
<1>3. NumbersOK' /\ \A x \in Player : StageOK(x)'
  BY <1>1, PollNumbers
<1>4. \A x \in Player : \A i \in 1 .. Len(link'[x]) : PacketOK(x, link[x][i])'
  BY <1>1, PollPackets
<1>5. \A x \in Player : DOMAIN link'[x] = 1 .. Len(link'[x])
  BY <1>2, LenProperties DEF ArbTypes
<1>. QED
  BY <1>2, <1>3, <1>4, <1>5 DEF ArbInv

\* Steps that only change what a side does, and do not make it forget an error.
LEMMA PhaseKeeps ==
  ASSUME ArbInv, phase' \in [Player -> Phase],
         UNCHANGED <<old, localid, consoleplayer, stage, new_protocol, due, link, losses, lastlost>>,
         \A p \in Player : /\ phase'[p] \in {"off", "connected"} => stage[p] = 0
                           /\ phase[p] = "error" => phase'[p] = "error" \/ stage[p] = 0
  PROVE  ArbInv'
<1>1. ArbTypes' /\ Bounded'
  BY DEF ArbInv, ArbTypes, Bounded, Due
<1>2. ASSUME NEW p \in Player
      PROVE  StageOK(p)' /\ \A i \in DOMAIN link[p] : PacketOK(p, link[p][i])'
  BY <1>2 DEF ArbInv, StageOK, PacketOK
<1>3. NumbersOK'
  <2>1. \A p \in Player : stage[p] \in 0 .. 3
    BY DEF ArbInv, ArbTypes
  <2>. QED
    BY <2>1 DEF ArbInv, NumbersOK
<1>. QED
  BY <1>1, <1>2, <1>3 DEF ArbInv

\* Steps that only take packets from the link.
LEMMA LinkKeeps ==
  ASSUME ArbInv, link' \in [Player -> Seq(PacketT)], due' = due, losses' \in 0 .. MaxLosses, lastlost' \in BOOLEAN,
         UNCHANGED <<old, localid, phase, consoleplayer, stage, new_protocol>>,
         \A p \in Player : /\ Len(link'[p]) <= Len(link[p])
                           /\ \A i \in 1 .. Len(link'[p]) : \E j \in 1 .. Len(link[p]) : link'[p][i] = link[p][j]
  PROVE  ArbInv'
<1>1. ArbTypes'
  BY DEF ArbInv, ArbTypes
<1>2. Bounded'
  <2> DEFINE a == Len(link[0])  b == Len(link[1])  c == Len(link'[0])  d == Len(link'[1])
  <2>1. 0 \in Player /\ 1 \in Player
    BY Players
  <2>2. a \in Nat /\ b \in Nat /\ c \in Nat /\ d \in Nat /\ c <= a /\ d <= b
    BY <2>1, LenProperties DEF ArbInv, ArbTypes
  <2>3. Due(0) \in 0 .. 1 /\ Due(1) \in 0 .. 1 /\ Due(0)' = Due(0) /\ Due(1)' = Due(1)
    BY DEF Due
  <2>4. MaxLink \in Nat /\ a + b + Due(0) + Due(1) <= MaxLink + 1
    BY BoundsAssumption DEF ArbInv, Bounded
  <2>. HIDE DEF a, b, c, d
  <2>5. c + d + Due(0) + Due(1) <= MaxLink + 1
    BY <2>2, <2>3, <2>4
  <2>. QED
    BY <2>3, <2>5 DEF Bounded, c, d, Due
<1>3. NumbersOK' /\ \A p \in Player : StageOK(p)'
  BY DEF ArbInv, NumbersOK, StageOK
<1>4. ASSUME NEW p \in Player, NEW i \in 1 .. Len(link'[p]) PROVE PacketOK(p, link[p][i])'
  <2>1. PICK j \in 1 .. Len(link[p]) : link'[p][i] = link[p][j]
    OBVIOUS
  <2>2. PICK pkt \in PacketT : pkt = link[p][j]
    BY ArbTyped DEF ArbInv
  <2>3. DOMAIN link[p] = 1 .. Len(link[p])
    BY ArbTyped, LenProperties DEF ArbInv
  <2>4. PacketOK(p, pkt)
    BY <2>2, <2>3 DEF ArbInv
  <2>5. PacketOK(p, pkt)'
    BY <2>4 DEF PacketOK
  <2>. QED
    BY <2>1, <2>2, <2>5 DEF PacketOK
<1>5. \A p \in Player : DOMAIN link'[p] = 1 .. Len(link'[p])
  BY LenProperties
<1>. QED
  BY <1>1, <1>2, <1>3, <1>4, <1>5 DEF ArbInv

LEMMA SecondKeeps ==
  ASSUME ArbInv, NEW p \in Player, Second(p)
  PROVE  ArbInv'
<1>1. ArbTypes'
  BY DEF ArbInv, ArbTypes, Second
<1>2. Bounded'
  <2> DEFINE a == Len(link[0])  b == Len(link[1])  d == Due(0)'  e == Due(1)'
  <2>1. a \in Nat /\ b \in Nat
    BY Players, ArbTyped DEF ArbInv
  <2>2. d \in 0 .. 1 /\ e \in 0 .. 1
    BY DEF Due
  <2>3. MaxLink \in Nat /\ a + b < MaxLink
    BY BoundsAssumption DEF Second
  <2>. HIDE DEF a, b, d, e
  <2>4. a + b + d + e <= MaxLink + 1
    BY <2>1, <2>2, <2>3
  <2>5. link' = link
    BY DEF Second
  <2>. QED
    BY <2>4, <2>5 DEF Bounded, a, b, d, e
<1>3. NumbersOK' /\ \A x \in Player : StageOK(x)'
  BY DEF ArbInv, NumbersOK, StageOK, Second
<1>4. \A x \in Player : \A i \in DOMAIN link[x] : PacketOK(x, link[x][i])'
  BY DEF ArbInv, PacketOK, Second
<1>5. link' = link
  BY DEF Second
<1>. QED
  BY <1>1, <1>2, <1>3, <1>4, <1>5 DEF ArbInv

LEMMA CompleteKeeps ==
  ASSUME ArbInv, NEW p \in Player, Complete(p)
  PROVE  ArbInv'
<1> DEFINE s == <<>>
<1>1. phase' = [phase EXCEPT ![p] = "game"] /\ link' = [link EXCEPT ![p] = s] /\ stage[p] >= 2 /\ phase[p] = "arbitrate"
      /\ UNCHANGED <<old, localid, consoleplayer, stage, new_protocol, due, losses, lastlost>>
  BY DEF Complete
<1>2. ArbTypes'
  <2>1. s \in Seq(PacketT) /\ "game" \in Phase
    BY DEF Phase
  <2>. HIDE DEF s
  <2>. QED
    BY <1>1, <2>1 DEF ArbInv, ArbTypes
<1>3. Bounded'
  <2> DEFINE a == Len(link[0])  b == Len(link[1])  c == Len(link'[0])  d == Len(link'[1])
  <2>1. a \in Nat /\ b \in Nat
    BY Players, ArbTyped DEF ArbInv
  <2>2. Len(s) = 0
    OBVIOUS
  <2>3. (c = a /\ d = 0) \/ (c = 0 /\ d = b)
    <3>. HIDE DEF s
    <3>. QED
      BY <1>1, <2>2 DEF ArbInv, ArbTypes, Player
  <2>4. Due(0) \in 0 .. 1 /\ Due(1) \in 0 .. 1 /\ due' = due
    BY <1>1 DEF Due
  <2>5. MaxLink \in Nat /\ a + b + Due(0) + Due(1) <= MaxLink + 1
    BY BoundsAssumption DEF ArbInv, Bounded
  <2>. HIDE DEF a, b, c, d
  <2>6. c + d + Due(0) + Due(1) <= MaxLink + 1
    BY <2>1, <2>3, <2>4, <2>5
  <2>. QED
    BY <2>4, <2>6 DEF Bounded, c, d, Due
<1>4. NumbersOK'
  <2>1. \A x \in Player : phase'[x] = phase[x] \/ phase[x] # "error"
    BY <1>1 DEF ArbInv, ArbTypes
  <2>. QED
    BY <1>1, <2>1 DEF ArbInv, NumbersOK
<1>5. ASSUME NEW x \in Player PROVE StageOK(x)' /\ \A i \in DOMAIN link'[x] : PacketOK(x, link[x][i])'
  <2>1. StageOK(x)'
    BY <1>1 DEF ArbInv, StageOK, ArbTypes
  <2>2. CASE x = p
    <3>1. DOMAIN link'[x] = {}
      BY <1>1, <2>2 DEF ArbInv, ArbTypes
    <3>. QED
      BY <2>1, <3>1
  <2>3. CASE x # p
    <3>1. link'[x] = link[x]
      <4>. HIDE DEF s
      <4>. QED
        BY <1>1, <2>3 DEF ArbInv, ArbTypes
    <3>2. \A i \in DOMAIN link[x] : PacketOK(x, link[x][i])
      BY DEF ArbInv
    <3>3. ASSUME NEW i \in DOMAIN link'[x] PROVE PacketOK(x, link[x][i])'
      <4>1. PacketOK(x, link[x][i])
        BY <3>1, <3>2
      <4>. QED
        BY <1>1, <3>1, <4>1 DEF PacketOK
    <3>. QED
      BY <2>1, <3>3
  <2>. QED
    BY <2>2, <2>3
<1>. QED
  BY <1>2, <1>3, <1>4, <1>5 DEF ArbInv

LEMMA LoseKeeps ==
  ASSUME ArbInv, NEW p \in Player, Lose(p)
  PROVE  ArbInv'
<1> DEFINE s == link[p]  t == Tail(s)
<1>1. s \in Seq(PacketT) /\ s # <<>>
  BY DEF ArbInv, ArbTypes, Lose
<1>2. t \in Seq(PacketT) /\ Len(t) <= Len(s) /\ \A i \in 1 .. Len(t) : \E j \in 1 .. Len(s) : t[i] = s[j]
  <2>. HIDE DEF s
  <2>1. t \in Seq(PacketT) /\ Len(t) = Len(s) - 1 /\ Len(s) \in Nat /\ \A i \in 1 .. Len(t) : t[i] = s[i + 1]
    BY <1>1, HeadTailProperties, LenProperties
  <2>2. \A i \in 1 .. Len(t) : i + 1 \in 1 .. Len(s)
    BY <2>1
  <2>. QED
    BY <2>1, <2>2
<1>3. link' = [link EXCEPT ![p] = t] /\ losses' = losses + 1 /\ losses < MaxLosses
      /\ lastlost' = (lastlost \/ Head(link[p]).stage >= 2)
      /\ UNCHANGED <<old, phase, localid, consoleplayer, stage, new_protocol, due>>
  BY DEF Lose
<1>4. losses' \in 0 .. MaxLosses /\ lastlost' \in BOOLEAN
  BY <1>3, BoundsAssumption DEF ArbInv, ArbTypes
<1>5. link'[p] = t /\ (\A x \in Player : x # p => link'[x] = link[x]) /\ link' \in [Player -> Seq(PacketT)]
  <2>. HIDE DEF s, t
  <2>. QED
    BY <1>2, <1>3 DEF ArbInv, ArbTypes
<1>6. ASSUME NEW x \in Player
      PROVE  /\ Len(link'[x]) <= Len(link[x])
             /\ \A i \in 1 .. Len(link'[x]) : \E j \in 1 .. Len(link[x]) : link'[x][i] = link[x][j]
  <2>1. CASE x = p
    <3>1. link'[x] = t /\ link[x] = s
      BY <1>5, <2>1
    <3>. HIDE DEF s, t
    <3>. QED
      BY <1>2, <3>1
  <2>2. CASE x # p
    <3>1. link'[x] = link[x] /\ Len(link[x]) \in Nat
      BY <1>5, <2>2, ArbTyped DEF ArbInv
    <3>2. Len(link[x]) <= Len(link[x])
      BY <3>1
    <3>. QED
      BY <3>1, <3>2
  <2>. QED
    BY <2>1, <2>2
<1>. QED
  BY <1>3, <1>4, <1>5, <1>6, LinkKeeps

-----------------------------------------------------------------------------
(***************************************************************************)
(* Modems: their steps.                                                    *)
(***************************************************************************)
LEMMA ModemTyped ==
  ASSUME ModemInv, NEW p \in Player
  PROVE  /\ background[p] \in BOOLEAN /\ expected[p] \in {"none", "OK", "RING", "CONNECT"}
         /\ command[p] \in {"none", "startup", "dial", "answer"} /\ launched[p] \in {-1, 0, 1}
         /\ reply[p] \in Seq(Line) /\ Len(reply[p]) \in Nat /\ DOMAIN reply[p] = 1 .. Len(reply[p])
         /\ phase[p] \in Phase /\ stage[p] \in 0 .. 3
BY LenProperties DEF ModemInv, ModemTypes, ArbInv, ArbTypes

\* How a driver starts.
Fresh ==
  /\ old \in {{}, {1}}
  /\ phase = [p \in Player |-> "off"]
  /\ localid \in [Player -> ID]
  /\ consoleplayer \in [Player -> Player]
  /\ stage = [p \in Player |-> 0]
  /\ new_protocol = [p \in Player |-> p \notin old]
  /\ due = [p \in Player |-> FALSE]
  /\ link = [p \in Player |-> <<>>]
  /\ losses = 0 /\ lastlost = FALSE
  /\ modem \in BOOLEAN /\ background \in [Player -> BOOLEAN]
  /\ modem => old = {}
  /\ \A p \in Player : background[p] => modem /\ localid[p] \in {ForcedFirst, ForcedSecond}
  /\ expected = [p \in Player |-> "none"] /\ command = [p \in Player |-> "none"]
  /\ reply = [p \in Player |-> <<>>]
  /\ call = "none"
  /\ launched = [p \in Player |-> -1]

LEMMA FreshOK == Fresh => ModemInv
<1>. SUFFICES ASSUME Fresh PROVE ModemInv
  OBVIOUS
<1>1. /\ old \in {{}, {1}}
      /\ phase = [p \in Player |-> "off"]
      /\ consoleplayer \in [Player -> Player]
      /\ stage = [p \in Player |-> 0]
      /\ new_protocol = [p \in Player |-> p \notin old]
      /\ due = [p \in Player |-> FALSE]
      /\ link = [p \in Player |-> <<>>]
      /\ losses = 0 /\ lastlost = FALSE
  BY DEF Fresh
<1>2. localid \in [Player -> ID]
  BY DEF Fresh
<1>3. ArbTypes
  <2> DEFINE s == <<>>
  <2>1. s \in Seq(PacketT) /\ link = [p \in Player |-> s]
    BY <1>1
  <2>. HIDE DEF s
  <2>2. link \in [Player -> Seq(PacketT)]
    BY <2>1
  <2>3. MaxLosses \in Nat
    BY BoundsAssumption
  <2>4. losses \in 0 .. MaxLosses /\ lastlost \in BOOLEAN
    <3>1. lastlost \in BOOLEAN
      BY <1>1
    <3>2. losses = 0
      BY <1>1, Zenon
    <3>3. losses \in 0 .. MaxLosses
      BY <2>3, <3>2
    <3>. QED
      BY <3>1, <3>3
  <2>5. /\ old \in {{}, {1}} /\ localid \in [Player -> ID]
        /\ phase \in [Player -> Phase] /\ consoleplayer \in [Player -> Player]
    BY <1>1, <1>2 DEF Phase
  <2>6. stage \in [Player -> 0 .. 3] /\ new_protocol \in [Player -> BOOLEAN] /\ due \in [Player -> BOOLEAN]
    BY <1>1
  <2>. QED
    BY <2>2, <2>4, <2>5, <2>6 DEF ArbTypes
<1>4. Bounded
  <2>1. Len(link[0]) = 0 /\ Len(link[1]) = 0 /\ Due(0) = 0 /\ Due(1) = 0
    BY <1>1, Players DEF Due
  <2>. QED
    BY <2>1, BoundsAssumption DEF Bounded
<1>5. NumbersOK /\ \A p \in Player : StageOK(p)
  BY <1>1, Players DEF NumbersOK, StageOK
<1>6. \A p \in Player : DOMAIN link[p] = {}
  BY <1>1
<1>7. ArbInv
  BY <1>3, <1>4, <1>5, <1>6 DEF ArbInv
<1>8. /\ modem \in BOOLEAN /\ background \in [Player -> BOOLEAN]
      /\ modem => old = {}
      /\ \A p \in Player : background[p] => modem /\ localid[p] \in {ForcedFirst, ForcedSecond}
      /\ expected = [p \in Player |-> "none"] /\ command = [p \in Player |-> "none"]
      /\ reply = [p \in Player |-> <<>>]
      /\ call = "none"
      /\ launched = [p \in Player |-> -1]
  BY DEF Fresh
<1>9. ModemTypes
  <2> DEFINE s == <<>>
  <2>1. s \in Seq(Line) /\ reply = [p \in Player |-> s]
    BY <1>8
  <2>. HIDE DEF s
  <2>2. reply \in [Player -> Seq(Line)]
    BY <2>1
  <2>. QED
    BY <1>8, <2>2 DEF ModemTypes
<1>10. CallOK
  <2>1. \A p \in Player : expected[p] = "none" /\ command[p] = "none" /\ DOMAIN reply[p] = {} /\ phase[p] = "off"
    BY <1>1, <1>8
  <2>. QED
    BY <1>8, <2>1, Players DEF CallOK, Quiet, Dialer, Answerer
<1>11. \A p \in Player : LaunchOK(p)
  BY <1>1, <1>8 DEF LaunchOK
<1>. QED
  BY <1>7, <1>8, <1>9, <1>10, <1>11 DEF ModemInv

LEMMA StartupKeeps ==
  ASSUME ModemInv, NEW p \in Player, Startup(p)
  PROVE  ModemInv'
<1>1. /\ modem /\ phase[p] = "off" /\ expected[p] = "none" /\ launched[p] = -1
      /\ command' = [command EXCEPT ![p] = "startup"]
      /\ expected' = [expected EXCEPT ![p] = "OK"]
      /\ UNCHANGED <<old, phase, localid, consoleplayer, stage, new_protocol, due, link, losses, lastlost>>
      /\ UNCHANGED <<modem, background, reply, call, launched>>
  BY DEF Startup, arbVars, vars
<1>2. ArbInv'
  BY <1>1, PhaseKeeps DEF ModemInv, ArbInv, ArbTypes, StageOK
<1>3. ModemTypes'
  BY <1>1 DEF ModemInv, ModemTypes
<1>4. CallOK'
  <2>1. /\ command'[p] = "startup" /\ expected'[p] = "OK"
        /\ \A x \in Player : x # p => command'[x] = command[x] /\ expected'[x] = expected[x]
    BY <1>1 DEF ModemInv, ModemTypes
  <2>2. Dialer \in Player /\ Answerer \in Player
    BY DEF Player, Dialer, Answerer
  <2>3. /\ command[Answerer] # "dial"
        /\ command[Dialer] = "dial" => call = "none"
        /\ command[Dialer] = "dial" \/ call # "none" =>
             /\ expected[Dialer] # "OK"
             /\ expected[Dialer] = "none" => phase[Dialer] # "off"
        /\ modem /\ call # "up" => \A x \in Player : phase[x] = "off" /\ Quiet(reply[x])
    BY DEF ModemInv, CallOK
  <2>4. p = Dialer => command[Dialer] # "dial" /\ call = "none"
    BY <1>1, <2>3
  <2>. QED
    BY <1>1, <2>1, <2>2, <2>3, <2>4 DEF CallOK
<1>5. \A x \in Player : LaunchOK(x)'
  BY <1>1 DEF ModemInv, ModemTypes, LaunchOK, BackgroundPlayer
<1>. QED
  BY <1>1, <1>2, <1>3, <1>4, <1>5 DEF ModemInv

LEMMA Appended ==
  ASSUME NEW lines \in Seq(Line), NEW line \in Line
  PROVE  /\ Append(lines, line) \in Seq(Line)
         /\ Quiet(lines) /\ line # "CONNECT" => Quiet(Append(lines, line))
<1> DEFINE s == Append(lines, line)
<1>1. s \in Seq(Line) /\ Len(s) = Len(lines) + 1 /\ Len(lines) \in Nat
      /\ (\A i \in 1 .. Len(lines) : s[i] = lines[i]) /\ s[Len(lines) + 1] = line
  BY AppendProperties, LenProperties
<1>2. DOMAIN s = 1 .. Len(lines) + 1 /\ DOMAIN lines = 1 .. Len(lines)
  BY <1>1, LenProperties
<1>. HIDE DEF s
<1>3. \A i \in 1 .. Len(lines) + 1 : i \in 1 .. Len(lines) \/ i = Len(lines) + 1
  BY <1>1
<1>4. Quiet(lines) /\ line # "CONNECT" => Quiet(s)
  BY <1>1, <1>2, <1>3 DEF Quiet
<1>. QED
  BY <1>1, <1>4 DEF s

\* A modem says something other than CONNECT.
LEMMA SaysKeeps ==
  ASSUME ModemInv, NEW p \in Player, NEW line \in Line, line # "CONNECT",
         reply' = [reply EXCEPT ![p] = Append(reply[p], line)],
         UNCHANGED <<old, phase, localid, consoleplayer, stage, new_protocol, due, link, losses, lastlost>>,
         UNCHANGED <<modem, background, expected, launched>>,
         NEW x \in Player, command' = command \/ command' = [command EXCEPT ![x] = "none"],
         call' = call \/ (call = "ringing" /\ call' = "failed")
  PROVE  ModemInv'
<1>1. ArbInv'
  BY PhaseKeeps DEF ModemInv, ArbInv, ArbTypes, StageOK
<1>2. Dialer \in Player /\ Answerer \in Player
  BY DEF Player, Dialer, Answerer
<1>3. \A y \in Player : command'[y] = command[y] \/ command'[y] = "none"
  BY DEF ModemInv, ModemTypes
<1> DEFINE s == Append(reply[p], line)
<1>4. s \in Seq(Line) /\ (Quiet(reply[p]) => Quiet(s))
  BY ModemTyped, Appended
<1>5. reply' = [reply EXCEPT ![p] = s]
  OBVIOUS
<1>. HIDE DEF s
<1>6. ModemTypes'
  <2>1. ModemTypes
    BY DEF ModemInv
  <2>2. reply' \in [Player -> Seq(Line)]
    BY <1>4, <1>5, <2>1 DEF ModemTypes
  <2>3. command' \in [Player -> {"none", "startup", "dial", "answer"}]
    BY <2>1 DEF ModemTypes
  <2>4. call' \in {"none", "ringing", "up", "failed"}
    BY <2>1 DEF ModemTypes
  <2>. QED
    BY <2>1, <2>2, <2>3, <2>4 DEF ModemTypes
<1>7. \A y \in Player : Quiet(reply[y]) => Quiet(reply'[y])
  BY <1>4, <1>5 DEF ModemInv, ModemTypes
<1>8. CallOK'
  BY <1>2, <1>3, <1>7 DEF ModemInv, CallOK
<1>9. \A y \in Player : LaunchOK(y)'
  BY DEF ModemInv, LaunchOK, BackgroundPlayer
<1>. QED
  BY <1>1, <1>6, <1>8, <1>9 DEF ModemInv

LEMMA ExecuteKeeps ==
  ASSUME ModemInv, NEW p \in Player, Execute(p)
  PROVE  ModemInv'
<1>1. /\ command[p] # "none" /\ command' = [command EXCEPT ![p] = "none"]
      /\ UNCHANGED <<old, localid, consoleplayer, stage, new_protocol, due, link, losses, lastlost>>
      /\ UNCHANGED <<modem, background, expected, launched>>
  BY DEF Execute
<1>2. modem /\ old = {}
  BY <1>1 DEF ModemInv, CallOK
<1>3. Dialer \in Player /\ Answerer \in Player
  BY DEF Player, Dialer, Answerer
<1>4. command'[p] = "none" /\ \A x \in Player : x # p => command'[x] = command[x]
  BY <1>1 DEF ModemInv, ModemTypes
<1>5. CASE command[p] = "startup"
  <2>1. reply' = [reply EXCEPT ![p] = Append(reply[p], "OK")] /\ UNCHANGED <<phase, call>>
    BY <1>5 DEF Execute
  <2>2. "OK" \in Line /\ "OK" # "CONNECT"
    BY DEF Line
  <2>. QED
    BY <1>1, <2>1, <2>2, SaysKeeps
<1>6. CASE command[p] = "dial"
  <2>1. call' = "ringing" /\ UNCHANGED <<phase, reply>>
    BY <1>6 DEF Execute
  <2>2. p = Dialer /\ call = "none"
    BY <1>6 DEF ModemInv, CallOK, Player, Dialer, Answerer
  <2>3. ArbInv'
    BY <1>1, <2>1, PhaseKeeps DEF ModemInv, ArbInv, ArbTypes, StageOK
  <2>4. ModemTypes'
    BY <1>1, <2>1 DEF ModemInv, ModemTypes
  <2>5. CallOK'
    BY <1>1, <1>2, <1>3, <1>4, <1>6, <2>1, <2>2 DEF ModemInv, CallOK
  <2>6. \A y \in Player : LaunchOK(y)'
    BY <1>1, <2>1 DEF ModemInv, LaunchOK, BackgroundPlayer
  <2>. QED
    BY <1>1, <2>3, <2>4, <2>5, <2>6 DEF ModemInv
<1>7. CASE command[p] = "answer" /\ call = "ringing"
  <2>1. /\ call' = "up"
        /\ reply' = [q \in Player |-> Append(reply[q], "CONNECT")]
        /\ phase' = [q \in Player |-> "connected"]
    BY <1>7 DEF Execute
  <2>2. \A q \in Player : phase[q] = "off" /\ phase'[q] = "connected"
    BY <1>2, <1>7, <2>1 DEF ModemInv, CallOK
  <2>3. ArbInv'
    <3>1. phase' \in [Player -> Phase]
      BY <2>1 DEF Phase
    <3>2. ArbInv /\ \A q \in Player : stage[q] = 0
      BY <2>2 DEF ModemInv, ArbInv, StageOK
    <3>. QED
      BY <1>1, <3>1, <3>2, PhaseKeeps
  <2>4. ModemTypes'
    <3>1. "CONNECT" \in Line
      BY DEF Line
    <3>2. \A q \in Player : Append(reply[q], "CONNECT") \in Seq(Line)
      BY <3>1, ModemTyped, Appended
    <3>. QED
      BY <1>1, <2>1, <3>2 DEF ModemInv, ModemTypes
  <2>5. CallOK'
    BY <1>1, <1>2, <1>3, <1>4, <1>7, <2>1, <2>2 DEF ModemInv, CallOK
  <2>6. \A y \in Player : LaunchOK(y)'
    BY <1>1, <2>2 DEF ModemInv, LaunchOK, BackgroundPlayer
  <2>. QED
    BY <1>1, <2>3, <2>4, <2>5, <2>6 DEF ModemInv
<1>8. CASE command[p] \notin {"startup", "dial"} /\ ~(command[p] = "answer" /\ call = "ringing")
  <2>1. reply' = [reply EXCEPT ![p] = Append(reply[p], "NO_CARRIER")] /\ UNCHANGED <<phase, call>>
    BY <1>8 DEF Execute
  <2>2. "NO_CARRIER" \in Line /\ "NO_CARRIER" # "CONNECT"
    BY DEF Line
  <2>. QED
    BY <1>1, <2>1, <2>2, SaysKeeps
<1>. QED
  BY <1>5, <1>6, <1>7, <1>8

LEMMA RingKeeps ==
  ASSUME ModemInv, Ring
  PROVE  ModemInv'
<1>1. Answerer \in Player /\ "RING" \in Line /\ "RING" # "CONNECT"
  BY DEF Player, Answerer, Line
<1>2. reply' = [reply EXCEPT ![Answerer] = Append(reply[Answerer], "RING")]
      /\ UNCHANGED <<old, phase, localid, consoleplayer, stage, new_protocol, due, link, losses, lastlost>>
      /\ UNCHANGED <<modem, background, expected, command, call, launched>>
  BY DEF Ring, arbVars, vars
<1>. QED
  BY <1>1, <1>2, SaysKeeps

LEMMA NoCarrierKeeps ==
  ASSUME ModemInv, NoCarrier
  PROVE  ModemInv'
<1>1. Dialer \in Player /\ "NO_CARRIER" \in Line /\ "NO_CARRIER" # "CONNECT"
  BY DEF Player, Dialer, Line
<1>2. reply' = [reply EXCEPT ![Dialer] = Append(reply[Dialer], "NO_CARRIER")]
      /\ call = "ringing" /\ call' = "failed"
      /\ UNCHANGED <<old, phase, localid, consoleplayer, stage, new_protocol, due, link, losses, lastlost>>
      /\ UNCHANGED <<modem, background, expected, command, launched>>
  BY DEF NoCarrier, arbVars, vars
<1>. QED
  BY <1>1, <1>2, SaysKeeps

LEMMA Taken ==
  ASSUME NEW lines \in Seq(Line), NEW i \in 1 .. Len(lines)
  PROVE  LET rest == SubSeq(lines, i + 1, Len(lines))
         IN rest \in Seq(Line) /\ (Quiet(lines) => Quiet(rest))
<1> DEFINE rest == SubSeq(lines, i + 1, Len(lines))
<1>1. Len(lines) \in Nat /\ i \in 0 .. Len(lines) /\ DOMAIN lines = 1 .. Len(lines)
  BY LenProperties
<1>2. rest \in Seq(Line) /\ Len(rest) = Len(lines) - i /\ \A k \in 1 .. Len(lines) - i : rest[k] = lines[i + k]
  BY <1>1, Split, Zenon
<1>3. DOMAIN rest = 1 .. Len(rest)
  BY <1>2, LenProperties
<1>. HIDE DEF rest
<1>4. \A k \in 1 .. Len(rest) : i + k \in 1 .. Len(lines)
  BY <1>1, <1>2
<1>5. Quiet(lines) => Quiet(rest)
  BY <1>1, <1>2, <1>3, <1>4 DEF Quiet
<1>. QED
  BY <1>2, <1>5 DEF rest

\* What it reads, and which line is the one it waits for.
LEMMA ResponseRead ==
  ASSUME ModemInv, NEW p \in Player, PollModemResponse(p)
  PROVE  /\ expected[p] # "none" /\ modem /\ old = {} /\ phase[p] \in {"off", "connected"}
         /\ UNCHANGED <<modem, background, call>>
         /\ reply' \in [Player -> Seq(Line)] /\ \A y \in Player : Quiet(reply[y]) => Quiet(reply'[y])
         /\ \/ UNCHANGED <<old, phase, localid, consoleplayer, stage, new_protocol, due, link, losses, lastlost>>
               /\ UNCHANGED <<expected, command, launched>>
            \/ ~Quiet(reply[p]) /\ expected[p] = "CONNECT" /\ Connected(p)
            \/ expected[p] = "RING" /\ RingDetected(p)
            \/ expected[p] = "OK" /\ ReadyModem(p)
<1> DEFINE complete == {i \in DOMAIN reply[p] : Completes(p, reply[p][i])}
<1>1. expected[p] # "none" /\ UNCHANGED <<modem, background, call>>
  BY DEF PollModemResponse
<1>2. modem /\ old = {} /\ phase[p] \in {"off", "connected"}
  BY <1>1 DEF ModemInv, CallOK, LaunchOK
<1>3. reply \in [Player -> Seq(Line)] /\ DOMAIN reply[p] = 1 .. Len(reply[p])
      /\ expected[p] \in {"OK", "RING", "CONNECT"}
  BY <1>1, ModemTyped DEF ModemInv, ModemTypes
<1>4. CASE complete = {}
  <2>1. /\ reply' = [reply EXCEPT ![p] = <<>>]
        /\ UNCHANGED <<old, phase, localid, consoleplayer, stage, new_protocol, due, link, losses, lastlost>>
        /\ UNCHANGED <<expected, command, launched>>
    BY <1>4 DEF PollModemResponse, arbVars, vars
  <2> DEFINE s == <<>>
  <2>2. s \in Seq(Line) /\ Quiet(s) /\ reply' = [reply EXCEPT ![p] = s]
    BY <2>1 DEF Quiet
  <2>. HIDE DEF s
  <2>3. reply' \in [Player -> Seq(Line)] /\ \A y \in Player : Quiet(reply[y]) => Quiet(reply'[y])
    BY <1>3, <2>2
  <2>. QED
    BY <1>1, <1>2, <2>1, <2>3
<1>5. CASE complete # {}
  <2>1. PICK i \in complete : reply' = [reply EXCEPT ![p] = SubSeq(@, i + 1, Len(@))]
    BY <1>5 DEF PollModemResponse
  <2>2. i \in 1 .. Len(reply[p]) /\ reply[p][i] = expected[p]
    BY <1>3 DEF Completes
  <2> DEFINE s == SubSeq(reply[p], i + 1, Len(reply[p]))
  <2>3. s \in Seq(Line) /\ (Quiet(reply[p]) => Quiet(s))
    BY <1>3, <2>2, Taken
  <2>4. reply' = [reply EXCEPT ![p] = s]
    BY <2>1
  <2>. HIDE DEF s
  <2>5. reply' \in [Player -> Seq(Line)] /\ \A y \in Player : Quiet(reply[y]) => Quiet(reply'[y])
    BY <1>3, <2>3, <2>4
  <2>6. CASE expected[p] = "OK"
    <3>1. ReadyModem(p)
      BY <1>5, <2>6 DEF PollModemResponse
    <3>. QED
      BY <1>1, <1>2, <2>5, <2>6, <3>1
  <2>7. CASE expected[p] = "RING"
    <3>1. RingDetected(p)
      BY <1>5, <2>7 DEF PollModemResponse
    <3>. QED
      BY <1>1, <1>2, <2>5, <2>7, <3>1
  <2>8. CASE expected[p] = "CONNECT"
    <3>1. Connected(p)
      BY <1>5, <2>8 DEF PollModemResponse
    <3>2. ~Quiet(reply[p])
      BY <1>3, <2>2, <2>8 DEF Quiet
    <3>. QED
      BY <1>1, <1>2, <2>5, <2>8, <3>1, <3>2
  <2>. QED
    BY <1>3, <2>6, <2>7, <2>8
<1>. QED
  BY <1>4, <1>5

LEMMA ResponseKeeps ==
  ASSUME ModemInv, NEW p \in Player, PollModemResponse(p)
  PROVE  ModemInv'
<1>1. /\ expected[p] # "none" /\ modem /\ old = {} /\ phase[p] \in {"off", "connected"}
      /\ UNCHANGED <<modem, background, call>>
      /\ reply' \in [Player -> Seq(Line)] /\ \A y \in Player : Quiet(reply[y]) => Quiet(reply'[y])
  BY ResponseRead
<1>2. /\ ArbInv /\ ModemTypes /\ CallOK /\ \A x \in Player : LaunchOK(x)
      /\ Dialer \in Player /\ Answerer \in Player /\ Dialer # Answerer
  BY DEF ModemInv, Player, Dialer, Answerer
<1>3. CASE /\ UNCHANGED <<old, phase, localid, consoleplayer, stage, new_protocol, due, link, losses, lastlost>>
           /\ UNCHANGED <<expected, command, launched>>
  <2>1. ArbInv'
    BY <1>2, <1>3, PhaseKeeps DEF ArbInv, ArbTypes, StageOK
  <2>2. ModemTypes' /\ CallOK'
    BY <1>1, <1>2, <1>3 DEF ModemTypes, CallOK
  <2>3. \A x \in Player : LaunchOK(x)'
    BY <1>1, <1>2, <1>3 DEF LaunchOK, BackgroundPlayer
  <2>. QED
    BY <1>1, <1>3, <2>1, <2>2, <2>3 DEF ModemInv
<1>4. CASE ~Quiet(reply[p]) /\ expected[p] = "CONNECT" /\ Connected(p)
  <2>1. /\ phase' = [phase EXCEPT ![p] = "arbitrate"] /\ expected' = [expected EXCEPT ![p] = "none"]
        /\ UNCHANGED <<old, localid, consoleplayer, stage, new_protocol, due, link, losses, lastlost>>
        /\ UNCHANGED <<command, launched>>
    BY <1>4 DEF Connected, StartArbitratePlayers
  <2>2. /\ phase'[p] = "arbitrate" /\ expected'[p] = "none"
        /\ \A x \in Player : x # p => phase'[x] = phase[x] /\ expected'[x] = expected[x]
    BY <1>2, <2>1 DEF ModemTypes, ArbInv, ArbTypes
  <2>3. call = "up"
    BY <1>1, <1>2, <1>4 DEF CallOK
  <2>4. ArbInv'
    <3>1. phase' \in [Player -> Phase]
      BY <1>2, <2>1 DEF ArbInv, ArbTypes, Phase
    <3>2. \A x \in Player : /\ phase'[x] \in {"off", "connected"} => stage[x] = 0
                            /\ phase[x] = "error" => phase'[x] = "error"
      BY <1>1, <1>2, <2>2 DEF ArbInv, StageOK
    <3>. QED
      BY <1>2, <2>1, <3>1, <3>2, PhaseKeeps
  <2>5. ModemTypes'
    BY <1>1, <1>2, <2>1 DEF ModemTypes
  <2>6. CallOK'
    BY <1>1, <1>2, <2>1, <2>2, <2>3 DEF CallOK
  <2>7. \A x \in Player : LaunchOK(x)'
    BY <1>1, <1>2, <1>4, <2>1, <2>2 DEF LaunchOK, BackgroundPlayer
  <2>. QED
    BY <1>1, <2>1, <2>4, <2>5, <2>6, <2>7 DEF ModemInv
<1>5. CASE expected[p] = "RING" /\ RingDetected(p)
  <2>1. /\ expected' = [expected EXCEPT ![p] = "CONNECT"] /\ command' = [command EXCEPT ![p] = "answer"]
        /\ UNCHANGED <<old, phase, localid, consoleplayer, stage, new_protocol, due, link, losses, lastlost>>
        /\ UNCHANGED launched
    BY <1>5 DEF RingDetected, arbVars, vars
  <2>2. /\ command'[p] = "answer" /\ expected'[p] = "CONNECT"
        /\ \A x \in Player : x # p => command'[x] = command[x] /\ expected'[x] = expected[x]
    BY <1>2, <2>1 DEF ModemTypes
  <2>3. ArbInv'
    BY <1>2, <2>1, PhaseKeeps DEF ArbInv, ArbTypes, StageOK
  <2>4. ModemTypes'
    BY <1>1, <1>2, <2>1 DEF ModemTypes
  <2>5. CallOK'
    BY <1>1, <1>2, <2>1, <2>2 DEF CallOK
  <2>6. \A x \in Player : LaunchOK(x)'
    BY <1>1, <1>2, <1>5, <2>1, <2>2 DEF LaunchOK, BackgroundPlayer
  <2>. QED
    BY <1>1, <2>1, <2>3, <2>4, <2>5, <2>6 DEF ModemInv
<1>6. CASE expected[p] = "OK" /\ ReadyModem(p)
  <2>1. /\ expected' = [expected EXCEPT ![p] = IF p = Dialer THEN "CONNECT" ELSE "RING"]
        /\ command' = [command EXCEPT ![p] = IF p = Dialer THEN "dial" ELSE command[p]]
        /\ launched' = [launched EXCEPT ![p] = IF background[p] THEN BackgroundPlayer(p) ELSE launched[p]]
        /\ UNCHANGED <<old, phase, localid, consoleplayer, stage, new_protocol, due, link, losses, lastlost>>
    BY <1>6 DEF ReadyModem, arbVars, vars
  <2>2. /\ expected'[p] = IF p = Dialer THEN "CONNECT" ELSE "RING"
        /\ command'[p] = IF p = Dialer THEN "dial" ELSE command[p]
        /\ \A x \in Player : x # p => command'[x] = command[x] /\ expected'[x] = expected[x]
    BY <1>2, <2>1 DEF ModemTypes
  <2>3. BackgroundPlayer(p) \in {0, 1}
    BY DEF BackgroundPlayer
  <2>4. /\ launched'[p] = IF background[p] THEN BackgroundPlayer(p) ELSE launched[p]
        /\ \A x \in Player : x # p => launched'[x] = launched[x]
    BY <1>2, <2>1 DEF ModemTypes
  <2>5. ArbInv'
    BY <1>2, <2>1, PhaseKeeps DEF ArbInv, ArbTypes, StageOK
  <2>6. ModemTypes'
    <3>1. expected' \in [Player -> {"none", "OK", "RING", "CONNECT"}]
      BY <1>2, <2>1 DEF ModemTypes
    <3>2. command' \in [Player -> {"none", "startup", "dial", "answer"}]
      BY <1>2, <2>1 DEF ModemTypes
    <3>3. launched' \in [Player -> {-1, 0, 1}]
      BY <1>2, <2>1, <2>3 DEF ModemTypes
    <3>. QED
      BY <1>1, <1>2, <3>1, <3>2, <3>3 DEF ModemTypes
  <2>7. CallOK'
    <3>1. p = Dialer => call = "none" /\ expected[Dialer] = "OK"
      BY <1>1, <1>2, <1>6 DEF CallOK
    <3>. QED
      BY <1>1, <1>2, <2>1, <2>2, <3>1 DEF CallOK
  <2>8. \A x \in Player : LaunchOK(x)'
    BY <1>1, <1>2, <1>6, <2>1, <2>2, <2>4 DEF LaunchOK, BackgroundPlayer
  <2>. QED
    BY <1>1, <2>1, <2>5, <2>6, <2>7, <2>8 DEF ModemInv
<1>. QED
  BY <1>3, <1>4, <1>5, <1>6, ResponseRead

\* The game is launched: two sides with different IDs, of which one may be forced.
LEMMA CompletionKeeps ==
  ASSUME ModemInv, NEW p \in Player, ArbitrationComplete(p)
  PROVE  ModemInv'
<1>1. /\ phase[p] = "arbitrate" /\ stage[p] >= 2 /\ phase' = [phase EXCEPT ![p] = "game"]
      /\ UNCHANGED <<old, localid, consoleplayer, stage, new_protocol, due, losses, lastlost>>
      /\ launched' = [launched EXCEPT ![p] = IF background[p] THEN launched[p] ELSE consoleplayer[p]]
      /\ UNCHANGED <<modem, background, expected, command, reply, call>>
  BY DEF ArbitrationComplete, Complete
<1>2. ArbInv'
  BY CompleteKeeps DEF ModemInv, ArbitrationComplete
<1>3. /\ ModemTypes /\ CallOK /\ LaunchOK(p) /\ ArbInv /\ ArbTypes /\ (modem => old = {})
      /\ \A x \in Player : LaunchOK(x)
  BY DEF ModemInv, ArbInv
<1>4. /\ phase'[p] = "game" /\ \A x \in Player : x # p => phase'[x] = phase[x]
      /\ launched'[p] = IF background[p] THEN launched[p] ELSE consoleplayer[p]
      /\ \A x \in Player : x # p => launched'[x] = launched[x]
  BY <1>1, <1>3 DEF ModemTypes, ArbTypes
<1>5. ModemTypes'
  <2>1. consoleplayer[p] \in {0, 1}
    BY <1>3, ArbTyped DEF Player
  <2>. QED
    BY <1>1, <1>3, <2>1 DEF ModemTypes
<1>6. CallOK'
  BY <1>1, <1>3, <1>4 DEF CallOK
<1>7. ASSUME background[p] PROVE launched[p] = consoleplayer[p]
  <2>1. old = {} /\ localid[p] \in {ForcedFirst, ForcedSecond} /\ launched[p] = BackgroundPlayer(p)
    BY <1>1, <1>3, <1>7 DEF LaunchOK
  <2>2. consoleplayer[p] = Ordered(localid[p], localid[Other(p)]) /\ localid[p] # localid[Other(p)]
    <3>1. stage[p] > 0
      BY <1>1, <1>3, ArbTyped
    <3>. QED
      BY <1>1, <1>3, <2>1, <3>1 DEF ArbInv, NumbersOK
  <2>3. localid[Other(p)] \in ID /\ localid[p] \in ID
    BY <1>3, Players, ArbTyped
  <2>4. BackgroundPlayer(p) = Ordered(localid[p], localid[Other(p)])
    <3> DEFINE x == localid[p]  y == localid[Other(p)]
    <3>1. ForcedFirst # ForcedSecond /\ x \in Int /\ y \in Int /\ ForcedFirst <= y /\ y <= ForcedSecond
      BY <2>3, IDs
    <3>2. x # y /\ (x = ForcedFirst \/ x = ForcedSecond)
      BY <2>1, <2>2
    <3>. HIDE DEF x, y
    <3>3. CASE x = ForcedFirst
      BY <3>1, <3>2, <3>3 DEF x, y, BackgroundPlayer, Ordered
    <3>4. CASE x = ForcedSecond
      BY <3>1, <3>2, <3>4 DEF x, y, BackgroundPlayer, Ordered
    <3>. QED
      BY <3>2, <3>3, <3>4
  <2>. QED
    BY <2>1, <2>2, <2>4
<1>8. \A x \in Player : LaunchOK(x)'
  <2>1. LaunchOK(p)'
    BY <1>1, <1>3, <1>4, <1>7 DEF LaunchOK, BackgroundPlayer
  <2>2. \A x \in Player : x # p => LaunchOK(x)'
    BY <1>1, <1>3, <1>4 DEF LaunchOK, BackgroundPlayer
  <2>. QED
    BY <2>1, <2>2
<1>. QED
  BY <1>1, <1>2, <1>3, <1>5, <1>6, <1>8 DEF ModemInv

LEMMA InitFresh ==
  ASSUME ModemInit
  PROVE  Fresh
<1>1. Random \cup {ForcedFirst, ForcedSecond} \subseteq ID
  BY RandomAssumption, IDs DEF ID
<1>. QED
  BY <1>1 DEF ModemInit, Init, Fresh

LEMMA BeginFresh ==
  ASSUME Begin
  PROVE  Fresh'
<1>1. 0 \in ID /\ 0 \in Player
  BY IDs DEF Player, ForcedFirst
<1>2. new_protocol' = [p \in Player |-> p \notin old']
  BY DEF Begin
<1>. QED
  BY <1>1, <1>2 DEF Begin, Fresh

LEMMA DirectStartKeeps ==
  ASSUME ModemInv, NEW p \in Player, DirectStart(p)
  PROVE  ModemInv'
<1>1. /\ ~modem /\ phase[p] = "off" /\ phase' = [phase EXCEPT ![p] = "arbitrate"]
      /\ UNCHANGED <<old, localid, consoleplayer, stage, new_protocol, due, link, losses, lastlost>>
      /\ UNCHANGED <<modem, background, expected, command, reply, call, launched>>
  BY DEF DirectStart, Start, StartArbitratePlayers, modemVars
<1>2. /\ ArbInv /\ ModemTypes /\ CallOK /\ ArbTypes /\ (modem => old = {})
      /\ \A x \in Player : LaunchOK(x)
  BY DEF ModemInv, ArbInv
<1>3. phase'[p] = "arbitrate" /\ \A x \in Player : x # p => phase'[x] = phase[x]
  BY <1>1, <1>2 DEF ArbTypes
<1>4. ArbInv'
  <2>1. phase' \in [Player -> Phase]
    BY <1>1, <1>2 DEF ArbTypes, Phase
  <2>2. \A x \in Player : /\ phase'[x] \in {"off", "connected"} => stage[x] = 0
                          /\ phase[x] = "error" => phase'[x] = "error"
    BY <1>1, <1>2, <1>3 DEF ArbInv, StageOK
  <2>. QED
    BY <1>1, <1>2, <2>1, <2>2, PhaseKeeps
<1>5. ModemTypes' /\ CallOK'
  BY <1>1, <1>2 DEF ModemTypes, CallOK
<1>6. \A x \in Player : LaunchOK(x)'
  <2>1. expected[p] = "none" /\ ~background[p]
    BY <1>1, <1>2 DEF CallOK, LaunchOK
  <2>. QED
    BY <1>1, <1>2, <1>3, <2>1 DEF LaunchOK, BackgroundPlayer
<1>. QED
  BY <1>1, <1>2, <1>4, <1>5, <1>6 DEF ModemInv

\* A poll may end the arbitration with an error.
LEMMA ArbitrationKeeps ==
  ASSUME ModemInv, NEW p \in Player, Arbitration(p)
  PROVE  ModemInv'
<1>1. UNCHANGED <<modem, background, expected, command, reply, call, launched>>
  BY DEF Arbitration, modemVars
<1>2. /\ ArbInv /\ ModemTypes /\ CallOK /\ ArbTypes /\ (modem => old = {})
      /\ \A x \in Player : LaunchOK(x)
  BY DEF ModemInv, ArbInv
<1>3. /\ ArbInv'
      /\ old' = old /\ localid' = localid
      /\ \A x \in Player : /\ phase'[x] = phase[x] \/ (phase[x] = "arbitrate" /\ phase'[x] = "error")
                           /\ phase[x] = "game" => consoleplayer'[x] = consoleplayer[x] /\ stage'[x] = stage[x]
  <2>1. CASE Second(p) \/ Lose(p)
    BY <1>2, <2>1, SecondKeeps, LoseKeeps DEF Second, Lose
  <2>2. CASE \E n \in 0 .. Len(link[p]) : Poll(p, n)
    <3>1. PICK n \in 0 .. Len(link[p]) : Poll(p, n)
      BY <2>2
    <3>2. ArbInv'
      BY <1>2, <3>1, PollKeeps
    <3>3. PICK r, out : PollsTo(p, n, r, out)
      BY <1>2, <3>1, Polled
    <3>4. /\ phase[p] = "arbitrate" /\ phase' = IF r.error THEN [phase EXCEPT ![p] = "error"] ELSE phase
          /\ stage' = [stage EXCEPT ![p] = r.stage]
          /\ consoleplayer' = [consoleplayer EXCEPT ![p] = r.console]
          /\ UNCHANGED <<old, localid>>
      BY <3>3 DEF PollsTo
    <3>. QED
      BY <1>2, <3>2, <3>4 DEF ArbTypes
  <2>. QED
    BY <2>1, <2>2 DEF Arbitration
<1>4. ModemTypes'
  BY <1>1, <1>2 DEF ModemTypes
<1>5. CallOK'
  BY <1>1, <1>2, <1>3 DEF CallOK, Player, Dialer
<1>6. \A x \in Player : LaunchOK(x)'
  BY <1>1, <1>2, <1>3 DEF LaunchOK, BackgroundPlayer
<1>. QED
  BY <1>1, <1>2, <1>3, <1>4, <1>5, <1>6 DEF ModemInv

LEMMA ConnectingKeeps ==
  ASSUME ModemInv, ModemNext
  PROVE  ModemInv'
<1>1. ASSUME NEW p \in Player, DirectStart(p) \/ Startup(p) \/ Execute(p) PROVE ModemInv'
  BY <1>1, DirectStartKeeps, StartupKeeps, ExecuteKeeps
<1>2. ASSUME NEW p \in Player, PollModemResponse(p) \/ Arbitration(p) \/ ArbitrationComplete(p) PROVE ModemInv'
  BY <1>2, ResponseKeeps, ArbitrationKeeps, CompletionKeeps
<1>. QED
  BY <1>1, <1>2, RingKeeps, NoCarrierKeeps DEF ModemNext

LEMMA ModemUnchanged ==
  ASSUME ModemInv, UNCHANGED allVars
  PROVE  ModemInv'
<1>1. /\ UNCHANGED <<old, phase, localid, consoleplayer, stage, new_protocol, due, link, losses, lastlost>>
      /\ UNCHANGED <<modem, background, expected, command, reply, call, launched>>
  BY DEF allVars, arbVars, vars, modemVars
<1>2. ArbInv'
  BY <1>1, PhaseKeeps DEF ModemInv, ArbInv, ArbTypes, StageOK
<1>. QED
  BY <1>1, <1>2 DEF ModemInv, ModemTypes, CallOK, LaunchOK, BackgroundPlayer

\* The number a game is launched with is the one of the ID that both sides know.
LEMMA Agreed == ModemInv => LaunchesAsAgreed /\ TypeOK
<1>. SUFFICES ASSUME ModemInv PROVE LaunchesAsAgreed /\ TypeOK
  OBVIOUS
<1>1. ArbInv /\ ArbTypes
  BY DEF ModemInv, ArbInv
<1>2. ASSUME NEW p \in Player, phase[p] = "game"
      PROVE  /\ stage[Other(p)] > 0 /\ consoleplayer[p] # consoleplayer[Other(p)]
             /\ launched[p] = consoleplayer[p]
  <2>1. /\ stage[p] \in 0 .. 3 /\ stage[p] >= 2 /\ launched[p] = consoleplayer[p]
    BY <1>1, <1>2, ArbTyped DEF ModemInv, LaunchOK
  <2>2. stage[Other(p)] > 0 /\ stage[p] > 0
    BY <1>1, <2>1 DEF ArbInv, StageOK
  <2>3. CASE old = {}
    <3> DEFINE x == localid[p]  y == localid[Other(p)]
    <3>1. x \in Int /\ y \in Int
      BY <1>1, Players, ArbTyped
    <3>2. x # y /\ consoleplayer[p] = Ordered(x, y)
      BY <1>1, <1>2, <2>2, <2>3 DEF ArbInv, NumbersOK
    <3>3. consoleplayer[Other(p)] = Ordered(y, x)
      <4>1. Other(p) \in Player /\ Other(Other(p)) = p
        BY DEF Player, Other
      <4>. QED
        BY <1>1, <2>2, <2>3, <4>1 DEF ArbInv, NumbersOK
    <3>. HIDE DEF x, y
    <3>4. Ordered(x, y) # Ordered(y, x)
      BY <3>1, <3>2 DEF Ordered
    <3>. QED
      BY <2>1, <2>2, <3>2, <3>3, <3>4
  <2>4. CASE old # {}
    <3>1. consoleplayer[1] # consoleplayer[0]
      BY <1>1, <2>1, <2>2, <2>4 DEF ArbInv, NumbersOK, Player
    <3>. QED
      BY <2>1, <2>2, <3>1 DEF Player, Other
  <2>. QED
    BY <2>3, <2>4
<1>3. TypeOK
  <2>1. Len(link[0]) + Len(link[1]) <= MaxLink + 2
    <3> DEFINE a == Len(link[0])  b == Len(link[1])
    <3>1. a \in Nat /\ b \in Nat
      BY <1>1, Players, ArbTyped
    <3>2. Due(0) \in 0 .. 1 /\ Due(1) \in 0 .. 1
      BY DEF Due
    <3>3. a + b + Due(0) + Due(1) <= MaxLink + 1 /\ MaxLink \in Nat
      BY <1>1, BoundsAssumption DEF ArbInv, Bounded
    <3>. HIDE DEF a, b
    <3>4. a + b <= MaxLink + 2
      BY <3>1, <3>2, <3>3
    <3>. QED
      BY <3>4 DEF a, b
  <2>. QED
    BY <1>1, <2>1 DEF TypeOK, ArbTypes, Phase
<1>. QED
  BY <1>2, <1>3 DEF LaunchesAsAgreed, LaunchesTogether

\* Whatever the modems do and the link loses, with -bg or without, and against an original
\* SERSETUP: the games are launched as player 0 and player 1, each after the other has heard of
\* it (PollArbitratePlayers, ProcessPackets, SetBackgroundPlayer).
THEOREM LaunchesAsAgreedHolds == DriverSpec => [](LaunchesAsAgreed /\ TypeOK)
<1>1. DriverInit => ModemInv
  BY InitFresh, FreshOK DEF DriverInit
<1>2. Begin => Fresh'
  BY BeginFresh
<1>3. Begin => ModemInv'
  BY <1>2, FreshOK, PTL
<1>4. ModemInv /\ [DriverNext]_driverVars => ModemInv'
  <2>. SUFFICES ASSUME ModemInv, [DriverNext]_driverVars PROVE ModemInv'
    OBVIOUS
  <2>1. CASE ModemNext
    BY <2>1, ConnectingKeeps
  <2>2. CASE Begin
    BY <1>3, <2>2
  <2>3. CASE LineNext /\ PlayingSerial
    BY <2>3, ModemUnchanged DEF PlayingSerial
  <2>4. CASE ParNext /\ PlayingParallel
    BY <2>4, ModemUnchanged DEF PlayingParallel
  <2>5. CASE UNCHANGED driverVars
    BY <2>5, ModemUnchanged DEF driverVars
  <2>. QED
    BY <2>1, <2>2, <2>3, <2>4, <2>5 DEF DriverNext
<1>. QED
  BY <1>1, <1>4, Agreed, PTL DEF DriverSpec

-----------------------------------------------------------------------------
(***************************************************************************)
(* The parallel port's ring of buffers.                                    *)
(***************************************************************************)
Size == NUM_RX_BUFFERS
Slots == [Buffer -> [data : Nat, len : {0, 1}]]
PortT == [writing : Nat, written : Nat, irq : BOOLEAN, rx_buffers : Slots,
          rx_buffer_head : Buffer, rx_buffer_tail : Buffer]

ParTypes ==
  /\ port \in [Player -> PortT]
  /\ received \in [Player -> Seq(Nat)] /\ taken \in [Player -> Seq(Nat)]
  /\ overwritten \in [Player -> SUBSET Nat]
  /\ failures \in 0 .. MaxFailures

\* How far a buffer is from the tail; the head's distance is how many packets wait.
Distance(r, i) == (i - r.rx_buffer_tail) % Size
Pending(r) == Distance(r, r.rx_buffer_head)
Clean(r) == \A i \in Buffer : Distance(r, i) > Pending(r) => r.rx_buffers[i].len = 0

Increasing(s) == \A i, j \in DOMAIN s : i < j => s[i] < s[j]
Game(p) == taken[p] \o Waiting(port[p]) \o Kept(port[p])

\* What p has received the other has written, and what that is writing p has not received.
ReceivedOK(p) ==
  /\ port[p].writing \in {0, port[p].written}
  /\ \A x \in ToSet(received[p]) :
       /\ x \in 1 .. port[Other(p)].written
       /\ port[Other(p)].writing # 0 => x < port[Other(p)].writing
  /\ overwritten[p] \subseteq ToSet(received[p])

GameOK(p) ==
  /\ ToSet(Game(p)) = ToSet(received[p]) \ overwritten[p]
  /\ Increasing(Game(p))

ParOK == ParTypes /\ \A p \in Player : Clean(port[p]) /\ ReceivedOK(p) /\ GameOK(p)

LEMMA SizeFacts == Size \in Nat /\ Size > 1 /\ Buffer = 0 .. Size - 1
BY BuffersAssumption DEF Size, Buffer

\* What is less than once around.
LEMMA Around ==
  ASSUME NEW x \in Int, -Size <= x, x < 2 * Size
  PROVE  /\ 0 <= x /\ x < Size => x % Size = x
         /\ x >= Size => x % Size = x - Size
         /\ x < 0 => x % Size = x + Size
<1>1. CASE Size = 2
  BY <1>1
<1>2. CASE Size = 4
  BY <1>2
<1>3. CASE Size = 8
  BY <1>3
<1>4. CASE Size = 16
  BY <1>4
<1>. QED
  BY <1>1, <1>2, <1>3, <1>4, BuffersAssumption DEF Size

LEMMA Followings ==
  ASSUME NEW i \in Buffer
  PROVE  Following(i) \in Buffer /\ Following(i) = IF i = Size - 1 THEN 0 ELSE i + 1
<1>1. i \in 0 .. Size - 1 /\ Size \in Nat /\ Size > 1 /\ Buffer = 0 .. Size - 1
  BY SizeFacts
<1>2. /\ i + 1 \in Int /\ -Size <= i + 1 /\ i + 1 < 2 * Size
  BY <1>1
<1>3. /\ i + 1 < Size => (i + 1) % Size = i + 1
      /\ i + 1 >= Size => (i + 1) % Size = i + 1 - Size
  BY <1>1, <1>2, Around
<1>. QED
  BY <1>1, <1>3 DEF Following, Size

LEMMA Distances ==
  ASSUME NEW r \in PortT, NEW i \in Buffer
  PROVE  /\ Distance(r, i) \in 0 .. Size - 1
         /\ Distance(r, i) = IF i >= r.rx_buffer_tail THEN i - r.rx_buffer_tail ELSE i - r.rx_buffer_tail + Size
<1> DEFINE t == r.rx_buffer_tail
<1>1. i \in 0 .. Size - 1 /\ t \in 0 .. Size - 1 /\ Size \in Nat /\ Size > 1
  BY SizeFacts DEF PortT
<1>. HIDE DEF t
<1>2. i - t \in Int /\ -Size <= i - t /\ i - t < Size
  BY <1>1
<1>3. /\ i - t >= 0 => (i - t) % Size = i - t
      /\ i - t < 0 => (i - t) % Size = i - t + Size
  BY <1>1, <1>2, Around
<1>4. (i - t) % Size = (IF i >= t THEN i - t ELSE i - t + Size) /\ (i - t) % Size \in 0 .. Size - 1
  BY <1>1, <1>3
<1>. QED
  BY <1>4 DEF t, Distance

\* The k-th buffer that waits.
Slot(r, k) == (r.rx_buffer_tail + k - 1) % Size

LEMMA SlotFacts ==
  ASSUME NEW r \in PortT, NEW k \in 1 .. Size
  PROVE  /\ Slot(r, k) \in Buffer
         /\ Slot(r, k) = IF r.rx_buffer_tail + k - 1 < Size THEN r.rx_buffer_tail + k - 1
                         ELSE r.rx_buffer_tail + k - 1 - Size
<1> DEFINE t == r.rx_buffer_tail
<1>1. t \in 0 .. Size - 1 /\ Size \in Nat /\ Size > 1 /\ Buffer = 0 .. Size - 1
  BY SizeFacts DEF PortT
<1>. HIDE DEF t
<1>2. t + k - 1 \in Int /\ -Size <= t + k - 1 /\ t + k - 1 < 2 * Size
  BY <1>1
<1>3. /\ t + k - 1 < Size => (t + k - 1) % Size = t + k - 1
      /\ t + k - 1 >= Size => (t + k - 1) % Size = t + k - 1 - Size
  BY <1>1, <1>2, Around
<1>4. (t + k - 1) % Size \in Buffer
      /\ (t + k - 1) % Size = IF t + k - 1 < Size THEN t + k - 1 ELSE t + k - 1 - Size
  BY <1>1, <1>3
<1>. QED
  BY <1>4 DEF t, Slot

LEMMA WaitingFacts ==
  ASSUME NEW r \in PortT
  PROVE  /\ Pending(r) \in 0 .. Size - 1
         /\ Waiting(r) = [k \in 1 .. Pending(r) |-> r.rx_buffers[Slot(r, k)].data]
         /\ Waiting(r) \in Seq(Nat) /\ Len(Waiting(r)) = Pending(r)
         /\ Kept(r) \in Seq(Nat)
<1>1. Pending(r) \in 0 .. Size - 1 /\ Pending(r) \in Nat
  <2>1. r.rx_buffer_head \in Buffer
    BY DEF PortT
  <2>. QED
    BY <2>1, Distances, SizeFacts DEF Pending
<1> DEFINE w == [k \in 1 .. Pending(r) |-> r.rx_buffers[Slot(r, k)].data]
<1>2. Waiting(r) = w
  BY DEF Waiting, Pending, Distance, Slot, Size
<1>3. \A k \in 1 .. Pending(r) : r.rx_buffers[Slot(r, k)].data \in Nat
  <2>1. \A k \in 1 .. Pending(r) : k \in 1 .. Size
    BY <1>1, SizeFacts
  <2>2. \A k \in 1 .. Pending(r) : Slot(r, k) \in Buffer
    BY <2>1, SlotFacts
  <2>. QED
    BY <2>2 DEF PortT, Slots
<1>4. w \in [1 .. Pending(r) -> Nat]
  BY <1>3
<1>5. w \in Seq(Nat) /\ Len(w) = Pending(r)
  <2>. HIDE DEF w
  <2>1. w \in Seq(Nat)
    BY <1>1, <1>4, SeqDef
  <2>2. DOMAIN w = 1 .. Pending(r)
    BY <1>4
  <2>. QED
    BY <1>1, <2>1, <2>2, LenProperties
<1>6. Kept(r) \in Seq(Nat)
  <2> DEFINE x == r.rx_buffers[r.rx_buffer_head].data
  <2>1. x \in Nat
    BY DEF PortT, Slots
  <2>2. Kept(r) = <<>> \/ Kept(r) = <<x>>
    BY DEF Kept
  <2>. HIDE DEF x
  <2>3. <<>> \in Seq(Nat) /\ <<x>> \in Seq(Nat)
    BY <2>1
  <2>. QED
    BY <2>2, <2>3, Zenon
<1>. QED
  BY <1>1, <1>2, <1>5, <1>6

-----------------------------------------------------------------------------
(***************************************************************************)
(* Sequences: what they contain, and whether they grow.                    *)
(***************************************************************************)
LEMMA LastAdded ==
  ASSUME NEW s \in Seq(Nat), NEW x \in Nat
  PROVE  LET t == s \o <<x>>
         IN /\ t \in Seq(Nat) /\ Len(t) = Len(s) + 1 /\ Len(s) \in Nat
            /\ \A i \in 1 .. Len(s) : t[i] = s[i]
            /\ t[Len(s) + 1] = x
            /\ DOMAIN t = 1 .. Len(s) + 1 /\ DOMAIN s = 1 .. Len(s)
            /\ t = Append(s, x)
<1> DEFINE u == Append(s, x)
<1>1. s \o <<x>> = u
  BY AppendIsConcat
<1>2. u \in Seq(Nat) /\ Len(u) = Len(s) + 1 /\ (\A i \in 1 .. Len(s) : u[i] = s[i]) /\ u[Len(s) + 1] = x
  BY AppendProperties
<1>3. Len(s) \in Nat /\ DOMAIN s = 1 .. Len(s) /\ DOMAIN u = 1 .. Len(u)
  BY <1>2, LenProperties
<1>. HIDE DEF u
<1>. QED
  BY <1>1, <1>2, <1>3 DEF u

LEMMA LastAddedSet ==
  ASSUME NEW s \in Seq(Nat), NEW x \in Nat
  PROVE  ToSet(s \o <<x>>) = ToSet(s) \cup {x}
<1> DEFINE t == s \o <<x>>
<1>1. /\ Len(s) \in Nat /\ t[Len(s) + 1] = x /\ \A i \in 1 .. Len(s) : t[i] = s[i]
      /\ DOMAIN t = 1 .. Len(s) + 1 /\ DOMAIN s = 1 .. Len(s)
  BY LastAdded
<1>. HIDE DEF t
<1>2. 1 .. Len(s) + 1 = (1 .. Len(s)) \cup {Len(s) + 1}
  BY <1>1
<1>3. ToSet(t) = ToSet(s) \cup {x}
  BY <1>1, <1>2 DEF ToSet
<1>. QED
  BY <1>3 DEF t

LEMMA LastAddedGrows ==
  ASSUME NEW s \in Seq(Nat), NEW x \in Nat
  PROVE  Increasing(s \o <<x>>) <=> Increasing(s) /\ \A y \in ToSet(s) : y < x
<1> DEFINE t == s \o <<x>>  n == Len(s)
<1>1. /\ n \in Nat /\ t[n + 1] = x /\ \A i \in 1 .. n : t[i] = s[i]
      /\ DOMAIN t = 1 .. n + 1 /\ DOMAIN s = 1 .. n
  BY LastAdded
<1>. HIDE DEF t, n
<1>2. ASSUME Increasing(t) PROVE Increasing(s) /\ \A y \in ToSet(s) : y < x
  <2>1. ASSUME NEW i \in 1 .. n, NEW j \in 1 .. n, i < j PROVE s[i] < s[j]
    BY <1>1, <1>2, <2>1 DEF Increasing
  <2>2. ASSUME NEW i \in 1 .. n PROVE s[i] < x
    <3>1. i \in 1 .. n + 1 /\ n + 1 \in 1 .. n + 1 /\ i < n + 1
      BY <1>1
    <3>. QED
      BY <1>1, <1>2, <3>1 DEF Increasing
  <2>3. Increasing(s)
    BY <1>1, <2>1 DEF Increasing
  <2>. QED
    BY <1>1, <2>2, <2>3 DEF ToSet
<1>3. ASSUME Increasing(s), \A y \in ToSet(s) : y < x PROVE Increasing(t)
  <2>1. \A i \in 1 .. n : s[i] < x
    BY <1>1, <1>3 DEF ToSet
  <2>2. ASSUME NEW i \in 1 .. n + 1, NEW j \in 1 .. n + 1, i < j PROVE t[i] < t[j]
    <3>1. CASE j \in 1 .. n
      BY <1>1, <1>3, <2>2, <3>1, SMTT(30) DEF Increasing
    <3>2. CASE j = n + 1
      BY <1>1, <2>1, <2>2, <3>2
    <3>. QED
      BY <1>1, <3>1, <3>2
  <2>. QED
    BY <1>1, <2>2 DEF Increasing
<1>. QED
  BY <1>2, <1>3 DEF t

-----------------------------------------------------------------------------
(***************************************************************************)
(* What is done to a ring.                                                 *)
(***************************************************************************)
\* s is r with another ring, head and tail.
Changes(r, s, slots, head, tail) ==
  /\ s \in PortT /\ s.writing = r.writing /\ s.written = r.written
  /\ s.rx_buffers = slots /\ s.rx_buffer_head = head /\ s.rx_buffer_tail = tail

LEMMA SlotNotHead ==
  ASSUME NEW r \in PortT, NEW k \in 1 .. Pending(r)
  PROVE  /\ k \in 1 .. Size /\ Slot(r, k) \in Buffer /\ Slot(r, k) # r.rx_buffer_head
         /\ Distance(r, Slot(r, k)) = k - 1
<1> DEFINE t == r.rx_buffer_tail  h == r.rx_buffer_head  n == Pending(r)  j == Slot(r, k)  d == Distance(r, j)
<1>1. t \in 0 .. Size - 1 /\ h \in 0 .. Size - 1 /\ Size \in Nat /\ Size > 1 /\ Buffer = 0 .. Size - 1
  BY SizeFacts DEF PortT
<1>2. n \in 0 .. Size - 1 /\ n = IF h >= t THEN h - t ELSE h - t + Size
  BY <1>1, Distances DEF Pending
<1>3. k \in 1 .. Size /\ k \in 1 .. n
  BY <1>1, <1>2
<1>4. j \in Buffer /\ j = IF t + k - 1 < Size THEN t + k - 1 ELSE t + k - 1 - Size
  BY <1>3, SlotFacts
<1>5. d = IF j >= t THEN j - t ELSE j - t + Size
  BY <1>4, Distances
<1>. HIDE DEF t, h, n, j, d
<1>6. j # h /\ d = k - 1
  BY <1>1, <1>2, <1>3, <1>4, <1>5
<1>. QED
  BY <1>3, <1>4, <1>6 DEF h, j, d

\* Two rings of which the second has the same packets waiting.
LEMMA SameWaiting ==
  ASSUME NEW r \in PortT, NEW s \in PortT, s.rx_buffer_tail = r.rx_buffer_tail, s.rx_buffer_head = r.rx_buffer_head,
         \A i \in Buffer : i # r.rx_buffer_head => s.rx_buffers[i] = r.rx_buffers[i]
  PROVE  Waiting(s) = Waiting(r) /\ Pending(s) = Pending(r) /\ (Clean(r) => Clean(s))
<1>1. Pending(s) = Pending(r) /\ \A i \in Buffer : Distance(s, i) = Distance(r, i)
  BY DEF Pending, Distance
<1>2. ASSUME NEW k \in 1 .. Pending(r)
      PROVE  Slot(s, k) = Slot(r, k) /\ s.rx_buffers[Slot(s, k)].data = r.rx_buffers[Slot(r, k)].data
  <2>1. Slot(s, k) = Slot(r, k)
    BY DEF Slot
  <2>2. Slot(r, k) \in Buffer /\ Slot(r, k) # r.rx_buffer_head
    BY SlotNotHead
  <2>. QED
    BY <2>1, <2>2
<1>3. Waiting(s) = Waiting(r)
  <2>1. /\ Waiting(r) = [k \in 1 .. Pending(r) |-> r.rx_buffers[Slot(r, k)].data]
        /\ Waiting(s) = [k \in 1 .. Pending(r) |-> s.rx_buffers[Slot(s, k)].data]
    BY <1>1, WaitingFacts
  <2>. QED
    BY <1>2, <2>1
<1>4. ASSUME Clean(r) PROVE Clean(s)
  <2>1. r.rx_buffer_head \in Buffer /\ ~(Distance(r, r.rx_buffer_head) > Pending(r))
    <3>1. r.rx_buffer_head \in Buffer
      BY DEF PortT
    <3>. QED
      BY <3>1, Distances, SizeFacts DEF Pending
  <2>2. \A i \in Buffer : Distance(s, i) > Pending(s) => i # r.rx_buffer_head
    BY <1>1, <2>1
  <2>. QED
    BY <1>1, <1>4, <2>2 DEF Clean
<1>. QED
  BY <1>1, <1>3, <1>4

LEMMA Stored ==
  ASSUME NEW r \in PortT, Clean(r), NEW pkt \in Nat, pkt # 0, NEW s, NEW head,
         head = r.rx_buffer_head,
         Changes(r, s, [r.rx_buffers EXCEPT ![head] = [data |-> pkt, len |-> 1]],
                 IF Following(head) # r.rx_buffer_tail THEN Following(head) ELSE head, r.rx_buffer_tail)
  PROVE  /\ Clean(s)
         /\ \/ Waiting(s) = Waiting(r) /\ Kept(s) = <<pkt>>
            \/ Waiting(s) = Waiting(r) \o <<pkt>> /\ Kept(s) = <<>>
<1>1. /\ head \in Buffer /\ r.rx_buffer_tail \in Buffer /\ s \in PortT
      /\ s.rx_buffer_tail = r.rx_buffer_tail
      /\ s.rx_buffers[head].data = pkt /\ s.rx_buffers[head].len = 1
      /\ \A i \in Buffer : i # head => s.rx_buffers[i] = r.rx_buffers[i]
  BY DEF Changes, PortT, Slots
<1>2. CASE Following(head) = r.rx_buffer_tail
  <2>1. s.rx_buffer_head = head
    BY <1>2 DEF Changes
  <2>2. Waiting(s) = Waiting(r) /\ Clean(s)
    BY <1>1, <2>1, SameWaiting
  <2>3. Kept(s) = <<pkt>>
    BY <1>1, <2>1 DEF Kept
  <2>. QED
    BY <2>2, <2>3
<1>3. CASE Following(head) # r.rx_buffer_tail
  <2> DEFINE t == r.rx_buffer_tail  n == Pending(r)  f == s.rx_buffer_head  m == Pending(s)
  <2>1. f = Following(head) /\ f \in Buffer
    BY <1>3, <1>1, Followings DEF Changes
  <2>2. \A i \in Buffer : Distance(s, i) = Distance(r, i)
    BY <1>1 DEF Distance
  <2>3. m = n + 1 /\ n \in 0 .. Size - 2 /\ Slot(r, n + 1) = head /\ f # head
    <3>1. /\ t \in 0 .. Size - 1 /\ head \in 0 .. Size - 1 /\ Size \in Nat /\ Size > 1 /\ f # t
          /\ f = IF head = Size - 1 THEN 0 ELSE head + 1
      BY <1>1, <1>3, <2>1, Followings, SizeFacts
    <3>2. n = IF head >= t THEN head - t ELSE head - t + Size
      BY <1>1, Distances DEF Pending
    <3>3. m = IF f >= t THEN f - t ELSE f - t + Size
      BY <1>1, <2>1, Distances DEF Pending
    <3> DEFINE j == Slot(r, n + 1)
    <3>4. n + 1 \in 1 .. Size
      <4>. HIDE DEF t, n, f, m
      <4>. QED
        BY <3>1, <3>2
    <3>5. j = IF t + (n + 1) - 1 < Size THEN t + (n + 1) - 1 ELSE t + (n + 1) - 1 - Size
      BY <3>4, SlotFacts
    <3>6. m = n + 1 /\ n \in 0 .. Size - 2 /\ j = head /\ f # head
      <4>. HIDE DEF t, n, f, m, j
      <4>. QED
        BY <3>1, <3>2, <3>3, <3>5
    <3>. QED
      BY <3>6
  <2>4. s.rx_buffers[f].len = 0
    <3>1. Distance(r, f) = m
      BY <2>1, <2>2 DEF Pending
    <3>2. Distance(r, f) > n
      <4>. HIDE DEF m, n
      <4>. QED
        BY <2>3, <3>1, SizeFacts
    <3>3. s.rx_buffers[f] = r.rx_buffers[f]
      <4>. HIDE DEF f
      <4>. QED
        BY <1>1, <2>1, <2>3
    <3>4. r.rx_buffers[f].len = 0
      <4>. HIDE DEF f
      <4>. QED
        BY <2>1, <3>2 DEF Clean
    <3>. QED
      BY <3>3, <3>4
  <2>5. Clean(s)
    <3>1. ASSUME NEW i \in Buffer, Distance(s, i) > m PROVE s.rx_buffers[i].len = 0
      <4> DEFINE d == Distance(r, i)
      <4>1. d > m /\ d \in Int
        BY <2>2, <3>1, Distances
      <4>2. d > n
        <5>. HIDE DEF d, m, n
        <5>. QED
          BY <2>3, <4>1, SizeFacts
      <4>3. i # head
        <5>1. Distance(r, head) = n
          BY DEF Pending
        <5>2. ~(n > n)
          <6>. HIDE DEF n
          <6>. QED
            BY <2>3, SizeFacts
        <5>. QED
          BY <4>2, <5>1, <5>2
      <4>. QED
        BY <1>1, <4>2, <4>3 DEF Clean
    <3>. QED
      BY <3>1 DEF Clean
  <2>6. Kept(s) = <<>>
    BY <2>4 DEF Kept
  <2>7. Waiting(s) = Waiting(r) \o <<pkt>>
    <3> DEFINE w == Waiting(r)  u == Waiting(s)  v == w \o <<pkt>>
    <3>1. w \in Seq(Nat) /\ Len(w) = n /\ w = [k \in 1 .. n |-> r.rx_buffers[Slot(r, k)].data]
      BY WaitingFacts
    <3>2. u \in Seq(Nat) /\ Len(u) = m /\ u = [k \in 1 .. m |-> s.rx_buffers[Slot(s, k)].data]
      BY <1>1, WaitingFacts
    <3>3. /\ v \in Seq(Nat) /\ Len(v) = n + 1 /\ v[n + 1] = pkt /\ \A k \in 1 .. n : v[k] = w[k]
      <4>1. w \in Seq(Nat) /\ Len(w) = n
        BY WaitingFacts
      <4>. HIDE DEF w, n
      <4>2. /\ v \in Seq(Nat) /\ Len(v) = Len(w) + 1 /\ v[Len(w) + 1] = pkt
            /\ \A k \in 1 .. Len(w) : v[k] = w[k]
        BY <4>1, LastAdded
      <4>. QED
        BY <4>1, <4>2
    <3>4. ASSUME NEW k \in 1 .. n + 1 PROVE u[k] = v[k]
      <4>1. u[k] = s.rx_buffers[Slot(r, k)].data
        <5>1. k \in 1 .. m /\ Slot(s, k) = Slot(r, k)
          BY <1>1, <2>3 DEF Slot
        <5>. HIDE DEF u
        <5>. QED
          BY <3>2, <5>1
      <4>2. CASE k = n + 1
        <5>1. Slot(r, k) = head
          BY <2>3, <4>2
        <5>2. u[k] = pkt
          BY <1>1, <4>1, <5>1
        <5>. QED
          BY <3>3, <4>2, <5>2
      <4>3. CASE k # n + 1
        <5>1. k \in 1 .. n
          <6>. HIDE DEF n
          <6>. QED
            BY <2>3, <4>3, SizeFacts
        <5>2. Slot(r, k) \in Buffer /\ Slot(r, k) # head
          BY <5>1, SlotNotHead
        <5>3. w[k] = r.rx_buffers[Slot(r, k)].data
          <6>. HIDE DEF w
          <6>. QED
            BY <3>1, <5>1
        <5>. QED
          BY <1>1, <3>3, <4>1, <5>1, <5>2, <5>3
      <4>. QED
        BY <4>2, <4>3
    <3>5. Len(u) = n + 1
      BY <2>3, <3>2
    <3>. HIDE DEF u, v, n
    <3>. QED
      BY <3>2, <3>3, <3>4, <3>5, SeqEqual DEF u, v
  <2>. QED
    BY <2>5, <2>6, <2>7
<1>. QED
  BY <1>2, <1>3

LEMMA Failed ==
  ASSUME NEW r \in PortT, Clean(r), NEW s, NEW head, NEW len, head = r.rx_buffer_head,
         Changes(r, s, [r.rx_buffers EXCEPT ![head] = [data |-> 0, len |-> len]], head, r.rx_buffer_tail)
  PROVE  Clean(s) /\ Waiting(s) = Waiting(r) /\ Kept(s) = <<>>
<1>1. /\ head \in Buffer /\ s \in PortT
      /\ s.rx_buffer_tail = r.rx_buffer_tail /\ s.rx_buffer_head = head
      /\ s.rx_buffers[head].data = 0
      /\ \A i \in Buffer : i # head => s.rx_buffers[i] = r.rx_buffers[i]
  BY DEF Changes, PortT, Slots
<1>2. Kept(s) = <<>>
  BY <1>1 DEF Kept
<1>. QED
  BY <1>1, <1>2, SameWaiting

LEMMA Fetched ==
  ASSUME NEW r \in PortT, Clean(r), NEW s, NEW tail, NEW data, tail = r.rx_buffer_tail, r.rx_buffer_head # tail,
         data = r.rx_buffers[tail].data,
         Changes(r, s, [r.rx_buffers EXCEPT ![tail] = [data |-> data, len |-> 0]], r.rx_buffer_head, Following(tail))
  PROVE  Clean(s) /\ Kept(s) = Kept(r) /\ data \in Nat /\ Waiting(r) = <<data>> \o Waiting(s)
<1> DEFINE h == r.rx_buffer_head  n == Pending(r)  f == s.rx_buffer_tail  m == Pending(s)
<1>1. /\ tail \in Buffer /\ h \in Buffer /\ s \in PortT /\ data \in Nat
      /\ s.rx_buffer_head = h /\ f = Following(tail)
      /\ s.rx_buffers[tail].len = 0
      /\ \A i \in Buffer : i # tail => s.rx_buffers[i] = r.rx_buffers[i]
  BY DEF Changes, PortT, Slots
<1>2. /\ tail \in 0 .. Size - 1 /\ h \in 0 .. Size - 1 /\ f \in 0 .. Size - 1 /\ Size \in Nat /\ Size > 1
      /\ f = IF tail = Size - 1 THEN 0 ELSE tail + 1
  BY <1>1, Followings, SizeFacts
<1>3. n = IF h >= tail THEN h - tail ELSE h - tail + Size
  BY <1>1, Distances DEF Pending
<1>4. m = IF h >= f THEN h - f ELSE h - f + Size
  BY <1>1, Distances DEF Pending
<1>5. m = n - 1 /\ n \in 1 .. Size - 1 /\ m \in 0 .. Size - 2
  <2>1. h # tail
    OBVIOUS
  <2>. HIDE DEF h, n, f, m
  <2>. QED
    BY <1>2, <1>3, <1>4, <2>1
<1>6. ASSUME NEW i \in Buffer, i # tail PROVE Distance(s, i) = Distance(r, i) - 1
  <2> DEFINE d == Distance(r, i)  e == Distance(s, i)
  <2>1. d = IF i >= tail THEN i - tail ELSE i - tail + Size
    BY Distances
  <2>2. e = IF i >= f THEN i - f ELSE i - f + Size
    BY <1>1, Distances
  <2>3. i \in 0 .. Size - 1
    BY SizeFacts
  <2>. HIDE DEF d, e, f
  <2>4. e = d - 1
    BY <1>2, <1>6, <2>1, <2>2, <2>3
  <2>. QED
    BY <2>4 DEF d, e
<1>7. Clean(s)
  <2>1. ASSUME NEW i \in Buffer, Distance(s, i) > m PROVE s.rx_buffers[i].len = 0
    <3>1. CASE i = tail
      BY <1>1, <3>1
    <3>2. CASE i # tail
      <4> DEFINE d == Distance(r, i)  e == Distance(s, i)
      <4>1. d \in Int /\ e > m /\ e = d - 1
        BY <1>6, <2>1, <3>2, Distances
      <4>2. d > n
        <5>. HIDE DEF d, e, m, n
        <5>. QED
          BY <1>5, <4>1, SizeFacts
      <4>. QED
        BY <1>1, <3>2, <4>2 DEF Clean
    <3>. QED
      BY <3>1, <3>2
  <2>. QED
    BY <2>1 DEF Clean
<1>8. Kept(s) = Kept(r)
  <2>1. s.rx_buffers[h] = r.rx_buffers[h]
    BY <1>1
  <2>. QED
    BY <1>1, <2>1 DEF Kept
<1>9. Waiting(r) = <<data>> \o Waiting(s)
  <2> DEFINE w == Waiting(r)  u == Waiting(s)  v == <<data>> \o u
  <2>1. w \in Seq(Nat) /\ Len(w) = n /\ u \in Seq(Nat) /\ Len(u) = m
    BY <1>1, WaitingFacts
  <2>2. /\ w = [k \in 1 .. n |-> r.rx_buffers[Slot(r, k)].data]
        /\ u = [k \in 1 .. m |-> s.rx_buffers[Slot(s, k)].data]
    BY <1>1, WaitingFacts
  <2>3. v \in Seq(Nat) /\ Len(v) = m + 1 /\ v[1] = data /\ \A k \in 2 .. m + 1 : v[k] = u[k - 1]
    <3>. HIDE DEF u, m
    <3>1. <<data>> \in Seq(Nat) /\ Len(<<data>>) = 1 /\ <<data>>[1] = data /\ m \in Nat
      BY <1>1, <2>1, LenProperties
    <3> DEFINE x == <<data>>
    <3>2. x \in Seq(Nat) /\ Len(x) = 1 /\ x[1] = data
      BY <3>1
    <3>. HIDE DEF x
    <3>3. /\ x \o u \in Seq(Nat) /\ Len(x \o u) = Len(x) + Len(u)
          /\ \A k \in 1 .. Len(x) + Len(u) :
               (x \o u)[k] = IF k <= Len(x) THEN x[k] ELSE u[k - Len(x)]
      BY <2>1, <3>2, ConcatProperties
    <3>4. /\ x \o u \in Seq(Nat) /\ Len(x \o u) = m + 1 /\ (x \o u)[1] = data
          /\ \A k \in 2 .. m + 1 : (x \o u)[k] = u[k - 1]
      BY <2>1, <3>1, <3>2, <3>3
    <3>. QED
      BY <3>4 DEF x
  <2>4. Slot(r, 1) = tail
    <3>1. 1 \in 1 .. Size
      BY <1>2
    <3>2. Slot(r, 1) = IF tail + 1 - 1 < Size THEN tail + 1 - 1 ELSE tail + 1 - 1 - Size
      BY <3>1, SlotFacts
    <3>. QED
      BY <1>2, <3>2
  <2>5. ASSUME NEW k \in 2 .. n
        PROVE  Slot(r, k) = Slot(s, k - 1) /\ s.rx_buffers[Slot(r, k)] = r.rx_buffers[Slot(r, k)]
    <3>1. k \in 1 .. n /\ k \in 1 .. Size /\ k - 1 \in 1 .. Size
      <4>. HIDE DEF n
      <4>. QED
        BY <1>2, <1>5
    <3> DEFINE i == Slot(r, k)  j == Slot(s, k - 1)
    <3>2. i \in Buffer /\ i = IF tail + k - 1 < Size THEN tail + k - 1 ELSE tail + k - 1 - Size
      BY <3>1, SlotFacts
    <3>3. j = IF f + (k - 1) - 1 < Size THEN f + (k - 1) - 1 ELSE f + (k - 1) - 1 - Size
      BY <1>1, <3>1, SlotFacts
    <3>4. i = j /\ i # tail
      <4>. HIDE DEF i, j, f, n
      <4>. QED
        BY <1>2, <1>5, <3>1, <3>2, <3>3
    <3>. QED
      BY <1>1, <3>2, <3>4
  <2>6. ASSUME NEW k \in 1 .. n PROVE w[k] = v[k]
    <3>1. w[k] = r.rx_buffers[Slot(r, k)].data
      <4>. HIDE DEF w
      <4>. QED
        BY <2>2
    <3>2. CASE k = 1
      BY <2>3, <2>4, <3>1, <3>2
    <3>3. CASE k # 1
      <4>1. k \in 2 .. n /\ k - 1 \in 1 .. m /\ k \in 2 .. m + 1
        <5>. HIDE DEF n, m
        <5>. QED
          BY <1>5, <3>3, SizeFacts
      <4>2. u[k - 1] = s.rx_buffers[Slot(s, k - 1)].data
        <5>. HIDE DEF u
        <5>. QED
          BY <2>2, <4>1
      <4>. QED
        BY <2>3, <2>5, <3>1, <4>1, <4>2
    <3>. QED
      BY <3>2, <3>3
  <2>7. Len(v) = n
    <3>. HIDE DEF v, n, m
    <3>. QED
      BY <1>5, <2>3, SizeFacts
  <2>. HIDE DEF w, u, v, n
  <2>8. w = v
    BY <2>1, <2>3, <2>6, <2>7, SeqEqual
  <2>. QED
    BY <2>8 DEF w, u, v
<1>. QED
  BY <1>1, <1>7, <1>8, <1>9

-----------------------------------------------------------------------------
(***************************************************************************)
(* The parallel port driver's steps.                                       *)
(***************************************************************************)
SameRing(r, s) ==
  /\ s \in PortT
  /\ s.rx_buffers = r.rx_buffers /\ s.rx_buffer_head = r.rx_buffer_head /\ s.rx_buffer_tail = r.rx_buffer_tail

LEMMA SameRingFacts ==
  ASSUME NEW r \in PortT, NEW s, SameRing(r, s)
  PROVE  Waiting(s) = Waiting(r) /\ Kept(s) = Kept(r) /\ (Clean(r) => Clean(s))
<1>1. Waiting(s) = Waiting(r) /\ (Clean(r) => Clean(s))
  BY SameWaiting DEF SameRing
<1>2. Kept(s) = Kept(r)
  BY DEF Kept, SameRing
<1>. QED
  BY <1>1, <1>2

LEMMA WriteChanges ==
  ASSUME ParTypes, NEW p \in Player, WritePacket(p)
  PROVE  LET q == Other(p)
         IN /\ port[p].writing = 0 /\ port' \in [Player -> PortT]
            /\ SameRing(port[p], port'[p]) /\ SameRing(port[q], port'[q])
            /\ port'[p].written = port[p].written + 1 /\ port'[p].writing = port[p].written + 1
            /\ port'[q].written = port[q].written /\ port'[q].writing = port[q].writing
<1> DEFINE q == Other(p)
           a == [port[p] EXCEPT !.writing = port[p].written + 1, !.written = port[p].written + 1]
           b == [port[q] EXCEPT !.irq = TRUE]
<1>1. q \in Player /\ q # p
  BY Players
<1>2. port[p] \in PortT /\ port[q] \in PortT /\ port[p].writing = 0
  BY <1>1 DEF ParTypes, WritePacket
<1>3. a \in PortT /\ SameRing(port[p], a) /\ a.written = port[p].written + 1 /\ a.writing = port[p].written + 1
  <2>1. port[p].written + 1 \in Nat
    BY <1>2 DEF PortT
  <2>2. SameRing(port[p], a) /\ a.written = port[p].written + 1 /\ a.writing = port[p].written + 1
    <3> DEFINE x == port[p].written + 1
    <3>1. a = [port[p] EXCEPT !.writing = x, !.written = x]
      OBVIOUS
    <3>. HIDE DEF x, a
    <3>2. a = [writing |-> x, written |-> x, irq |-> port[p].irq, rx_buffers |-> port[p].rx_buffers,
               rx_buffer_head |-> port[p].rx_buffer_head, rx_buffer_tail |-> port[p].rx_buffer_tail]
      BY <1>2, <3>1 DEF PortT
    <3>3. x \in Nat
      BY <2>1 DEF x
    <3>4. a \in PortT
      BY <1>2, <3>2, <3>3 DEF PortT
    <3>5. SameRing(port[p], a) /\ a.written = x /\ a.writing = x
      BY <3>2, <3>4 DEF SameRing
    <3>. QED
      BY <3>5 DEF x
  <2>. QED
    BY <2>2 DEF SameRing
<1>4. b \in PortT /\ SameRing(port[q], b) /\ b.written = port[q].written /\ b.writing = port[q].writing
  BY <1>2 DEF PortT, SameRing
<1>5. port' = [port EXCEPT ![p] = a, ![q] = b]
  BY <1>1, <1>2 DEF WritePacket, ParTypes
<1>. HIDE DEF a, b
<1>6. port'[p] = a /\ port'[q] = b /\ port' \in [Player -> PortT]
  BY <1>1, <1>3, <1>4, <1>5 DEF ParTypes
<1>. QED
  BY <1>2, <1>3, <1>4, <1>6

\* The other side's, or p's own, transfer is over.
LEMMA Ended ==
  ASSUME NEW r \in PortT, NEW s, s = [r EXCEPT !.writing = 0]
  PROVE  SameRing(r, s) /\ s.written = r.written /\ s.writing = 0
BY DEF PortT, SameRing

LEMMA TimeoutChanges ==
  ASSUME ParTypes, NEW p \in Player, WriteTimeout(p)
  PROVE  LET q == Other(p)
         IN /\ port' \in [Player -> PortT] /\ SameRing(port[p], port'[p]) /\ port'[q] = port[q]
            /\ port'[p].written = port[p].written /\ port'[p].writing = 0
<1> DEFINE a == [port[p] EXCEPT !.writing = 0]
<1>1. port[p] \in PortT /\ Other(p) \in Player /\ Other(p) # p
  BY Players DEF ParTypes
<1>2. SameRing(port[p], a) /\ a.written = port[p].written /\ a.writing = 0
  BY <1>1, Ended
<1>3. port' = [port EXCEPT ![p] = a]
  BY <1>1 DEF WriteTimeout, ParTypes
<1>. HIDE DEF a
<1>. QED
  BY <1>1, <1>2, <1>3 DEF ParTypes, SameRing

LEMMA SpuriousChanges ==
  ASSUME ParTypes, NEW p \in Player, SpuriousISR(p)
  PROVE  LET q == Other(p)
         IN /\ port' \in [Player -> PortT] /\ SameRing(port[p], port'[p]) /\ port'[q] = port[q]
            /\ port'[p].written = port[p].written /\ port'[p].writing = port[p].writing
<1> DEFINE a == [port[p] EXCEPT !.irq = FALSE]
<1>1. port[p] \in PortT /\ Other(p) \in Player /\ Other(p) # p
  BY Players DEF ParTypes
<1>2. SameRing(port[p], a) /\ a.written = port[p].written /\ a.writing = port[p].writing
  BY <1>1 DEF SameRing, PortT
<1>3. port' = [port EXCEPT ![p] = a]
  BY <1>1 DEF SpuriousISR, ParTypes
<1>. HIDE DEF a
<1>. QED
  BY <1>1, <1>2, <1>3 DEF ParTypes, SameRing

\* The handler's view: the interrupt is acknowledged.
LEMMA Acknowledged ==
  ASSUME NEW w \in PortT, NEW r, r = [w EXCEPT !.irq = FALSE]
  PROVE  SameRing(w, r) /\ r.written = w.written /\ r.writing = w.writing /\ r \in PortT
BY DEF SameRing, PortT

WithHead(r, slots, head) == [r EXCEPT !.rx_buffers = slots, !.rx_buffer_head = head]
WithTail(r, slots, tail) == [r EXCEPT !.rx_buffer_tail = tail, !.rx_buffers = slots]

LEMMA HeadReplaced ==
  ASSUME NEW r \in PortT, NEW slots, NEW head
  PROVE  WithHead(r, slots, head)
           = [writing |-> r.writing, written |-> r.written, irq |-> r.irq, rx_buffers |-> slots,
              rx_buffer_head |-> head, rx_buffer_tail |-> r.rx_buffer_tail]
<1> DEFINE s == WithHead(r, slots, head)
<1>1. s = [r EXCEPT !.rx_buffers = slots, !.rx_buffer_head = head]
  BY DEF WithHead
<1>. HIDE DEF s
<1>2. s = [writing |-> r.writing, written |-> r.written, irq |-> r.irq, rx_buffers |-> slots,
           rx_buffer_head |-> head, rx_buffer_tail |-> r.rx_buffer_tail]
  BY <1>1 DEF PortT
<1>. QED
  BY <1>2 DEF s

LEMMA TailReplaced ==
  ASSUME NEW r \in PortT, NEW slots, NEW tail
  PROVE  WithTail(r, slots, tail)
           = [writing |-> r.writing, written |-> r.written, irq |-> r.irq, rx_buffers |-> slots,
              rx_buffer_head |-> r.rx_buffer_head, rx_buffer_tail |-> tail]
<1> DEFINE s == WithTail(r, slots, tail)
<1>1. s = [r EXCEPT !.rx_buffer_tail = tail, !.rx_buffers = slots]
  BY DEF WithTail
<1>. HIDE DEF s
<1>2. s = [writing |-> r.writing, written |-> r.written, irq |-> r.irq, rx_buffers |-> slots,
           rx_buffer_head |-> r.rx_buffer_head, rx_buffer_tail |-> tail]
  BY <1>1 DEF PortT
<1>. QED
  BY <1>2 DEF s

\* A ring, head and tail put into a driver.
LEMMA NewRing ==
  ASSUME NEW w \in PortT, NEW irq \in BOOLEAN,
         NEW slots \in Slots, NEW head \in Buffer, NEW tail \in Buffer,
         NEW s, s = [writing |-> w.writing, written |-> w.written, irq |-> irq, rx_buffers |-> slots,
                     rx_buffer_head |-> head, rx_buffer_tail |-> tail]
  PROVE  Changes(w, s, slots, head, tail)
<1> DEFINE x == w.writing  y == w.written
<1>1. x \in Nat /\ y \in Nat
  BY DEF PortT
<1>. HIDE DEF x, y
<1>2. [writing |-> x, written |-> y, irq |-> irq, rx_buffers |-> slots,
       rx_buffer_head |-> head, rx_buffer_tail |-> tail] \in PortT
  BY <1>1 DEF PortT
<1>3. s \in PortT
  BY <1>2 DEF x, y
<1>. QED
  BY <1>3 DEF Changes

LEMMA ReceivedChanges ==
  ASSUME NEW w \in PortT, NEW r, r = [w EXCEPT !.irq = FALSE], NEW pkt \in Nat, NEW s, s = PacketReceived(r, pkt)
  PROVE  Changes(w, s, [w.rx_buffers EXCEPT ![w.rx_buffer_head] = [data |-> pkt, len |-> 1]],
                 IF Following(w.rx_buffer_head) # w.rx_buffer_tail THEN Following(w.rx_buffer_head)
                 ELSE w.rx_buffer_head, w.rx_buffer_tail)
<1> DEFINE h == w.rx_buffer_head  t == w.rx_buffer_tail
           b == [w.rx_buffers EXCEPT ![h] = [data |-> pkt, len |-> 1]]
           f == IF Following(h) # t THEN Following(h) ELSE h
<1>1. h \in Buffer /\ t \in Buffer /\ f \in Buffer
  BY Followings DEF PortT
<1>2. b \in Slots
  BY <1>1 DEF PortT, Slots
<1>3. r = [writing |-> w.writing, written |-> w.written, irq |-> FALSE, rx_buffers |-> w.rx_buffers,
           rx_buffer_head |-> h, rx_buffer_tail |-> t]
  BY DEF PortT
<1>4. s = WithHead(r, b, f)
  BY <1>3 DEF PacketReceived, WithHead
<1>7. /\ r \in PortT /\ r.writing = w.writing /\ r.written = w.written /\ r.irq = FALSE
      /\ r.rx_buffers = w.rx_buffers /\ r.rx_buffer_head = h /\ r.rx_buffer_tail = t
  BY <1>3, Acknowledged
<1>. HIDE DEF h, t, b, f
<1>5. s = [writing |-> w.writing, written |-> w.written, irq |-> FALSE, rx_buffers |-> b,
           rx_buffer_head |-> f, rx_buffer_tail |-> t]
  <2>1. WithHead(r, b, f)
          = [writing |-> r.writing, written |-> r.written, irq |-> r.irq, rx_buffers |-> b,
             rx_buffer_head |-> f, rx_buffer_tail |-> r.rx_buffer_tail]
    BY <1>7, HeadReplaced
  <2>. QED
    BY <1>4, <1>7, <2>1, Zenon
<1>6. Changes(w, s, b, f, t)
  BY <1>1, <1>2, <1>5, NewRing
<1>. QED
  BY <1>6 DEF b, f, h, t

WithoutData(r) == [r EXCEPT !.rx_buffers[r.rx_buffer_head].data = 0]

LEMMA FailedChanges ==
  ASSUME NEW w \in PortT, NEW r, r = [w EXCEPT !.irq = FALSE],
         NEW s, s = WithoutData(r)
  PROVE  LET h == w.rx_buffer_head
         IN Changes(w, s, [w.rx_buffers EXCEPT ![h] = [data |-> 0, len |-> w.rx_buffers[h].len]],
                    h, w.rx_buffer_tail)
<1> DEFINE h == w.rx_buffer_head  t == w.rx_buffer_tail
           b == [w.rx_buffers EXCEPT ![h] = [data |-> 0, len |-> w.rx_buffers[h].len]]
<1>1. h \in Buffer /\ t \in Buffer
  BY DEF PortT
<1>2. b \in Slots
  BY <1>1 DEF PortT, Slots
<1>3. r = [writing |-> w.writing, written |-> w.written, irq |-> FALSE, rx_buffers |-> w.rx_buffers,
           rx_buffer_head |-> h, rx_buffer_tail |-> t]
  BY DEF PortT
<1>4. [w.rx_buffers EXCEPT ![h].data = 0] = b
  <2>1. w.rx_buffers \in [Buffer -> [data : Nat, len : {0, 1}]]
    BY DEF PortT, Slots
  <2>. QED
    BY <1>1, <2>1
<1>5. s = [r EXCEPT !.rx_buffers = [r.rx_buffers EXCEPT ![h].data = 0]]
  BY <1>3 DEF WithoutData
<1>6. s = WithHead(r, b, h)
  BY <1>3, <1>4, <1>5 DEF WithHead
<1>9. /\ r \in PortT /\ r.writing = w.writing /\ r.written = w.written /\ r.irq = FALSE
      /\ r.rx_buffers = w.rx_buffers /\ r.rx_buffer_head = h /\ r.rx_buffer_tail = t
  BY <1>3, Acknowledged
<1>. HIDE DEF h, t, b
<1>7. s = [writing |-> w.writing, written |-> w.written, irq |-> FALSE, rx_buffers |-> b,
           rx_buffer_head |-> h, rx_buffer_tail |-> t]
  <2>1. WithHead(r, b, h)
          = [writing |-> r.writing, written |-> r.written, irq |-> r.irq, rx_buffers |-> b,
             rx_buffer_head |-> h, rx_buffer_tail |-> r.rx_buffer_tail]
    <3>1. r \in PortT
      BY <1>9
    <3>. QED
      BY <3>1, HeadReplaced
  <2>. QED
    BY <1>6, <1>9, <2>1, Zenon
<1>8. Changes(w, s, b, h, t)
  BY <1>1, <1>2, <1>7, NewRing
<1>. QED
  BY <1>8 DEF b, h, t

WithoutTail(r) ==
  [r EXCEPT !.rx_buffer_tail = Following(r.rx_buffer_tail), !.rx_buffers[r.rx_buffer_tail].len = 0]

LEMMA FetchedChanges ==
  ASSUME NEW w \in PortT, NEW s, s = WithoutTail(w)
  PROVE  LET t == w.rx_buffer_tail
         IN Changes(w, s, [w.rx_buffers EXCEPT ![t] = [data |-> w.rx_buffers[t].data, len |-> 0]],
                    w.rx_buffer_head, Following(t))
<1> DEFINE h == w.rx_buffer_head  t == w.rx_buffer_tail  f == Following(t)
           b == [w.rx_buffers EXCEPT ![t] = [data |-> w.rx_buffers[t].data, len |-> 0]]
<1>1. h \in Buffer /\ t \in Buffer /\ f \in Buffer
  BY Followings DEF PortT
<1>2. b \in Slots
  BY <1>1 DEF PortT, Slots
<1>3. w = [writing |-> w.writing, written |-> w.written, irq |-> w.irq, rx_buffers |-> w.rx_buffers,
           rx_buffer_head |-> h, rx_buffer_tail |-> t]
  BY DEF PortT
<1>4. [w.rx_buffers EXCEPT ![t].len = 0] = b
  <2>1. w.rx_buffers \in [Buffer -> [data : Nat, len : {0, 1}]]
    BY DEF PortT, Slots
  <2>. QED
    BY <1>1, <2>1
<1>5. s = [w EXCEPT !.rx_buffer_tail = f, !.rx_buffers = [w.rx_buffers EXCEPT ![t].len = 0]]
  BY DEF WithoutTail
<1>6. s = WithTail(w, b, f)
  BY <1>4, <1>5 DEF WithTail
<1>. HIDE DEF h, t, b, f
<1>7. s = [writing |-> w.writing, written |-> w.written, irq |-> w.irq, rx_buffers |-> b,
           rx_buffer_head |-> h, rx_buffer_tail |-> f]
  BY <1>3, <1>6, TailReplaced
<1>8. w.irq \in BOOLEAN
  BY DEF PortT
<1>9. Changes(w, s, b, h, f)
  BY <1>1, <1>2, <1>7, <1>8, NewRing
<1>. QED
  BY <1>9 DEF b, h, t, f

-----------------------------------------------------------------------------
(***************************************************************************)
(* What the game gets.                                                     *)
(***************************************************************************)
LEMMA KeptFacts ==
  ASSUME NEW r \in PortT
  PROVE  \/ Kept(r) = <<>> /\ Destroyed(r) = {}
         \/ \E x \in Nat : x # 0 /\ Kept(r) = <<x>> /\ Destroyed(r) = {x}
<1> DEFINE x == r.rx_buffers[r.rx_buffer_head].data
<1>1. x \in Nat
  BY DEF PortT, Slots
<1>2. CASE r.rx_buffers[r.rx_buffer_head].len # 0 /\ x # 0
  BY <1>1, <1>2 DEF Kept, Destroyed
<1>3. CASE ~(r.rx_buffers[r.rx_buffer_head].len # 0 /\ x # 0)
  BY <1>3 DEF Kept, Destroyed
<1>. QED
  BY <1>2, <1>3

LEMMA WithKept ==
  ASSUME NEW a \in Seq(Nat), NEW r \in PortT
  PROVE  /\ ToSet(a \o Kept(r)) = ToSet(a) \cup Destroyed(r)
         /\ Increasing(a \o Kept(r)) <=> Increasing(a) /\ \A y \in ToSet(a) : \A x \in Destroyed(r) : y < x
<1>1. CASE Kept(r) = <<>> /\ Destroyed(r) = {}
  <2>1. a \o <<>> = a
    BY ConcatEmptySeq
  <2>. QED
    BY <1>1, <2>1
<1>2. CASE \E x \in Nat : x # 0 /\ Kept(r) = <<x>> /\ Destroyed(r) = {x}
  <2>1. PICK x \in Nat : Kept(r) = <<x>> /\ Destroyed(r) = {x}
    BY <1>2
  <2>2. ToSet(a \o <<x>>) = ToSet(a) \cup {x}
    BY LastAddedSet
  <2>3. Increasing(a \o <<x>>) <=> Increasing(a) /\ \A y \in ToSet(a) : y < x
    BY LastAddedGrows
  <2>4. a \o Kept(r) = a \o <<x>>
    BY <2>1, Zenon
  <2> DEFINE b == a \o <<x>>
  <2>. HIDE DEF b
  <2>5. /\ a \o Kept(r) = b /\ ToSet(b) = ToSet(a) \cup {x}
        /\ Increasing(b) <=> Increasing(a) /\ \A y \in ToSet(a) : y < x
    BY <2>2, <2>3, <2>4 DEF b
  <2>. QED
    BY <2>1, <2>5
<1>. QED
  <2>1. \/ Kept(r) = <<>> /\ Destroyed(r) = {}
        \/ \E x \in Nat : x # 0 /\ Kept(r) = <<x>> /\ Destroyed(r) = {x}
    BY KeptFacts
  <2>. QED
    BY <1>1, <1>2, <2>1, Zenon

\* A packet received goes behind what the game will get without the one it destroys.
LEMMA GameReceives ==
  ASSUME NEW r \in PortT, NEW s \in PortT, NEW t \in Seq(Nat), NEW pkt \in Nat,
         \/ Waiting(s) = Waiting(r) /\ Kept(s) = <<pkt>>
         \/ Waiting(s) = Waiting(r) \o <<pkt>> /\ Kept(s) = <<>>
  PROVE  t \o Waiting(s) \o Kept(s) = (t \o Waiting(r)) \o <<pkt>>
<1> DEFINE w == Waiting(r)  u == Waiting(s)  one == <<pkt>>
<1>1. w \in Seq(Nat) /\ one \in Seq(Nat)
  BY WaitingFacts
<1>2. CASE u = w /\ Kept(s) = one
  BY <1>2
<1>3. CASE u = w \o one /\ Kept(s) = <<>>
  <2>. HIDE DEF w, u, one
  <2>1. (t \o w) \o one = t \o (w \o one)
    <3>1. /\ t \in Seq(Nat) /\ w \in Seq(Nat) /\ one \in Seq(Nat)
      BY <1>1
    <3>. QED
      BY <3>1, ConcatAssociative, Z3T(30)
  <2>2. (t \o w) \o one \in Seq(Nat)
    BY <1>1, ConcatProperties
  <2>3. ((t \o w) \o one) \o <<>> = (t \o w) \o one
    BY <2>2, ConcatEmptySeq
  <2>. QED
    BY <1>3, <2>1, <2>3 DEF u, w, one
<1>. QED
  BY <1>2, <1>3

LEMMA GameFetches ==
  ASSUME NEW t \in Seq(Nat), NEW x \in Nat, NEW u \in Seq(Nat)
  PROVE  Append(t, x) \o u = t \o (<<x>> \o u)
<1> DEFINE one == <<x>>
<1>1. one \in Seq(Nat) /\ Append(t, x) = t \o one
  BY AppendIsConcat
<1>. HIDE DEF one
<1>2. (t \o one) \o u = t \o (one \o u)
  BY <1>1, ConcatAssociative, Z3T(30)
<1>. QED
  BY <1>1, <1>2 DEF one

\* What the game of p gets without the packet in the head's buffer.
LEMMA Behind ==
  ASSUME ParTypes, NEW p \in Player, GameOK(p), NEW a, a = taken[p] \o Waiting(port[p])
  PROVE  /\ a \in Seq(Nat) /\ Increasing(a) /\ taken[p] \in Seq(Nat) /\ port[p] \in PortT
         /\ ToSet(a) = (ToSet(received[p]) \ overwritten[p]) \ Destroyed(port[p])
         /\ Destroyed(port[p]) \subseteq ToSet(received[p]) \ overwritten[p]
<1>1. taken[p] \in Seq(Nat) /\ port[p] \in PortT
  BY DEF ParTypes
<1>2. a \in Seq(Nat)
  <2> DEFINE w == Waiting(port[p])  t == taken[p]
  <2>1. w \in Seq(Nat) /\ t \in Seq(Nat) /\ a = t \o w
    BY <1>1, WaitingFacts
  <2>. HIDE DEF w, t
  <2>. QED
    BY <2>1, ConcatProperties
<1>3. Game(p) = a \o Kept(port[p])
  BY DEF Game
<1>4. ToSet(a) \cup Destroyed(port[p]) = ToSet(received[p]) \ overwritten[p]
      /\ Increasing(a) /\ \A y \in ToSet(a) : \A x \in Destroyed(port[p]) : y < x
  <2>1. /\ ToSet(a \o Kept(port[p])) = ToSet(a) \cup Destroyed(port[p])
        /\ Increasing(a \o Kept(port[p]))
             <=> Increasing(a) /\ \A y \in ToSet(a) : \A x \in Destroyed(port[p]) : y < x
    BY <1>1, <1>2, WithKept
  <2>2. ToSet(a \o Kept(port[p])) = ToSet(received[p]) \ overwritten[p] /\ Increasing(a \o Kept(port[p]))
    BY <1>3 DEF GameOK
  <2>. QED
    BY <2>1, <2>2
<1>5. \A x \in Destroyed(port[p]) : x \notin ToSet(a)
  <2>1. Destroyed(port[p]) \subseteq Nat
    BY <1>1 DEF Destroyed, PortT, Slots
  <2>2. \A x \in Nat : ~(x < x)
    OBVIOUS
  <2>. QED
    BY <1>4, <2>1, <2>2
<1>. QED
  BY <1>1, <1>2, <1>4, <1>5

\* A player whose ring does not change.
LEMMA SameGame ==
  ASSUME ParTypes, NEW p \in Player, Clean(port[p]), GameOK(p), SameRing(port[p], port'[p]),
         received'[p] = received[p], overwritten'[p] = overwritten[p], taken'[p] = taken[p]
  PROVE  Clean(port'[p]) /\ GameOK(p)'
<1>1. Waiting(port'[p]) = Waiting(port[p]) /\ Kept(port'[p]) = Kept(port[p]) /\ Clean(port'[p])
  <2>1. port[p] \in PortT
    BY DEF ParTypes
  <2>. QED
    BY <2>1, SameRingFacts
<1>2. Game(p)' = Game(p)
  BY <1>1 DEF Game
<1>. QED
  BY <1>1, <1>2 DEF GameOK

\* Steps that change no ring and end transfers, if anything.
LEMMA QuietKeeps ==
  ASSUME ParOK, port' \in [Player -> PortT], failures' \in 0 .. MaxFailures,
         \A x \in Player : /\ SameRing(port[x], port'[x]) /\ port'[x].written = port[x].written
                           /\ port'[x].writing \in {0, port[x].writing},
         UNCHANGED <<received, overwritten, taken>>
  PROVE  ParOK'
<1>1. ParTypes'
  BY DEF ParOK, ParTypes
<1>2. ASSUME NEW x \in Player PROVE Clean(port'[x]) /\ ReceivedOK(x)' /\ GameOK(x)'
  <2>1. Clean(port'[x]) /\ GameOK(x)'
    BY SameGame DEF ParOK
  <2>2. Other(x) \in Player
    BY Players
  <2>3. ReceivedOK(x)'
    BY <2>2 DEF ParOK, ReceivedOK
  <2>. QED
    BY <2>1, <2>3
<1>. QED
  BY <1>1, <1>2 DEF ParOK

LEMMA WriteKeeps ==
  ASSUME ParOK, NEW p \in Player, WritePacket(p)
  PROVE  ParOK'
<1> DEFINE q == Other(p)
<1>1. /\ q \in Player /\ q # p /\ Other(q) = p /\ \A x \in Player : x = p \/ x = q
  BY DEF Player, Other
<1>2. /\ port[p].writing = 0 /\ port' \in [Player -> PortT]
      /\ SameRing(port[p], port'[p]) /\ SameRing(port[q], port'[q])
      /\ port'[p].written = port[p].written + 1 /\ port'[p].writing = port[p].written + 1
      /\ port'[q].written = port[q].written /\ port'[q].writing = port[q].writing
  BY WriteChanges DEF ParOK
<1>3. UNCHANGED <<received, overwritten, taken, failures>>
  BY DEF WritePacket
<1>4. ParTypes'
  BY <1>2, <1>3 DEF ParOK, ParTypes
<1>5. ASSUME NEW x \in Player PROVE Clean(port'[x]) /\ GameOK(x)'
  <2>1. SameRing(port[x], port'[x])
    BY <1>1, <1>2
  <2>. QED
    BY <1>3, <2>1, SameGame DEF ParOK
<1>6. ReceivedOK(p)'
  BY <1>1, <1>2, <1>3 DEF ParOK, ReceivedOK
<1>7. ReceivedOK(q)'
  <2>1. port[p].written \in Nat
    BY DEF ParOK, ParTypes, PortT
  <2>2. ReceivedOK(q)
    BY <1>1 DEF ParOK
  <2>3. \A x \in ToSet(received[q]) : x \in 1 .. port[p].written
    BY <1>1, <2>2 DEF ReceivedOK
  <2>4. \A x \in ToSet(received'[q]) : x \in 1 .. port'[p].written /\ x < port'[p].writing
    BY <1>2, <1>3, <2>1, <2>3
  <2>5. port'[q].writing \in {0, port'[q].written} /\ overwritten'[q] \subseteq ToSet(received'[q])
    BY <1>2, <1>3, <2>2 DEF ReceivedOK
  <2>. QED
    BY <1>1, <2>4, <2>5 DEF ReceivedOK
<1>. QED
  BY <1>1, <1>4, <1>5, <1>6, <1>7 DEF ParOK

LEMMA TimeoutKeeps ==
  ASSUME ParOK, NEW p \in Player, WriteTimeout(p)
  PROVE  ParOK'
<1> DEFINE q == Other(p)
<1>1. /\ q \in Player /\ q # p /\ \A x \in Player : x = p \/ x = q
  BY DEF Player, Other
<1>2. /\ port' \in [Player -> PortT] /\ SameRing(port[p], port'[p]) /\ port'[q] = port[q]
      /\ port'[p].written = port[p].written /\ port'[p].writing = 0
  BY TimeoutChanges DEF ParOK
<1>3. UNCHANGED <<received, overwritten, taken, failures>> /\ failures \in 0 .. MaxFailures
  BY DEF WriteTimeout, ParOK, ParTypes
<1>4. SameRing(port[q], port'[q])
  BY <1>1, <1>2 DEF SameRing, ParOK, ParTypes
<1>. QED
  BY <1>1, <1>2, <1>3, <1>4, QuietKeeps

LEMMA SpuriousKeeps ==
  ASSUME ParOK, NEW p \in Player, SpuriousISR(p)
  PROVE  ParOK'
<1> DEFINE q == Other(p)
<1>1. /\ q \in Player /\ q # p /\ \A x \in Player : x = p \/ x = q
  BY DEF Player, Other
<1>2. /\ port' \in [Player -> PortT] /\ SameRing(port[p], port'[p]) /\ port'[q] = port[q]
      /\ port'[p].written = port[p].written /\ port'[p].writing = port[p].writing
  BY SpuriousChanges DEF ParOK
<1>3. UNCHANGED <<received, overwritten, taken, failures>> /\ failures \in 0 .. MaxFailures
  BY DEF SpuriousISR, ParOK, ParTypes
<1>4. SameRing(port[q], port'[q])
  BY <1>1, <1>2 DEF SameRing, ParOK, ParTypes
<1>. QED
  BY <1>1, <1>2, <1>3, <1>4, QuietKeeps

\* An interrupt handler puts its new state into the driver, and ends the other's transfer.
LEMMA HandlerChanges ==
  ASSUME ParTypes, NEW p \in Player, NEW s \in PortT,
         port' = [port EXCEPT ![p] = s, ![Other(p)].writing = 0]
  PROVE  LET q == Other(p)
         IN /\ port' \in [Player -> PortT] /\ port'[p] = s /\ SameRing(port[q], port'[q])
            /\ port'[q].written = port[q].written /\ port'[q].writing = 0
<1> DEFINE q == Other(p)  b == [port[q] EXCEPT !.writing = 0]
<1>1. q \in Player /\ q # p /\ port[q] \in PortT
  BY Players DEF ParTypes
<1>2. SameRing(port[q], b) /\ b.written = port[q].written /\ b.writing = 0
  BY <1>1, Ended
<1>3. port' = [port EXCEPT ![p] = s, ![q] = b]
  BY <1>1 DEF ParTypes
<1>4. b \in PortT
  BY <1>1 DEF PortT
<1>. HIDE DEF b, q
<1>5. port' \in [Player -> PortT] /\ port'[p] = s /\ port'[q] = b
  BY <1>1, <1>3, <1>4 DEF ParTypes
<1>. QED
  BY <1>2, <1>5 DEF q

\* The other side's invariant, when its transfer ends.
LEMMA OtherKeeps ==
  ASSUME ParOK, NEW q \in Player, port' \in [Player -> PortT], SameRing(port[q], port'[q]),
         port'[q].written = port[q].written, port'[q].writing = 0,
         port'[Other(q)].written = port[Other(q)].written, port'[Other(q)].writing = port[Other(q)].writing,
         received'[q] = received[q], overwritten'[q] = overwritten[q], taken'[q] = taken[q]
  PROVE  Clean(port'[q]) /\ ReceivedOK(q)' /\ GameOK(q)'
<1>1. Clean(port'[q]) /\ GameOK(q)'
  BY SameGame DEF ParOK
<1>2. ReceivedOK(q)'
  BY DEF ParOK, ReceivedOK
<1>. QED
  BY <1>1, <1>2

LEMMA ReceiveKeeps ==
  ASSUME ParOK, NEW p \in Player, ReceiveISR(p)
  PROVE  ParOK'
<1> DEFINE q == Other(p)  w == port[p]  r == [w EXCEPT !.irq = FALSE]  pkt == port[q].writing
           s == PacketReceived(r, pkt)  h == w.rx_buffer_head
<1>1. /\ q \in Player /\ q # p /\ Other(q) = p /\ \A x \in Player : x = p \/ x = q
  BY DEF Player, Other
<1>2. /\ ParTypes /\ w \in PortT /\ pkt \in Nat /\ pkt # 0 /\ Clean(w) /\ GameOK(p) /\ ReceivedOK(p)
      /\ port' = [port EXCEPT ![p] = s, ![Other(p)].writing = 0]
      /\ received' = [received EXCEPT ![p] = Append(received[p], pkt)]
      /\ overwritten' = [overwritten EXCEPT ![p] = overwritten[p] \cup Destroyed(r)]
      /\ UNCHANGED <<taken, failures>>
  BY <1>1 DEF ReceiveISR, ParOK, ParTypes, PortT
<1>3. Destroyed(r) = Destroyed(w)
  BY <1>2 DEF Destroyed, PortT
<1>. HIDE DEF r, s
<1>4. Changes(w, s, [w.rx_buffers EXCEPT ![h] = [data |-> pkt, len |-> 1]],
              IF Following(h) # w.rx_buffer_tail THEN Following(h) ELSE h, w.rx_buffer_tail)
  BY <1>2, ReceivedChanges DEF r, s
<1>. HIDE DEF w, pkt, q
<1>5. /\ Clean(s) /\ s \in PortT /\ s.writing = w.writing /\ s.written = w.written
      /\ \/ Waiting(s) = Waiting(w) /\ Kept(s) = <<pkt>>
         \/ Waiting(s) = Waiting(w) \o <<pkt>> /\ Kept(s) = <<>>
  <2>1. s \in PortT /\ s.writing = w.writing /\ s.written = w.written
    BY <1>4 DEF Changes
  <2>. QED
    BY <1>2, <1>4, <2>1, Stored
<1>6. /\ port' \in [Player -> PortT] /\ port'[p] = s /\ SameRing(port[q], port'[q])
      /\ port'[q].written = port[q].written /\ port'[q].writing = 0
  BY <1>2, <1>5, HandlerChanges DEF q
<1>7. /\ received'[p] = Append(received[p], pkt) /\ received'[q] = received[q]
      /\ overwritten'[p] = overwritten[p] \cup Destroyed(w) /\ overwritten'[q] = overwritten[q]
      /\ taken' = taken /\ failures' = failures
  BY <1>1, <1>2, <1>3 DEF ParTypes
<1>8. received[p] \in Seq(Nat) /\ taken[p] \in Seq(Nat) /\ port[p] \in PortT /\ overwritten[p] \subseteq Nat
  BY <1>2 DEF ParTypes
<1>9. Append(received[p], pkt) \in Seq(Nat) /\ ToSet(Append(received[p], pkt)) = ToSet(received[p]) \cup {pkt}
  <2>1. Append(received[p], pkt) = received[p] \o <<pkt>> /\ received[p] \o <<pkt>> \in Seq(Nat)
    BY <1>2, <1>8, LastAdded
  <2>2. ToSet(received[p] \o <<pkt>>) = ToSet(received[p]) \cup {pkt}
    BY <1>2, <1>8, LastAddedSet
  <2>. QED
    BY <2>1, <2>2
<1>10. \A x \in ToSet(received[p]) : x < pkt /\ x # pkt
  <2>1. \A x \in ToSet(received[p]) : x \in 1 .. port[q].written /\ x < pkt
    BY <1>2 DEF ReceivedOK, q, pkt
  <2>. QED
    BY <1>2, <2>1
<1> DEFINE a == taken[p] \o Waiting(port[p])
<1>11. /\ a \in Seq(Nat) /\ Increasing(a)
       /\ ToSet(a) = (ToSet(received[p]) \ overwritten[p]) \ Destroyed(w)
       /\ Destroyed(w) \subseteq ToSet(received[p]) \ overwritten[p]
  BY <1>2, Behind DEF w
<1>12. Game(p)' = a \o <<pkt>>
  <2>1. taken[p] \o Waiting(s) \o Kept(s) = (taken[p] \o Waiting(w)) \o <<pkt>>
    BY <1>2, <1>5, <1>8, GameReceives
  <2>2. Game(p)' = taken[p] \o Waiting(s) \o Kept(s)
    BY <1>6, <1>7 DEF Game
  <2>. QED
    BY <2>1, <2>2 DEF w
<1>. HIDE DEF a
<1>13. GameOK(p)'
  <2>1. ToSet(a \o <<pkt>>) = ToSet(a) \cup {pkt}
    BY <1>2, <1>11, LastAddedSet
  <2>2. Increasing(a \o <<pkt>>) <=> Increasing(a) /\ \A y \in ToSet(a) : y < pkt
    BY <1>2, <1>11, LastAddedGrows
  <2>3. Increasing(a \o <<pkt>>)
    BY <1>10, <1>11, <2>2
  <2>4. overwritten[p] \subseteq ToSet(received[p])
    BY <1>2 DEF ReceivedOK
  <2>5. ToSet(a) \cup {pkt} = (ToSet(received[p]) \cup {pkt}) \ (overwritten[p] \cup Destroyed(w))
    BY <1>10, <1>11, <2>4
  <2> DEFINE g == a \o <<pkt>>
  <2>. HIDE DEF g
  <2>6. /\ Game(p)' = g /\ Increasing(g)
        /\ ToSet(g) = ToSet(received'[p]) \ overwritten'[p]
    BY <1>7, <1>9, <1>12, <2>1, <2>3, <2>5 DEF g
  <2>. QED
    BY <2>6 DEF GameOK
<1>14. ReceivedOK(p)'
  <2>1. /\ port[p].writing \in {0, port[p].written} /\ port[q].writing \in {0, port[q].written}
        /\ overwritten[p] \subseteq ToSet(received[p])
        /\ \A x \in ToSet(received[p]) : x \in 1 .. port[q].written
    BY <1>1 DEF ParOK, ReceivedOK, q
  <2>2. pkt \in 1 .. port[q].written
    <3>1. port[q].written \in Nat
      BY <1>1, <1>2 DEF ParTypes, PortT
    <3>. QED
      BY <1>2, <2>1, <3>1 DEF pkt
  <2>3. port'[p].writing \in {0, port'[p].written}
    BY <1>5, <1>6, <2>1 DEF w
  <2>4. \A x \in ToSet(received'[p]) : x \in 1 .. port'[q].written
    BY <1>6, <1>7, <1>9, <2>1, <2>2
  <2>5. overwritten'[p] \subseteq ToSet(received'[p])
    BY <1>7, <1>9, <1>11, <2>1
  <2>. QED
    BY <1>6, <2>3, <2>4, <2>5 DEF ReceivedOK, q
<1>15. Clean(port'[q]) /\ ReceivedOK(q)' /\ GameOK(q)'
  <2>1. port'[p].written = port[p].written /\ port'[p].writing = port[p].writing
    BY <1>5, <1>6 DEF w
  <2>. QED
    BY <1>1, <1>6, <1>7, <2>1, OtherKeeps
<1>16. ParTypes'
  <2>1. received' \in [Player -> Seq(Nat)]
    BY <1>2, <1>9 DEF ParTypes
  <2>2. overwritten[p] \cup Destroyed(w) \subseteq Nat
    <3>1. Destroyed(w) \subseteq Nat
      BY <1>2 DEF Destroyed, PortT, Slots
    <3>. QED
      BY <1>8, <3>1
  <2>3. overwritten' \in [Player -> SUBSET Nat]
    BY <1>2, <1>3, <2>2 DEF ParTypes
  <2>. QED
    BY <1>2, <1>6, <1>7, <2>1, <2>3 DEF ParTypes
<1>. QED
  BY <1>1, <1>5, <1>6, <1>13, <1>14, <1>15, <1>16 DEF ParOK

LEMMA FailKeeps ==
  ASSUME ParOK, NEW p \in Player, FailingISR(p)
  PROVE  ParOK'
<1> DEFINE q == Other(p)  w == port[p]  r == [w EXCEPT !.irq = FALSE]
           s == WithoutData(r)  h == w.rx_buffer_head
<1>1. /\ q \in Player /\ q # p /\ Other(q) = p /\ \A x \in Player : x = p \/ x = q
  BY DEF Player, Other
<1>2. /\ ParTypes /\ w \in PortT /\ Clean(w) /\ GameOK(p) /\ ReceivedOK(p)
      /\ port' = [port EXCEPT ![p] = s, ![Other(p)].writing = 0]
      /\ overwritten' = [overwritten EXCEPT ![p] = overwritten[p] \cup Destroyed(r)]
      /\ UNCHANGED <<received, taken>> /\ failures' = failures + 1 /\ failures < MaxFailures
  BY <1>1 DEF FailingISR, ParOK, ParTypes, WithoutData
<1>3. Destroyed(r) = Destroyed(w)
  BY <1>2 DEF Destroyed, PortT
<1>. HIDE DEF r, s
<1>4. Changes(w, s, [w.rx_buffers EXCEPT ![h] = [data |-> 0, len |-> w.rx_buffers[h].len]], h, w.rx_buffer_tail)
  BY <1>2, FailedChanges DEF r, s
<1>. HIDE DEF w, q
<1>5. /\ Clean(s) /\ s \in PortT /\ s.writing = w.writing /\ s.written = w.written
      /\ Waiting(s) = Waiting(w) /\ Kept(s) = <<>>
  <2>1. s \in PortT /\ s.writing = w.writing /\ s.written = w.written
    BY <1>4 DEF Changes
  <2>. QED
    BY <1>2, <1>4, <2>1, Failed
<1>6. /\ port' \in [Player -> PortT] /\ port'[p] = s /\ SameRing(port[q], port'[q])
      /\ port'[q].written = port[q].written /\ port'[q].writing = 0
  BY <1>2, <1>5, HandlerChanges DEF q
<1>7. /\ received' = received /\ taken' = taken
      /\ overwritten'[p] = overwritten[p] \cup Destroyed(w) /\ overwritten'[q] = overwritten[q]
  BY <1>1, <1>2, <1>3 DEF ParTypes
<1> DEFINE a == taken[p] \o Waiting(port[p])
<1>8. /\ a \in Seq(Nat) /\ Increasing(a) /\ taken[p] \in Seq(Nat)
      /\ ToSet(a) = (ToSet(received[p]) \ overwritten[p]) \ Destroyed(w)
      /\ Destroyed(w) \subseteq ToSet(received[p]) \ overwritten[p]
  BY <1>2, Behind DEF w
<1>9. Game(p)' = a
  <2>1. a \o <<>> = a
    <3>. HIDE DEF a
    <3>. QED
      BY <1>8, ConcatEmptySeq
  <2>2. Game(p)' = taken[p] \o Waiting(s) \o Kept(s)
    BY <1>6, <1>7 DEF Game
  <2>. QED
    BY <1>5, <2>1, <2>2 DEF w
<1>. HIDE DEF a
<1>10. GameOK(p)'
  <2>1. ToSet(a) = ToSet(received'[p]) \ overwritten'[p]
    BY <1>7, <1>8
  <2>. QED
    BY <1>8, <1>9, <2>1 DEF GameOK
<1>11. ReceivedOK(p)'
  <2>1. port'[p].writing \in {0, port'[p].written}
    BY <1>2, <1>5, <1>6 DEF w, ReceivedOK
  <2>2. \A x \in ToSet(received'[p]) : x \in 1 .. port'[q].written
    BY <1>2, <1>6, <1>7 DEF ReceivedOK, q
  <2>3. overwritten'[p] \subseteq ToSet(received'[p])
    BY <1>2, <1>7, <1>8 DEF ReceivedOK
  <2>. QED
    BY <1>6, <2>1, <2>2, <2>3 DEF ReceivedOK, q
<1>12. Clean(port'[q]) /\ ReceivedOK(q)' /\ GameOK(q)'
  <2>1. port'[p].written = port[p].written /\ port'[p].writing = port[p].writing
    BY <1>5, <1>6 DEF w
  <2>. QED
    BY <1>1, <1>6, <1>7, <2>1, OtherKeeps
<1>13. ParTypes'
  <2>1. overwritten[p] \cup Destroyed(w) \subseteq Nat
    BY <1>2 DEF Destroyed, PortT, Slots, ParTypes
  <2>2. overwritten' \in [Player -> SUBSET Nat]
    BY <1>2, <1>3, <2>1 DEF ParTypes
  <2>3. failures' \in 0 .. MaxFailures
    BY <1>2, ParAssumption DEF ParTypes
  <2>. QED
    BY <1>2, <1>6, <1>7, <2>2, <2>3 DEF ParTypes
<1>. QED
  BY <1>1, <1>5, <1>6, <1>10, <1>11, <1>12, <1>13 DEF ParOK

LEMMA FetchKeeps ==
  ASSUME ParOK, NEW p \in Player, NextPacket(p)
  PROVE  ParOK'
<1> DEFINE q == Other(p)  w == port[p]  t == w.rx_buffer_tail  x == w.rx_buffers[t].data
           s == WithoutTail(w)
<1>1. /\ q \in Player /\ q # p /\ Other(q) = p /\ \A y \in Player : y = p \/ y = q
  BY DEF Player, Other
<1>2. /\ ParTypes /\ w \in PortT /\ Clean(w) /\ GameOK(p) /\ ReceivedOK(p) /\ w.rx_buffer_head # t
      /\ UNCHANGED <<received, overwritten, failures>>
      /\ taken' = [taken EXCEPT ![p] = Append(taken[p], x)]
  BY <1>1 DEF NextPacket, ParOK, ParTypes
<1>3. port' = [port EXCEPT ![p] = s]
  BY DEF NextPacket, WithoutTail
<1>. HIDE DEF s
<1>4. Changes(w, s, [w.rx_buffers EXCEPT ![t] = [data |-> w.rx_buffers[t].data, len |-> 0]],
              w.rx_buffer_head, Following(t))
  BY <1>2, FetchedChanges DEF s
<1>. HIDE DEF w, t, x
<1>5. s \in PortT /\ s.writing = w.writing /\ s.written = w.written
  BY <1>4 DEF Changes
<1>6. Clean(s) /\ Kept(s) = Kept(w) /\ x \in Nat /\ Waiting(w) = <<x>> \o Waiting(s)
  BY <1>2, <1>4, <1>5, Fetched DEF t, x
<1>7. /\ port' \in [Player -> PortT] /\ port'[p] = s /\ port'[q] = port[q]
      /\ taken'[p] = Append(taken[p], x) /\ taken'[q] = taken[q]
      /\ taken[p] \in Seq(Nat)
  BY <1>1, <1>2, <1>3, <1>5 DEF ParTypes
<1>8. taken' \in [Player -> Seq(Nat)]
  <2>1. Append(taken[p], x) \in Seq(Nat)
    BY <1>6, <1>7
  <2>. QED
    BY <1>2, <2>1 DEF ParTypes
<1>9. Game(p)' = Game(p)
  <2>1. Waiting(w) \in Seq(Nat) /\ Waiting(s) \in Seq(Nat) /\ Kept(w) \in Seq(Nat)
    BY <1>2, <1>5, WaitingFacts
  <2> DEFINE before == taken[p] \o Waiting(w)  after == Append(taken[p], x) \o Waiting(s)
  <2>2. after = before
    <3>1. after = taken[p] \o (<<x>> \o Waiting(s))
      BY <1>6, <1>7, <2>1, GameFetches, Zenon
    <3>. HIDE DEF after
    <3>. QED
      BY <1>6, <3>1, Zenon
  <2>3. Game(p)' = after \o Kept(s) /\ Game(p) = before \o Kept(w)
    BY <1>7 DEF Game, w
  <2>. HIDE DEF before, after
  <2>. QED
    BY <1>6, <2>2, <2>3
<1>10. GameOK(p)'
  BY <1>2, <1>9 DEF GameOK
<1>11. ReceivedOK(p)'
  BY <1>2, <1>5, <1>7 DEF ReceivedOK, w, q
<1>12. Clean(port'[q]) /\ ReceivedOK(q)' /\ GameOK(q)'
  <2>1. SameRing(port[q], port'[q])
    BY <1>1, <1>2, <1>7 DEF SameRing, ParTypes
  <2>2. Clean(port'[q]) /\ GameOK(q)'
    BY <1>1, <1>2, <1>7, <2>1, SameGame DEF ParOK
  <2>3. ReceivedOK(q)'
    BY <1>1, <1>2, <1>5, <1>7 DEF ReceivedOK, ParOK, w
  <2>. QED
    BY <2>2, <2>3
<1>13. ParTypes'
  BY <1>2, <1>7, <1>8 DEF ParTypes
<1>. QED
  BY <1>1, <1>6, <1>7, <1>10, <1>11, <1>12, <1>13 DEF ParOK

-----------------------------------------------------------------------------
LEMMA ParStart == ParInit => ParOK
<1>. SUFFICES ASSUME ParInit PROVE ParOK
  OBVIOUS
<1> DEFINE b == [i \in Buffer |-> Empty]
           r == [writing |-> 0, written |-> 0, irq |-> FALSE, rx_buffers |-> b,
                 rx_buffer_head |-> 0, rx_buffer_tail |-> 0]
<1>1. b \in Slots /\ \A i \in Buffer : b[i].len = 0
  BY DEF Slots, Empty
<1>2. 0 \in Buffer
  BY SizeFacts
<1>3. port = [p \in Player |-> r]
  BY DEF ParInit
<1>. HIDE DEF b
<1>4. r \in PortT
  BY <1>1, <1>2 DEF PortT
<1>5. \A p \in Player : port[p] = r
  BY <1>3
<1>6. /\ r.writing = 0 /\ r.written = 0 /\ r.rx_buffers = b /\ r.rx_buffer_head = 0 /\ r.rx_buffer_tail = 0
  OBVIOUS
<1>. HIDE DEF r
<1>7. ParTypes
  <2>1. <<>> \in Seq(Nat)
    OBVIOUS
  <2>2. port \in [Player -> PortT]
    BY <1>3, <1>4
  <2>3. received \in [Player -> Seq(Nat)] /\ taken \in [Player -> Seq(Nat)]
    <3>1. received = [p \in Player |-> <<>>] /\ taken = [p \in Player |-> <<>>]
      BY DEF ParInit
    <3> DEFINE e == <<>>
    <3>. HIDE DEF e
    <3>2. e \in Seq(Nat) /\ received = [p \in Player |-> e] /\ taken = [p \in Player |-> e]
      BY <2>1, <3>1 DEF e
    <3>. QED
      BY <3>2
  <2>4. overwritten \in [Player -> SUBSET Nat] /\ failures \in 0 .. MaxFailures
    BY ParAssumption DEF ParInit
  <2>. QED
    BY <2>2, <2>3, <2>4 DEF ParTypes
<1>8. Clean(r)
  BY <1>1, <1>6 DEF Clean
<1>9. Kept(r) = <<>>
  BY <1>1, <1>2, <1>6 DEF Kept
<1>10. Waiting(r) = <<>>
  <2>1. Pending(r) = 0
    <3>1. Distance(r, 0) = 0
      BY <1>2, <1>4, <1>6, Distances
    <3>. QED
      BY <1>6, <3>1 DEF Pending
  <2>2. Waiting(r) \in Seq(Nat) /\ Len(Waiting(r)) = 0
    BY <1>4, <2>1, WaitingFacts
  <2>. QED
    BY <2>2, EmptySeq
<1>11. ASSUME NEW p \in Player PROVE ReceivedOK(p) /\ GameOK(p)
  <2>1. received[p] = <<>> /\ overwritten[p] = {} /\ taken[p] = <<>> /\ ToSet(<<>>) = {}
    BY DEF ParInit, ToSet
  <2>2. ReceivedOK(p)
    BY <1>5, <1>6, <2>1 DEF ReceivedOK
  <2>3. Game(p) = <<>>
    <3>1. <<>> \o <<>> = <<>>
      BY ConcatEmptySeq
    <3>. QED
      BY <1>5, <1>9, <1>10, <2>1, <3>1 DEF Game
  <2>4. Increasing(<<>>)
    BY DEF Increasing
  <2>. QED
    BY <2>1, <2>2, <2>3, <2>4 DEF GameOK
<1>. QED
  BY <1>5, <1>7, <1>8, <1>11 DEF ParOK

LEMMA ParStep ==
  ASSUME ParOK, ParNext \/ UNCHANGED parVars
  PROVE  ParOK'
<1>1. CASE UNCHANGED parVars
  <2>1. ParTypes'
    BY <1>1 DEF ParOK, ParTypes, parVars
  <2>2. ASSUME NEW p \in Player PROVE Clean(port'[p]) /\ ReceivedOK(p)' /\ GameOK(p)'
    BY <1>1 DEF ParOK, parVars, ReceivedOK, GameOK, Game
  <2>. QED
    BY <2>1, <2>2 DEF ParOK
<1>2. ASSUME NEW p \in Player,
             \/ WritePacket(p) \/ WriteTimeout(p) \/ NextPacket(p)
             \/ SpuriousISR(p) \/ ReceiveISR(p) \/ FailingISR(p)
      PROVE  ParOK'
  BY <1>2, WriteKeeps, TimeoutKeeps, FetchKeeps, SpuriousKeeps, ReceiveKeeps, FailKeeps
<1>. QED
  BY <1>1, <1>2 DEF ParNext

LEMMA ParImplies == ParOK => ParTypeOK /\ OnlyLastOverwritten
<1>. SUFFICES ASSUME ParOK PROVE ParTypeOK /\ OnlyLastOverwritten
  OBVIOUS
<1>1. ParTypeOK
  BY DEF ParOK, ParTypes, ReceivedOK, ParTypeOK, PortT, Slots
<1>2. OnlyLastOverwritten
  BY DEF ParOK, GameOK, Game, Increasing, OnlyLastOverwritten
<1>. QED
  BY <1>1, <1>2

\* However the transfers interrupt the game, fail or come faster than it polls: the game gets
\* the packets that were not overwritten in the last buffer, in order and each once
\* (PacketReceived, NextPacket, ReceiveISR).
THEOREM OnlyLastOverwrittenHolds == DriverSpec => [](OnlyLastOverwritten /\ ParTypeOK)
<1>1. DriverInit => ParOK
  BY ParStart DEF DriverInit
<1>2. ParOK /\ [DriverNext]_driverVars => ParOK'
  <2>. SUFFICES ASSUME ParOK, [DriverNext]_driverVars PROVE ParOK'
    OBVIOUS
  <2>1. CASE ModemNext /\ Connecting
    BY <2>1, ParStep DEF Connecting
  <2>2. CASE Begin
    BY <2>2, ParStep DEF Begin
  <2>3. CASE LineNext /\ PlayingSerial
    BY <2>3, ParStep DEF PlayingSerial
  <2>4. CASE ParNext /\ PlayingParallel
    BY <2>4, ParStep
  <2>5. CASE UNCHANGED driverVars
    BY <2>5, ParStep DEF driverVars
  <2>. QED
    BY <2>1, <2>2, <2>3, <2>4, <2>5 DEF DriverNext
<1>. QED
  BY <1>1, <1>2, ParImplies, PTL DEF DriverSpec

-----------------------------------------------------------------------------
(***************************************************************************)
(* The serial line: what the reader makes of bytes.                        *)
(***************************************************************************)
ReadTo(r, bytes, k, f) ==
  f = [n \in 0 .. k |-> IF n = 0 THEN Begun(r) ELSE Iteration[f[n - 1]][bytes[n]]]

LEMMA ReadDef ==
  ASSUME NEW r, NEW bytes, Len(bytes) \in Nat
  PROVE  ReadTo(r, bytes, Len(bytes), Read(r, bytes))
<1> DEFINE S == {k \in 0 .. Len(bytes) : \E f : ReadTo(r, bytes, k, f)}
<1>1. 0 \in S
  <2> DEFINE f == [n \in 0 .. 0 |-> Begun(r)]
  <2>1. ReadTo(r, bytes, 0, f)
    BY DEF ReadTo
  <2>. QED
    BY <2>1
<1>2. ASSUME NEW k \in 1 .. Len(bytes), k - 1 \in S PROVE k \in S
  <2>1. PICK f : ReadTo(r, bytes, k - 1, f)
    BY <1>2
  <2> DEFINE g == [n \in 0 .. k |-> IF n = k THEN Iteration[f[k - 1]][bytes[k]] ELSE f[n]]
  <2>2. ASSUME NEW n \in 0 .. k PROVE g[n] = IF n = 0 THEN Begun(r) ELSE Iteration[g[n - 1]][bytes[n]]
    <3>1. CASE n = 0
      BY <2>1, <3>1 DEF ReadTo
    <3>2. CASE n \in 1 .. k - 1
      <4>1. n \in 0 .. k - 1 /\ n # k /\ n - 1 # k /\ n - 1 \in 0 .. k
        BY <3>2
      <4>2. f[n] = Iteration[f[n - 1]][bytes[n]]
        BY <2>1, <3>2, <4>1 DEF ReadTo
      <4>. QED
        BY <3>2, <4>1, <4>2, SMTT(30)
    <3>3. CASE n = k
      <4>1. k - 1 # k /\ k - 1 \in 0 .. k /\ k # 0
        OBVIOUS
      <4>. QED
        BY <3>3, <4>1, SMTT(30)
    <3>4. n = 0 \/ n \in 1 .. k - 1 \/ n = k
      OBVIOUS
    <3>. QED
      BY <3>1, <3>2, <3>3, <3>4, Zenon
  <2>3. ReadTo(r, bytes, k, g)
    BY <2>2 DEF ReadTo
  <2>. QED
    BY <2>3
<1>3. Len(bytes) \in S
  <2>1. Len(bytes) \in 0 .. Len(bytes)
    OBVIOUS
  <2>. HIDE DEF S
  <2>. QED
    BY <1>1, <1>2, <2>1, UpTo
<1>4. PICK f : ReadTo(r, bytes, Len(bytes), f)
  BY <1>3
<1>. QED
  BY <1>4 DEF Read, ReadTo

MadeTo(after, k, f) ==
  f = [n \in 0 .. k |-> IF n = 0 THEN <<>>
                        ELSE IF after[n].newpacket THEN Append(f[n - 1], after[n].packet) ELSE f[n - 1]]

LEMMA MadeDef ==
  ASSUME NEW r, NEW bytes, Len(bytes) \in Nat
  PROVE  MadeTo(Read(r, bytes), Len(bytes), Made(r, bytes))
<1> DEFINE after == Read(r, bytes)
           S == {k \in 0 .. Len(bytes) : \E f : MadeTo(after, k, f)}
<1>0. \A k, f : MadeTo(after, k, f) <=>
        f = [n \in 0 .. k |-> IF n = 0 THEN <<>>
                              ELSE IF after[n].newpacket THEN Append(f[n - 1], after[n].packet) ELSE f[n - 1]]
  BY DEF MadeTo
<1>6. Made(r, bytes) = CHOOSE f : f = [n \in 0 .. Len(bytes) |->
                              IF n = 0 THEN <<>>
                              ELSE IF after[n].newpacket THEN Append(f[n - 1], after[n].packet) ELSE f[n - 1]]
  BY DEF Made
<1>. HIDE DEF after
<1>1. 0 \in S
  <2> DEFINE f == [n \in 0 .. 0 |-> <<>>]
  <2>1. MadeTo(after, 0, f)
    BY DEF MadeTo
  <2>. QED
    BY <2>1
<1>2. ASSUME NEW k \in 1 .. Len(bytes), k - 1 \in S PROVE k \in S
  <2>1. PICK f : MadeTo(after, k - 1, f)
    BY <1>2
  <2> DEFINE new == IF after[k].newpacket THEN Append(f[k - 1], after[k].packet) ELSE f[k - 1]
             g == [n \in 0 .. k |-> IF n = k THEN new ELSE f[n]]
  <2>2. ASSUME NEW n \in 0 .. k
        PROVE  g[n] = IF n = 0 THEN <<>>
                      ELSE IF after[n].newpacket THEN Append(g[n - 1], after[n].packet) ELSE g[n - 1]
    <3>1. CASE n = 0
      BY <2>1, <3>1 DEF MadeTo
    <3>2. CASE n \in 1 .. k - 1
      <4>1. n \in 0 .. k - 1 /\ n # k /\ n - 1 # k /\ n - 1 \in 0 .. k /\ n # 0
        BY <3>2
      <4>2. f[n] = IF after[n].newpacket THEN Append(f[n - 1], after[n].packet) ELSE f[n - 1]
        BY <2>1, <4>1 DEF MadeTo
      <4>3. g[n] = f[n] /\ g[n - 1] = f[n - 1]
        BY <4>1
      <4>. QED
        BY <4>1, <4>2, <4>3
    <3>3. CASE n = k
      <4>1. k - 1 # k /\ k - 1 \in 0 .. k /\ k # 0
        OBVIOUS
      <4>. QED
        BY <3>3, <4>1
    <3>. QED
      BY <3>1, <3>2, <3>3
  <2>3. MadeTo(after, k, g)
    <3>. HIDE DEF new
    <3>. QED
      BY <2>2 DEF MadeTo
  <2>. QED
    BY <2>3
<1>3. Len(bytes) \in S
  <2>1. Len(bytes) \in 0 .. Len(bytes)
    OBVIOUS
  <2>. HIDE DEF S
  <2>. QED
    BY <1>1, <1>2, <2>1, UpTo
<1>4. PICK f : MadeTo(after, Len(bytes), f)
  BY <1>3
<1>. QED
  BY <1>4, <1>6 DEF after, MadeTo

Rec(pkt, esc, new) == [packet |-> pkt, inescape |-> esc, newpacket |-> new]

LEMMA ReaderIs ==
  ASSUME NEW r \in Reader
  PROVE  /\ r = Rec(r.packet, r.inescape, r.newpacket)
         /\ r.packet \in Seq(Bytes) /\ r.inescape \in BOOLEAN /\ r.newpacket \in BOOLEAN
         /\ Begun(r) = Rec(IF r.newpacket THEN <<>> ELSE r.packet, r.inescape, FALSE)
<1>1. /\ r.packet \in Seq(Bytes) /\ r.inescape \in BOOLEAN /\ r.newpacket \in BOOLEAN
      /\ r = [packet |-> r.packet, inescape |-> r.inescape, newpacket |-> r.newpacket]
  BY DEF Reader
<1>2. CASE r.newpacket = TRUE
  <2> DEFINE s == Begun(r)
  <2>1. s = [r EXCEPT !.packet = <<>>, !.newpacket = FALSE]
    BY <1>2 DEF Begun
  <2>. HIDE DEF s
  <2>2. s = [packet |-> <<>>, inescape |-> r.inescape, newpacket |-> FALSE]
    BY <2>1 DEF Reader
  <2>. QED
    BY <1>1, <1>2, <2>2 DEF Rec, s
<1>3. CASE r.newpacket = FALSE
  <2>1. Begun(r) = r
    BY <1>3 DEF Begun
  <2>. QED
    BY <1>1, <1>3, <2>1 DEF Rec
<1>. QED
  BY <1>1, <1>2, <1>3

LEMMA RecIs ==
  ASSUME NEW pkt \in Seq(Bytes), NEW esc \in BOOLEAN, NEW new \in BOOLEAN
  PROVE  LET s == Rec(pkt, esc, new)
         IN s \in Reader /\ s.packet = pkt /\ s.inescape = esc /\ s.newpacket = new
BY DEF Rec, Reader

LEMMA Begins ==
  ASSUME NEW r \in Reader, NEW s, s = Begun(r)
  PROVE  s \in Reader /\ s.newpacket = FALSE /\ Begun(s) = s /\ s.inescape = r.inescape
<1> DEFINE pkt == IF r.newpacket THEN <<>> ELSE r.packet  esc == r.inescape
<1>1. s = Rec(pkt, esc, FALSE) /\ r.packet \in Seq(Bytes) /\ esc \in BOOLEAN /\ r.newpacket \in BOOLEAN
  BY ReaderIs
<1>2. pkt \in Seq(Bytes)
  BY <1>1
<1>. HIDE DEF pkt, esc
<1>3. s \in Reader /\ s.newpacket = FALSE /\ s.inescape = esc
  <2> DEFINE t == Rec(pkt, esc, FALSE)
  <2>1. t \in Reader /\ t.inescape = esc /\ t.newpacket = FALSE
    BY <1>1, <1>2, RecIs
  <2>. HIDE DEF t
  <2>2. s = t
    BY <1>1 DEF t
  <2>. QED
    BY <2>1, <2>2
<1>4. Begun(s) = s
  BY <1>3 DEF Begun
<1>. QED
  BY <1>3, <1>4 DEF esc

\* A packet grows by one byte, if it can.
Added(pkt, b) == IF Len(pkt) < MaxPacket THEN Append(pkt, b) ELSE pkt

\* What a byte makes of a reader that has begun a packet.
LEMMA ByteRead ==
  ASSUME NEW r \in Reader, NEW b \in Bytes, NEW s, s = Begun(r)
  PROVE  /\ ReadByte(r, b) \in Reader
         /\ ReadByte(r, b) =
              IF s.inescape /\ b # Frame THEN Rec(s.packet, FALSE, TRUE)
              ELSE IF b = Frame /\ ~s.inescape THEN Rec(s.packet, TRUE, FALSE)
              ELSE Rec(Added(s.packet, b), FALSE, FALSE)
<1>2. s \in Reader /\ s.newpacket = FALSE
  BY Begins
<1>4. s.packet \in Seq(Bytes) /\ s.inescape \in BOOLEAN
  BY <1>2 DEF Reader
<1>5. Added(s.packet, b) \in Seq(Bytes)
  BY <1>4 DEF Added
<1> DEFINE a == ReadByte(r, b)
<1>6. a = IF s.inescape /\ b # Frame THEN [s EXCEPT !.inescape = FALSE, !.newpacket = TRUE]
          ELSE IF b = Frame /\ ~s.inescape THEN [s EXCEPT !.inescape = TRUE]
          ELSE [s EXCEPT !.inescape = FALSE, !.packet = Added(s.packet, b)]
  BY DEF ReadByte, Added
<1>. HIDE DEF a
<1>7. CASE s.inescape /\ b # Frame
  <2>1. a = Rec(s.packet, FALSE, TRUE)
    <3>1. a = [s EXCEPT !.inescape = FALSE, !.newpacket = TRUE]
      BY <1>6, <1>7
    <3>. QED
      BY <1>2, <3>1 DEF Reader, Rec
  <2>2. a \in Reader
    BY <1>4, <2>1, RecIs
  <2>. QED
    BY <1>7, <2>1, <2>2 DEF a
<1>8. CASE b = Frame /\ ~s.inescape
  <2>1. a = Rec(s.packet, TRUE, FALSE)
    <3>1. a = [s EXCEPT !.inescape = TRUE]
      BY <1>6, <1>8
    <3>. QED
      BY <1>2, <3>1 DEF Reader, Rec
  <2>2. a \in Reader
    BY <1>4, <2>1, RecIs
  <2>. QED
    BY <1>8, <2>1, <2>2 DEF a
<1>9. CASE ~(s.inescape /\ b # Frame) /\ ~(b = Frame /\ ~s.inescape)
  <2> DEFINE x == Added(s.packet, b)
  <2>. HIDE DEF x
  <2>1. a = Rec(x, FALSE, FALSE)
    <3>1. a = [s EXCEPT !.inescape = FALSE, !.packet = x]
      BY <1>6, <1>9 DEF x
    <3>. QED
      BY <1>2, <3>1 DEF Reader, Rec
  <2>2. a \in Reader
    BY <1>5, <2>1, RecIs DEF x
  <2>. QED
    BY <1>9, <2>1, <2>2 DEF a, x
<1>. QED
  BY <1>7, <1>8, <1>9

LEMMA ReadFacts ==
  ASSUME NEW r \in Reader, NEW bytes \in Seq(Bytes)
  PROVE  /\ Len(bytes) \in Nat
         /\ Read(r, bytes)[0] = Begun(r)
         /\ \A n \in 1 .. Len(bytes) : Read(r, bytes)[n] = ReadByte(Read(r, bytes)[n - 1], bytes[n])
         /\ \A n \in 0 .. Len(bytes) : Read(r, bytes)[n] \in Reader
<1> DEFINE f == Read(r, bytes)  S == {n \in 0 .. Len(bytes) : f[n] \in Reader}
<1>1. Len(bytes) \in Nat /\ \A n \in 1 .. Len(bytes) : bytes[n] \in Bytes
  BY LenProperties, ElementOfSeq
<1>2. f[0] = Begun(r) /\ \A n \in 1 .. Len(bytes) : f[n] = Iteration[f[n - 1]][bytes[n]]
  <2>1. ReadTo(r, bytes, Len(bytes), f)
    BY <1>1, ReadDef
  <2>. HIDE DEF f
  <2>. QED
    BY <1>1, <2>1 DEF ReadTo
<1>. HIDE DEF f
<1>3. f[0] \in Reader
  BY <1>2, Begins
<1>4. ASSUME NEW n \in 1 .. Len(bytes), f[n - 1] \in Reader
      PROVE  f[n] \in Reader /\ f[n] = ReadByte(f[n - 1], bytes[n])
  <2>1. f[n] = ReadByte(f[n - 1], bytes[n])
    BY <1>1, <1>2, <1>4 DEF Iteration
  <2>. QED
    BY <1>1, <1>4, <2>1, ByteRead
<1>5. 0 \in S /\ \A n \in 1 .. Len(bytes) : n - 1 \in S => n \in S
  BY <1>1, <1>3, <1>4
<1>6. \A n \in 0 .. Len(bytes) : f[n] \in Reader
  <2>1. 0 .. Len(bytes) \subseteq S
    <3>. HIDE DEF S
    <3>. QED
      BY <1>1, <1>5, UpTo
  <2>. QED
    BY <2>1
<1>7. \A n \in 1 .. Len(bytes) : f[n] = ReadByte(f[n - 1], bytes[n])
  <2>1. \A n \in 1 .. Len(bytes) : n - 1 \in 0 .. Len(bytes)
    BY <1>1
  <2>. QED
    BY <1>4, <1>6, <2>1
<1>. QED
  BY <1>1, <1>2, <1>6, <1>7 DEF f

LEMMA MadeFacts ==
  ASSUME NEW r \in Reader, NEW bytes \in Seq(Bytes)
  PROVE  /\ Made(r, bytes)[0] = <<>>
         /\ \A n \in 1 .. Len(bytes) :
              Made(r, bytes)[n] = IF Read(r, bytes)[n].newpacket
                                  THEN Append(Made(r, bytes)[n - 1], Read(r, bytes)[n].packet)
                                  ELSE Made(r, bytes)[n - 1]
         /\ \A n \in 0 .. Len(bytes) : Made(r, bytes)[n] \in Seq(Seq(Bytes))
<1> DEFINE f == Made(r, bytes)  after == Read(r, bytes)  T == Seq(Bytes)
           S == {n \in 0 .. Len(bytes) : f[n] \in Seq(T)}
<1>1. Len(bytes) \in Nat /\ \A n \in 0 .. Len(bytes) : after[n] \in Reader
  BY ReadFacts
<1>2. f[0] = <<>>
      /\ \A n \in 1 .. Len(bytes) :
           f[n] = IF after[n].newpacket THEN Append(f[n - 1], after[n].packet) ELSE f[n - 1]
  <2>1. MadeTo(after, Len(bytes), f)
    BY <1>1, MadeDef
  <2>. HIDE DEF f, after
  <2>2. f[0] = <<>>
    <3>1. 0 \in 0 .. Len(bytes)
      BY <1>1
    <3>. QED
      BY <2>1, <3>1 DEF MadeTo
  <2>3. ASSUME NEW n \in 1 .. Len(bytes)
        PROVE  f[n] = IF after[n].newpacket THEN Append(f[n - 1], after[n].packet) ELSE f[n - 1]
    <3>1. n \in 0 .. Len(bytes) /\ n # 0
      BY <1>1
    <3>. QED
      BY <2>1, <3>1 DEF MadeTo
  <2>. QED
    BY <2>2, <2>3
<1>. HIDE DEF f, after
<1>3. \A n \in 0 .. Len(bytes) : after[n].packet \in T
  BY <1>1, ReaderIs
<1>. HIDE DEF T
<1>4. f[0] \in Seq(T)
  BY <1>2
<1>5. ASSUME NEW n \in 1 .. Len(bytes), f[n - 1] \in Seq(T)
      PROVE  f[n] \in Seq(T)
  <2>1. n \in 0 .. Len(bytes)
    BY <1>1
  <2>2. CASE after[n].newpacket
    <3>1. f[n] = Append(f[n - 1], after[n].packet)
      BY <1>2, <2>2
    <3>. QED
      BY <1>3, <1>5, <2>1, <3>1, AppendProperties
  <2>3. CASE ~after[n].newpacket
    BY <1>2, <1>5, <2>3
  <2>. QED
    BY <2>2, <2>3
<1>6. 0 \in S /\ \A n \in 1 .. Len(bytes) : n - 1 \in S => n \in S
  BY <1>1, <1>4, <1>5
<1>7. 0 .. Len(bytes) \subseteq S
  <2>. HIDE DEF S
  <2>. QED
    BY <1>1, <1>6, UpTo
<1>. QED
  BY <1>2, <1>7 DEF f, after, T

\* The first n steps depend on the first n bytes.
LEMMA ReadAlike ==
  ASSUME NEW r \in Reader, NEW u \in Seq(Bytes), NEW v \in Seq(Bytes), NEW n \in Nat,
         n <= Len(u), n <= Len(v), \A i \in 1 .. n : u[i] = v[i]
  PROVE  \A k \in 0 .. n : Read(r, u)[k] = Read(r, v)[k] /\ Made(r, u)[k] = Made(r, v)[k]
<1> DEFINE f == Read(r, u)  g == Read(r, v)  x == Made(r, u)  y == Made(r, v)
           S == {k \in 0 .. n : f[k] = g[k] /\ x[k] = y[k]}
<1>1. /\ Len(u) \in Nat /\ f[0] = Begun(r) /\ \A k \in 1 .. Len(u) : f[k] = ReadByte(f[k - 1], u[k])
      /\ x[0] = <<>>
      /\ \A k \in 1 .. Len(u) : x[k] = IF f[k].newpacket THEN Append(x[k - 1], f[k].packet) ELSE x[k - 1]
  BY ReadFacts, MadeFacts
<1>2. /\ Len(v) \in Nat /\ g[0] = Begun(r) /\ \A k \in 1 .. Len(v) : g[k] = ReadByte(g[k - 1], v[k])
      /\ y[0] = <<>>
      /\ \A k \in 1 .. Len(v) : y[k] = IF g[k].newpacket THEN Append(y[k - 1], g[k].packet) ELSE y[k - 1]
  BY ReadFacts, MadeFacts
<1>. HIDE DEF f, g, x, y
<1>3. 0 \in S
  BY <1>1, <1>2
<1>4. ASSUME NEW k \in 1 .. n, f[k - 1] = g[k - 1], x[k - 1] = y[k - 1]
      PROVE  f[k] = g[k] /\ x[k] = y[k]
  <2>1. k \in 1 .. Len(u) /\ k \in 1 .. Len(v)
    BY <1>1, <1>2
  <2>2. f[k] = ReadByte(f[k - 1], u[k]) /\ g[k] = ReadByte(g[k - 1], v[k]) /\ u[k] = v[k]
    BY <1>1, <1>2, <2>1
  <2>3. f[k] = g[k]
    BY <1>4, <2>2
  <2>4. /\ x[k] = IF f[k].newpacket THEN Append(x[k - 1], f[k].packet) ELSE x[k - 1]
        /\ y[k] = IF g[k].newpacket THEN Append(y[k - 1], g[k].packet) ELSE y[k - 1]
    BY <1>1, <1>2, <2>1
  <2>5. x[k] = y[k]
    <3>1. CASE f[k].newpacket
      BY <1>4, <2>3, <2>4, <3>1
    <3>2. CASE ~f[k].newpacket
      BY <1>4, <2>3, <2>4, <3>2
    <3>. QED
      BY <3>1, <3>2
  <2>. QED
    BY <2>3, <2>5
<1>5. ASSUME NEW k \in 1 .. n, k - 1 \in S PROVE k \in S
  <2>1. f[k - 1] = g[k - 1] /\ x[k - 1] = y[k - 1]
    BY <1>5
  <2>2. f[k] = g[k] /\ x[k] = y[k]
    BY <1>4, <2>1
  <2>. QED
    BY <2>2
<1>6. 0 .. n \subseteq S
  <2>. HIDE DEF S
  <2>. QED
    BY <1>3, <1>5, UpTo
<1>. QED
  BY <1>6 DEF f, g, x, y

After(r, bytes) == Read(r, bytes)[Len(bytes)]

LEMMA AfterFacts ==
  ASSUME NEW r \in Reader, NEW bytes \in Seq(Bytes)
  PROVE  After(r, bytes) \in Reader /\ Packets(r, bytes) \in Seq(Seq(Bytes))
<1>1. Len(bytes) \in 0 .. Len(bytes)
  BY LenProperties
<1>. QED
  BY <1>1, ReadFacts, MadeFacts DEF After, Packets

LEMMA NothingRead ==
  ASSUME NEW r \in Reader
  PROVE  After(r, <<>>) = Begun(r) /\ Packets(r, <<>>) = <<>>
<1>1. <<>> \in Seq(Bytes) /\ Len(<<>>) = 0
  OBVIOUS
<1>. QED
  BY <1>1, ReadFacts, MadeFacts DEF After, Packets

LEMMA OneMore ==
  ASSUME NEW r \in Reader, NEW a \in Seq(Bytes), NEW b \in Bytes, NEW s, s = ReadByte(After(r, a), b)
  PROVE  /\ After(r, Append(a, b)) = s
         /\ Packets(r, Append(a, b)) = IF s.newpacket THEN Append(Packets(r, a), s.packet) ELSE Packets(r, a)
<1> DEFINE c == Append(a, b)  n == Len(a)
<1>1. c \in Seq(Bytes) /\ Len(c) = n + 1 /\ n \in Nat /\ c[n + 1] = b /\ \A i \in 1 .. n : a[i] = c[i]
  BY AppendProperties, LenProperties
<1>. HIDE DEF c, n
<1>2. n <= Len(c) /\ n <= Len(a) /\ n \in 0 .. n /\ n + 1 \in 1 .. Len(c) /\ (n + 1) - 1 = n
  BY <1>1 DEF n
<1>3. Read(r, a)[n] = Read(r, c)[n] /\ Made(r, a)[n] = Made(r, c)[n]
  BY <1>1, <1>2, ReadAlike
<1>4. Read(r, c)[n + 1] = ReadByte(Read(r, c)[n], b)
  BY <1>1, <1>2, ReadFacts
<1>5. Made(r, c)[n + 1] = IF Read(r, c)[n + 1].newpacket THEN Append(Made(r, c)[n], Read(r, c)[n + 1].packet)
                          ELSE Made(r, c)[n]
  BY <1>1, <1>2, MadeFacts
<1>6. After(r, c) = s
  BY <1>1, <1>3, <1>4 DEF After, n
<1>7. /\ Read(r, c)[n + 1] = s /\ Packets(r, c) = Made(r, c)[n + 1] /\ Packets(r, a) = Made(r, c)[n]
  BY <1>1, <1>3, <1>6 DEF After, Packets, n
<1>8. Packets(r, c) = IF s.newpacket THEN Append(Packets(r, a), s.packet) ELSE Packets(r, a)
  BY <1>5, <1>7, Zenon
<1>. QED
  BY <1>6, <1>8 DEF c

\* Bytes are read up to a point, and on from there.
LEMMA ReadOn ==
  ASSUME NEW r \in Reader, NEW a \in Seq(Bytes), NEW b \in Seq(Bytes), NEW s, s = After(r, a)
  PROVE  /\ Begun(After(r, a \o b)) = Begun(After(s, b))
         /\ Packets(r, a \o b) = Packets(r, a) \o Packets(s, b)
<1> DEFINE Both(c) == /\ Begun(After(r, a \o c)) = Begun(After(s, c))
                      /\ Packets(r, a \o c) = Packets(r, a) \o Packets(s, c)
           S == {k \in 0 .. Len(b) : Both(SubSeq(b, 1, k))}
<1>1. s \in Reader /\ Packets(r, a) \in Seq(Seq(Bytes)) /\ Len(b) \in Nat
  BY AfterFacts, LenProperties
<1>2. Both(<<>>)
  <2>1. a \o <<>> = a
    BY ConcatEmptySeq
  <2>2. After(s, <<>>) = Begun(s) /\ Packets(s, <<>>) = <<>> /\ Begun(Begun(s)) = Begun(s)
    BY <1>1, NothingRead, Begins
  <2>3. Packets(r, a) \o <<>> = Packets(r, a)
    BY <1>1, ConcatEmptySeq
  <2>. QED
    BY <2>1, <2>2, <2>3
<1>3. ASSUME NEW c \in Seq(Bytes), NEW x \in Bytes, Both(c) PROVE Both(Append(c, x))
  <2> DEFINE d == Append(c, x)  e == a \o c
  <2>1. e \in Seq(Bytes) /\ d \in Seq(Bytes) /\ a \o d = Append(e, x)
    <3> DEFINE one == <<x>>
    <3>1. one \in Seq(Bytes) /\ Append(c, x) = c \o one
      BY AppendIsConcat
    <3>2. e \in Seq(Bytes)
      BY ConcatProperties
    <3>3. Append(e, x) = e \o one
      BY <3>2, AppendIsConcat
    <3>. HIDE DEF one
    <3>4. (a \o c) \o one = a \o (c \o one)
      BY <3>1, ConcatAssociative, Z3T(30)
    <3>. QED
      BY <3>1, <3>2, <3>3, <3>4
  <2>2. After(r, e) \in Reader /\ After(s, c) \in Reader /\ Packets(s, c) \in Seq(Seq(Bytes))
    BY <1>1, <2>1, AfterFacts
  <2> DEFINE z == ReadByte(After(r, e), x)
  <2>3. z = ReadByte(After(s, c), x) /\ z \in Reader
    <3>1. Begun(After(r, e)) = Begun(After(s, c))
      BY <1>3
    <3>2. ReadByte(After(r, e), x) = ReadByte(After(s, c), x)
      BY <3>1 DEF ReadByte
    <3>. QED
      BY <2>2, <3>2, ByteRead
  <2>. HIDE DEF z, d, e
  <2>4. /\ After(r, a \o d) = z
        /\ Packets(r, a \o d) = IF z.newpacket THEN Append(Packets(r, e), z.packet) ELSE Packets(r, e)
    BY <2>1, OneMore DEF z
  <2>5. /\ After(s, d) = z
        /\ Packets(s, d) = IF z.newpacket THEN Append(Packets(s, c), z.packet) ELSE Packets(s, c)
    BY <1>1, <2>3, OneMore DEF d
  <2>6. Packets(r, e) = Packets(r, a) \o Packets(s, c)
    BY <1>3 DEF e
  <2>7. z.packet \in Seq(Bytes)
    BY <2>3, ReaderIs
  <2>8. Packets(r, a \o d) = Packets(r, a) \o Packets(s, d)
    <3> DEFINE u == Packets(r, a)  v == Packets(s, c)  w == z.packet  one == <<w>>  T == Seq(Bytes)
    <3>1. u \in Seq(T) /\ v \in Seq(T) /\ w \in T
      BY <1>1, <2>2, <2>7
    <3>2. CASE ~z.newpacket
      BY <2>4, <2>5, <2>6, <3>2
    <3>3. CASE z.newpacket
      <4>1. Packets(r, a \o d) = Append(u \o v, w) /\ Packets(s, d) = Append(v, w)
        BY <2>4, <2>5, <2>6, <3>3
      <4>. HIDE DEF u, v, w, T
      <4>2. one \in Seq(T) /\ Append(v, w) = v \o one
        BY <3>1, AppendIsConcat
      <4>3. u \o v \in Seq(T)
        BY <3>1, ConcatProperties
      <4>4. Append(u \o v, w) = (u \o v) \o one
        BY <3>1, <4>3, AppendIsConcat
      <4>. HIDE DEF one
      <4>5. (u \o v) \o one = u \o (v \o one)
        BY <3>1, <4>2, ConcatAssociative, Z3T(30)
      <4>. QED
        BY <4>1, <4>2, <4>4, <4>5 DEF u
    <3>. QED
      BY <3>2, <3>3
  <2>. QED
    BY <2>4, <2>5, <2>8 DEF d
<1>. HIDE DEF Both
<1>4. 0 \in S
  <2>1. SubSeq(b, 1, 0) = <<>>
    BY SubSeqEmpty
  <2>2. Both(SubSeq(b, 1, 0))
    BY <1>2, <2>1, Zenon
  <2>. QED
    BY <1>1, <2>2
<1>5. ASSUME NEW k \in 1 .. Len(b), k - 1 \in S PROVE k \in S
  <2> DEFINE c == SubSeq(b, 1, k - 1)
  <2>1. c \in Seq(Bytes) /\ b[k] \in Bytes
    BY <1>1, SubSeqProperties, ElementOfSeq
  <2>2. SubSeq(b, 1, k) = Append(c, b[k])
    <3>1. SubSeq(b, 1, k) = c \o <<b[k]>>
      BY <1>1, SubSeqRecursiveSecond
    <3>2. Append(c, b[k]) = c \o <<b[k]>>
      BY <2>1, AppendIsConcat
    <3>. QED
      BY <3>1, <3>2
  <2>3. Both(c)
    BY <1>5
  <2>. HIDE DEF c
  <2>4. Both(Append(c, b[k]))
    BY <1>3, <2>1, <2>3
  <2>5. Both(SubSeq(b, 1, k))
    BY <2>2, <2>4, Zenon
  <2>. QED
    BY <1>1, <2>5
<1>6. 0 .. Len(b) \subseteq S
  <2>. HIDE DEF S
  <2>. QED
    BY <1>1, <1>4, <1>5, UpTo
<1>7. Both(SubSeq(b, 1, Len(b)))
  BY <1>1, <1>6
<1>8. SubSeq(b, 1, Len(b)) = b
  BY SubSeqFull
<1>. QED
  BY <1>7, <1>8 DEF Both

-----------------------------------------------------------------------------
(***************************************************************************)
(* The serial line: frames.                                                *)
(***************************************************************************)
Joined(s, b) == s \o Escape(b)
EscapedTo(p, k, f) == f = [n \in 0 .. k |-> IF n = 0 THEN <<>> ELSE Joined(f[n - 1], p[n])]

LEMMA EscapedDef ==
  ASSUME NEW p, Len(p) \in Nat
  PROVE  EscapedTo(p, Len(p), Escaped(p))
<1> DEFINE S == {k \in 0 .. Len(p) : \E f : EscapedTo(p, k, f)}
<1>1. 0 \in S
  <2> DEFINE f == [n \in 0 .. 0 |-> <<>>]
  <2>1. EscapedTo(p, 0, f)
    BY DEF EscapedTo
  <2>. QED
    BY <2>1
<1>2. ASSUME NEW k \in 1 .. Len(p), k - 1 \in S PROVE k \in S
  <2>1. PICK f : EscapedTo(p, k - 1, f)
    BY <1>2
  <2> DEFINE g == [n \in 0 .. k |-> IF n = k THEN Joined(f[k - 1], p[k]) ELSE f[n]]
  <2>2. ASSUME NEW n \in 0 .. k PROVE g[n] = IF n = 0 THEN <<>> ELSE Joined(g[n - 1], p[n])
    <3>1. CASE n = 0
      BY <2>1, <3>1 DEF EscapedTo
    <3>2. CASE n \in 1 .. k - 1
      <4>1. n \in 0 .. k - 1 /\ n # k /\ n - 1 # k /\ n - 1 \in 0 .. k
        BY <3>2
      <4>2. f[n] = Joined(f[n - 1], p[n])
        BY <2>1, <3>2, <4>1 DEF EscapedTo
      <4>. QED
        BY <3>2, <4>1, <4>2
    <3>3. CASE n = k
      <4>1. k - 1 # k /\ k - 1 \in 0 .. k /\ k # 0
        OBVIOUS
      <4>. QED
        BY <3>3, <4>1
    <3>. QED
      BY <3>1, <3>2, <3>3
  <2>3. EscapedTo(p, k, g)
    BY <2>2 DEF EscapedTo
  <2>. QED
    BY <2>3
<1>3. Len(p) \in S
  <2>1. Len(p) \in 0 .. Len(p)
    OBVIOUS
  <2>. HIDE DEF S
  <2>. QED
    BY <1>1, <1>2, <2>1, UpTo
<1>4. PICK f : EscapedTo(p, Len(p), f)
  BY <1>3
<1>. QED
  BY <1>4 DEF Escaped, EscapedTo, Joined

LEMMA TwoJoined ==
  ASSUME NEW x \in Bytes, NEW y \in Bytes
  PROVE  <<x>> \o <<y>> = <<x, y>>
<1> DEFINE a == <<x>>  b == <<y>>  c == <<x, y>>
<1>1. /\ a \in Seq(Bytes) /\ b \in Seq(Bytes) /\ c \in Seq(Bytes)
      /\ Len(a) = 1 /\ Len(b) = 1 /\ Len(c) = 2 /\ a[1] = x /\ b[1] = y /\ c[1] = x /\ c[2] = y
  OBVIOUS
<1>. HIDE DEF a, b, c
<1>2. /\ a \o b \in Seq(Bytes) /\ Len(a \o b) = Len(a) + Len(b)
      /\ \A i \in 1 .. Len(a) + Len(b) : (a \o b)[i] = IF i <= Len(a) THEN a[i] ELSE b[i - Len(a)]
  BY <1>1, ConcatProperties
<1>3. \A i \in 1 .. 2 : (a \o b)[i] = c[i]
  BY <1>1, <1>2
<1>4. a \o b = c
  BY <1>1, <1>2, <1>3, SeqEqual
<1>. QED
  BY <1>4 DEF a, b, c

LEMMA JoinedOn ==
  ASSUME NEW a \in Seq(Bytes), NEW b \in Seq(Bytes), NEW c \in Seq(Bytes)
  PROVE  (a \o b) \o c = a \o (b \o c)
BY ConcatAssociative, Z3T(30)

\* One more byte escaped: a FRAMECHAR twice, another as it is.
LEMMA EscapedOn ==
  ASSUME NEW a \in Seq(Bytes), NEW b \in Bytes, NEW c, c = a \o Escape(b)
  PROVE  /\ c \in Seq(Bytes) /\ Len(c) \in Nat /\ Len(c) <= Len(a) + 2
         /\ c = IF b = Frame THEN Append(Append(a, Frame), Frame) ELSE Append(a, b)
<1>1. Frame \in Bytes /\ Len(a) \in Nat
  BY LenProperties DEF Frame, Bytes
<1>2. CASE b # Frame
  <2>1. c = Append(a, b)
    BY <1>2, AppendIsConcat DEF Escape
  <2>2. Append(a, b) \in Seq(Bytes) /\ Len(Append(a, b)) = Len(a) + 1
    BY AppendProperties
  <2>. HIDE DEF Frame
  <2>. QED
    BY <1>1, <1>2, <2>1, <2>2
<1>3. CASE b = Frame
  <2> DEFINE one == <<b>>  two == <<b, b>>
  <2>1. one \in Seq(Bytes) /\ one \o one = two /\ c = a \o two
    <3>1. Escape(b) = two
      BY <1>3 DEF Escape
    <3>2. one \o one = two
      BY TwoJoined
    <3>. HIDE DEF two
    <3>. QED
      BY <3>1, <3>2
  <2>2. a \o one = Append(a, b) /\ Append(a, b) \in Seq(Bytes) /\ Len(Append(a, b)) = Len(a) + 1
    BY AppendIsConcat, AppendProperties
  <2> DEFINE d == Append(a, b)
  <2>3. d \o one = Append(d, b) /\ Append(d, b) \in Seq(Bytes) /\ Len(Append(d, b)) = Len(d) + 1
    BY <2>2, AppendIsConcat, AppendProperties
  <2>. HIDE DEF one, two, d
  <2>4. (a \o one) \o one = a \o (one \o one)
    <3>1. one \in Seq(Bytes)
      BY <2>1
    <3>. QED
      BY <3>1, JoinedOn, Z3T(30)
  <2>5. c = Append(d, b) /\ Len(c) = Len(a) + 2 /\ c \in Seq(Bytes)
    BY <1>1, <2>1, <2>2, <2>3, <2>4 DEF d
  <2>. HIDE DEF Frame
  <2>. QED
    BY <1>1, <1>3, <2>5 DEF d
<1>. QED
  BY <1>2, <1>3

LEMMA EscapedFacts ==
  ASSUME NEW p \in Seq(Bytes)
  PROVE  /\ Len(p) \in Nat /\ Escaped(p)[0] = <<>>
         /\ \A n \in 1 .. Len(p) : Escaped(p)[n] = Escaped(p)[n - 1] \o Escape(p[n])
         /\ \A n \in 0 .. Len(p) : Escaped(p)[n] \in Seq(Bytes) /\ Len(Escaped(p)[n]) \in 0 .. 2 * n
<1> DEFINE f == Escaped(p)  S == {n \in 0 .. Len(p) : f[n] \in Seq(Bytes) /\ Len(f[n]) \in 0 .. 2 * n}
<1>1. Len(p) \in Nat /\ \A n \in 1 .. Len(p) : p[n] \in Bytes
  BY LenProperties, ElementOfSeq
<1>2. f[0] = <<>> /\ \A n \in 1 .. Len(p) : f[n] = f[n - 1] \o Escape(p[n])
  <2>1. EscapedTo(p, Len(p), f)
    BY <1>1, EscapedDef
  <2>. HIDE DEF f
  <2>2. f[0] = <<>> /\ \A n \in 1 .. Len(p) : f[n] = Joined(f[n - 1], p[n])
    BY <1>1, <2>1 DEF EscapedTo
  <2>. QED
    BY <2>2 DEF Joined
<1>. HIDE DEF f
<1>3. f[0] \in Seq(Bytes) /\ Len(f[0]) \in 0 .. 2 * 0
  BY <1>2
<1>4. ASSUME NEW n \in 1 .. Len(p), f[n - 1] \in Seq(Bytes), Len(f[n - 1]) \in 0 .. 2 * (n - 1)
      PROVE  f[n] \in Seq(Bytes) /\ Len(f[n]) \in 0 .. 2 * n
  <2> DEFINE a == f[n - 1]  c == f[n]
  <2>1. c = a \o Escape(p[n]) /\ p[n] \in Bytes
    BY <1>1, <1>2
  <2>2. c \in Seq(Bytes) /\ Len(c) \in Nat /\ Len(c) <= Len(a) + 2
    <3>. HIDE DEF a, c
    <3>. QED
      BY <1>4, <2>1, EscapedOn DEF a
  <2>. QED
    BY <1>4, <2>2
<1>5. 0 \in S /\ \A n \in 1 .. Len(p) : n - 1 \in S => n \in S
  BY <1>1, <1>3, <1>4
<1>6. 0 .. Len(p) \subseteq S
  <2>. HIDE DEF S
  <2>. QED
    BY <1>1, <1>5, UpTo
<1>. QED
  BY <1>1, <1>2, <1>6 DEF f

LEMMA FrameIs ==
  ASSUME NEW p \in Seq(Bytes)
  PROVE  /\ Framed(p) \in Seq(Bytes) /\ Len(Framed(p)) \in Nat /\ Len(Framed(p)) <= 2 * Len(p) + 2
         /\ Framed(p) = Append(Append(Escaped(p)[Len(p)], Frame), 0)
<1> DEFINE e == Escaped(p)[Len(p)]  one == <<Frame>>  two == <<0>>  both == <<Frame, 0>>
<1>1. Len(p) \in Nat /\ e \in Seq(Bytes) /\ Len(e) \in 0 .. 2 * Len(p)
  <2>1. Len(p) \in Nat /\ Len(p) \in 0 .. Len(p)
    BY LenProperties
  <2>. QED
    BY <2>1, EscapedFacts
<1>2. one \in Seq(Bytes) /\ two \in Seq(Bytes) /\ one \o two = both /\ Framed(p) = e \o both
      /\ Frame \in Bytes /\ 0 \in Bytes
  <2>1. Frame \in Bytes /\ 0 \in Bytes
    BY DEF Frame, Bytes
  <2>2. one \o two = both
    BY <2>1, TwoJoined
  <2>3. Framed(p) = e \o both
    BY DEF Framed
  <2>. QED
    BY <2>1, <2>2, <2>3
<1>. HIDE DEF e
<1> DEFINE d == Append(e, Frame)
<1>3. d \in Seq(Bytes) /\ Len(d) = Len(e) + 1 /\ d = e \o one
  BY <1>1, <1>2, AppendProperties, AppendIsConcat
<1>4. Append(d, 0) \in Seq(Bytes) /\ Len(Append(d, 0)) = Len(d) + 1 /\ Append(d, 0) = d \o two
  BY <1>2, <1>3, AppendProperties, AppendIsConcat
<1>. HIDE DEF one, two, both, d
<1>5. (e \o one) \o two = e \o (one \o two)
  <2>1. e \in Seq(Bytes) /\ one \in Seq(Bytes) /\ two \in Seq(Bytes)
    BY <1>1, <1>2
  <2>. QED
    BY <2>1, JoinedOn, Z3T(30)
<1>6. Framed(p) = Append(d, 0)
  BY <1>2, <1>3, <1>4, <1>5
<1>. QED
  BY <1>1, <1>3, <1>4, <1>6 DEF d, e

LEMMA BegunRec ==
  ASSUME NEW pkt \in Seq(Bytes), NEW esc \in BOOLEAN, NEW new \in BOOLEAN
  PROVE  Begun(Rec(pkt, esc, new)) = Rec(IF new THEN <<>> ELSE pkt, esc, FALSE)
<1> DEFINE s == Rec(pkt, esc, new)
<1>1. s \in Reader /\ s.packet = pkt /\ s.inescape = esc /\ s.newpacket = new
  BY RecIs
<1>. HIDE DEF s
<1>2. Begun(s) = Rec(IF s.newpacket THEN <<>> ELSE s.packet, s.inescape, FALSE)
  BY <1>1, ReaderIs
<1>3. CASE new = TRUE
  BY <1>1, <1>2, <1>3 DEF s
<1>4. CASE new = FALSE
  BY <1>1, <1>2, <1>4 DEF s
<1>. QED
  BY <1>3, <1>4

\* After the bytes c the reader has pkt of the next packet.
Stands(r, c, pkt, esc) == Begun(After(r, c)) = Rec(pkt, esc, FALSE)

\* What a byte b makes of a reader t that has begun a packet, and of the packets it has made.
NextByte(t, b, s, before, after) ==
  /\ t.inescape = TRUE /\ b # Frame => s = Rec(t.packet, FALSE, TRUE)
  /\ t.inescape = FALSE /\ b = Frame => s = Rec(t.packet, TRUE, FALSE)
  /\ (t.inescape = TRUE <=> b = Frame) => s = Rec(Added(t.packet, b), FALSE, FALSE)
  /\ s.newpacket = TRUE => after = Append(before, s.packet)
  /\ s.newpacket = FALSE => after = before

LEMMA ByteStep ==
  ASSUME NEW r \in Reader, NEW c \in Seq(Bytes), NEW b \in Bytes, NEW t \in Reader, t = Begun(After(r, c)),
         NEW s, s = After(r, Append(c, b))
  PROVE  NextByte(t, b, s, Packets(r, c), Packets(r, Append(c, b)))
<1> DEFINE v == After(r, c)  x == ReadByte(v, b)
<1>1. v \in Reader
  BY AfterFacts
<1>2. t.inescape \in BOOLEAN
  BY DEF Reader
<1>3. x = IF t.inescape /\ b # Frame THEN Rec(t.packet, FALSE, TRUE)
          ELSE IF b = Frame /\ ~t.inescape THEN Rec(t.packet, TRUE, FALSE)
          ELSE Rec(Added(t.packet, b), FALSE, FALSE)
  BY <1>1, ByteRead
<1>4. /\ s = x
      /\ Packets(r, Append(c, b)) = IF x.newpacket THEN Append(Packets(r, c), x.packet) ELSE Packets(r, c)
  BY OneMore
<1>. HIDE DEF v, x, Frame
<1>5. CASE t.inescape = TRUE
  BY <1>3, <1>4, <1>5 DEF NextByte
<1>6. CASE t.inescape = FALSE
  BY <1>3, <1>4, <1>6 DEF NextByte
<1>. QED
  BY <1>2, <1>5, <1>6

LEMMA EndRead ==
  ASSUME NEW r \in Reader, NEW c \in Seq(Bytes), NEW b \in Bytes, b # Frame, NEW pkt \in Seq(Bytes),
         Stands(r, c, pkt, TRUE)
  PROVE  Stands(r, Append(c, b), <<>>, FALSE) /\ Packets(r, Append(c, b)) = Append(Packets(r, c), pkt)
<1> DEFINE s == After(r, Append(c, b))  t == Rec(pkt, TRUE, FALSE)
<1>1. t \in Reader /\ t = Begun(After(r, c)) /\ t.inescape = TRUE /\ t.packet = pkt
  BY RecIs DEF Stands
<1>. HIDE DEF s, t, Frame
<1>2. s = Rec(pkt, FALSE, TRUE) /\ (s.newpacket = TRUE => Packets(r, Append(c, b)) = Append(Packets(r, c), s.packet))
  <2>1. NextByte(t, b, s, Packets(r, c), Packets(r, Append(c, b)))
    BY <1>1, ByteStep DEF s
  <2>. QED
    BY <1>1, <2>1 DEF NextByte
<1>3. s.packet = pkt /\ s.newpacket = TRUE
  BY <1>2 DEF Rec
<1>4. Begun(Rec(pkt, FALSE, TRUE)) = Rec(<<>>, FALSE, FALSE)
  BY BegunRec
<1>. QED
  BY <1>2, <1>3, <1>4 DEF Stands, s

LEMMA EscapeRead ==
  ASSUME NEW r \in Reader, NEW c \in Seq(Bytes), NEW pkt \in Seq(Bytes), Stands(r, c, pkt, FALSE)
  PROVE  Stands(r, Append(c, Frame), pkt, TRUE) /\ Packets(r, Append(c, Frame)) = Packets(r, c)
<1> DEFINE s == After(r, Append(c, Frame))  t == Rec(pkt, FALSE, FALSE)
<1>1. t \in Reader /\ t = Begun(After(r, c)) /\ t.inescape = FALSE /\ t.packet = pkt
  BY RecIs DEF Stands
<1>2. Frame \in Bytes
  BY DEF Frame, Bytes
<1>. HIDE DEF s, t, Frame
<1>3. s = Rec(pkt, TRUE, FALSE) /\ (s.newpacket = FALSE => Packets(r, Append(c, Frame)) = Packets(r, c))
  <2>1. NextByte(t, Frame, s, Packets(r, c), Packets(r, Append(c, Frame)))
    BY <1>1, <1>2, ByteStep DEF s
  <2>. QED
    BY <1>1, <1>2, <2>1 DEF NextByte
<1>4. s.newpacket = FALSE
  BY <1>3 DEF Rec
<1>5. Begun(Rec(pkt, TRUE, FALSE)) = Rec(pkt, TRUE, FALSE)
  BY BegunRec
<1>. QED
  BY <1>3, <1>4, <1>5 DEF Stands, s

\* A byte of the packet: any but a FRAMECHAR, or an escaped FRAMECHAR.
LEMMA ContentRead ==
  ASSUME NEW r \in Reader, NEW c \in Seq(Bytes), NEW b \in Bytes, NEW pkt \in Seq(Bytes),
         \/ b # Frame /\ Stands(r, c, pkt, FALSE)
         \/ b = Frame /\ Stands(r, c, pkt, TRUE)
  PROVE  Stands(r, Append(c, b), Added(pkt, b), FALSE) /\ Packets(r, Append(c, b)) = Packets(r, c)
<1> DEFINE s == After(r, Append(c, b))  x == Added(pkt, b)  t == Begun(After(r, c))
<1>1. x \in Seq(Bytes)
  BY DEF Added
<1>2. t \in Reader /\ t.packet = pkt /\ (t.inescape = TRUE <=> b = Frame)
  <2>1. CASE b # Frame /\ Stands(r, c, pkt, FALSE)
    BY <2>1, RecIs DEF Stands
  <2>2. CASE b = Frame /\ Stands(r, c, pkt, TRUE)
    BY <2>2, RecIs DEF Stands
  <2>. QED
    BY <2>1, <2>2
<1>3. s = Rec(x, FALSE, FALSE) /\ (s.newpacket = FALSE => Packets(r, Append(c, b)) = Packets(r, c))
  <2>. HIDE DEF s, Frame, x, t
  <2>1. NextByte(t, b, s, Packets(r, c), Packets(r, Append(c, b)))
    BY <1>2, ByteStep DEF s, t
  <2>. QED
    BY <1>2, <2>1 DEF NextByte, x
<1>. HIDE DEF s, Frame, x, t
<1>4. s.newpacket = FALSE
  BY <1>3 DEF Rec
<1>5. Begun(Rec(x, FALSE, FALSE)) = Rec(x, FALSE, FALSE)
  BY <1>1, BegunRec
<1>. QED
  BY <1>3, <1>4, <1>5 DEF Stands, s, x

\* Framing is transparent: a frame read from the start of a packet makes the packet that it was
\* made of, and the reader is at the start again.
LEMMA FrameRead ==
  ASSUME NEW r \in Reader, NEW a \in Seq(Bytes), Stands(r, a, <<>>, FALSE), NEW p \in Seq(Bytes), Len(p) <= MaxPacket
  PROVE  Stands(r, a \o Framed(p), <<>>, FALSE) /\ Packets(r, a \o Framed(p)) = Append(Packets(r, a), p)
<1> DEFINE e == Escaped(p)
           Within(k, c) == Stands(r, c, SubSeq(p, 1, k), FALSE) /\ Packets(r, c) = Packets(r, a)
           S == {k \in 0 .. Len(p) : Within(k, a \o e[k])}
<1>1. /\ Len(p) \in Nat /\ e[0] = <<>> /\ \A k \in 1 .. Len(p) : e[k] = e[k - 1] \o Escape(p[k])
      /\ \A k \in 0 .. Len(p) : e[k] \in Seq(Bytes)
  BY EscapedFacts
<1>2. \A k \in 1 .. Len(p) : p[k] \in Bytes
  BY ElementOfSeq
<1>. HIDE DEF e
<1>3. 0 \in S
  <2>1. a \o e[0] = a
    BY <1>1, ConcatEmptySeq
  <2>2. SubSeq(p, 1, 0) = <<>>
    BY SubSeqEmpty
  <2>3. Within(0, a)
    BY <2>2
  <2>. HIDE DEF Within
  <2>4. Within(0, a \o e[0])
    BY <2>1, <2>3, Zenon
  <2>5. 0 \in 0 .. Len(p)
    BY <1>1
  <2>. QED
    BY <2>4, <2>5, Zenon
<1>4. ASSUME NEW k \in 1 .. Len(p), Within(k - 1, a \o e[k - 1]) PROVE Within(k, a \o e[k])
  <2> DEFINE b == p[k]  c == a \o e[k - 1]  pkt == SubSeq(p, 1, k - 1)  f == e[k - 1]  g == Escape(b)
             next == SubSeq(p, 1, k)
  <2>1. b \in Bytes /\ k - 1 \in 0 .. Len(p) /\ f \in Seq(Bytes) /\ Frame \in Bytes
    BY <1>1, <1>2 DEF Frame, Bytes
  <2>2. g \in Seq(Bytes)
    BY <2>1 DEF Escape
  <2>3. c \in Seq(Bytes)
    BY <2>1, ConcatProperties
  <2>4. a \o e[k] = c \o g
    <3>1. e[k] = f \o g
      BY <1>1
    <3>2. f \in Seq(Bytes) /\ g \in Seq(Bytes)
      BY <2>1, <2>2
    <3>. HIDE DEF f, g
    <3>3. (a \o f) \o g = a \o (f \o g)
      BY <3>2, JoinedOn, Z3T(30)
    <3>. QED
      BY <3>1, <3>3 DEF f
  <2>5. pkt \in Seq(Bytes) /\ Len(pkt) = k - 1
    <3>1. \A i \in 1 .. k - 1 : p[i] \in Bytes
      BY <1>1, <1>2
    <3>2. 1 \in Int /\ k - 1 \in Int
      OBVIOUS
    <3>3. pkt \in Seq(Bytes) /\ Len(pkt) = IF 1 <= k - 1 THEN k - 1 - 1 + 1 ELSE 0
      BY <3>1, <3>2, SubSeqProperties
    <3>. QED
      BY <3>3
  <2>6. next = Append(pkt, b)
    <3>1. next = pkt \o <<b>>
      BY <1>1, SubSeqRecursiveSecond
    <3>2. Append(pkt, b) = pkt \o <<b>>
      BY <2>1, <2>5, AppendIsConcat
    <3>. QED
      BY <3>1, <3>2
  <2>7. Stands(r, c, pkt, FALSE) /\ Packets(r, c) = Packets(r, a)
    BY <1>4
  <2>8. Added(pkt, b) = next
    <3>1. Len(pkt) < MaxPacket
      <4>1. MaxPacket \in Nat
        BY SizesAssumption
      <4>. HIDE DEF pkt
      <4>. QED
        BY <1>1, <2>5, <4>1
    <3>. HIDE DEF pkt, next
    <3>. QED
      BY <2>6, <3>1 DEF Added
  <2>9. c \o g = IF b = Frame THEN Append(Append(c, Frame), Frame) ELSE Append(c, b)
    <3>. HIDE DEF c, b
    <3>. QED
      BY <2>1, <2>3, EscapedOn DEF g
  <2>. HIDE DEF b, c, pkt, next, g, f, Frame
  <2>10. CASE b # Frame
    <3> DEFINE d == Append(c, b)
    <3>1. Stands(r, d, Added(pkt, b), FALSE) /\ Packets(r, d) = Packets(r, c)
      BY <2>1, <2>3, <2>5, <2>7, <2>10, ContentRead
    <3>2. a \o e[k] = d
      BY <2>4, <2>9, <2>10
    <3>. HIDE DEF d
    <3>. QED
      BY <2>7, <2>8, <3>1, <3>2 DEF next
  <2>11. CASE b = Frame
    <3> DEFINE d == Append(c, Frame)  x == Append(d, Frame)
    <3>1. Stands(r, d, pkt, TRUE) /\ Packets(r, d) = Packets(r, c)
      BY <2>1, <2>3, <2>5, <2>7, EscapeRead
    <3>2. d \in Seq(Bytes)
      BY <2>1, <2>3
    <3>. HIDE DEF d
    <3>3. Stands(r, x, Added(pkt, Frame), FALSE) /\ Packets(r, x) = Packets(r, d)
      BY <2>1, <2>5, <3>1, <3>2, ContentRead
    <3>4. a \o e[k] = x
      BY <2>4, <2>9, <2>11 DEF d
    <3>. HIDE DEF x
    <3>. QED
      BY <2>7, <2>8, <2>11, <3>1, <3>3, <3>4 DEF next
  <2>. QED
    BY <2>10, <2>11
<1>. HIDE DEF Within
<1>5. \A k \in 1 .. Len(p) : k - 1 \in S => k \in S
  BY <1>1, <1>4
<1>6. Within(Len(p), a \o e[Len(p)])
  <2>1. 0 .. Len(p) \subseteq S
    <3>. HIDE DEF S
    <3>. QED
      BY <1>1, <1>3, <1>5, UpTo
  <2>. QED
    BY <1>1, <2>1
<1> DEFINE f == e[Len(p)]  c == a \o f  d == Append(c, Frame)  x == Append(d, 0)
<1>7. Stands(r, c, p, FALSE) /\ Packets(r, c) = Packets(r, a)
  <2>1. SubSeq(p, 1, Len(p)) = p
    BY SubSeqFull
  <2>. QED
    BY <1>6, <2>1 DEF Within
<1>8. f \in Seq(Bytes) /\ c \in Seq(Bytes) /\ Frame \in Bytes /\ 0 \in Bytes /\ 0 # Frame
  <2>1. f \in Seq(Bytes)
    BY <1>1
  <2>2. Frame \in Bytes /\ 0 \in Bytes /\ 0 # Frame
    BY DEF Frame, Bytes
  <2>. HIDE DEF f
  <2>. QED
    BY <2>1, <2>2, ConcatProperties
<1>9. a \o Framed(p) = x
  <2> DEFINE one == <<Frame>>  two == <<0>>  g == Append(f, Frame)
  <2>1. Framed(p) = Append(g, 0)
    BY FrameIs DEF e
  <2>2. one \in Seq(Bytes) /\ two \in Seq(Bytes)
    BY <1>8
  <2>3. g = f \o one /\ g \in Seq(Bytes) /\ d = c \o one /\ d \in Seq(Bytes)
    <3>. HIDE DEF f, c
    <3>. QED
      BY <1>8, AppendIsConcat, AppendProperties
  <2>4. Append(g, 0) = g \o two /\ x = d \o two
    <3>. HIDE DEF g, d
    <3>. QED
      BY <1>8, <2>3, AppendIsConcat
  <2>. HIDE DEF f, c, d, g, one, two, x
  <2>5. (a \o f) \o one = a \o (f \o one)
    <3>1. f \in Seq(Bytes) /\ one \in Seq(Bytes)
      BY <1>8, <2>2
    <3>. QED
      BY <3>1, JoinedOn, Z3T(30)
  <2>6. (a \o g) \o two = a \o (g \o two)
    <3>1. g \in Seq(Bytes) /\ two \in Seq(Bytes)
      BY <2>2, <2>3
    <3>. QED
      BY <3>1, JoinedOn, Z3T(30)
  <2>7. d = a \o g
    BY <2>3, <2>5 DEF c
  <2>. QED
    BY <2>1, <2>4, <2>6, <2>7
<1>. HIDE DEF f, c, Frame
<1>10. Stands(r, d, p, TRUE) /\ Packets(r, d) = Packets(r, c)
  BY <1>7, <1>8, EscapeRead DEF d
<1>11. d \in Seq(Bytes)
  BY <1>8 DEF d
<1>. HIDE DEF d
<1>12. Stands(r, x, <<>>, FALSE) /\ Packets(r, x) = Append(Packets(r, d), p)
  BY <1>8, <1>10, <1>11, EndRead, ZenonT(40)
<1>. HIDE DEF x
<1>. QED
  BY <1>7, <1>9, <1>10, <1>12

-----------------------------------------------------------------------------
(***************************************************************************)
(* The serial line: the sender.                                            *)
(***************************************************************************)
TxT == [outque : Seq(Bytes), buffer : Seq(Bytes), transmitting : BOOLEAN, uart : Seq(Bytes)]
TxOK(t) ==
  /\ t \in TxT
  /\ Len(t.outque) <= QueSize /\ Len(t.buffer) <= TxLen /\ Len(t.uart) <= 1
  /\ t.transmitting = FALSE => t.uart = <<>>

\* What the sender still has to send.
TxBytes(t) == (t.uart \o t.buffer) \o t.outque

LEMMA TxTyped ==
  ASSUME NEW t \in TxT
  PROVE  /\ t.outque \in Seq(Bytes) /\ t.buffer \in Seq(Bytes) /\ t.uart \in Seq(Bytes)
         /\ t.transmitting \in BOOLEAN
         /\ Len(t.outque) \in Nat /\ Len(t.buffer) \in Nat /\ Len(t.uart) \in Nat
         /\ TxBytes(t) \in Seq(Bytes)
<1>1. /\ t.outque \in Seq(Bytes) /\ t.buffer \in Seq(Bytes) /\ t.uart \in Seq(Bytes)
      /\ t.transmitting \in BOOLEAN
  BY DEF TxT
<1>2. Len(t.outque) \in Nat /\ Len(t.buffer) \in Nat /\ Len(t.uart) \in Nat
  BY <1>1, LenProperties
<1>3. TxBytes(t) \in Seq(Bytes)
  BY <1>1, ConcatProperties DEF TxBytes
<1>. QED
  BY <1>1, <1>2, <1>3

\* A part of a sequence and what is left of it.
PartsOf(s, n, a, b) ==
  /\ a \in Seq(Bytes) /\ Len(a) = n /\ \A i \in 1 .. n : a[i] = s[i]
  /\ b \in Seq(Bytes) /\ Len(b) = Len(s) - n
  /\ a \o b = s

LEMMA Parts ==
  ASSUME NEW s \in Seq(Bytes), NEW n \in 0 .. Len(s)
  PROVE  PartsOf(s, n, SubSeq(s, 1, n), SubSeq(s, n + 1, Len(s)))
<1> DEFINE a == SubSeq(s, 1, n)  b == SubSeq(s, n + 1, Len(s))
<1>1. Len(s) \in Nat /\ \A i \in 1 .. Len(s) : s[i] \in Bytes
  BY LenProperties, ElementOfSeq
<1>2. a \in Seq(Bytes) /\ Len(a) = n /\ \A i \in 1 .. n : a[i] = s[i]
  <2> DEFINE c == SubSeq(s, 1, n)
  <2>1. /\ c \in Seq(Bytes) /\ Len(c) = (IF 1 <= n THEN n - 1 + 1 ELSE 0)
        /\ \A i \in 1 .. n - 1 + 1 : c[i] = s[1 + i - 1]
    <3>1. \A i \in 1 .. n : s[i] \in Bytes
      BY <1>1
    <3>. QED
      BY <1>1, <3>1, SubSeqProperties
  <2>. HIDE DEF c
  <2>. QED
    BY <1>1, <2>1 DEF c
<1>3. b \in Seq(Bytes) /\ Len(b) = Len(s) - n
  <2> DEFINE m == n + 1  k == Len(s)  c == SubSeq(s, m, k)
  <2>1. m \in Int /\ k \in Int /\ \A i \in m .. k : s[i] \in Bytes
    BY <1>1
  <2>2. c \in Seq(Bytes) /\ Len(c) = IF m <= k THEN k - m + 1 ELSE 0
    <3>. HIDE DEF m, k
    <3>. QED
      BY <2>1, SubSeqProperties
  <2>. HIDE DEF c
  <2>. QED
    BY <1>1, <2>2 DEF c
<1>4. a \o b = s
  <2>1. 1 \in 1 .. Len(s) + 1 /\ n \in 1 - 1 .. Len(s) /\ Len(s) \in n .. Len(s)
    BY <1>1
  <2>2. SubSeq(s, 1, n) \o SubSeq(s, n + 1, Len(s)) = SubSeq(s, 1, Len(s))
    BY <2>1, ConcatAdjacentSubSeq
  <2>3. SubSeq(s, 1, Len(s)) = s
    BY SubSeqFull
  <2>. QED
    BY <2>2, <2>3
<1>. QED
  BY <1>2, <1>3, <1>4 DEF PartsOf

LEMMA Refilled ==
  ASSUME NEW t \in TxT, t.buffer = <<>>, Len(t.outque) <= QueSize, NEW u, u = RefillTXBuffer(t)
  PROVE  /\ u \in TxT /\ u.uart = t.uart /\ u.transmitting = t.transmitting
         /\ Len(u.outque) <= QueSize /\ Len(u.buffer) <= TxLen
         /\ u.buffer \o u.outque = t.outque
<1> DEFINE q == t.outque  n == IF Len(q) < TxLen THEN Len(q) ELSE TxLen
           a == SubSeq(q, 1, n)  b == SubSeq(q, n + 1, Len(q))
<1>1. TxLen \in Nat /\ q \in Seq(Bytes) /\ Len(q) \in Nat
  BY TxTyped, SizesAssumption
<1>2. n \in 0 .. Len(q) /\ n <= TxLen
  <2>. HIDE DEF q
  <2>. QED
    BY <1>1
<1>3. u = [outque |-> b, buffer |-> a, transmitting |-> t.transmitting, uart |-> t.uart]
  BY DEF RefillTXBuffer, TxT
<1>4. a \in Seq(Bytes) /\ Len(a) = n /\ b \in Seq(Bytes) /\ Len(b) = Len(q) - n /\ a \o b = q
  <2>. HIDE DEF q, n
  <2>1. PartsOf(q, n, a, b)
    BY <1>1, <1>2, Parts
  <2>. HIDE DEF a, b
  <2>. QED
    BY <2>1 DEF PartsOf
<1>. HIDE DEF q, n, a, b
<1>5. u \in TxT
  BY <1>3, <1>4 DEF TxT
<1>6. u.uart = t.uart /\ u.transmitting = t.transmitting /\ u.outque = b /\ u.buffer = a
  BY <1>3
<1>7. Len(b) <= QueSize
  <2>1. Len(q) <= QueSize /\ QueSize \in Nat
    BY SizesAssumption DEF q
  <2>. QED
    BY <1>1, <1>2, <1>4, <2>1
<1>. QED
  BY <1>2, <1>4, <1>5, <1>6, <1>7 DEF q

LEMMA NextTransmitted ==
  ASSUME NEW t \in TxT, t.uart = <<>>, t.buffer # <<>>, Len(t.outque) <= QueSize, Len(t.buffer) <= TxLen,
         NEW u, u = TransmitNextByte(t)
  PROVE  TxOK(u) /\ TxBytes(u) = t.buffer \o t.outque
<1> DEFINE b == t.buffer  q == t.outque  one == <<Head(b)>>  rest == Tail(b)
<1>1. b \in Seq(Bytes) /\ q \in Seq(Bytes) /\ Len(b) \in Nat
  BY TxTyped
<1>2. u = [outque |-> q, buffer |-> rest, transmitting |-> TRUE, uart |-> one]
  BY DEF TransmitNextByte, TxT
<1>3. one \in Seq(Bytes) /\ Len(one) = 1 /\ rest \in Seq(Bytes) /\ Len(rest) = Len(b) - 1
  <2>1. Head(b) \in Bytes /\ rest \in Seq(Bytes) /\ Len(rest) = Len(b) - 1
    BY <1>1, HeadTailProperties
  <2>. QED
    BY <2>1
<1>4. one \o rest = b
  <2>1. Len(b) > 0
    BY <1>1, EmptySeq
  <2>2. 1 \in 1 .. Len(b) /\ Len(b) \in 1 .. Len(b)
    BY <1>1, <2>1
  <2>3. SubSeq(b, 1, Len(b)) = <<b[1]>> \o SubSeq(b, 1 + 1, Len(b))
    BY <1>1, <2>2, SubSeqRecursiveFirst
  <2>4. rest = SubSeq(b, 2, Len(b)) /\ SubSeq(b, 1, Len(b)) = b /\ b[1] = Head(b)
    BY <1>1, TailIsSubSeq, SubSeqFull
  <2>. QED
    BY <2>3, <2>4
<1>5. TxLen \in Nat /\ Len(b) <= TxLen
  BY SizesAssumption
<1>. HIDE DEF b, q, one, rest
<1>6. u \in TxT
  BY <1>1, <1>2, <1>3 DEF TxT
<1>7. u.uart = one /\ u.buffer = rest /\ u.outque = q /\ u.transmitting = TRUE
  BY <1>2
<1>8. Len(rest) <= TxLen
  BY <1>1, <1>3, <1>5
<1>. QED
  <2>1. Len(q) <= QueSize
    BY DEF q
  <2>2. TxOK(u)
    <3>1. Len(u.outque) <= QueSize /\ Len(u.buffer) <= TxLen
      BY <1>7, <1>8, <2>1
    <3>2. Len(u.uart) <= 1
      <4>1. Len(u.uart) = Len(one)
        BY <1>7
      <4>. QED
        BY <1>3, <4>1
    <3>. QED
      BY <1>6, <1>7, <3>1, <3>2 DEF TxOK
  <2>3. TxBytes(u) = b \o q
    BY <1>4, <1>7 DEF TxBytes
  <2>. QED
    BY <2>2, <2>3 DEF b, q

LEMMA Transmitted ==
  ASSUME NEW t \in TxT, t.uart = <<>>, Len(t.outque) <= QueSize, Len(t.buffer) <= TxLen,
         NEW u, u = TransmitOrStop(t)
  PROVE  TxOK(u) /\ TxBytes(u) = TxBytes(t)
<1> DEFINE v == IF t.buffer = <<>> THEN RefillTXBuffer(t) ELSE t
<1>1. /\ t.buffer \in Seq(Bytes) /\ t.outque \in Seq(Bytes)
      /\ TxBytes(t) = t.buffer \o t.outque
  <2>1. t.buffer \in Seq(Bytes) /\ t.outque \in Seq(Bytes)
    BY TxTyped
  <2>2. <<>> \o t.buffer = t.buffer
    BY <2>1, ConcatEmptySeq
  <2>. QED
    BY <2>1, <2>2 DEF TxBytes
<1>2. /\ v \in TxT /\ v.uart = <<>> /\ Len(v.outque) <= QueSize /\ Len(v.buffer) <= TxLen
      /\ v.buffer \o v.outque = t.buffer \o t.outque
  <2>1. CASE t.buffer = <<>>
    <3>1. v = RefillTXBuffer(t)
      BY <2>1
    <3>2. <<>> \o t.outque = t.outque
      BY <1>1, ConcatEmptySeq
    <3>. HIDE DEF v
    <3>3. v \in TxT /\ v.uart = t.uart /\ Len(v.outque) <= QueSize /\ Len(v.buffer) <= TxLen
          /\ v.buffer \o v.outque = t.outque
      BY <2>1, <3>1, Refilled
    <3>. QED
      BY <2>1, <3>2, <3>3
  <2>2. CASE t.buffer # <<>>
    <3>1. v = t
      BY <2>2
    <3>. HIDE DEF v
    <3>. QED
      BY <3>1
  <2>. QED
    BY <2>1, <2>2
<1>3. u = IF v.buffer = <<>> THEN [v EXCEPT !.transmitting = FALSE] ELSE TransmitNextByte(v)
  BY DEF TransmitOrStop
<1>. HIDE DEF v
<1>4. CASE v.buffer = <<>>
  <2>1. u = [outque |-> v.outque, buffer |-> v.buffer, transmitting |-> FALSE, uart |-> v.uart]
    BY <1>2, <1>3, <1>4 DEF TxT
  <2>2. u.outque = v.outque /\ u.buffer = v.buffer /\ u.transmitting = FALSE /\ u.uart = <<>>
    BY <1>2, <2>1
  <2>3. u \in TxT
    BY <1>2, <2>1, TxTyped DEF TxT
  <2>4. Len(u.uart) <= 1
    BY <2>2
  <2>5. TxOK(u)
    BY <1>2, <2>2, <2>3, <2>4 DEF TxOK
  <2>6. <<>> \o v.buffer = v.buffer
    BY <1>2, TxTyped, ConcatEmptySeq
  <2>7. TxBytes(u) = v.buffer \o v.outque
    BY <2>2, <2>6 DEF TxBytes
  <2>. QED
    BY <1>1, <1>2, <2>5, <2>7
<1>5. CASE v.buffer # <<>>
  <2>1. u = TransmitNextByte(v)
    BY <1>3, <1>5
  <2>2. TxOK(u) /\ TxBytes(u) = v.buffer \o v.outque
    BY <1>2, <1>5, <2>1, NextTransmitted
  <2>. QED
    BY <1>1, <1>2, <2>2
<1>. QED
  BY <1>4, <1>5

LEMMA Started ==
  ASSUME NEW t \in TxT, TxOK(t), NEW u, u = JumpStart(t)
  PROVE  TxOK(u) /\ TxBytes(u) = TxBytes(t)
<1>1. CASE t.transmitting = TRUE
  BY <1>1 DEF JumpStart
<1>2. CASE t.transmitting = FALSE
  <2>1. u = TransmitOrStop(t)
    BY <1>2 DEF JumpStart
  <2>2. t.uart = <<>> /\ Len(t.outque) <= QueSize /\ Len(t.buffer) <= TxLen
    BY <1>2 DEF TxOK
  <2>. QED
    BY <2>1, <2>2, Transmitted
<1>. QED
  BY <1>1, <1>2, TxTyped

LEMMA Written ==
  ASSUME TxOK(tx), NEW bytes \in Seq(Bytes), Len(bytes) <= QueSize, NEW u, u = WriteBuffer(bytes)
  PROVE  /\ TxOK(u)
         /\ Overruns(bytes) = FALSE => TxBytes(u) = TxBytes(tx) \o bytes
         /\ Overruns(bytes) = TRUE => TxBytes(u) = (tx.uart \o tx.buffer) \o bytes
<1> DEFINE q == tx.outque  q2 == (IF Overruns(bytes) THEN <<>> ELSE q) \o bytes
           t == [tx EXCEPT !.outque = q2]
<1>1. /\ q \in Seq(Bytes) /\ Len(q) \in Nat /\ Len(bytes) \in Nat /\ QueSize \in Nat
      /\ tx.buffer \in Seq(Bytes) /\ tx.uart \in Seq(Bytes) /\ tx \in TxT
  BY TxTyped, LenProperties, SizesAssumption DEF TxOK
<1>2. /\ q2 \in Seq(Bytes) /\ Len(q2) <= QueSize
      /\ Overruns(bytes) = FALSE => q2 = q \o bytes
      /\ Overruns(bytes) = TRUE => q2 = bytes
  <2>1. CASE Overruns(bytes) = TRUE
    <3>1. q2 = <<>> \o bytes
      BY <2>1
    <3>2. <<>> \o bytes = bytes
      BY ConcatEmptySeq
    <3>. HIDE DEF q2
    <3>. QED
      BY <2>1, <3>1, <3>2
  <2>2. CASE Overruns(bytes) = FALSE
    <3>1. q2 = q \o bytes
      BY <2>2
    <3>2. ~(Len(q) + Len(bytes) > QueSize)
      BY <2>2 DEF Overruns
    <3>3. q \o bytes \in Seq(Bytes) /\ Len(q \o bytes) = Len(q) + Len(bytes)
      <4>. HIDE DEF q
      <4>. QED
        BY <1>1, ConcatProperties
    <3>. HIDE DEF q2, q
    <3>. QED
      BY <1>1, <2>2, <3>1, <3>2, <3>3
  <2>3. Overruns(bytes) \in BOOLEAN
    BY DEF Overruns
  <2>. HIDE DEF q2
  <2>. QED
    BY <2>1, <2>2, <2>3
<1>3. u = JumpStart(t)
  BY DEF WriteBuffer
<1>. HIDE DEF q2
<1>4. t = [outque |-> q2, buffer |-> tx.buffer, transmitting |-> tx.transmitting, uart |-> tx.uart]
  BY <1>1 DEF TxT
<1>. HIDE DEF t
<1>5. t.outque = q2 /\ t.buffer = tx.buffer /\ t.transmitting = tx.transmitting /\ t.uart = tx.uart
  BY <1>4
<1>6. t \in TxT
  BY <1>1, <1>2, <1>4, TxTyped DEF TxT
<1>7. TxOK(t)
  BY <1>2, <1>5, <1>6 DEF TxOK
<1>8. ASSUME Overruns(bytes) = FALSE PROVE TxBytes(t) = TxBytes(tx) \o bytes
  <2> DEFINE b == tx.uart \o tx.buffer
  <2>1. b \in Seq(Bytes)
    BY <1>1, ConcatProperties
  <2>2. TxBytes(t) = b \o q2 /\ TxBytes(tx) = b \o q
    BY <1>5 DEF TxBytes
  <2>. HIDE DEF b, q
  <2>3. (b \o q) \o bytes = b \o (q \o bytes)
    <3>1. q \in Seq(Bytes)
      BY <1>1
    <3>. QED
      BY <2>1, <3>1, JoinedOn, Z3T(30)
  <2>. QED
    BY <1>2, <1>8, <2>2, <2>3
<1>9. ASSUME Overruns(bytes) = TRUE PROVE TxBytes(t) = (tx.uart \o tx.buffer) \o bytes
  BY <1>2, <1>5, <1>9 DEF TxBytes
<1>. QED
  BY <1>3, <1>6, <1>7, <1>8, <1>9, Started

-----------------------------------------------------------------------------
(***************************************************************************)
(* The serial line: the receiver.                                          *)
(***************************************************************************)
RxT == [inque : Seq(Bytes), receiving : BOOLEAN, uart : Seq(Bytes),
        packet : Seq(Bytes), inescape : BOOLEAN, newpacket : BOOLEAN]
RxOK(r) ==
  /\ r \in RxT
  /\ Len(r.inque) < QueSize /\ Len(r.uart) <= 1 /\ Len(r.packet) <= MaxPacket
  /\ r.receiving = TRUE => r.uart = <<>>

\* What has arrived and has not been read.
RxBytes(r) == r.inque \o r.uart

LEMMA RxTyped ==
  ASSUME NEW r \in RxT
  PROVE  /\ r.inque \in Seq(Bytes) /\ r.uart \in Seq(Bytes) /\ r.packet \in Seq(Bytes)
         /\ r.receiving \in BOOLEAN /\ r.inescape \in BOOLEAN /\ r.newpacket \in BOOLEAN
         /\ Len(r.inque) \in Nat /\ Len(r.uart) \in Nat
         /\ ReaderOf(r) \in Reader /\ ReaderOf(r) = Rec(r.packet, r.inescape, r.newpacket)
         /\ RxBytes(r) \in Seq(Bytes)
<1>1. /\ r.inque \in Seq(Bytes) /\ r.uart \in Seq(Bytes) /\ r.packet \in Seq(Bytes)
      /\ r.receiving \in BOOLEAN /\ r.inescape \in BOOLEAN /\ r.newpacket \in BOOLEAN
  BY DEF RxT
<1>2. Len(r.inque) \in Nat /\ Len(r.uart) \in Nat
  BY <1>1, LenProperties
<1>3. ReaderOf(r) = Rec(r.packet, r.inescape, r.newpacket)
  BY DEF ReaderOf, Rec
<1>4. Rec(r.packet, r.inescape, r.newpacket) \in Reader
  BY <1>1, RecIs
<1>5. RxBytes(r) \in Seq(Bytes)
  BY <1>1, ConcatProperties DEF RxBytes
<1>. QED
  BY <1>1, <1>2, <1>3, <1>4, <1>5

\* The bytes under way are those of the receiver and then those of the sender.
LEMMA UnderwayIs ==
  ASSUME tx \in TxT, rx \in RxT
  PROVE  Underway = RxBytes(rx) \o TxBytes(tx) /\ Underway \in Seq(Bytes)
<1> DEFINE i == RxBytes(rx)  u == tx.uart  b == tx.buffer  q == tx.outque
<1>1. i \in Seq(Bytes) /\ u \in Seq(Bytes) /\ b \in Seq(Bytes) /\ q \in Seq(Bytes)
  BY RxTyped, TxTyped
<1>2. Underway = ((i \o u) \o b) \o q /\ TxBytes(tx) = (u \o b) \o q
  BY DEF Underway, RxBytes, TxBytes
<1>. HIDE DEF i, u, b, q
<1>3. u \o b \in Seq(Bytes) /\ i \o u \in Seq(Bytes)
  BY <1>1, ConcatProperties
<1>4. (i \o u) \o b = i \o (u \o b)
  BY <1>1, JoinedOn, Z3T(30)
<1> DEFINE d == u \o b
<1>5. (i \o d) \o q = i \o (d \o q)
  <2>1. d \in Seq(Bytes)
    BY <1>3
  <2>. HIDE DEF d
  <2>. QED
    BY <1>1, <2>1, JoinedOn, Z3T(30)
<1>6. Underway = i \o TxBytes(tx)
  BY <1>2, <1>4, <1>5
<1>7. TxBytes(tx) \in Seq(Bytes)
  BY TxTyped
<1>. HIDE DEF d
<1>8. i \o TxBytes(tx) \in Seq(Bytes)
  BY <1>1, <1>7, ConcatProperties
<1>. QED
  BY <1>6, <1>8 DEF i

\* No packet exceeds its buffer.
LEMMA PacketsFit ==
  ASSUME NEW r \in Reader, Len(r.packet) <= MaxPacket, NEW bytes \in Seq(Bytes)
  PROVE  \A n \in 0 .. Len(bytes) : Len(Read(r, bytes)[n].packet) <= MaxPacket
<1> DEFINE f == Read(r, bytes)  S == {n \in 0 .. Len(bytes) : Len(f[n].packet) <= MaxPacket}
<1>1. /\ Len(bytes) \in Nat /\ f[0] = Begun(r)
      /\ \A n \in 1 .. Len(bytes) : f[n] = ReadByte(f[n - 1], bytes[n])
      /\ \A n \in 0 .. Len(bytes) : f[n] \in Reader
  BY ReadFacts
<1>2. MaxPacket \in Nat /\ \A n \in 1 .. Len(bytes) : bytes[n] \in Bytes
  BY SizesAssumption, ElementOfSeq
<1>. HIDE DEF f
<1>3. ASSUME NEW v \in Reader, Len(v.packet) <= MaxPacket, NEW t, t = Begun(v)
      PROVE  t \in Reader /\ Len(t.packet) <= MaxPacket
  <2>1. t \in Reader
    BY <1>3, Begins
  <2>2. t = Rec(IF v.newpacket THEN <<>> ELSE v.packet, v.inescape, FALSE) /\ v.newpacket \in BOOLEAN
    BY <1>3, ReaderIs
  <2>3. t.packet = IF v.newpacket THEN <<>> ELSE v.packet
    BY <2>2 DEF Rec
  <2>4. CASE v.newpacket = TRUE
    <3>1. t.packet = <<>>
      BY <2>3, <2>4
    <3>. QED
      BY <1>2, <2>1, <3>1
  <2>5. CASE v.newpacket = FALSE
    <3>1. t.packet = v.packet
      BY <2>3, <2>5
    <3>. QED
      BY <1>3, <2>1, <3>1
  <2>. QED
    BY <2>2, <2>4, <2>5
<1>4. 0 \in S
  BY <1>1, <1>3
<1>5. ASSUME NEW n \in 1 .. Len(bytes), n - 1 \in S PROVE n \in S
  <2> DEFINE v == f[n - 1]  b == bytes[n]  t == Begun(v)  x == ReadByte(v, b)
  <2>1. v \in Reader /\ Len(v.packet) <= MaxPacket /\ b \in Bytes /\ f[n] = x
    BY <1>1, <1>2, <1>5
  <2>. HIDE DEF v, b
  <2>2. t \in Reader /\ Len(t.packet) <= MaxPacket
    BY <1>3, <2>1
  <2>3. x = IF t.inescape /\ b # Frame THEN Rec(t.packet, FALSE, TRUE)
            ELSE IF b = Frame /\ ~t.inescape THEN Rec(t.packet, TRUE, FALSE)
            ELSE Rec(Added(t.packet, b), FALSE, FALSE)
    BY <2>1, ByteRead
  <2>. HIDE DEF t, x, Frame
  <2>4. x.packet = t.packet \/ x.packet = Added(t.packet, b)
    BY <2>3 DEF Rec
  <2> DEFINE a == Added(t.packet, b)
  <2>5. Len(a) <= MaxPacket
    <3>1. t.packet \in Seq(Bytes)
      BY <2>2, ReaderIs
    <3>2. CASE Len(t.packet) < MaxPacket
      <4> DEFINE p == t.packet
      <4>1. a = Append(p, b) /\ p \in Seq(Bytes) /\ Len(p) < MaxPacket
        BY <3>1, <3>2 DEF Added
      <4>. HIDE DEF p, a
      <4>2. Len(Append(p, b)) = Len(p) + 1 /\ Len(p) \in Nat
        BY <2>1, <4>1, AppendProperties, LenProperties
      <4>. QED
        BY <1>2, <4>1, <4>2
    <3>3. CASE ~(Len(t.packet) < MaxPacket)
      <4>1. a = t.packet
        BY <3>3 DEF Added
      <4>. HIDE DEF a
      <4>. QED
        BY <2>2, <4>1
    <3>. QED
      BY <3>2, <3>3
  <2>. HIDE DEF a
  <2>6. Len(x.packet) <= MaxPacket
    BY <2>2, <2>4, <2>5 DEF a
  <2>. QED
    BY <2>1, <2>6
<1>. QED
  <2>1. 0 .. Len(bytes) \subseteq S
    <3>. HIDE DEF S
    <3>. QED
      BY <1>1, <1>4, <1>5, UpTo
  <2>. QED
    BY <2>1 DEF f

\* ReadPacket reads until a packet ends: of the bytes that it reads, only the last can end one.
ReadUpTo(r, bytes) == Min({k \in DOMAIN bytes : Read(r, bytes)[k].newpacket} \cup {Len(bytes)})
OnePacket(r, a, s) ==
  /\ s = After(r, a)
  /\ s.newpacket = TRUE => Packets(r, a) = <<s.packet>>
  /\ s.newpacket = FALSE => Packets(r, a) = <<>>

LEMMA PacketRead ==
  ASSUME NEW r \in Reader, NEW bytes \in Seq(Bytes), NEW n, n = ReadUpTo(r, bytes)
  PROVE  n \in 0 .. Len(bytes) /\ OnePacket(r, SubSeq(bytes, 1, n), Read(r, bytes)[n])
<1> DEFINE f == Read(r, bytes)  N == {k \in DOMAIN bytes : f[k].newpacket} \cup {Len(bytes)}
           a == SubSeq(bytes, 1, n)  m == Made(r, bytes)
<1>1. Len(bytes) \in Nat /\ DOMAIN bytes = 1 .. Len(bytes)
  BY LenProperties
<1>2. n \in N /\ \A k \in N : n <= k
  <2>1. N \in SUBSET Nat /\ N # {}
    BY <1>1
  <2>2. n = CHOOSE x \in N : \A y \in N : x <= y
    BY DEF ReadUpTo, Min
  <2>. HIDE DEF N
  <2>. QED
    BY <2>1, <2>2, LeastNumber
<1>3. n \in 0 .. Len(bytes) /\ n \in Nat
  BY <1>1, <1>2
<1>4. /\ f[0] = Begun(r) /\ m[0] = <<>>
      /\ \A k \in 0 .. Len(bytes) : f[k] \in Reader
      /\ \A k \in 1 .. Len(bytes) : m[k] = IF f[k].newpacket THEN Append(m[k - 1], f[k].packet) ELSE m[k - 1]
  BY ReadFacts, MadeFacts
<1>5. \A k \in 1 .. n - 1 : ~f[k].newpacket
  BY <1>1, <1>2, <1>3
<1>. HIDE DEF f, m
<1>6. \A k \in 0 .. n - 1 : m[k] = <<>>
  <2> DEFINE S == {k \in 0 .. n - 1 : m[k] = <<>>}
  <2>1. CASE n = 0
    BY <2>1
  <2>2. CASE n # 0
    <3>1. n - 1 \in Nat /\ 0 \in S
      BY <1>3, <1>4, <2>2
    <3>2. ASSUME NEW k \in 1 .. n - 1, k - 1 \in S PROVE k \in S
      <4>1. m[k - 1] = <<>> /\ k \in 1 .. Len(bytes) /\ k \in 0 .. n - 1
        BY <1>1, <1>3, <3>2
      <4>2. m[k] = m[k - 1]
        BY <1>4, <1>5, <4>1
      <4>. QED
        BY <4>1, <4>2
    <3>3. 0 .. n - 1 \subseteq S
      <4>. HIDE DEF S
      <4>. QED
        BY <3>1, <3>2, UpTo
    <3>. QED
      BY <3>3
  <2>. QED
    BY <2>1, <2>2
<1>7. a \in Seq(Bytes) /\ Len(a) = n /\ \A i \in 1 .. n : a[i] = bytes[i]
  BY <1>3, Parts DEF PartsOf
<1>. HIDE DEF a
<1>8. f[n] = After(r, a) /\ m[n] = Packets(r, a)
  <2>1. n <= Len(a) /\ n <= Len(bytes) /\ n \in 0 .. n
    BY <1>1, <1>3, <1>7
  <2>2. \A k \in 0 .. n : Read(r, bytes)[k] = Read(r, a)[k] /\ Made(r, bytes)[k] = Made(r, a)[k]
    BY <1>3, <1>7, <2>1, ReadAlike
  <2>. QED
    BY <1>7, <2>1, <2>2 DEF After, Packets, f, m
<1> DEFINE s == f[n]
<1>9. /\ s.newpacket = TRUE => m[n] = <<s.packet>>
      /\ s.newpacket = FALSE => m[n] = <<>>
  <2>1. CASE n = 0
    <3>1. s = Begun(r) /\ m[n] = <<>>
      BY <1>4, <2>1
    <3>. HIDE DEF s
    <3>2. s.newpacket = FALSE
      BY <3>1, Begins
    <3>. QED
      BY <3>1, <3>2
  <2>2. CASE n # 0
    <3>1. n \in 1 .. Len(bytes) /\ n - 1 \in 0 .. n - 1
      BY <1>1, <1>3, <2>2
    <3>2. m[n] = IF s.newpacket THEN Append(m[n - 1], s.packet) ELSE m[n - 1]
      BY <1>4, <3>1
    <3>3. m[n - 1] = <<>>
      BY <1>6, <3>1
    <3>4. s.packet \in Seq(Bytes)
      <4>1. s \in Reader
        BY <1>3, <1>4
      <4>. HIDE DEF s
      <4>. QED
        BY <4>1, ReaderIs
    <3> DEFINE p == s.packet  e == <<>>
    <3>5. Append(e, p) = <<p>>
      <4>1. e \in Seq(Seq(Bytes)) /\ p \in Seq(Bytes) /\ <<p>> \in Seq(Seq(Bytes))
        BY <3>4
      <4>. HIDE DEF p
      <4>2. Append(e, p) = e \o <<p>>
        BY <4>1, AppendIsConcat
      <4>3. e \o <<p>> = <<p>>
        BY <4>1, ConcatEmptySeq
      <4>. QED
        BY <4>2, <4>3
    <3>. HIDE DEF s
    <3>6. CASE s.newpacket = TRUE
      BY <3>2, <3>3, <3>5, <3>6
    <3>7. CASE s.newpacket = FALSE
      BY <3>2, <3>3, <3>7
    <3>. QED
      BY <3>6, <3>7
  <2>. QED
    BY <2>1, <2>2
<1>. HIDE DEF s
<1>10. OnePacket(r, a, s)
  BY <1>8, <1>9 DEF OnePacket, s
<1>. QED
  BY <1>3, <1>10 DEF a, s, f

\* The call takes bytes from the front of what has arrived.
Takes(r, w, a) ==
  a \in Seq(Bytes) /\ RxBytes(r) = a \o RxBytes(w) /\ OnePacket(ReaderOf(r), a, ReaderOf(w))

\* What has arrived in inque, or in the UART as well.
LEMMA ArrivedFacts ==
  ASSUME NEW r \in RxT, RxOK(r), ~Overflowing(r), NEW on, on = (r.receiving \/ r.inque # <<>>),
         NEW u, u = IF on THEN <<>> ELSE r.uart, NEW bytes, bytes = Arrived(r)
  PROVE  /\ bytes \in Seq(Bytes) /\ u \in Seq(Bytes) /\ Len(u) <= 1 /\ on \in BOOLEAN
         /\ bytes \o u = RxBytes(r) /\ Len(bytes) < QueSize
<1> DEFINE q == r.inque  v == r.uart
<1>1. /\ q \in Seq(Bytes) /\ v \in Seq(Bytes) /\ Len(q) \in Nat /\ Len(v) \in Nat
      /\ r.receiving \in BOOLEAN /\ QueSize \in Nat
  BY RxTyped, SizesAssumption
<1>2. Len(q) <= QueSize - 4 /\ Len(v) <= 1 /\ (r.receiving = TRUE => v = <<>>)
  <2>1. ~(Len(q) > QueSize - 4)
    BY DEF Overflowing
  <2>2. Len(v) <= 1 /\ (r.receiving = TRUE => v = <<>>)
    BY DEF RxOK
  <2>. HIDE DEF q, v
  <2>. QED
    BY <1>1, <2>1, <2>2
<1>3. RxBytes(r) = q \o v
  BY DEF RxBytes
<1>4. bytes = IF q = <<>> \/ r.receiving THEN q ELSE q \o v
  BY DEF Arrived
<1>5. on = (r.receiving \/ q # <<>>) /\ u = IF on THEN <<>> ELSE v
  OBVIOUS
<1>. HIDE DEF q, v
<1>6. q \o v \in Seq(Bytes) /\ Len(q \o v) = Len(q) + Len(v) /\ q \o <<>> = q /\ (q \o v) \o <<>> = q \o v
  <2>1. q \o v \in Seq(Bytes) /\ Len(q \o v) = Len(q) + Len(v)
    BY <1>1, ConcatProperties
  <2> DEFINE c == q \o v
  <2>2. c \o <<>> = c
    <3>1. c \in Seq(Bytes)
      BY <2>1
    <3>. HIDE DEF c
    <3>. QED
      BY <3>1, ConcatEmptySeq
  <2>3. q \o <<>> = q
    BY <1>1, ConcatEmptySeq
  <2>. QED
    BY <2>1, <2>2, <2>3
<1>7. Len(<<>>) <= 1 /\ <<>> \in Seq(Bytes)
  OBVIOUS
<1> DEFINE c == q \o v
<1>8. c \in Seq(Bytes) /\ Len(c) = Len(q) + Len(v) /\ c \o <<>> = c /\ RxBytes(r) = c
      /\ bytes = IF q = <<>> \/ r.receiving THEN q ELSE c
  BY <1>3, <1>4, <1>6
<1>9. CASE r.receiving = TRUE
  <2>1. v = <<>> /\ on = TRUE
    BY <1>2, <1>5, <1>9
  <2>2. u = <<>> /\ bytes = q
    BY <1>4, <1>5, <1>9, <2>1
  <2>. QED
    BY <1>1, <1>2, <1>3, <1>6, <1>7, <2>1, <2>2
<1>10. CASE r.receiving = FALSE /\ q # <<>>
  <2>1. u = <<>> /\ on = TRUE
    BY <1>5, <1>10
  <2>2. bytes = c
    BY <1>8, <1>10
  <2>. HIDE DEF c
  <2>3. Len(c) < QueSize
    BY <1>1, <1>2, <1>8
  <2>. QED
    BY <1>7, <1>8, <2>1, <2>2, <2>3
<1>11. CASE r.receiving = FALSE /\ q = <<>>
  <2>1. u = v /\ bytes = q /\ on = FALSE
    BY <1>4, <1>5, <1>11
  <2>. QED
    BY <1>1, <1>2, <1>3, <2>1
<1>. QED
  BY <1>1, <1>9, <1>10, <1>11

LEMMA ReadPacketKeeps ==
  ASSUME NEW r \in RxT, RxOK(r), ~Overflowing(r), NEW w, w = ReadPacket(r)
  PROVE  RxOK(w) /\ \E a : Takes(r, w, a)
<1> DEFINE bytes == Arrived(r)  f == Read(ReaderOf(r), bytes)  n == ReadUpTo(ReaderOf(r), bytes)
           a == SubSeq(bytes, 1, n)  rest == SubSeq(bytes, n + 1, Len(bytes))
           on == r.receiving \/ r.inque # <<>>  u == IF on THEN <<>> ELSE r.uart
           s == f[n]
<1>1. w = [inque |-> rest, receiving |-> on, uart |-> u,
           packet |-> s.packet, inescape |-> s.inescape, newpacket |-> s.newpacket]
  BY DEF ReadPacket, ReadUpTo
<1>2. /\ bytes \in Seq(Bytes) /\ u \in Seq(Bytes) /\ Len(u) <= 1 /\ on \in BOOLEAN
      /\ bytes \o u = RxBytes(r) /\ Len(bytes) < QueSize
  BY ArrivedFacts
<1>3. ReaderOf(r) \in Reader /\ ReaderOf(r).packet = r.packet
  <2>1. ReaderOf(r) \in Reader
    BY RxTyped
  <2>2. ReaderOf(r).packet = r.packet
    BY DEF ReaderOf
  <2>. QED
    BY <2>1, <2>2
<1>. HIDE DEF bytes
<1>4. n \in 0 .. Len(bytes) /\ OnePacket(ReaderOf(r), a, s)
  <2>. HIDE DEF n
  <2>1. n = ReadUpTo(ReaderOf(r), bytes)
    BY DEF n
  <2>. QED
    BY <1>2, <1>3, <2>1, PacketRead
<1>5. s \in Reader /\ Len(s.packet) <= MaxPacket
  <2> DEFINE t == ReaderOf(r)
  <2>1. Len(t.packet) <= MaxPacket
    BY <1>3 DEF RxOK
  <2>2. t \in Reader /\ f = Read(t, bytes)
    BY <1>3
  <2>. HIDE DEF t, n, f
  <2>3. \A k \in 0 .. Len(bytes) : f[k] \in Reader
    BY <1>2, <2>2, ReadFacts
  <2>4. \A k \in 0 .. Len(bytes) : Len(f[k].packet) <= MaxPacket
    BY <1>2, <2>1, <2>2, PacketsFit
  <2>. QED
    BY <1>4, <2>3, <2>4
<1>. HIDE DEF n, s, on, u, f
<1>6. PartsOf(bytes, n, a, rest)
  BY <1>2, <1>4, Parts
<1>. HIDE DEF a, rest
<1>7. a \in Seq(Bytes) /\ rest \in Seq(Bytes) /\ Len(rest) = Len(bytes) - n /\ a \o rest = bytes
  BY <1>6 DEF PartsOf
<1>8. /\ w.inque = rest /\ w.receiving = on /\ w.uart = u
      /\ w.packet = s.packet /\ w.inescape = s.inescape /\ w.newpacket = s.newpacket
  BY <1>1
<1>9. w \in RxT
  <2>1. s.packet \in Seq(Bytes) /\ s.inescape \in BOOLEAN /\ s.newpacket \in BOOLEAN
    BY <1>5, ReaderIs
  <2>. QED
    BY <1>1, <1>2, <1>7, <2>1 DEF RxT
<1>10. RxOK(w)
  <2>1. Len(rest) < QueSize
    <3>1. Len(bytes) \in Nat /\ QueSize \in Nat
      BY <1>2, LenProperties, SizesAssumption
    <3>. QED
      BY <1>2, <1>4, <1>7, <3>1
  <2>2. on = TRUE => u = <<>>
    BY DEF u
  <2>. QED
    BY <1>2, <1>5, <1>8, <1>9, <2>1, <2>2 DEF RxOK
<1>11. ReaderOf(w) = s
  <2>1. s = Rec(s.packet, s.inescape, s.newpacket)
    BY <1>5, ReaderIs
  <2>2. ReaderOf(w) = Rec(w.packet, w.inescape, w.newpacket)
    BY DEF ReaderOf, Rec
  <2>. QED
    BY <1>8, <2>1, <2>2
<1>12. RxBytes(r) = a \o RxBytes(w)
  <2>1. (a \o rest) \o u = a \o (rest \o u)
    <3>1. u \in Seq(Bytes) /\ a \in Seq(Bytes) /\ rest \in Seq(Bytes)
      BY <1>2, <1>7
    <3>. QED
      BY <3>1, JoinedOn, Z3T(30)
  <2>2. RxBytes(w) = rest \o u
    BY <1>8 DEF RxBytes
  <2>. QED
    BY <1>2, <1>7, <2>1, <2>2
<1>13. Takes(r, w, a)
  BY <1>4, <1>7, <1>11, <1>12 DEF Takes
<1>. QED
  BY <1>10, <1>13

\* The UART has sent its byte.
WithoutByte(t) == [t EXCEPT !.uart = <<>>]

LEMMA ByteLeaves ==
  ASSUME NEW t, TxOK(t), t.uart # <<>>, NEW w, w = WithoutByte(t)
  PROVE  /\ TxOK(w) /\ t.uart[1] \in Bytes /\ t.uart = <<t.uart[1]>>
         /\ TxBytes(t) = t.uart \o TxBytes(w)
<1> DEFINE u == t.uart  b == t.buffer  q == t.outque
<1>1. /\ u \in Seq(Bytes) /\ b \in Seq(Bytes) /\ q \in Seq(Bytes) /\ t \in TxT
      /\ t.transmitting \in BOOLEAN
  BY TxTyped DEF TxOK
<1>2. w = [outque |-> q, buffer |-> b, transmitting |-> t.transmitting, uart |-> <<>>]
  BY <1>1 DEF TxT, WithoutByte
<1>3. w.outque = q /\ w.buffer = b /\ w.transmitting = t.transmitting /\ w.uart = <<>>
  BY <1>2
<1>4. w \in TxT
  <2> DEFINE e == <<>>  on == t.transmitting
  <2>1. e \in Seq(Bytes) /\ on \in BOOLEAN
    BY <1>1
  <2>2. w = [outque |-> q, buffer |-> b, transmitting |-> on, uart |-> e]
    BY <1>2
  <2>. HIDE DEF e, on, q, b
  <2>. QED
    BY <1>1, <2>1, <2>2 DEF TxT
<1>5. TxOK(w)
  <2>1. Len(q) <= QueSize /\ Len(b) <= TxLen /\ Len(w.uart) <= 1
    BY <1>3 DEF TxOK
  <2>. HIDE DEF q, b
  <2>. QED
    BY <1>3, <1>4, <2>1 DEF TxOK
<1>6. Len(u) = 1
  <2>1. Len(u) <= 1
    BY DEF TxOK
  <2>2. Len(u) \in Nat /\ Len(u) # 0
    BY <1>1, EmptySeq
  <2> DEFINE n == Len(u)
  <2>3. n <= 1 /\ n \in Nat /\ n # 0
    BY <2>1, <2>2
  <2>. HIDE DEF n
  <2>4. n = 1
    BY <2>3
  <2>. QED
    BY <2>4 DEF n
<1>7. TxBytes(w) = b \o q
  <2>1. <<>> \o b = b
    BY <1>1, ConcatEmptySeq
  <2>. QED
    BY <1>3, <2>1 DEF TxBytes
<1>8. TxBytes(t) = (u \o b) \o q
  BY DEF TxBytes
<1>. HIDE DEF u, b, q
<1>9. (u \o b) \o q = u \o (b \o q)
  BY <1>1, JoinedOn, Z3T(30)
<1>10. u[1] \in Bytes /\ u = <<u[1]>>
  <2>1. u[1] \in Bytes
    <3>1. 1 \in 1 .. Len(u)
      BY <1>6
    <3>. QED
      BY <1>1, <3>1, ElementOfSeq
  <2>2. <<u[1]>> \in Seq(Bytes) /\ Len(<<u[1]>>) = 1 /\ <<u[1]>>[1] = u[1]
    BY <2>1
  <2> DEFINE one == <<u[1]>>
  <2>3. one \in Seq(Bytes) /\ Len(u) = Len(one) /\ \A i \in 1 .. Len(u) : u[i] = one[i]
    BY <1>6, <2>2
  <2>. HIDE DEF one
  <2>4. u = one
    BY <1>1, <2>3, SeqEqual
  <2>. QED
    BY <2>1, <2>4 DEF one
<1>. QED
  BY <1>5, <1>7, <1>8, <1>9, <1>10 DEF u

OneByte(u, b) == u = <<b>>
WithByte(r, b, u) == IF r.receiving THEN DoReceiveByte(r, b) ELSE [r EXCEPT !.uart = u]

\* The byte is in inque or waits in the UART, unless that upsets the reader.
LEMMA ByteArrives ==
  ASSUME NEW r, RxOK(r), NEW b \in Bytes, NEW u, OneByte(u, b),
         NEW w, w = WithByte(r, b, u)
  PROVE  /\ RxOK(w) /\ ReaderOf(w) = ReaderOf(r)
         /\ ~((r.receiving /\ IsFull(r)) \/ r.uart # <<>>) => RxBytes(w) = RxBytes(r) \o u
<1> DEFINE q == r.inque  v == r.uart
<1>1. /\ r \in RxT /\ q \in Seq(Bytes) /\ v \in Seq(Bytes) /\ Len(q) \in Nat /\ r.receiving \in BOOLEAN
      /\ r.packet \in Seq(Bytes) /\ r.inescape \in BOOLEAN /\ r.newpacket \in BOOLEAN
  BY RxTyped DEF RxOK
<1>2. Len(q) < QueSize /\ Len(v) <= 1 /\ Len(r.packet) <= MaxPacket /\ (r.receiving = TRUE => v = <<>>)
  BY DEF RxOK
<1>3. u \in Seq(Bytes) /\ Len(u) <= 1
  BY DEF Bytes, OneByte
<1>4. QueSize \in Nat
  BY SizesAssumption
<1>5. CASE r.receiving = TRUE /\ IsFull(r)
  <2>1. w = [inque |-> q, receiving |-> FALSE, uart |-> v,
             packet |-> r.packet, inescape |-> r.inescape, newpacket |-> r.newpacket]
    BY <1>1, <1>5 DEF WithByte, DoReceiveByte, RxT
  <2>2. w.inque = q /\ w.receiving = FALSE /\ w.uart = v /\ w.packet = r.packet
    BY <2>1
  <2>3. ReaderOf(w) = ReaderOf(r)
    BY <2>1 DEF ReaderOf
  <2>4. w \in RxT
    <3> DEFINE on == FALSE  pkt == r.packet  esc == r.inescape  new == r.newpacket
    <3>1. /\ on \in BOOLEAN /\ pkt \in Seq(Bytes) /\ esc \in BOOLEAN /\ new \in BOOLEAN
        /\ w = [inque |-> q, receiving |-> on, uart |-> v, packet |-> pkt, inescape |-> esc, newpacket |-> new]
      BY <1>1, <2>1
    <3>. HIDE DEF on, pkt, esc, new, q, v
    <3>. QED
      BY <1>1, <3>1 DEF RxT
  <2>. HIDE DEF q, v
  <2>5. RxOK(w)
    BY <1>2, <2>2, <2>4 DEF RxOK
  <2>. QED
    BY <1>5, <2>3, <2>5
<1>6. CASE r.receiving = TRUE /\ ~IsFull(r)
  <2> DEFINE a == Append(q, b)
  <2>1. w = [inque |-> a, receiving |-> r.receiving, uart |-> v,
             packet |-> r.packet, inescape |-> r.inescape, newpacket |-> r.newpacket]
    BY <1>1, <1>6 DEF WithByte, DoReceiveByte, RxT
  <2>2. a \in Seq(Bytes) /\ Len(a) = Len(q) + 1 /\ a = q \o u
    <3>. HIDE DEF q
    <3>1. Append(q, b) \in Seq(Bytes) /\ Len(Append(q, b)) = Len(q) + 1 /\ Append(q, b) = q \o <<b>>
      BY <1>1, AppendProperties, AppendIsConcat
    <3>. QED
      BY <3>1 DEF OneByte
  <2>3. v = <<>> /\ Len(q) # QueSize - 1
    BY <1>2, <1>6 DEF IsFull
  <2>. HIDE DEF a
  <2>4. w.inque = a /\ w.receiving = r.receiving /\ w.uart = v /\ w.packet = r.packet
    BY <2>1
  <2>5. ReaderOf(w) = ReaderOf(r)
    BY <2>1 DEF ReaderOf
  <2>6. w \in RxT
    <3> DEFINE on == r.receiving  pkt == r.packet  esc == r.inescape  new == r.newpacket
    <3>1. /\ on \in BOOLEAN /\ pkt \in Seq(Bytes) /\ esc \in BOOLEAN /\ new \in BOOLEAN
        /\ w = [inque |-> a, receiving |-> on, uart |-> v, packet |-> pkt, inescape |-> esc, newpacket |-> new]
      BY <1>1, <2>1
    <3>. HIDE DEF on, pkt, esc, new, q, v
    <3>2. a \in Seq(Bytes)
      BY <2>2
    <3>. QED
      BY <1>1, <3>1, <3>2 DEF RxT
  <2>. HIDE DEF q, v
  <2>7. Len(a) < QueSize
    BY <1>1, <1>2, <1>4, <2>2, <2>3
  <2>8. RxOK(w)
    BY <1>2, <1>6, <2>3, <2>4, <2>6, <2>7 DEF RxOK
  <2>9. RxBytes(w) = RxBytes(r) \o u
    <3>1. RxBytes(w) = a \o <<>>
      BY <2>3, <2>4 DEF RxBytes
    <3>2. RxBytes(r) = q \o <<>>
      BY <2>3 DEF RxBytes, q, v
    <3>3. a \o <<>> = a /\ q \o <<>> = q
      BY <1>1, <2>2, ConcatEmptySeq
    <3>. QED
      BY <2>2, <3>1, <3>2, <3>3
  <2>. QED
    BY <2>5, <2>8, <2>9
<1>7. CASE r.receiving = FALSE
  <2>1. w = [inque |-> q, receiving |-> FALSE, uart |-> u,
             packet |-> r.packet, inescape |-> r.inescape, newpacket |-> r.newpacket]
    BY <1>1, <1>7 DEF WithByte, RxT
  <2>2. w.inque = q /\ w.receiving = FALSE /\ w.uart = u /\ w.packet = r.packet
    BY <2>1
  <2>3. ReaderOf(w) = ReaderOf(r)
    BY <2>1 DEF ReaderOf
  <2>4. w \in RxT
    <3> DEFINE on == FALSE  pkt == r.packet  esc == r.inescape  new == r.newpacket
    <3>1. /\ on \in BOOLEAN /\ pkt \in Seq(Bytes) /\ esc \in BOOLEAN /\ new \in BOOLEAN
        /\ w = [inque |-> q, receiving |-> on, uart |-> u, packet |-> pkt, inescape |-> esc, newpacket |-> new]
      BY <1>1, <2>1
    <3>. HIDE DEF on, pkt, esc, new, q
    <3>2. u \in Seq(Bytes)
      BY <1>3
    <3>. QED
      BY <1>1, <3>1, <3>2 DEF RxT
  <2>. HIDE DEF q
  <2>5. RxOK(w)
    BY <1>2, <1>3, <2>2, <2>4 DEF RxOK
  <2>6. ASSUME v = <<>> PROVE RxBytes(w) = RxBytes(r) \o u
    <3>1. RxBytes(w) = q \o u
      BY <2>2 DEF RxBytes
    <3>2. RxBytes(r) = q \o <<>>
      BY <2>6 DEF RxBytes, q
    <3>3. q \o <<>> = q
      BY <1>1, ConcatEmptySeq
    <3>. QED
      BY <3>1, <3>2, <3>3
  <2>. QED
    BY <2>3, <2>5, <2>6
<1>. QED
  BY <1>1, <1>5, <1>6, <1>7

\* What is thrown out of inque ends a packet.
LEMMA ThrownOut ==
  ASSUME NEW r, RxOK(r), NEW w, w = [r EXCEPT !.inque = <<>>, !.newpacket = TRUE]
  PROVE  RxOK(w)
<1>1. /\ r \in RxT /\ r.uart \in Seq(Bytes) /\ r.receiving \in BOOLEAN
      /\ r.packet \in Seq(Bytes) /\ r.inescape \in BOOLEAN
  BY RxTyped DEF RxOK
<1>2. w = [inque |-> <<>>, receiving |-> r.receiving, uart |-> r.uart,
           packet |-> r.packet, inescape |-> r.inescape, newpacket |-> TRUE]
  BY <1>1 DEF RxT
<1>3. w.inque = <<>> /\ w.receiving = r.receiving /\ w.uart = r.uart /\ w.packet = r.packet
  BY <1>2
<1>4. w \in RxT
  <2> DEFINE q == <<>>  v == r.uart
  <2>2. q \in Seq(Bytes) /\ v \in Seq(Bytes)
    BY <1>1
  <2>3. w = [inque |-> q, receiving |-> r.receiving, uart |-> v, packet |-> r.packet,
             inescape |-> r.inescape, newpacket |-> TRUE]
    BY <1>2
  <2> DEFINE on == r.receiving  pkt == r.packet  esc == r.inescape  new == TRUE
  <2>4. /\ on \in BOOLEAN /\ pkt \in Seq(Bytes) /\ esc \in BOOLEAN /\ new \in BOOLEAN
      /\ w = [inque |-> q, receiving |-> on, uart |-> v, packet |-> pkt, inescape |-> esc, newpacket |-> new]
    BY <1>1, <2>3
  <2>. HIDE DEF on, pkt, esc, new, q, v
  <2>. QED
    BY <1>1, <2>2, <2>4 DEF RxT
<1>5. Len(w.inque) < QueSize
  <2>1. QueSize \in Nat \ {0} /\ Len(<<>>) = 0
    BY SizesAssumption
  <2>. QED
    BY <1>3, <2>1
<1>. QED
  BY <1>3, <1>4, <1>5 DEF RxOK

-----------------------------------------------------------------------------
(***************************************************************************)
(* The serial line: the inductive invariant, and the steps.                *)
(***************************************************************************)

\* The packets g and those that the reader r will make of the bytes u are s, and there u ends
\* with a packet, so that the reader will make of the next frame what it was made of.
InStep(g, r, u, s) == g \o Packets(r, u) = s /\ Stands(r, u, <<>>, FALSE)

LineTypes ==
  /\ TxOK(tx) /\ RxOK(rx)
  /\ sent \in Seq(Seq(Bytes)) /\ got \in Seq(Seq(Bytes)) /\ noise \in 0 .. MaxNoise /\ upsets \in Nat
LineInv == LineTypes /\ (upsets = 0 => InStep(got, ReaderOf(rx), Underway, sent))

LEMMA LineTyped ==
  ASSUME LineTypes
  PROVE  /\ tx \in TxT /\ rx \in RxT /\ Underway = RxBytes(rx) \o TxBytes(tx) /\ Underway \in Seq(Bytes)
         /\ RxBytes(rx) \in Seq(Bytes) /\ TxBytes(tx) \in Seq(Bytes) /\ ReaderOf(rx) \in Reader
         /\ Packets(ReaderOf(rx), Underway) \in Seq(Seq(Bytes))
<1>1. tx \in TxT /\ rx \in RxT
  BY DEF LineTypes, TxOK, RxOK
<1>2. Underway = RxBytes(rx) \o TxBytes(tx) /\ Underway \in Seq(Bytes)
  BY <1>1, UnderwayIs
<1>3. RxBytes(rx) \in Seq(Bytes) /\ TxBytes(tx) \in Seq(Bytes) /\ ReaderOf(rx) \in Reader
  BY <1>1, RxTyped, TxTyped
<1>4. Packets(ReaderOf(rx), Underway) \in Seq(Seq(Bytes))
  BY <1>2, <1>3, AfterFacts
<1>. QED
  BY <1>1, <1>2, <1>3, <1>4

\* The next state, typed.
LEMMA UnderwayNext ==
  ASSUME TxOK(tx'), RxOK(rx')
  PROVE  Underway' = RxBytes(rx') \o TxBytes(tx') /\ Underway' \in Seq(Bytes)
<1> DEFINE i == RxBytes(rx')  u == tx'.uart  b == tx'.buffer  q == tx'.outque
<1>0. rx' \in RxT /\ tx' \in TxT
  BY DEF TxOK, RxOK
<1>1. i \in Seq(Bytes) /\ u \in Seq(Bytes) /\ b \in Seq(Bytes) /\ q \in Seq(Bytes) /\ TxBytes(tx') \in Seq(Bytes)
  BY <1>0, RxTyped, TxTyped
<1>2. Underway' = ((i \o u) \o b) \o q /\ TxBytes(tx') = (u \o b) \o q
  BY DEF Underway, RxBytes, TxBytes
<1>. HIDE DEF i, u, b, q
<1> DEFINE d == u \o b
<1>3. d \in Seq(Bytes)
  BY <1>1, ConcatProperties
<1>4. (i \o u) \o b = i \o d
  BY <1>1, JoinedOn, Z3T(30)
<1>5. TxBytes(tx') = d \o q
  BY <1>2
<1>. HIDE DEF d
<1>6. (i \o d) \o q = i \o (d \o q)
  BY <1>1, <1>3, JoinedOn, Z3T(30)
<1>7. Underway' = i \o TxBytes(tx')
  BY <1>2, <1>4, <1>5, <1>6
<1>8. i \o TxBytes(tx') \in Seq(Bytes)
  BY <1>1, ConcatProperties
<1>. QED
  BY <1>7, <1>8 DEF i

LEMMA LineStart == LineInit => LineInv
<1>. SUFFICES ASSUME LineInit PROVE LineInv
  OBVIOUS
<1>1. /\ tx.outque = <<>> /\ tx.buffer = <<>> /\ tx.transmitting = FALSE /\ tx.uart = <<>>
      /\ tx \in TxT
  BY DEF LineInit, TxT
<1>2. /\ rx.inque = <<>> /\ rx.receiving = TRUE /\ rx.uart = <<>> /\ rx.packet = <<>>
      /\ rx.inescape = FALSE /\ rx.newpacket = FALSE /\ rx \in RxT
  BY DEF LineInit, RxT
<1>3. QueSize \in Nat \ {0} /\ TxLen \in Nat /\ MaxPacket \in Nat /\ MaxNoise \in Nat /\ Len(<<>>) = 0
  BY SizesAssumption, NoiseAssumption
<1>4. TxOK(tx) /\ RxOK(rx)
  BY <1>1, <1>2, <1>3 DEF TxOK, RxOK
<1>5. sent = <<>> /\ got = <<>> /\ noise = 0 /\ upsets = 0 /\ <<>> \in Seq(Seq(Bytes))
  BY DEF LineInit
<1>6. LineTypes
  BY <1>3, <1>4, <1>5 DEF LineTypes
<1>7. Underway = <<>>
  <2>1. <<>> \o <<>> = <<>>
    BY ConcatEmptySeq
  <2>. QED
    BY <1>1, <1>2, <2>1 DEF Underway
<1> DEFINE r == ReaderOf(rx)
<1>8. r \in Reader /\ r = Rec(<<>>, FALSE, FALSE)
  BY <1>2, RxTyped
<1>. HIDE DEF r
<1>9. After(r, <<>>) = Begun(r) /\ Packets(r, <<>>) = <<>>
  BY <1>8, NothingRead
<1>10. Begun(r) = Rec(<<>>, FALSE, FALSE)
  <2>1. <<>> \in Seq(Bytes)
    OBVIOUS
  <2>. QED
    BY <1>8, <2>1, BegunRec
<1>11. Stands(r, <<>>, <<>>, FALSE)
  <2>1. Begun(Begun(r)) = Begun(r)
    BY <1>8, Begins
  <2>. QED
    BY <1>9, <1>10, <2>1 DEF Stands
<1>12. <<>> \o Packets(r, <<>>) = <<>>
  BY <1>9, ConcatEmptySeq
<1>13. InStep(got, r, Underway, sent)
  BY <1>5, <1>7, <1>11, <1>12 DEF InStep
<1>. QED
  BY <1>6, <1>13 DEF LineInv, r

LEMMA AppendedOn ==
  ASSUME NEW a \in Seq(Seq(Bytes)), NEW b \in Seq(Seq(Bytes)), NEW p \in Seq(Bytes)
  PROVE  a \o Append(b, p) = Append(a \o b, p)
<1> DEFINE one == <<p>>  c == a \o b
<1>1. one \in Seq(Seq(Bytes)) /\ c \in Seq(Seq(Bytes))
  BY ConcatProperties
<1>. HIDE DEF c
<1>2. Append(b, p) = b \o one /\ Append(c, p) = c \o one
  BY <1>1, AppendIsConcat
<1>. HIDE DEF one
<1>3. (a \o b) \o one = a \o (b \o one)
  <2> DEFINE T == Seq(Bytes)
  <2>1. a \in Seq(T) /\ b \in Seq(T) /\ one \in Seq(T)
    BY <1>1
  <2>. HIDE DEF T
  <2>. QED
    BY <2>1, ConcatAssociative, Z3T(30)
<1>. QED
  BY <1>2, <1>3 DEF c

\* What is sent, and its frame, which fits into the queue.
LEMMA SendTyped ==
  ASSUME LineTypes, NEW p, CmdSend(p), NEW f, f = Framed(p)
  PROVE  /\ p \in Seq(Bytes) /\ Len(p) \in Nat /\ Len(p) <= MaxPacket
         /\ f \in Seq(Bytes) /\ Len(f) <= QueSize
<1>1. p \in Seq(Bytes) /\ Len(p) \in Nat /\ Len(p) <= MaxPacket
  <2> DEFINE i == Len(sent) + 1
  <2>1. Len(sent) \in Nat /\ Len(sent) < Len(Contents) /\ p \in Contents[i]
    BY LenProperties DEF CmdSend, LineTypes
  <2>2. Contents \in Seq(SUBSET Seq(Bytes)) /\ \A j \in DOMAIN Contents : \A c \in Contents[j] : Len(c) <= MaxPacket
    BY ContentsAssumption DEF Bytes
  <2>3. Len(Contents) \in Nat /\ DOMAIN Contents = 1 .. Len(Contents)
    BY <2>2, LenProperties
  <2>4. i \in 1 .. Len(Contents)
    BY <2>1, <2>3
  <2>. HIDE DEF i
  <2>5. Contents[i] \in SUBSET Seq(Bytes)
    BY <2>2, <2>4, ElementOfSeq
  <2>6. p \in Seq(Bytes) /\ Len(p) <= MaxPacket
    BY <2>1, <2>2, <2>3, <2>4, <2>5
  <2>. QED
    BY <2>6, LenProperties
<1>2. f \in Seq(Bytes) /\ Len(f) <= QueSize
  <2>1. f \in Seq(Bytes) /\ Len(f) \in Nat /\ Len(f) <= 2 * Len(p) + 2
    BY <1>1, FrameIs
  <2>2. QueSize \in Nat /\ MaxPacket \in Nat /\ QueSize >= 2 * MaxPacket + 2
    BY SizesAssumption
  <2>. QED
    BY <1>1, <2>1, <2>2
<1>. QED
  BY <1>1, <1>2

LEMMA SendKeeps ==
  ASSUME LineInv, NEW p, CmdSend(p)
  PROVE  LineInv'
<1> DEFINE f == Framed(p)  r == ReaderOf(rx)  u == Underway  k == Packets(r, u)
<1>1. LineTypes /\ (upsets = 0 => InStep(got, r, u, sent))
  BY DEF LineInv
<1>2. /\ p \in Seq(Bytes) /\ Len(p) \in Nat /\ Len(p) <= MaxPacket
      /\ f \in Seq(Bytes) /\ Len(f) <= QueSize
  BY <1>1, SendTyped
<1>4. /\ tx' = WriteBuffer(f) /\ sent' = Append(sent, p) /\ rx' = rx /\ got' = got /\ noise' = noise
      /\ upsets' = IF Overruns(f) THEN upsets + 1 ELSE upsets
  BY DEF CmdSend
<1>5. TxOK(tx) /\ RxOK(rx) /\ sent \in Seq(Seq(Bytes)) /\ got \in Seq(Seq(Bytes))
      /\ noise \in 0 .. MaxNoise /\ upsets \in Nat
  BY <1>1 DEF LineTypes
<1>. HIDE DEF f
<1>6. TxOK(tx') /\ (Overruns(f) = FALSE => TxBytes(tx') = TxBytes(tx) \o f)
  BY <1>2, <1>4, <1>5, Written
<1>7. sent' \in Seq(Seq(Bytes))
  BY <1>2, <1>4, <1>5, AppendProperties
<1>8. LineTypes'
  <2>1. upsets' \in Nat
    BY <1>4, <1>5
  <2>. QED
    BY <1>4, <1>5, <1>6, <1>7, <2>1 DEF LineTypes
<1>9. ASSUME upsets' = 0 PROVE InStep(got', ReaderOf(rx'), Underway', sent')
  <2>1. upsets = 0 /\ Overruns(f) = FALSE
    <3>1. Overruns(f) \in BOOLEAN
      BY DEF Overruns
    <3>. QED
      BY <1>4, <1>5, <1>9, <3>1
  <2>2. Underway' = u \o f
    <3> DEFINE a == RxBytes(rx)  b == TxBytes(tx)
    <3>1. a \in Seq(Bytes) /\ b \in Seq(Bytes) /\ u = a \o b
      BY <1>1, LineTyped
    <3>2. Underway' = RxBytes(rx') \o TxBytes(tx')
      BY <1>4, <1>5, <1>6, UnderwayNext
    <3>3. Underway' = a \o (b \o f)
      BY <1>4, <1>6, <2>1, <3>2
    <3>. HIDE DEF a, b, u
    <3>4. (a \o b) \o f = a \o (b \o f)
      BY <1>2, <3>1, JoinedOn, Z3T(30)
    <3>. QED
      BY <3>1, <3>3, <3>4
  <2>3. r \in Reader /\ u \in Seq(Bytes) /\ k \in Seq(Seq(Bytes)) /\ ReaderOf(rx') = r
    BY <1>1, <1>4, LineTyped
  <2>4. Stands(r, u, <<>>, FALSE) /\ got \o k = sent
    BY <1>1, <2>1 DEF InStep
  <2>5. Stands(r, u \o f, <<>>, FALSE) /\ Packets(r, u \o f) = Append(k, p)
    <3>. HIDE DEF r, u
    <3>. QED
      BY <1>2, <2>3, <2>4, FrameRead DEF f
  <2>6. got \o Append(k, p) = Append(sent, p)
    <3>. HIDE DEF k
    <3>. QED
      BY <1>2, <1>5, <2>3, <2>4, AppendedOn
  <2>. HIDE DEF k, r, u
  <2>7. InStep(got, r, u \o f, Append(sent, p))
    BY <2>5, <2>6 DEF InStep
  <2>. QED
    BY <1>4, <2>2, <2>3, <2>7
<1>. QED
  BY <1>8, <1>9 DEF LineInv

LEMMA TransmitKeeps ==
  ASSUME LineInv, TxISR
  PROVE  LineInv'
<1> DEFINE r == ReaderOf(rx)
<1>1. LineTypes /\ (upsets = 0 => InStep(got, r, Underway, sent))
  BY DEF LineInv
<1>2. TxOK(tx) /\ RxOK(rx) /\ tx.uart = <<>>
  BY <1>1 DEF LineTypes, TxISR
<1>3. tx' = TransmitOrStop(tx) /\ rx' = rx /\ sent' = sent /\ got' = got /\ noise' = noise /\ upsets' = upsets
  BY DEF TxISR
<1>4. TxOK(tx') /\ TxBytes(tx') = TxBytes(tx)
  <2>1. tx \in TxT /\ Len(tx.outque) <= QueSize /\ Len(tx.buffer) <= TxLen
    BY <1>2 DEF TxOK
  <2>. QED
    BY <1>2, <1>3, <2>1, Transmitted
<1>5. LineTypes'
  BY <1>1, <1>3, <1>4 DEF LineTypes
<1>6. Underway' = Underway
  <2>1. Underway = RxBytes(rx) \o TxBytes(tx)
    BY <1>1, LineTyped
  <2>2. Underway' = RxBytes(rx') \o TxBytes(tx')
    BY <1>2, <1>3, <1>4, UnderwayNext
  <2>. QED
    BY <1>3, <1>4, <2>1, <2>2
<1>. HIDE DEF r
<1>7. ReaderOf(rx') = r
  BY <1>3 DEF r
<1>. QED
  BY <1>1, <1>3, <1>5, <1>6, <1>7 DEF LineInv

LEMMA ArriveKeeps ==
  ASSUME LineInv, Arrive
  PROVE  LineInv'
<1> DEFINE r == ReaderOf(rx)  u == tx.uart  b == tx.uart[1]
           upset == (rx.receiving /\ IsFull(rx)) \/ rx.uart # <<>>
<1>1. LineTypes /\ (upsets = 0 => InStep(got, r, Underway, sent))
  BY DEF LineInv
<1>2. TxOK(tx) /\ RxOK(rx) /\ upsets \in Nat /\ u # <<>>
  BY <1>1 DEF LineTypes, Arrive
<1>3. tx' = WithoutByte(tx) /\ sent' = sent /\ got' = got /\ noise' = noise
  BY DEF Arrive, WithoutByte
<1>4. rx' = WithByte(rx, b, u)
  BY DEF Arrive, WithByte
<1>5. upsets' = IF upset THEN upsets + 1 ELSE upsets
  BY DEF Arrive
<1>6. TxOK(tx') /\ b \in Bytes /\ OneByte(u, b) /\ TxBytes(tx) = u \o TxBytes(tx')
  BY <1>2, <1>3, ByteLeaves DEF OneByte
<1>7. RxOK(rx') /\ ReaderOf(rx') = r /\ (~upset => RxBytes(rx') = RxBytes(rx) \o u)
  <2>. HIDE DEF u, b
  <2>. QED
    BY <1>2, <1>4, <1>6, ByteArrives
<1>. HIDE DEF upset, r, b
<1>8. LineTypes'
  <2>1. upsets' \in Nat
    BY <1>2, <1>5
  <2>. QED
    BY <1>1, <1>3, <1>6, <1>7, <2>1 DEF LineTypes
<1>9. ASSUME upsets' = 0 PROVE InStep(got', ReaderOf(rx'), Underway', sent')
  <2>1. upsets = 0 /\ ~upset
    BY <1>2, <1>5, <1>9
  <2>2. Underway' = Underway
    <3> DEFINE a == RxBytes(rx)  c == TxBytes(tx')
    <3>1. a \in Seq(Bytes) /\ u \in Seq(Bytes) /\ Underway = a \o TxBytes(tx)
      BY <1>1, LineTyped, TxTyped
    <3>2. c \in Seq(Bytes)
      BY <1>6, TxTyped DEF TxOK
    <3>3. Underway' = RxBytes(rx') \o c
      BY <1>6, <1>7, UnderwayNext
    <3>4. Underway = a \o (u \o c) /\ Underway' = (a \o u) \o c
      BY <1>6, <1>7, <2>1, <3>1, <3>3
    <3>. HIDE DEF a, c, u
    <3>5. (a \o u) \o c = a \o (u \o c)
      BY <3>1, <3>2, JoinedOn, Z3T(30)
    <3>. QED
      BY <3>4, <3>5
  <2>. QED
    BY <1>1, <1>3, <1>7, <2>1, <2>2
<1>. QED
  BY <1>8, <1>9 DEF LineInv

LEMMA NoiseKeeps ==
  ASSUME LineInv, Noise
  PROVE  LineInv'
<1>1. LineTypes
  BY DEF LineInv
<1>2. TxOK(tx) /\ upsets \in Nat /\ noise \in 0 .. MaxNoise /\ tx.uart # <<>>
  BY <1>1 DEF LineTypes, Noise
<1>3. /\ tx' = WithoutByte(tx) /\ rx' = rx /\ sent' = sent /\ got' = got
      /\ noise' = noise + 1 /\ noise < MaxNoise /\ upsets' = upsets + 1
  BY DEF Noise, WithoutByte
<1>4. TxOK(tx')
  BY <1>2, <1>3, ByteLeaves
<1>5. upsets' \in Nat /\ upsets' # 0 /\ noise' \in 0 .. MaxNoise
  BY <1>2, <1>3, NoiseAssumption
<1>. QED
  BY <1>1, <1>3, <1>4, <1>5 DEF LineInv, LineTypes

\* The packet that the game gets is the one that the bytes read make.
LEMMA GotOnePacket ==
  ASSUME RxOK(rx'), got \in Seq(Seq(Bytes)), got' = (IF rx'.newpacket THEN Append(got, rx'.packet) ELSE got),
         NEW r \in Reader, NEW a \in Seq(Bytes), OnePacket(r, a, ReaderOf(rx'))
  PROVE  got' = got \o Packets(r, a) /\ ReaderOf(rx') \in Reader
<1> DEFINE s == ReaderOf(rx')  k == Packets(r, a)
<1>1. /\ s.packet = rx'.packet /\ s.newpacket = rx'.newpacket
      /\ s \in Reader /\ s.packet \in Seq(Bytes) /\ s.newpacket \in BOOLEAN
  <2>1. s \in Reader /\ s = Rec(rx'.packet, rx'.inescape, rx'.newpacket)
    BY RxTyped DEF RxOK
  <2>. HIDE DEF s
  <2>. QED
    BY <2>1, ReaderIs DEF Rec
<1>2. OnePacket(r, a, s)
  OBVIOUS
<1>. HIDE DEF s
<1>3. CASE s.newpacket = TRUE
  <2> DEFINE p == s.packet
  <2>1. k = <<p>> /\ got' = Append(got, p) /\ p \in Seq(Bytes)
    BY <1>1, <1>2, <1>3 DEF OnePacket
  <2>. HIDE DEF k, p
  <2>2. Append(got, p) = got \o <<p>>
    BY <2>1, AppendIsConcat
  <2>. QED
    BY <1>1, <2>1, <2>2 DEF k, s
<1>4. CASE s.newpacket = FALSE
  <2>1. k = <<>> /\ got' = got
    BY <1>1, <1>2, <1>4 DEF OnePacket
  <2>2. got \o <<>> = got
    BY ConcatEmptySeq
  <2>. QED
    BY <1>1, <2>1, <2>2 DEF s
<1>. QED
  BY <1>1, <1>3, <1>4

\* What is under way after the bytes a have been read.
LEMMA UnderwayRead ==
  ASSUME TxOK(tx), RxOK(rx), TxOK(tx'), RxOK(rx'), tx' = tx,
         NEW a \in Seq(Bytes), RxBytes(rx) = a \o RxBytes(rx')
  PROVE  Underway' \in Seq(Bytes) /\ Underway = a \o Underway'
<1> DEFINE v == Underway'  i == RxBytes(rx')  o == TxBytes(tx)
<1>1. v \in Seq(Bytes) /\ v = i \o o
  BY UnderwayNext
<1>2. i \in Seq(Bytes) /\ o \in Seq(Bytes)
  BY RxTyped, TxTyped DEF RxOK, TxOK
<1>3. Underway = (a \o i) \o o
  <2>1. tx \in TxT /\ rx \in RxT
    BY DEF TxOK, RxOK
  <2>2. Underway = RxBytes(rx) \o o
    BY <2>1, UnderwayIs
  <2>. QED
    BY <2>2
<1>. HIDE DEF i, o, v
<1>4. (a \o i) \o o = a \o (i \o o)
  BY <1>2, JoinedOn, Z3T(30)
<1>. QED
  BY <1>1, <1>3, <1>4 DEF v

LEMMA GetKeeps ==
  ASSUME LineInv, CmdGet
  PROVE  LineInv'
<1> DEFINE r == ReaderOf(rx)  u == Underway
<1>1. LineTypes /\ (upsets = 0 => InStep(got, r, u, sent))
  BY DEF LineInv
<1>2. TxOK(tx) /\ RxOK(rx) /\ upsets \in Nat /\ got \in Seq(Seq(Bytes))
  BY <1>1 DEF LineTypes
<1>3. tx' = tx /\ sent' = sent /\ noise' = noise
  BY DEF CmdGet
<1>4. CASE Overflowing(rx)
  <2> DEFINE w == [rx EXCEPT !.inque = <<>>, !.newpacket = TRUE]
  <2>1. rx' = w /\ upsets' = upsets + 1 /\ got' = got
    BY <1>4 DEF CmdGet
  <2>2. RxOK(w)
    <3>. HIDE DEF w
    <3>1. w = [rx EXCEPT !.inque = <<>>, !.newpacket = TRUE]
      BY DEF w
    <3>. QED
      BY <1>2, <3>1, ThrownOut
  <2>. HIDE DEF w
  <2>3. upsets' \in Nat /\ upsets' # 0
    BY <1>2, <2>1
  <2>. QED
    BY <1>1, <1>3, <2>1, <2>2, <2>3 DEF LineInv, LineTypes
<1>5. CASE ~Overflowing(rx)
  <2> DEFINE s == ReaderOf(rx')
  <2>1. /\ rx' = ReadPacket(rx) /\ upsets' = upsets
        /\ got' = IF rx'.newpacket THEN Append(got, rx'.packet) ELSE got
    BY <1>5 DEF CmdGet
  <2>2. rx \in RxT /\ r \in Reader
    BY <1>1, LineTyped
  <2>3. RxOK(rx') /\ \E a : Takes(rx, rx', a)
    BY <1>2, <1>5, <2>1, <2>2, ReadPacketKeeps
  <2>4. PICK a : Takes(rx, rx', a)
    BY <2>3
  <2>6. a \in Seq(Bytes) /\ RxBytes(rx) = a \o RxBytes(rx') /\ OnePacket(r, a, s)
    BY <2>4 DEF Takes
  <2>. HIDE DEF s, r, u
  <2> DEFINE k == Packets(r, a)
  <2>7. k \in Seq(Seq(Bytes))
    BY <2>2, <2>6, AfterFacts
  <2>8. got' = got \o k /\ s \in Reader
    BY <1>2, <2>1, <2>2, <2>3, <2>6, GotOnePacket DEF s, k
  <2>. HIDE DEF k
  <2>9. LineTypes'
    <3>1. got' \in Seq(Seq(Bytes))
      BY <1>2, <2>7, <2>8, ConcatProperties
    <3>. QED
      BY <1>1, <1>3, <2>1, <2>3, <3>1 DEF LineTypes
  <2> DEFINE v == Underway'
  <2>10. v \in Seq(Bytes) /\ u = a \o v
    BY <1>2, <1>3, <2>3, <2>6, UnderwayRead DEF u
  <2>. HIDE DEF v
  <2>11. ASSUME upsets = 0 PROVE InStep(got', s, v, sent)
    <3> DEFINE m == Packets(s, v)
    <3>1. s = After(r, a)
      BY <2>6 DEF OnePacket
    <3>2. Begun(After(r, u)) = Begun(After(s, v)) /\ Packets(r, u) = k \o m
      BY <2>2, <2>6, <2>10, <3>1, ReadOn, ZenonT(40) DEF k
    <3>3. InStep(got, r, u, sent)
      BY <1>1, <2>11
    <3>4. Stands(s, v, <<>>, FALSE)
      BY <3>2, <3>3 DEF InStep, Stands
    <3>5. m \in Seq(Seq(Bytes))
      BY <2>8, <2>10, AfterFacts
    <3>. HIDE DEF m
    <3>6. (got \o k) \o m = got \o (k \o m)
      <4> DEFINE T == Seq(Bytes)
      <4>1. got \in Seq(T) /\ k \in Seq(T) /\ m \in Seq(T)
        BY <1>2, <2>7, <3>5
      <4>. HIDE DEF T
      <4>. QED
        BY <4>1, ConcatAssociative, Z3T(30)
    <3>7. got' \o m = sent
      BY <2>8, <3>2, <3>3, <3>6 DEF InStep
    <3>. QED
      BY <3>4, <3>7 DEF InStep, m
  <2>. QED
    BY <1>3, <2>1, <2>9, <2>11 DEF LineInv, s, v
<1>. QED
  BY <1>4, <1>5

LEMMA LineStep ==
  ASSUME LineInv, LineNext \/ UNCHANGED lineVars
  PROVE  LineInv'
<1>1. CASE UNCHANGED lineVars
  <2>1. /\ tx' = tx /\ rx' = rx /\ sent' = sent /\ got' = got /\ noise' = noise /\ upsets' = upsets
        /\ Underway' = Underway
    BY <1>1 DEF lineVars, Underway
  <2>. QED
    BY <2>1 DEF LineInv, LineTypes
<1>2. ASSUME NEW p, CmdSend(p) PROVE LineInv'
  BY <1>2, SendKeeps
<1>3. CASE CmdGet \/ TxISR \/ Arrive \/ Noise
  BY <1>3, GetKeeps, TransmitKeeps, ArriveKeeps, NoiseKeeps
<1>. QED
  BY <1>1, <1>2, <1>3 DEF LineNext

LEMMA LineImplies == LineInv => LineTypeOK /\ Intact
<1>. SUFFICES ASSUME LineInv PROVE LineTypeOK /\ Intact
  OBVIOUS
<1>1. LineTypeOK
  BY DEF LineInv, LineTypes, TxOK, RxOK, TxT, RxT, LineTypeOK
<1>2. Intact
  BY DEF LineInv, InStep, Intact, OnItsWay
<1>. QED
  BY <1>1, <1>2

\* As long as no byte is lost, what the other game has got and what is on its way to it are the
\* packets sent, byte for byte and in order, whatever they contain and whenever the UART
\* interrupts and the games call (WritePacket, TransmitNextByte, ISR8250, ReadPacket).
THEOREM IntactHolds == DriverSpec => [](Intact /\ LineTypeOK)
<1>1. DriverInit => LineInv
  BY LineStart DEF DriverInit
<1>2. LineInv /\ [DriverNext]_driverVars => LineInv'
  <2>. SUFFICES ASSUME LineInv, [DriverNext]_driverVars PROVE LineInv'
    OBVIOUS
  <2>1. CASE ModemNext /\ Connecting
    BY <2>1, LineStep DEF Connecting
  <2>2. CASE Begin
    BY <2>2, LineStep DEF Begin
  <2>3. CASE LineNext /\ PlayingSerial
    BY <2>3, LineStep
  <2>4. CASE ParNext /\ PlayingParallel
    BY <2>4, LineStep DEF PlayingParallel
  <2>5. CASE UNCHANGED driverVars
    BY <2>5, LineStep DEF driverVars
  <2>. QED
    BY <2>1, <2>2, <2>3, <2>4, <2>5 DEF DriverNext
<1>. QED
  BY <1>1, <1>2, LineImplies, PTL DEF DriverSpec

\* The types of modems, arbitration, line and port: no queue or ring exceeds its buffer.
THEOREM DriverTypesHold == DriverSpec => []DriverTypeOK
<1>1. LaunchesAsAgreed /\ TypeOK /\ Intact /\ LineTypeOK /\ OnlyLastOverwritten /\ ParTypeOK => DriverTypeOK
  BY DEF DriverTypeOK
<1>. QED
  BY <1>1, LaunchesAsAgreedHolds, OnlyLastOverwrittenHolds, IntactHolds, PTL

-----------------------------------------------------------------------------
(***************************************************************************)
(* The serial line: what a loss garbles.                                   *)
(***************************************************************************)
\* MostlyFrom, with the f that shows it.
Picks(f, a, b) ==
  /\ f \in [DOMAIN a -> 0 .. Len(b)]
  /\ \A i \in DOMAIN a : f[i] # 0 => a[i] = b[f[i]]
  /\ \A i, j \in DOMAIN a : i < j /\ f[i] # 0 /\ f[j] # 0 => f[i] < f[j]
NotPicked(f, a) == {i \in DOMAIN a : f[i] = 0}

LEMMA MostlyIs ==
  ASSUME NEW a, NEW b, NEW n
  PROVE  MostlyFrom(a, b, n) <=> \E f : Picks(f, a, b) /\ Cardinality(NotPicked(f, a)) <= n
BY Zenon DEF MostlyFrom, Picks, NotPicked

\* c has elements of a in their order, those that h says, and at most m others.
Keeps(h, a, c, m) ==
  LET kept == DOMAIN h
  IN /\ kept \subseteq DOMAIN c /\ h \in [kept -> DOMAIN a]
     /\ \A i \in kept : c[i] = a[h[i]]
     /\ \A i, j \in kept : i < j => h[i] < h[j]
     /\ Cardinality(DOMAIN c \ kept) <= m

LEMMA MostlyKept ==
  ASSUME NEW a, NEW b, NEW c, NEW n \in Nat, NEW m \in Nat, NEW h, Len(b) \in Nat,
         NEW k \in Nat, DOMAIN a = 1 .. k, NEW l \in Nat, DOMAIN c = 1 .. l,
         Keeps(h, a, c, m), MostlyFrom(a, b, n)
  PROVE  MostlyFrom(c, b, n + m)
<1> DEFINE kept == DOMAIN h
<1>1. /\ kept \subseteq DOMAIN c /\ h \in [kept -> DOMAIN a]
      /\ \A i \in kept : c[i] = a[h[i]]
      /\ \A i, j \in kept : i < j => h[i] < h[j]
      /\ Cardinality(DOMAIN c \ kept) <= m
  BY DEF Keeps
<1>. HIDE DEF kept
<1>2. PICK f : Picks(f, a, b) /\ Cardinality(NotPicked(f, a)) <= n
  BY MostlyIs
<1>3. /\ f \in [DOMAIN a -> 0 .. Len(b)]
      /\ \A i \in DOMAIN a : f[i] # 0 => a[i] = b[f[i]]
      /\ \A i, j \in DOMAIN a : i < j /\ f[i] # 0 /\ f[j] # 0 => f[i] < f[j]
  BY <1>2 DEF Picks
<1> DEFINE g == [i \in DOMAIN c |-> IF i \in kept THEN f[h[i]] ELSE 0]
           others == DOMAIN c \ kept  lost == {i \in kept : f[h[i]] = 0}
<1>4. Picks(g, c, b)
  <2>1. g \in [DOMAIN c -> 0 .. Len(b)]
    BY <1>1, <1>3
  <2>2. \A i \in DOMAIN c : g[i] # 0 => i \in kept /\ g[i] = f[h[i]] /\ h[i] \in DOMAIN a
    BY <1>1
  <2>. HIDE DEF g
  <2>3. ASSUME NEW i \in DOMAIN c, g[i] # 0 PROVE c[i] = b[g[i]]
    BY <1>1, <1>3, <2>2, <2>3
  <2>4. ASSUME NEW i \in DOMAIN c, NEW j \in DOMAIN c, i < j, g[i] # 0, g[j] # 0 PROVE g[i] < g[j]
    <3>1. i \in kept /\ j \in kept /\ h[i] < h[j] /\ h[i] \in DOMAIN a /\ h[j] \in DOMAIN a
      BY <1>1, <2>2, <2>4
    <3>2. g[i] = f[h[i]] /\ g[j] = f[h[j]]
      BY <2>2, <2>4
    <3>. QED
      BY <1>3, <2>4, <3>1, <3>2
  <2>. QED
    BY <2>1, <2>3, <2>4 DEF Picks
<1>5. NotPicked(g, c) = others \cup lost
  BY <1>1 DEF NotPicked
<1>6. IsFiniteSet(others) /\ Cardinality(others) \in Nat
  <2>1. IsFiniteSet(DOMAIN c)
    BY FS_Interval
  <2>. HIDE DEF kept
  <2>2. IsFiniteSet(others)
    BY <2>1, FS_Subset
  <2>. QED
    BY <2>2, FS_CardinalityType
<1>7. IsFiniteSet(lost) /\ Cardinality(lost) <= Cardinality(NotPicked(f, a)) /\ Cardinality(lost) \in Nat
      /\ Cardinality(NotPicked(f, a)) \in Nat
  <2> DEFINE z == NotPicked(f, a)  e == [i \in lost |-> h[i]]
  <2>1. IsFiniteSet(z)
    <3>1. IsFiniteSet(DOMAIN a) /\ z \in SUBSET DOMAIN a
      BY FS_Interval DEF NotPicked
    <3>. QED
      BY <3>1, FS_Subset
  <2>2. \A i \in lost : i \in kept /\ h[i] \in z
    BY <1>1 DEF NotPicked
  <2>3. \A i, j \in lost : h[i] = h[j] => i = j
    <3>. SUFFICES ASSUME NEW i \in lost, NEW j \in lost, h[i] = h[j] PROVE i = j
      OBVIOUS
    <3>1. i \in kept /\ j \in kept /\ i \in Nat /\ j \in Nat /\ h[i] \in Nat /\ h[j] \in Nat
      BY <1>1, <2>2
    <3>2. i < j => h[i] < h[j]
      BY <1>1, <3>1
    <3>3. j < i => h[j] < h[i]
      BY <1>1, <3>1
    <3>4. ~(h[i] < h[j]) /\ ~(h[j] < h[i])
      BY <3>1
    <3>. QED
      BY <3>1, <3>2, <3>3, <3>4
  <2>. HIDE DEF lost, z
  <2>4. e \in Injection(lost, z)
    BY <2>2, <2>3 DEF Injection, IsInjective
  <2>. HIDE DEF e
  <2>5. IsFiniteSet(lost) /\ Cardinality(lost) <= Cardinality(z)
    BY <2>1, <2>4, FS_Injection
  <2>. QED
    BY <2>1, <2>5, FS_CardinalityType DEF z
<1>. HIDE DEF g, others, lost
<1>8. Cardinality(others \cup lost) <= Cardinality(others) + Cardinality(lost)
  <2>1. Cardinality(others \cup lost) = Cardinality(others) + Cardinality(lost) - Cardinality(others \cap lost)
    BY <1>6, <1>7, FS_Union
  <2>2. Cardinality(others \cap lost) \in Nat
    <3>1. others \cap lost \in SUBSET others
      OBVIOUS
    <3>2. IsFiniteSet(others \cap lost)
      BY <1>6, <3>1, FS_Subset
    <3>. QED
      BY <3>2, FS_CardinalityType
  <2>. QED
    BY <1>6, <1>7, <2>1, <2>2
<1>9. Cardinality(NotPicked(g, c)) <= n + m
  <2>1. Cardinality(others) <= m
    BY <1>1 DEF others
  <2> DEFINE x == Cardinality(others)  y == Cardinality(lost)  w == Cardinality(NotPicked(f, a))
             v == Cardinality(NotPicked(g, c))
  <2>2. x \in Nat /\ y \in Nat /\ w \in Nat /\ x <= m /\ y <= w /\ w <= n
    BY <1>2, <1>6, <1>7, <2>1
  <2>3. v <= x + y /\ v \in Int
    <3>1. IsFiniteSet(others \cup lost)
      BY <1>6, <1>7, FS_Union
    <3>2. Cardinality(others \cup lost) \in Nat
      BY <3>1, FS_CardinalityType
    <3>. QED
      BY <1>5, <1>8, <3>2
  <2>. HIDE DEF x, y, w, v
  <2>4. v <= n + m
    BY <2>2, <2>3
  <2>. QED
    BY <2>4 DEF v
<1>. QED
  BY <1>4, <1>9, MostlyIs

Packet == Seq(Bytes)

\* Three sequences of packets, joined.
LEMMA ThreeParts ==
  ASSUME NEW g \in Seq(Packet), NEW y \in Seq(Packet), NEW t \in Seq(Packet), NEW a, a = g \o (y \o t)
  PROVE  /\ Len(g) \in Nat /\ Len(y) \in Nat /\ Len(t) \in Nat
         /\ a \in Seq(Packet) /\ DOMAIN a = 1 .. Len(g) + Len(y) + Len(t)
         /\ \A i \in 1 .. Len(g) : a[i] = g[i]
         /\ \A i \in 1 .. Len(t) : a[Len(g) + Len(y) + i] = t[i]
<1> DEFINE d == y \o t  lg == Len(g)  ly == Len(y)  lt == Len(t)
<1>1. lg \in Nat /\ ly \in Nat /\ lt \in Nat
  BY LenProperties
<1>2. d \in Seq(Packet) /\ Len(d) = ly + lt /\ \A i \in 1 .. ly + lt : d[i] = IF i <= ly THEN y[i] ELSE t[i - ly]
  BY ConcatProperties
<1>. HIDE DEF d
<1>3. a \in Seq(Packet) /\ Len(a) = lg + Len(d)
      /\ \A i \in 1 .. lg + Len(d) : a[i] = IF i <= lg THEN g[i] ELSE d[i - lg]
  <2> DEFINE s == g \o d
  <2>1. a = s
    BY DEF d
  <2>2. s \in Seq(Packet) /\ Len(s) = lg + Len(d)
        /\ \A i \in 1 .. lg + Len(d) : s[i] = IF i <= lg THEN g[i] ELSE d[i - lg]
    <3>1. d \in Seq(Packet)
      BY <1>2
    <3>2. s \in Seq(Packet)
      BY <3>1, ConcatProperties
    <3>3. Len(s) = lg + Len(d)
      BY <3>1, ConcatProperties
    <3>4. \A i \in 1 .. lg + Len(d) : s[i] = IF i <= lg THEN g[i] ELSE d[i - lg]
      BY <3>1, ConcatProperties
    <3>. QED
      BY <3>2, <3>3, <3>4
  <2>. HIDE DEF s, lg
  <2>. QED
    BY <2>1, <2>2
<1>4. DOMAIN a = 1 .. lg + ly + lt
  <2>1. DOMAIN a = 1 .. Len(a)
    BY <1>3, LenProperties
  <2>. HIDE DEF lg, ly, lt
  <2>2. lg + (ly + lt) = lg + ly + lt
    BY <1>1
  <2>. QED
    BY <1>2, <1>3, <2>1, <2>2
<1>. HIDE DEF lg, ly, lt
<1>5. \A i \in 1 .. lg : a[i] = g[i]
  <2>. SUFFICES ASSUME NEW i \in 1 .. lg PROVE a[i] = g[i]
    OBVIOUS
  <2>1. i \in 1 .. lg + Len(d) /\ i <= lg
    BY <1>1, <1>2
  <2>. QED
    BY <1>3, <2>1
<1>6. ASSUME NEW i \in 1 .. lt PROVE a[lg + ly + i] = t[i]
  <2> DEFINE j == lg + ly + i  k == ly + i
  <2>1. j \in 1 .. lg + Len(d) /\ ~(j <= lg) /\ j - lg = k /\ k \in 1 .. ly + lt /\ ~(k <= ly) /\ k - ly = i
    BY <1>1, <1>2
  <2>2. a[j] = d[k]
    BY <1>3, <2>1
  <2>3. d[k] = t[i]
    BY <1>2, <2>1
  <2>. QED
    BY <2>2, <2>3
<1>. QED
  BY <1>1, <1>3, <1>4, <1>5, <1>6 DEF lg, ly, lt

\* Of packets in the middle others have become.
LEMMA MostlyBetween ==
  ASSUME NEW g \in Seq(Packet), NEW x \in Seq(Packet), NEW y \in Seq(Packet), NEW t \in Seq(Packet),
         NEW b \in Seq(Packet), NEW n \in Nat, NEW m \in Nat, Len(x) <= m,
         MostlyFrom(g \o (y \o t), b, n)
  PROVE  MostlyFrom(g \o (x \o t), b, n + m)
<1> DEFINE a == g \o (y \o t)  c == g \o (x \o t)
           lg == Len(g)  lx == Len(x)  ly == Len(y)  lt == Len(t)
<1>1. /\ lg \in Nat /\ ly \in Nat /\ lt \in Nat
      /\ DOMAIN a = 1 .. lg + ly + lt
      /\ \A i \in 1 .. lg : a[i] = g[i]
      /\ \A i \in 1 .. lt : a[lg + ly + i] = t[i]
  BY ThreeParts, SMTT(30)
<1>2. /\ lx \in Nat
      /\ DOMAIN c = 1 .. lg + lx + lt
      /\ \A i \in 1 .. lg : c[i] = g[i]
      /\ \A i \in 1 .. lt : c[lg + lx + i] = t[i]
  BY ThreeParts
<1>3. Len(b) \in Nat /\ lx <= m
  BY LenProperties
<1>. HIDE DEF a, c, lg, lx, ly, lt
<1> DEFINE kept == (1 .. lg) \cup (lg + lx + 1 .. lg + lx + lt)
           h == [i \in kept |-> IF i <= lg THEN i ELSE i - lx + ly]
<1>4. kept \subseteq DOMAIN c /\ \A i \in kept : i \in Nat /\ h[i] \in DOMAIN a
  BY <1>1, <1>2
<1>5. ASSUME NEW i \in kept PROVE c[i] = a[h[i]]
  <2>1. CASE i \in 1 .. lg
    BY <1>1, <1>2, <2>1
  <2>2. CASE i \in lg + lx + 1 .. lg + lx + lt
    <3> DEFINE k == i - lg - lx
    <3>1. k \in 1 .. lt /\ i = lg + lx + k /\ ~(i <= lg) /\ i - lx + ly = lg + ly + k
      BY <1>1, <1>2, <2>2
    <3>2. h[i] = lg + ly + k
      BY <3>1
    <3>. HIDE DEF k, h
    <3>. QED
      BY <1>1, <1>2, <3>1, <3>2
  <2>. QED
    BY <2>1, <2>2
<1>6. \A i, j \in kept : i < j => h[i] < h[j]
  BY <1>1, <1>2
<1>7. Cardinality(DOMAIN c \ kept) <= m
  <2>1. DOMAIN c \ kept = lg + 1 .. lg + lx
    BY <1>1, <1>2
  <2>2. Cardinality(lg + 1 .. lg + lx) = IF lg + 1 > lg + lx THEN 0 ELSE (lg + lx) - (lg + 1) + 1
    BY <1>1, <1>2, FS_Interval
  <2>3. Cardinality(lg + 1 .. lg + lx) = lx
    BY <1>1, <1>2, <2>2, SMTT(30)
  <2>. QED
    BY <1>3, <2>1, <2>3
<1>8. Keeps(h, a, c, m)
  <2>1. h \in [kept -> DOMAIN a] /\ DOMAIN h = kept
    BY <1>4
  <2>. HIDE DEF h, kept
  <2>. QED
    BY <1>4, <1>5, <1>6, <1>7, <2>1 DEF Keeps
<1>. HIDE DEF h, kept
<1>9. lg + ly + lt \in Nat /\ lg + lx + lt \in Nat /\ MostlyFrom(a, b, n)
  BY <1>1, <1>2, SMTT(30) DEF a
<1>. QED
  BY <1>1, <1>2, <1>3, <1>8, <1>9, MostlyKept DEF c

\* The same packets follow both.
LEMMA MostlyJoined ==
  ASSUME NEW a \in Seq(Packet), NEW b \in Seq(Packet), NEW c \in Seq(Packet), NEW n \in Nat,
         MostlyFrom(a, b, n)
  PROVE  MostlyFrom(a \o c, b \o c, n)
<1> DEFINE d == a \o c  e == b \o c  la == Len(a)  lb == Len(b)  lc == Len(c)
<1>1. /\ la \in Nat /\ lb \in Nat /\ lc \in Nat /\ DOMAIN a = 1 .. la
      /\ DOMAIN d = 1 .. la + lc /\ \A i \in 1 .. la + lc : d[i] = IF i <= la THEN a[i] ELSE c[i - la]
      /\ Len(e) = lb + lc /\ \A i \in 1 .. lb + lc : e[i] = IF i <= lb THEN b[i] ELSE c[i - lb]
  BY ConcatProperties, LenProperties
<1>. HIDE DEF d, e, la, lb, lc
<1>2. PICK f : Picks(f, a, b) /\ Cardinality(NotPicked(f, a)) <= n
  BY MostlyIs
<1>3. /\ f \in [DOMAIN a -> 0 .. lb]
      /\ \A i \in DOMAIN a : f[i] # 0 => a[i] = b[f[i]]
      /\ \A i, j \in DOMAIN a : i < j /\ f[i] # 0 /\ f[j] # 0 => f[i] < f[j]
  BY <1>2 DEF Picks, lb
<1> DEFINE g == [i \in DOMAIN d |-> IF i <= la THEN f[i] ELSE i - la + lb]
<1>4. \A i \in 1 .. la : i \in DOMAIN d /\ g[i] = f[i] /\ f[i] \in 0 .. lb /\ i <= la
  BY <1>1, <1>3, SMTT(30)
<1>5. \A i \in DOMAIN d \ 1 .. la : g[i] = i - la + lb /\ g[i] \in lb + 1 .. lb + lc /\ i > la
  BY <1>1, SMTT(30)
<1>6. g \in [DOMAIN d -> 0 .. Len(e)]
  BY <1>1, <1>3
<1>. HIDE DEF g
<1>7. ASSUME NEW i \in DOMAIN d, g[i] # 0 PROVE d[i] = e[g[i]]
  <2>1. CASE i \in 1 .. la
    <3>1. d[i] = a[i] /\ a[i] = b[f[i]] /\ f[i] \in 1 .. lb
      BY <1>1, <1>3, <1>4, <1>7, <2>1
    <3> DEFINE k == f[i]
    <3>2. k \in 1 .. lb + lc /\ k <= lb
      BY <1>1, <3>1
    <3>. HIDE DEF k
    <3>3. e[k] = b[k]
      BY <1>1, <3>2
    <3>. QED
      BY <1>4, <2>1, <3>1, <3>3 DEF k
  <2>2. CASE i \notin 1 .. la
    <3> DEFINE k == g[i]
    <3>1. k = i - la + lb /\ k \in lb + 1 .. lb + lc /\ i > la /\ i \in 1 .. la + lc
      BY <1>1, <1>5, <2>2
    <3>. HIDE DEF k
    <3>2. e[k] = c[k - lb] /\ k - lb = i - la
      BY <1>1, <3>1
    <3>3. d[i] = c[i - la]
      BY <1>1, <3>1
    <3>. QED
      BY <3>2, <3>3 DEF k
  <2>. QED
    BY <2>1, <2>2
<1>8. ASSUME NEW i \in DOMAIN d, NEW j \in DOMAIN d, i < j, g[i] # 0, g[j] # 0 PROVE g[i] < g[j]
  <2>1. CASE j \in 1 .. la
    <3>1. i \in 1 .. la
      BY <1>1, <1>8, <2>1
    <3>. QED
      BY <1>1, <1>3, <1>4, <1>8, <2>1, <3>1
  <2>2. CASE j \notin 1 .. la /\ i \in 1 .. la
    <3>1. g[i] = f[i] /\ f[i] \in 0 .. lb /\ g[j] \in lb + 1 .. lb + lc
      BY <1>4, <1>5, <2>2
    <3> DEFINE x == g[i]  y == g[j]
    <3>2. x \in 0 .. lb /\ y \in lb + 1 .. lb + lc
      BY <3>1
    <3>. HIDE DEF x, y
    <3>3. x < y
      BY <1>1, <3>2
    <3>. QED
      BY <3>3 DEF x, y
  <2>3. CASE j \notin 1 .. la /\ i \notin 1 .. la
    BY <1>1, <1>5, <1>8, <2>3
  <2>. QED
    BY <2>1, <2>2, <2>3
<1>9. NotPicked(g, d) = NotPicked(f, a)
  <2>1. \A i \in DOMAIN d : g[i] = 0 => i \in 1 .. la
    BY <1>1, <1>5
  <2>. QED
    BY <1>1, <1>4, <2>1 DEF NotPicked
<1>10. Picks(g, d, e)
  BY <1>6, <1>7, <1>8 DEF Picks
<1>11. \E z : Picks(z, d, e) /\ Cardinality(NotPicked(z, d)) <= n
  BY <1>2, <1>9, <1>10
<1>. QED
  BY <1>11, MostlyIs DEF d, e

\* Nothing is from nothing.
LEMMA MostlyNothing == MostlyFrom(<<>>, <<>>, 0)
<1> DEFINE e == <<>>
<1>1. DOMAIN e = {} /\ Len(e) = 0
  OBVIOUS
<1>2. Picks(e, e, e)
  <2>1. e \in [DOMAIN e -> 0 .. Len(e)]
    OBVIOUS
  <2>. QED
    BY <1>1, <2>1 DEF Picks
<1>3. Cardinality(NotPicked(e, e)) <= 0
  <2>1. NotPicked(e, e) = {}
    BY <1>1 DEF NotPicked
  <2>2. Cardinality({}) = 0
    BY FS_EmptySet
  <2>. HIDE DEF e
  <2>3. Cardinality(NotPicked(e, e)) = 0
    BY <2>1, <2>2
  <2>. QED
    BY <2>3
<1>. QED
  BY <1>2, <1>3, MostlyIs

\* A byte b makes of a reader u, that has begun a packet, the reader w, and of the packets before
\* those after it.
Becomes(u, b, w, before, after) ==
  /\ u.inescape = TRUE /\ b # Frame => w = Rec(<<>>, FALSE, FALSE) /\ after = Append(before, u.packet)
  /\ u.inescape = FALSE /\ b = Frame => w = Rec(u.packet, TRUE, FALSE) /\ after = before
  /\ (u.inescape = TRUE <=> b = Frame) => w = Rec(Added(u.packet, b), FALSE, FALSE) /\ after = before

LEMMA ReaderStep ==
  ASSUME NEW r \in Reader, NEW c \in Seq(Bytes), NEW b \in Bytes, NEW u, u = Begun(After(r, c)),
         NEW d, d = Append(c, b), NEW w, w = Begun(After(r, d))
  PROVE  u \in Reader /\ w \in Reader /\ Becomes(u, b, w, Packets(r, c), Packets(r, d))
<1> DEFINE s == After(r, d)  p == Packets(r, c)  q == Packets(r, d)
<1>1. d \in Seq(Bytes)
  BY AppendProperties
<1>2. u \in Reader /\ w \in Reader
  <2>1. After(r, c) \in Reader /\ After(r, d) \in Reader
    BY <1>1, AfterFacts
  <2>. QED
    BY <2>1, Begins
<1>3. NextByte(u, b, s, p, q)
  BY <1>2, ByteStep
<1>4. u.packet \in Seq(Bytes) /\ u.inescape \in BOOLEAN
  BY <1>2, ReaderIs
<1> DEFINE more == Added(u.packet, b)
<1>5. more \in Seq(Bytes)
  BY <1>4, AppendProperties DEF Added
<1>6. w = Begun(s)
  OBVIOUS
<1>. HIDE DEF s, p, q, more, Frame
<1>7. ASSUME u.inescape = TRUE, b # Frame PROVE w = Rec(<<>>, FALSE, FALSE) /\ q = Append(p, u.packet)
  <2>1. s = Rec(u.packet, FALSE, TRUE) /\ (s.newpacket = TRUE => q = Append(p, s.packet))
    BY <1>3, <1>7 DEF NextByte
  <2>2. s.newpacket = TRUE /\ s.packet = u.packet
    BY <2>1 DEF Rec
  <2>3. Begun(Rec(u.packet, FALSE, TRUE)) = Rec(<<>>, FALSE, FALSE)
    BY <1>4, BegunRec
  <2>. QED
    BY <1>6, <2>1, <2>2, <2>3
<1>8. ASSUME u.inescape = FALSE, b = Frame PROVE w = Rec(u.packet, TRUE, FALSE) /\ q = p
  <2>1. s = Rec(u.packet, TRUE, FALSE) /\ (s.newpacket = FALSE => q = p)
    BY <1>3, <1>8 DEF NextByte
  <2>2. s.newpacket = FALSE
    BY <2>1 DEF Rec
  <2>3. Begun(Rec(u.packet, TRUE, FALSE)) = Rec(u.packet, TRUE, FALSE)
    BY <1>4, BegunRec
  <2>. QED
    BY <1>6, <2>1, <2>2, <2>3
<1>9. ASSUME u.inescape = TRUE <=> b = Frame PROVE w = Rec(more, FALSE, FALSE) /\ q = p
  <2>1. s = Rec(more, FALSE, FALSE) /\ (s.newpacket = FALSE => q = p)
    BY <1>3, <1>9 DEF NextByte, more
  <2>2. s.newpacket = FALSE
    BY <2>1 DEF Rec
  <2>3. Begun(Rec(more, FALSE, FALSE)) = Rec(more, FALSE, FALSE)
    BY <1>5, BegunRec
  <2>. QED
    BY <1>6, <2>1, <2>2, <2>3
<1>10. Becomes(u, b, w, p, q)
  BY <1>7, <1>8, <1>9 DEF Becomes, more
<1>. QED
  BY <1>2, <1>10 DEF p, q

\* Two sequences of packets that end alike, after at most two packets each.
EndAlike(p, q) ==
  \E x, y, t \in Seq(Packet) : Len(x) <= 2 /\ Len(y) <= 2 /\ p = x \o t /\ q = y \o t

\* Readers that begin in any state, reading the same bytes: they make nothing; at the first byte
\* that is no FRAMECHAR they agree on what is escaped, and one may have made a packet; at
\* the next end of a packet they are in the same state.
Together(u, v, p, q) ==
  \/ p = <<>> /\ q = <<>>
  \/ Len(p) <= 1 /\ Len(q) <= 1 /\ u.inescape = v.inescape
  \/ u = v /\ EndAlike(p, q)

LEMMA AppendLen ==
  ASSUME NEW p \in Seq(Packet), NEW x \in Packet
  PROVE  Append(p, x) \in Seq(Packet) /\ Len(Append(p, x)) = Len(p) + 1 /\ Len(p) \in Nat
BY AppendProperties, LenProperties

LEMMA ShortAlike ==
  ASSUME NEW p \in Seq(Packet), NEW q \in Seq(Packet), Len(p) <= 2, Len(q) <= 2
  PROVE  EndAlike(p, q)
<1> DEFINE e == <<>>
<1>1. e \in Seq(Packet) /\ p = p \o e /\ q = q \o e
  BY ConcatEmptySeq
<1>. HIDE DEF e
<1>. QED
  BY <1>1 DEF EndAlike

LEMMA AppendAlike ==
  ASSUME NEW p \in Seq(Packet), NEW q \in Seq(Packet), NEW z \in Packet, EndAlike(p, q)
  PROVE  EndAlike(Append(p, z), Append(q, z))
<1>1. PICK x, y, t \in Seq(Packet) : Len(x) <= 2 /\ Len(y) <= 2 /\ p = x \o t /\ q = y \o t
  BY DEF EndAlike
<1> DEFINE s == Append(t, z)
<1>2. s \in Seq(Packet)
  BY AppendLen
<1>3. Append(x \o t, z) = x \o s /\ Append(y \o t, z) = y \o s
  BY AppendedOn DEF Packet
<1>. HIDE DEF s
<1>. QED
  BY <1>1, <1>2, <1>3 DEF EndAlike

LEMMA TogetherStep ==
  ASSUME NEW u \in Reader, NEW v \in Reader, NEW w \in Reader, NEW z \in Reader, NEW b \in Bytes,
         NEW p \in Seq(Packet), NEW q \in Seq(Packet), NEW p2 \in Seq(Packet), NEW q2 \in Seq(Packet),
         Becomes(u, b, w, p, p2), Becomes(v, b, z, q, q2), Together(u, v, p, q)
  PROVE  Together(w, z, p2, q2)
<1>1. /\ u.inescape \in BOOLEAN /\ v.inescape \in BOOLEAN /\ u.packet \in Packet /\ v.packet \in Packet
      /\ Len(p) \in Nat /\ Len(q) \in Nat
  BY ReaderIs, LenProperties DEF Packet
<1>. HIDE DEF Frame
<1>2. /\ \A x, y, n : Rec(x, y, n).inescape = y
      /\ Len(<<>>) = 0
  BY DEF Rec
<1>3. /\ Len(Append(p, u.packet)) = Len(p) + 1
      /\ Len(Append(q, v.packet)) = Len(q) + 1
  BY <1>1, AppendLen
<1>4. CASE u.inescape = TRUE /\ v.inescape = TRUE /\ b # Frame
  <2>1. w = Rec(<<>>, FALSE, FALSE) /\ z = Rec(<<>>, FALSE, FALSE)
        /\ p2 = Append(p, u.packet) /\ q2 = Append(q, v.packet)
    BY <1>4 DEF Becomes
  <2>2. EndAlike(p2, q2)
    <3>1. CASE Len(p) <= 1 /\ Len(q) <= 1
      <4>1. Len(p2) <= 2 /\ Len(q2) <= 2
        BY <1>1, <1>3, <2>1, <3>1
      <4>. QED
        BY <4>1, ShortAlike
    <3>2. CASE u = v /\ EndAlike(p, q)
      BY <1>1, <2>1, <3>2, AppendAlike
    <3>3. CASE p = <<>> /\ q = <<>>
      <4>1. Len(p) = 0 /\ Len(q) = 0
        BY <1>2, <3>3
      <4>2. Len(p2) <= 2 /\ Len(q2) <= 2
        BY <1>3, <2>1, <4>1
      <4>. QED
        BY <4>2, ShortAlike
    <3>. QED
      BY <3>1, <3>2, <3>3 DEF Together
  <2>. QED
    BY <2>1, <2>2 DEF Together
<1>5. CASE u.inescape # v.inescape
  <2>1. p = <<>> /\ q = <<>>
    BY <1>5 DEF Together
  <2>2. CASE b = Frame
    <3>1. p2 = p /\ q2 = q
      BY <1>1, <1>5, <2>2 DEF Becomes
    <3>. QED
      BY <2>1, <3>1 DEF Together
  <2>3. CASE b # Frame
    <3>1. w.inescape = FALSE /\ z.inescape = FALSE
      <4>1. \A x, y : Rec(x, FALSE, y).inescape = FALSE
        BY <1>2
      <4>2. w = Rec(<<>>, FALSE, FALSE) \/ w = Rec(Added(u.packet, b), FALSE, FALSE)
        BY <1>1, <2>3 DEF Becomes
      <4>3. z = Rec(<<>>, FALSE, FALSE) \/ z = Rec(Added(v.packet, b), FALSE, FALSE)
        BY <1>1, <2>3 DEF Becomes
      <4>. QED
        BY <4>1, <4>2, <4>3, Zenon
    <3>2. (p2 = p \/ p2 = Append(p, u.packet)) /\ (q2 = q \/ q2 = Append(q, v.packet))
      BY <1>1, <2>3 DEF Becomes
    <3>3. Len(p) = 0 /\ Len(q) = 0
      BY <1>2, <2>1
    <3>4. Len(p2) <= 1 /\ Len(q2) <= 1
      <4>1. Len(Append(p, u.packet)) = 1 /\ Len(Append(q, v.packet)) = 1
        BY <1>3, <3>3
      <4>2. Len(p2) \in {0, 1} /\ Len(q2) \in {0, 1}
        BY <3>2, <3>3, <4>1, Zenon
      <4> DEFINE m == Len(p2)  n == Len(q2)
      <4>3. m \in {0, 1} /\ n \in {0, 1}
        BY <4>2
      <4>. HIDE DEF m, n
      <4>4. m <= 1 /\ n <= 1
        BY <4>3
      <4>. QED
        BY <4>4 DEF m, n
    <3>. QED
      BY <3>1, <3>4 DEF Together
  <2>. QED
    BY <2>2, <2>3
<1>6. CASE u.inescape = v.inescape /\ ~(u.inescape = TRUE /\ b # Frame)
  <2>1. p2 = p /\ q2 = q /\ w.inescape = z.inescape
    <3>1. CASE u.inescape = FALSE /\ b = Frame
      <4>1. /\ p2 = p /\ q2 = q
            /\ w = Rec(u.packet, TRUE, FALSE) /\ z = Rec(v.packet, TRUE, FALSE)
        BY <1>6, <3>1 DEF Becomes
      <4>2. w.inescape = TRUE /\ z.inescape = TRUE
        BY <1>2, <4>1, Zenon
      <4>. QED
        BY <4>1, <4>2
    <3>2. CASE u.inescape = TRUE <=> b = Frame
      <4>1. /\ p2 = p /\ q2 = q
            /\ w = Rec(Added(u.packet, b), FALSE, FALSE) /\ z = Rec(Added(v.packet, b), FALSE, FALSE)
        BY <1>6, <3>2 DEF Becomes
      <4>2. w.inescape = FALSE /\ z.inescape = FALSE
        BY <1>2, <4>1, Zenon
      <4>. QED
        BY <4>1, <4>2
    <3>. QED
      BY <1>1, <1>6, <3>1, <3>2
  <2>2. u = v => w = z
    BY <1>1, <1>6 DEF Becomes
  <2>. QED
    BY <2>1, <2>2 DEF Together
<1>. QED
  BY <1>1, <1>4, <1>5, <1>6

\* Whatever states two readers are in, after at most two packets each they make the same of the
\* same bytes.
LEMMA ReadersAgree ==
  ASSUME NEW r \in Reader, NEW s \in Reader, NEW bytes \in Seq(Bytes)
  PROVE  EndAlike(Packets(r, bytes), Packets(s, bytes))
<1> DEFINE Both(c) == Together(Begun(After(r, c)), Begun(After(s, c)), Packets(r, c), Packets(s, c))
           S == {k \in 0 .. Len(bytes) : Both(SubSeq(bytes, 1, k))}
<1>1. Len(bytes) \in Nat
  BY LenProperties
<1>2. Both(<<>>)
  <2>1. Packets(r, <<>>) = <<>> /\ Packets(s, <<>>) = <<>>
    BY NothingRead
  <2>. QED
    BY <2>1 DEF Together
<1>3. ASSUME NEW c \in Seq(Bytes), NEW b \in Bytes, Both(c) PROVE Both(Append(c, b))
  <2> DEFINE d == Append(c, b)  u == Begun(After(r, c))  v == Begun(After(s, c))
             w == Begun(After(r, d))  z == Begun(After(s, d))
             p == Packets(r, c)  q == Packets(s, c)  p2 == Packets(r, d)  q2 == Packets(s, d)
  <2>1. d \in Seq(Bytes)
    BY AppendProperties
  <2>2. u \in Reader /\ w \in Reader /\ Becomes(u, b, w, p, p2)
    BY ReaderStep
  <2>3. v \in Reader /\ z \in Reader /\ Becomes(v, b, z, q, q2)
    BY ReaderStep
  <2>4. p \in Seq(Packet) /\ q \in Seq(Packet) /\ p2 \in Seq(Packet) /\ q2 \in Seq(Packet)
    BY <2>1, AfterFacts DEF Packet
  <2>5. Together(u, v, p, q)
    BY <1>3
  <2>. HIDE DEF u, v, w, z, p, q, p2, q2
  <2>6. Together(w, z, p2, q2)
    BY <2>2, <2>3, <2>4, <2>5, TogetherStep
  <2>. QED
    BY <2>6 DEF w, z, p2, q2
<1>. HIDE DEF Both
<1>4. 0 \in S
  <2>1. SubSeq(bytes, 1, 0) = <<>>
    BY SubSeqEmpty
  <2>2. Both(SubSeq(bytes, 1, 0))
    BY <1>2, <2>1, Zenon
  <2>. QED
    BY <1>1, <2>2
<1>5. ASSUME NEW k \in 1 .. Len(bytes), k - 1 \in S PROVE k \in S
  <2> DEFINE c == SubSeq(bytes, 1, k - 1)
  <2>1. c \in Seq(Bytes) /\ bytes[k] \in Bytes
    BY <1>1, SubSeqProperties, ElementOfSeq
  <2>2. SubSeq(bytes, 1, k) = Append(c, bytes[k])
    <3>1. SubSeq(bytes, 1, k) = c \o <<bytes[k]>>
      BY <1>1, SubSeqRecursiveSecond
    <3>2. Append(c, bytes[k]) = c \o <<bytes[k]>>
      BY <2>1, AppendIsConcat
    <3>. QED
      BY <3>1, <3>2
  <2>3. Both(c)
    BY <1>5
  <2>. HIDE DEF c
  <2>4. Both(Append(c, bytes[k]))
    BY <1>3, <2>1, <2>3
  <2>5. Both(SubSeq(bytes, 1, k))
    BY <2>2, <2>4, Zenon
  <2>. QED
    BY <1>1, <2>5
<1>6. 0 .. Len(bytes) \subseteq S
  <2>. HIDE DEF S
  <2>. QED
    BY <1>1, <1>4, <1>5, UpTo
<1>7. Both(SubSeq(bytes, 1, Len(bytes)))
  BY <1>1, <1>6
<1>8. SubSeq(bytes, 1, Len(bytes)) = bytes
  BY SubSeqFull
<1> DEFINE p == Packets(r, bytes)  q == Packets(s, bytes)
<1>9. p \in Seq(Packet) /\ q \in Seq(Packet)
  BY AfterFacts DEF Packet
<1>10. \/ p = <<>> /\ q = <<>>
       \/ Len(p) <= 1 /\ Len(q) <= 1
       \/ EndAlike(p, q)
  <2>1. Both(bytes)
    BY <1>7, <1>8, Zenon
  <2>. QED
    BY <2>1 DEF Both, Together
<1>. HIDE DEF p, q
<1>11. ASSUME \/ p = <<>> /\ q = <<>>
              \/ Len(p) <= 1 /\ Len(q) <= 1
      PROVE  EndAlike(p, q)
  <2>1. Len(p) \in Nat /\ Len(q) \in Nat /\ Len(<<>>) = 0
    BY <1>9, LenProperties
  <2>2. Len(p) <= 2 /\ Len(q) <= 2
    BY <1>11, <2>1
  <2>. QED
    BY <1>9, <2>2, ShortAlike
<1>. QED
  BY <1>10, <1>11 DEF p, q

\* A reader that has read nothing: it is at the start of a packet.
Unread == Rec(<<>>, FALSE, FALSE)

LEMMA StartTyped ==
  /\ Unread \in Reader /\ Begun(Unread) = Unread
  /\ Stands(Unread, <<>>, <<>>, FALSE) /\ Packets(Unread, <<>>) = <<>>
<1>1. <<>> \in Seq(Bytes)
  OBVIOUS
<1>2. Unread \in Reader
  BY <1>1, RecIs DEF Unread
<1>3. Begun(Unread) = Unread
  BY <1>1, BegunRec DEF Unread
<1>4. After(Unread, <<>>) = Unread /\ Packets(Unread, <<>>) = <<>>
  BY <1>2, <1>3, NothingRead
<1>. QED
  BY <1>2, <1>3, <1>4 DEF Stands, Unread

LEMMA PacketsOn ==
  ASSUME NEW r \in Reader, NEW a \in Seq(Bytes), NEW b \in Seq(Bytes)
  PROVE  /\ After(r, a) \in Reader /\ Packets(r, a) \in Seq(Packet)
         /\ a \o b \in Seq(Bytes) /\ Packets(After(r, a), b) \in Seq(Packet)
         /\ Packets(r, a \o b) = Packets(r, a) \o Packets(After(r, a), b)
<1> DEFINE s == After(r, a)
<1>1. s \in Reader /\ Packets(r, a) \in Seq(Packet)
  BY AfterFacts DEF Packet
<1>2. a \o b \in Seq(Bytes)
  BY ConcatProperties
<1>3. Packets(r, a \o b) = Packets(r, a) \o Packets(s, b)
  BY ReadOn
<1>. HIDE DEF s
<1>4. Packets(s, b) \in Seq(Packet)
  BY <1>1, AfterFacts DEF Packet
<1>. QED
  BY <1>1, <1>2, <1>3, <1>4 DEF s

\* What a reader makes of bytes depends on it once it has begun a packet.
LEMMA BegunAlike ==
  ASSUME NEW r \in Reader, NEW s \in Reader, Begun(r) = Begun(s), NEW bytes \in Seq(Bytes)
  PROVE  Packets(r, bytes) = Packets(s, bytes)
<1>1. Read(r, bytes) = Read(s, bytes)
  BY Zenon DEF Read
<1>2. Made(r, bytes) = Made(s, bytes)
  BY <1>1, Zenon DEF Made
<1>. QED
  BY <1>2 DEF Packets

LEMMA PacketsJoinedOn ==
  ASSUME NEW a \in Seq(Packet), NEW b \in Seq(Packet), NEW c \in Seq(Packet)
  PROVE  (a \o b) \o c = a \o (b \o c) /\ a \o b \in Seq(Packet)
<1>1. (a \o b) \o c = a \o (b \o c)
  BY ConcatAssociative, Z3T(30)
<1>2. a \o b \in Seq(Packet)
  BY ConcatProperties
<1>. QED
  BY <1>1, <1>2

\* The bytes d are lost, and the reader may be in another state.
LEMMA Lost ==
  ASSUME NEW g \in Seq(Packet), NEW r \in Reader, NEW s \in Reader, NEW d \in Seq(Bytes), NEW v \in Seq(Bytes),
         NEW b \in Seq(Packet), NEW n \in Nat, MostlyFrom(g \o Packets(r, d \o v), b, n)
  PROVE  MostlyFrom(g \o Packets(s, v), b, n + 2)
<1> DEFINE k == Packets(r, d)  p == Packets(After(r, d), v)  q == Packets(s, v)
<1>1. After(r, d) \in Reader /\ k \in Seq(Packet) /\ p \in Seq(Packet) /\ Packets(r, d \o v) = k \o p
  BY PacketsOn
<1>2. EndAlike(q, p)
  BY <1>1, ReadersAgree
<1>. HIDE DEF k, p, q
<1>3. PICK x, y, t \in Seq(Packet) : Len(x) <= 2 /\ Len(y) <= 2 /\ q = x \o t /\ p = y \o t
  BY <1>2 DEF EndAlike
<1>4. k \o p = (k \o y) \o t /\ k \o y \in Seq(Packet)
  <2>1. (k \o y) \o t = k \o (y \o t) /\ k \o y \in Seq(Packet)
    BY <1>1, PacketsJoinedOn
  <2>. QED
    BY <1>3, <2>1
<1>5. MostlyFrom(g \o ((k \o y) \o t), b, n)
  BY <1>1, <1>4
<1>6. MostlyFrom(g \o (x \o t), b, n + 2)
  BY <1>3, <1>4, <1>5, MostlyBetween
<1>. QED
  BY <1>3, <1>6 DEF q

\* Whatever bytes w follow those under way: the packets g and those the reader makes are, but
\* for at most n, packets of s and those a reader makes of w from the start of a packet.
Expect(g, r, u, s, n) ==
  \A w \in Seq(Bytes) : MostlyFrom(g \o Packets(r, u \o w), s \o Packets(Unread, w), n)

LEMMA ExpectTyped ==
  ASSUME NEW s \in Seq(Packet), NEW w \in Seq(Bytes)
  PROVE  Packets(Unread, w) \in Seq(Packet) /\ s \o Packets(Unread, w) \in Seq(Packet)
<1>1. Packets(Unread, w) \in Seq(Packet)
  BY StartTyped, AfterFacts DEF Packet
<1>. QED
  BY <1>1, ConcatProperties

LEMMA ExpectStart == Expect(<<>>, Unread, <<>>, <<>>, 0)
<1>. SUFFICES ASSUME NEW w \in Seq(Bytes)
              PROVE  MostlyFrom(<<>> \o Packets(Unread, <<>> \o w), <<>> \o Packets(Unread, w), 0)
  BY DEF Expect
<1> DEFINE c == Packets(Unread, w)  e == <<>>
<1>1. e \o w = w
  BY ConcatEmptySeq
<1>2. e \in Seq(Packet) /\ c \in Seq(Packet) /\ MostlyFrom(e, e, 0)
  <2>1. e \in Seq(Packet)
    OBVIOUS
  <2>2. c \in Seq(Packet)
    BY StartTyped, AfterFacts DEF Packet
  <2>. QED
    BY <2>1, <2>2, MostlyNothing
<1>. HIDE DEF e
<1>3. MostlyFrom(e \o c, e \o c, 0)
  <2>. HIDE DEF c
  <2>. QED
    BY <1>2, MostlyJoined
<1>. QED
  BY <1>1, <1>3 DEF e

\* Bytes y on their way are lost.
LEMMA Dropped ==
  ASSUME NEW g \in Seq(Packet), NEW r \in Reader, NEW x \in Seq(Bytes), NEW y \in Seq(Bytes), NEW z \in Seq(Bytes),
         NEW s \in Seq(Packet), NEW n \in Nat, Expect(g, r, x \o (y \o z), s, n)
  PROVE  Expect(g, r, x \o z, s, n + 2)
<1>. SUFFICES ASSUME NEW w \in Seq(Bytes)
              PROVE  MostlyFrom(g \o Packets(r, (x \o z) \o w), s \o Packets(Unread, w), n + 2)
  BY DEF Expect
<1> DEFINE t == After(r, x)  k == Packets(r, x)  v == z \o w  d == y \o v  b == s \o Packets(Unread, w)
<1>1. v \in Seq(Bytes) /\ d \in Seq(Bytes) /\ b \in Seq(Packet)
  BY ExpectTyped, ConcatProperties
<1>2. (x \o z) \o w = x \o v /\ (x \o (y \o z)) \o w = x \o d
  <2> DEFINE yz == y \o z
  <2>1. (x \o z) \o w = x \o v
    BY JoinedOn, ZenonT(40)
  <2>2. yz \in Seq(Bytes) /\ yz \o w = d
    BY JoinedOn, ConcatProperties, SMTT(30)
  <2>. HIDE DEF yz, d
  <2>3. (x \o yz) \o w = x \o (yz \o w)
    BY <2>2, JoinedOn, ZenonT(40)
  <2>. QED
    BY <2>1, <2>2, <2>3 DEF yz
<1>3. MostlyFrom(g \o Packets(r, x \o d), b, n)
  BY <1>2 DEF Expect
<1>. HIDE DEF v, b
<1>4. /\ t \in Reader /\ k \in Seq(Packet)
      /\ Packets(t, d) \in Seq(Packet) /\ Packets(r, x \o d) = k \o Packets(t, d)
      /\ Packets(t, v) \in Seq(Packet) /\ Packets(r, x \o v) = k \o Packets(t, v)
  <2>. HIDE DEF d
  <2>. QED
    BY <1>1, PacketsOn, ZenonT(40)
<1> DEFINE f == g \o k
<1>. HIDE DEF t, k
<1>5. f \in Seq(Packet) /\ f \o Packets(t, d) = g \o Packets(r, x \o d) /\ f \o Packets(t, v) = g \o Packets(r, x \o v)
  <2> DEFINE i == Packets(t, d)  j == Packets(t, v)
  <2>1. /\ i \in Seq(Packet) /\ Packets(r, x \o d) = k \o i
        /\ j \in Seq(Packet) /\ Packets(r, x \o v) = k \o j
        /\ k \in Seq(Packet)
    BY <1>4
  <2>. HIDE DEF i, j, d
  <2>2. (g \o k) \o i = g \o (k \o i) /\ g \o k \in Seq(Packet)
    BY <2>1, PacketsJoinedOn, ZenonT(40)
  <2>3. (g \o k) \o j = g \o (k \o j)
    BY <2>1, PacketsJoinedOn, ZenonT(40)
  <2>. QED
    BY <2>1, <2>2, <2>3 DEF i, j
<1>. HIDE DEF f
<1>6. MostlyFrom(f \o Packets(t, v), b, n + 2)
  <2>1. MostlyFrom(f \o Packets(t, y \o v), b, n)
    BY <1>3, <1>5 DEF d
  <2>. QED
    BY <1>1, <1>4, <1>5, <2>1, Lost
<1>. QED
  BY <1>2, <1>5, <1>6 DEF b

\* What has arrived is thrown out.
LEMMA Emptied ==
  ASSUME NEW g \in Seq(Packet), NEW r \in Reader, NEW t \in Reader, NEW d \in Seq(Bytes), NEW v \in Seq(Bytes),
         NEW s \in Seq(Packet), NEW n \in Nat, Expect(g, r, d \o v, s, n)
  PROVE  Expect(g, t, v, s, n + 2)
<1>. SUFFICES ASSUME NEW w \in Seq(Bytes)
              PROVE  MostlyFrom(g \o Packets(t, v \o w), s \o Packets(Unread, w), n + 2)
  BY DEF Expect
<1> DEFINE x == v \o w  b == s \o Packets(Unread, w)
<1>1. x \in Seq(Bytes) /\ b \in Seq(Packet) /\ (d \o v) \o w = d \o x
  BY ExpectTyped, ConcatProperties, JoinedOn
<1>2. MostlyFrom(g \o Packets(r, d \o x), b, n)
  BY <1>1 DEF Expect
<1>. HIDE DEF x, b
<1>3. MostlyFrom(g \o Packets(t, x), b, n + 2)
  BY <1>1, <1>2, Lost
<1>. QED
  BY <1>3 DEF x, b

\* A frame read from the start of a packet, and what follows.
LEMMA FrameFirst ==
  ASSUME NEW p \in Packet, Len(p) <= MaxPacket, NEW w \in Seq(Bytes), NEW s \in Seq(Packet)
  PROVE  /\ Framed(p) \in Seq(Bytes)
         /\ s \o Packets(Unread, Framed(p) \o w) = Append(s, p) \o Packets(Unread, w)
<1> DEFINE f == Framed(p)  t == After(Unread, f)  m == Packets(Unread, w)  e == <<>>
<1>1. f \in Seq(Bytes) /\ p \in Seq(Bytes)
  BY FrameIs DEF Packet
<1>2. Stands(Unread, e \o f, <<>>, FALSE) /\ Packets(Unread, e \o f) = Append(Packets(Unread, e), p)
  <2>1. Stands(Unread, e, <<>>, FALSE) /\ Unread \in Reader
    BY StartTyped, Zenon
  <2>2. e \in Seq(Bytes)
    OBVIOUS
  <2>. HIDE DEF e
  <2>. QED
    BY <1>1, <2>1, <2>2, FrameRead
<1>3. e \o f = f
  <2>. HIDE DEF f
  <2>. QED
    BY <1>1, ConcatEmptySeq
<1>4. Begun(t) = Unread /\ Packets(Unread, f) = Append(e, p)
  BY <1>2, <1>3, StartTyped DEF Stands, Unread
<1>. HIDE DEF f
<1>5. t \in Reader /\ Packets(Unread, f \o w) = Packets(Unread, f) \o Packets(t, w)
  BY <1>1, StartTyped, PacketsOn
<1>. HIDE DEF t
<1>6. Packets(t, w) = m
  BY <1>4, <1>5, StartTyped, BegunAlike
<1>7. m \in Seq(Packet)
  BY ExpectTyped
<1> DEFINE one == <<p>>
<1>8. one \in Seq(Packet) /\ Append(s, p) = s \o one /\ Append(e, p) = one
  <2>1. one \in Seq(Packet) /\ Append(s, p) = s \o one
    BY AppendIsConcat
  <2>2. e \in Seq(Packet) /\ e \o one = one
    BY <2>1, ConcatEmptySeq
  <2>3. Append(e, p) = e \o one
    BY <2>2, AppendIsConcat
  <2>. QED
    BY <2>1, <2>2, <2>3
<1>. HIDE DEF one, e, m
<1>9. (s \o one) \o m = s \o (one \o m)
  BY <1>7, <1>8, PacketsJoinedOn
<1>. QED
  BY <1>1, <1>4, <1>5, <1>6, <1>8, <1>9 DEF f, m

\* A frame goes into the queue.
LEMMA ExpectSent ==
  ASSUME NEW g \in Seq(Packet), NEW r \in Reader, NEW u \in Seq(Bytes), NEW s \in Seq(Packet), NEW n \in Nat,
         Expect(g, r, u, s, n), NEW p \in Packet, Len(p) <= MaxPacket
  PROVE  Expect(g, r, u \o Framed(p), Append(s, p), n)
<1>. SUFFICES ASSUME NEW w \in Seq(Bytes)
              PROVE  MostlyFrom(g \o Packets(r, (u \o Framed(p)) \o w), Append(s, p) \o Packets(Unread, w), n)
  BY DEF Expect
<1> DEFINE f == Framed(p)  v == f \o w
<1>1. f \in Seq(Bytes) /\ s \o Packets(Unread, v) = Append(s, p) \o Packets(Unread, w)
  BY FrameFirst
<1>. HIDE DEF f
<1>2. v \in Seq(Bytes) /\ (u \o f) \o w = u \o v
  BY <1>1, ConcatProperties, JoinedOn
<1>3. MostlyFrom(g \o Packets(r, u \o v), s \o Packets(Unread, v), n)
  BY <1>2 DEF Expect
<1>. QED
  BY <1>1, <1>2, <1>3 DEF f

\* What the game has got.
LEMMA MostlyGot ==
  ASSUME NEW g \in Seq(Packet), NEW r \in Reader, NEW u \in Seq(Bytes), NEW v \in Seq(Bytes),
         NEW s \in Seq(Packet), NEW n \in Nat, Expect(g, r, u \o v, s, n)
  PROVE  MostlyFrom(g \o Packets(r, u), s, n)
<1> DEFINE e == <<>>  k == Packets(r, u)  y == Packets(After(r, u), v)
<1>1. e \in Seq(Bytes) /\ e \in Seq(Packet) /\ Len(e) = 0
  OBVIOUS
<1>2. k \in Seq(Packet) /\ y \in Seq(Packet) /\ Packets(r, u \o v) = k \o y /\ u \o v \in Seq(Bytes)
  BY PacketsOn
<1> DEFINE x == u \o v
<1>3. MostlyFrom(g \o Packets(r, x \o e), s \o Packets(Unread, e), n)
  BY <1>1 DEF Expect
<1>4. x \o e = x /\ s \o Packets(Unread, e) = s
  <2>1. x \in Seq(Bytes)
    BY <1>2
  <2>2. Packets(Unread, e) = e
    BY StartTyped
  <2>. HIDE DEF x
  <2>3. x \o <<>> = x /\ s \o <<>> = s
    BY <2>1, ConcatEmptySeq
  <2>. QED
    BY <2>2, <2>3
<1>. HIDE DEF e, k, y
<1>5. MostlyFrom(g \o (k \o y), s, n)
  BY <1>2, <1>3, <1>4
<1> DEFINE f == g \o k
<1>6. f \in Seq(Packet) /\ f \o y = g \o (k \o y) /\ f \o e = f /\ y \o e = y /\ e \o e = e
  <2>1. f \in Seq(Packet) /\ f \o y = g \o (k \o y)
    <3>1. k \in Seq(Packet) /\ y \in Seq(Packet)
      BY <1>2
    <3>. QED
      BY <3>1, PacketsJoinedOn, ZenonT(40)
  <2>. HIDE DEF f
  <2>2. f \o <<>> = f /\ y \o <<>> = y /\ <<>> \o <<>> = <<>>
    BY <1>2, <2>1, ConcatEmptySeq
  <2>. QED
    BY <2>1, <2>2 DEF e
<1>. HIDE DEF f
<1>7. MostlyFrom(f \o (y \o e), s, n)
  <2>1. f \o (y \o e) = g \o (k \o y)
    BY <1>6
  <2>. QED
    BY <1>5, <2>1
<1>8. Len(e) <= 0 /\ 0 \in Nat /\ n + 0 = n
  BY <1>1
<1>9. MostlyFrom(f \o (e \o e), s, n + 0)
  BY <1>1, <1>2, <1>6, <1>7, <1>8, MostlyBetween
<1>10. f \o (e \o e) = f
  BY <1>6
<1>. QED
  BY <1>8, <1>9, <1>10 DEF f, k

\* The queue q is thrown out, and a frame goes in.
LEMMA ExpectOverrun ==
  ASSUME NEW g \in Seq(Packet), NEW r \in Reader, NEW u \in Seq(Bytes), NEW q \in Seq(Bytes),
         NEW s \in Seq(Packet), NEW n \in Nat, Expect(g, r, u \o q, s, n), NEW p \in Packet, Len(p) <= MaxPacket
  PROVE  Expect(g, r, u \o Framed(p), Append(s, p), n + 2)
<1>. SUFFICES ASSUME NEW w \in Seq(Bytes)
              PROVE  MostlyFrom(g \o Packets(r, (u \o Framed(p)) \o w), Append(s, p) \o Packets(Unread, w), n + 2)
  BY DEF Expect
<1> DEFINE f == Framed(p)  v == f \o w  k == Packets(r, u)  c == Packets(Unread, v)  t == After(r, u)  h == g \o k
           b == s \o c  e == <<>>
<1>1. f \in Seq(Bytes) /\ b = Append(s, p) \o Packets(Unread, w)
  BY FrameFirst
<1>. HIDE DEF f
<1>2. v \in Seq(Bytes) /\ (u \o f) \o w = u \o v
  BY <1>1, ConcatProperties, JoinedOn
<1>. HIDE DEF v
<1>3. k \in Seq(Packet) /\ t \in Reader /\ Packets(t, v) \in Seq(Packet) /\ Packets(r, u \o v) = k \o Packets(t, v)
  BY <1>2, PacketsOn
<1>4. MostlyFrom(h, s, n)
  BY MostlyGot
<1>5. c \in Seq(Packet) /\ b \in Seq(Packet)
  BY <1>2, ExpectTyped
<1>. HIDE DEF k, c, t
<1>6. h \in Seq(Packet) /\ h \o Packets(t, v) = g \o Packets(r, u \o v)
  <2> DEFINE i == Packets(t, v)
  <2>1. i \in Seq(Packet) /\ Packets(r, u \o v) = k \o i
    BY <1>3
  <2>. HIDE DEF i
  <2>2. (g \o k) \o i = g \o (k \o i) /\ g \o k \in Seq(Packet)
    BY <1>3, <2>1, PacketsJoinedOn
  <2>. QED
    BY <2>1, <2>2 DEF i
<1>. HIDE DEF h
<1>7. MostlyFrom(h \o c, b, n)
  BY <1>4, <1>5, <1>6, MostlyJoined
<1>. HIDE DEF b
<1>8. e \in Seq(Bytes) /\ e \o v = v
  BY <1>2, ConcatEmptySeq
<1>. HIDE DEF e
<1>9. MostlyFrom(h \o Packets(t, v), b, n + 2)
  <2>1. MostlyFrom(h \o Packets(Unread, e \o v), b, n)
    BY <1>7, <1>8 DEF c
  <2>. QED
    BY <1>2, <1>3, <1>5, <1>6, <1>8, <2>1, StartTyped, Lost
<1>. QED
  BY <1>1, <1>2, <1>6, <1>9 DEF f

\* Bytes a are read.
LEMMA ExpectRead ==
  ASSUME NEW g \in Seq(Packet), NEW r \in Reader, NEW a \in Seq(Bytes), NEW v \in Seq(Bytes),
         NEW s \in Seq(Packet), NEW n \in Nat, Expect(g, r, a \o v, s, n)
  PROVE  Expect(g \o Packets(r, a), After(r, a), v, s, n)
<1> DEFINE k == Packets(r, a)  t == After(r, a)
<1>. SUFFICES ASSUME NEW w \in Seq(Bytes)
              PROVE  MostlyFrom((g \o k) \o Packets(t, v \o w), s \o Packets(Unread, w), n)
  BY DEF Expect
<1> DEFINE x == v \o w
<1>1. x \in Seq(Bytes) /\ (a \o v) \o w = a \o x
  BY ConcatProperties, JoinedOn
<1>2. MostlyFrom(g \o Packets(r, a \o x), s \o Packets(Unread, w), n)
  BY <1>1 DEF Expect
<1>. HIDE DEF x
<1>3. k \in Seq(Packet) /\ Packets(t, x) \in Seq(Packet) /\ Packets(r, a \o x) = k \o Packets(t, x)
  BY <1>1, PacketsOn
<1>. HIDE DEF k, t
<1>4. (g \o k) \o Packets(t, x) = g \o (k \o Packets(t, x))
  BY <1>3, PacketsJoinedOn, ZenonT(40)
<1>. QED
  BY <1>2, <1>3, <1>4 DEF x

\* ResyncInv says what becomes of losses, in whatever bytes follow those under way.
ResyncInv == LineInv /\ Expect(got, ReaderOf(rx), Underway, sent, 2 * upsets)

LEMMA ResyncTyped ==
  ASSUME ResyncInv
  PROVE  /\ LineInv /\ LineTypes /\ TxOK(tx) /\ RxOK(rx) /\ tx \in TxT /\ rx \in RxT
         /\ Underway \in Seq(Bytes) /\ Underway = RxBytes(rx) \o TxBytes(tx)
         /\ RxBytes(rx) \in Seq(Bytes) /\ TxBytes(tx) \in Seq(Bytes) /\ ReaderOf(rx) \in Reader
         /\ sent \in Seq(Packet) /\ got \in Seq(Packet)
         /\ upsets \in Nat /\ 2 * upsets \in Nat /\ 2 * (upsets + 1) = 2 * upsets + 2
         /\ Expect(got, ReaderOf(rx), Underway, sent, 2 * upsets)
<1>1. LineInv /\ LineTypes /\ Expect(got, ReaderOf(rx), Underway, sent, 2 * upsets)
  BY DEF ResyncInv, LineInv
<1>2. TxOK(tx) /\ RxOK(rx) /\ sent \in Seq(Packet) /\ got \in Seq(Packet) /\ upsets \in Nat
  BY <1>1 DEF LineTypes, Packet
<1>3. 2 * upsets \in Nat /\ 2 * (upsets + 1) = 2 * upsets + 2
  BY <1>2
<1>. QED
  BY <1>1, <1>2, <1>3, LineTyped

LEMMA ResyncStart == LineInit => ResyncInv
<1>. SUFFICES ASSUME LineInit PROVE ResyncInv
  OBVIOUS
<1>1. LineInv
  BY LineStart
<1>2. /\ got = <<>> /\ sent = <<>> /\ upsets = 0 /\ 2 * upsets = 0
      /\ tx.outque = <<>> /\ tx.buffer = <<>> /\ tx.uart = <<>> /\ rx.inque = <<>> /\ rx.uart = <<>>
      /\ ReaderOf(rx) = Unread
  BY DEF LineInit, ReaderOf, Unread, Rec
<1>3. Underway = <<>>
  <2>1. <<>> \o <<>> = <<>>
    BY ConcatEmptySeq
  <2>. QED
    BY <1>2, <2>1 DEF Underway
<1>4. Expect(got, ReaderOf(rx), Underway, sent, 2 * upsets)
  BY <1>2, <1>3, ExpectStart
<1>. QED
  BY <1>1, <1>4 DEF ResyncInv

LEMMA ResyncSend ==
  ASSUME ResyncInv, NEW p, CmdSend(p)
  PROVE  Expect(got', ReaderOf(rx'), Underway', sent', 2 * upsets')
<1> DEFINE f == Framed(p)  r == ReaderOf(rx)  a == RxBytes(rx)  b == TxBytes(tx)
           v == tx.uart \o tx.buffer  q == tx.outque
<1>1. /\ TxOK(tx) /\ RxOK(rx) /\ LineTypes /\ r \in Reader /\ a \in Seq(Bytes) /\ b \in Seq(Bytes)
      /\ Underway \in Seq(Bytes) /\ Underway = a \o b
      /\ sent \in Seq(Packet) /\ got \in Seq(Packet) /\ 2 * upsets \in Nat /\ 2 * (upsets + 1) = 2 * upsets + 2
      /\ Expect(got, r, Underway, sent, 2 * upsets)
  BY ResyncTyped
<1>2. /\ p \in Packet /\ Len(p) <= MaxPacket /\ f \in Seq(Bytes) /\ Len(f) <= QueSize
  BY <1>1, SendTyped DEF Packet
<1>3. /\ tx' = WriteBuffer(f) /\ sent' = Append(sent, p) /\ rx' = rx /\ got' = got
      /\ upsets' = IF Overruns(f) THEN upsets + 1 ELSE upsets
  BY DEF CmdSend
<1>4. v \in Seq(Bytes) /\ q \in Seq(Bytes) /\ b = v \o q
  <2>1. tx.uart \in Seq(Bytes) /\ tx.buffer \in Seq(Bytes) /\ q \in Seq(Bytes)
    BY <1>1, TxTyped DEF TxOK
  <2>. QED
    BY <2>1, ConcatProperties DEF TxBytes
<1>. HIDE DEF f, v, q
<1>5. /\ TxOK(tx')
      /\ Overruns(f) = FALSE => TxBytes(tx') = b \o f
      /\ Overruns(f) = TRUE => TxBytes(tx') = v \o f
  BY <1>1, <1>2, <1>3, Written DEF v
<1>6. Underway' = a \o TxBytes(tx')
  BY <1>1, <1>3, <1>5, UnderwayNext
<1>7. ReaderOf(rx') = r
  BY <1>3
<1>. HIDE DEF a, b, r
<1>8. CASE Overruns(f) = FALSE
  <2>1. (a \o b) \o f = a \o (b \o f)
    BY <1>1, <1>2, JoinedOn, ZenonT(40)
  <2>2. Underway' = Underway \o f
    BY <1>1, <1>5, <1>6, <1>8, <2>1
  <2>3. Expect(got, r, Underway \o f, Append(sent, p), 2 * upsets)
    BY <1>1, <1>2, ExpectSent DEF f
  <2>. QED
    BY <1>3, <1>7, <1>8, <2>2, <2>3
<1>9. CASE Overruns(f) = TRUE
  <2> DEFINE u == a \o v
  <2>1. u \in Seq(Bytes) /\ Underway = u \o q /\ Underway' = u \o f
    <3>1. u \in Seq(Bytes)
      BY <1>1, <1>4, ConcatProperties
    <3>2. (a \o v) \o q = a \o (v \o q) /\ (a \o v) \o f = a \o (v \o f)
      <4>1. a \in Seq(Bytes) /\ v \in Seq(Bytes) /\ q \in Seq(Bytes) /\ f \in Seq(Bytes)
        BY <1>1, <1>2, <1>4
      <4>2. (a \o v) \o q = a \o (v \o q)
        BY <4>1, JoinedOn, Z3T(30)
      <4>3. (a \o v) \o f = a \o (v \o f)
        BY <4>1, JoinedOn, Z3T(30)
      <4>. QED
        BY <4>2, <4>3
    <3>. QED
      BY <1>1, <1>4, <1>5, <1>6, <1>9, <3>1, <3>2
  <2>. HIDE DEF u
  <2>2. Expect(got, r, u \o f, Append(sent, p), 2 * upsets + 2)
    BY <1>1, <1>2, <1>4, <2>1, ExpectOverrun DEF f
  <2>3. 2 * upsets' = 2 * upsets + 2
    BY <1>1, <1>3, <1>9
  <2>. QED
    BY <1>3, <1>7, <2>1, <2>2, <2>3
<1>10. Overruns(f) \in BOOLEAN
  BY DEF Overruns
<1>. QED
  BY <1>8, <1>9, <1>10

LEMMA ResyncTransmit ==
  ASSUME ResyncInv, TxISR
  PROVE  Expect(got', ReaderOf(rx'), Underway', sent', 2 * upsets')
<1>1. /\ TxOK(tx) /\ RxOK(rx) /\ tx \in TxT /\ Underway = RxBytes(rx) \o TxBytes(tx)
      /\ Expect(got, ReaderOf(rx), Underway, sent, 2 * upsets)
  BY ResyncTyped
<1>2. tx.uart = <<>> /\ tx' = TransmitOrStop(tx) /\ rx' = rx /\ sent' = sent /\ got' = got /\ upsets' = upsets
  BY DEF TxISR
<1>3. TxOK(tx') /\ TxBytes(tx') = TxBytes(tx)
  <2>1. Len(tx.outque) <= QueSize /\ Len(tx.buffer) <= TxLen
    BY <1>1 DEF TxOK
  <2>. QED
    BY <1>1, <1>2, <2>1, Transmitted
<1>4. Underway' = Underway
  <2>1. Underway' = RxBytes(rx') \o TxBytes(tx')
    BY <1>1, <1>2, <1>3, UnderwayNext
  <2>. QED
    BY <1>1, <1>2, <1>3, <2>1
<1>. QED
  BY <1>1, <1>2, <1>4

\* Of the bytes x \o y \o z and those that follow, y is gone.
Without(before, after) ==
  \E x, y, z \in Seq(Bytes) : before = x \o (y \o z) /\ after = x \o z

LEMMA WithoutJoined ==
  ASSUME NEW x \in Seq(Bytes), NEW y \in Seq(Bytes), NEW z \in Seq(Bytes), NEW c \in Seq(Bytes)
  PROVE  Without((x \o (y \o z)) \o c, (x \o z) \o c)
<1> DEFINE d == z \o c  e == y \o z
<1>1. d \in Seq(Bytes) /\ e \in Seq(Bytes)
  BY ConcatProperties
<1>2. (x \o z) \o c = x \o d /\ e \o c = y \o d
  BY JoinedOn, ZenonT(40)
<1>. HIDE DEF d, e
<1>3. (x \o e) \o c = x \o (e \o c)
  BY <1>1, JoinedOn, ZenonT(40)
<1>4. Without((x \o e) \o c, (x \o z) \o c)
  BY <1>1, <1>2, <1>3 DEF Without
<1>. QED
  BY <1>4 DEF e

LEMMA WithoutOn ==
  ASSUME NEW a \in Seq(Bytes), NEW b \in Seq(Bytes), NEW c \in Seq(Bytes), Without(a, b)
  PROVE  Without(a \o c, b \o c)
<1>1. PICK x, y, z \in Seq(Bytes) : a = x \o (y \o z) /\ b = x \o z
  BY DEF Without
<1>2. Without((x \o (y \o z)) \o c, (x \o z) \o c)
  BY WithoutJoined, Zenon
<1>. QED
  BY <1>1, <1>2, Zenon

LEMMA WithoutDropped ==
  ASSUME NEW g \in Seq(Packet), NEW r \in Reader, NEW a, NEW b, Without(a, b),
         NEW s \in Seq(Packet), NEW n \in Nat, Expect(g, r, a, s, n)
  PROVE  Expect(g, r, b, s, n + 2)
BY Dropped DEF Without

\* The byte is refused, or replaces the one in the UART.
LEMMA ByteUpsets ==
  ASSUME NEW r, RxOK(r), NEW b \in Bytes, NEW u, OneByte(u, b), NEW w, w = WithByte(r, b, u),
         (r.receiving /\ IsFull(r)) \/ r.uart # <<>>
  PROVE  Without(RxBytes(r) \o u, RxBytes(w))
<1> DEFINE q == r.inque  v == r.uart  e == <<>>
<1>1. r \in RxT /\ q \in Seq(Bytes) /\ v \in Seq(Bytes) /\ r.receiving \in BOOLEAN /\ (r.receiving = TRUE => v = e)
  BY RxTyped DEF RxOK
<1>2. u \in Seq(Bytes) /\ e \in Seq(Bytes)
  BY DEF Bytes, OneByte
<1>3. CASE r.receiving = TRUE
  <2>1. v = e /\ IsFull(r)
    BY <1>1, <1>3
  <2>2. w.inque = q /\ w.uart = v
    BY <1>1, <1>3, <2>1 DEF WithByte, DoReceiveByte, RxT
  <2>3. RxBytes(w) = q \o e /\ RxBytes(r) = q \o e
    BY <2>1, <2>2 DEF RxBytes
  <2>. HIDE DEF q, v, e
  <2>4. q \o e = q /\ u \o e = u
    BY <1>1, <1>2, ConcatEmptySeq DEF e
  <2>5. RxBytes(r) \o u = q \o (u \o e) /\ RxBytes(w) = q \o e
    BY <2>3, <2>4
  <2>. QED
    BY <1>1, <1>2, <2>5 DEF Without
<1>4. CASE r.receiving = FALSE
  <2>1. w.inque = q /\ w.uart = u
    BY <1>1, <1>4 DEF WithByte, RxT
  <2>2. RxBytes(w) = q \o u /\ RxBytes(r) = q \o v
    BY <2>1 DEF RxBytes
  <2>. HIDE DEF q, v
  <2>3. (q \o v) \o u = q \o (v \o u)
    BY <1>1, <1>2, JoinedOn
  <2>. QED
    BY <1>1, <1>2, <2>2, <2>3 DEF Without
<1>. QED
  BY <1>1, <1>3, <1>4

LEMMA ResyncArrive ==
  ASSUME ResyncInv, Arrive
  PROVE  Expect(got', ReaderOf(rx'), Underway', sent', 2 * upsets')
<1> DEFINE r == ReaderOf(rx)  u == tx.uart  b == tx.uart[1]
           upset == (rx.receiving /\ IsFull(rx)) \/ rx.uart # <<>>
           a == RxBytes(rx)  c == TxBytes(tx')  n == 2 * upsets
<1>1. /\ TxOK(tx) /\ RxOK(rx) /\ r \in Reader /\ a \in Seq(Bytes) /\ Underway = a \o TxBytes(tx)
      /\ sent \in Seq(Packet) /\ got \in Seq(Packet) /\ n \in Nat /\ 2 * (upsets + 1) = n + 2
      /\ Expect(got, r, Underway, sent, n)
  BY ResyncTyped
<1>2. u # <<>> /\ tx' = WithoutByte(tx) /\ sent' = sent /\ got' = got
  BY DEF Arrive, WithoutByte
<1>3. rx' = WithByte(rx, b, u) /\ upsets' = IF upset THEN upsets + 1 ELSE upsets
  BY DEF Arrive, WithByte
<1>4. TxOK(tx') /\ b \in Bytes /\ OneByte(u, b) /\ TxBytes(tx) = u \o c
  BY <1>1, <1>2, ByteLeaves DEF OneByte
<1>5. u \in Seq(Bytes) /\ c \in Seq(Bytes)
  BY <1>1, <1>4, TxTyped DEF TxOK
<1>. HIDE DEF u, b
<1>6. RxOK(rx') /\ ReaderOf(rx') = r /\ (~upset => RxBytes(rx') = a \o u)
  BY <1>1, <1>3, <1>4, ByteArrives
<1>7. upset => Without(a \o u, RxBytes(rx'))
  BY <1>1, <1>3, <1>4, ByteUpsets
<1> DEFINE d == RxBytes(rx')  e == a \o u
<1>8. Underway' = d \o c /\ d \in Seq(Bytes)
  <2>1. rx' \in RxT
    BY <1>6 DEF RxOK
  <2>. QED
    BY <1>4, <1>6, <2>1, UnderwayNext, RxTyped
<1>9. Underway = e \o c /\ e \in Seq(Bytes)
  <2>. HIDE DEF a, c, d
  <2>1. (a \o u) \o c = a \o (u \o c)
    BY <1>1, <1>5, JoinedOn
  <2>2. a \o u \in Seq(Bytes)
    BY <1>1, <1>5, ConcatProperties
  <2>. QED
    BY <1>1, <1>4, <2>1, <2>2
<1>. HIDE DEF upset, a, c, d, r, n
<1>10. CASE ~upset
  <2>1. Underway' = Underway /\ 2 * upsets' = n
    BY <1>3, <1>6, <1>8, <1>9, <1>10 DEF d, n
  <2>. QED
    BY <1>1, <1>2, <1>6, <2>1
<1>11. CASE upset
  <2>. HIDE DEF e
  <2>1. Without(e, d)
    BY <1>7, <1>11 DEF d, e
  <2>2. Without(Underway, Underway')
    BY <1>5, <1>8, <1>9, <2>1, WithoutOn
  <2>3. Expect(got, r, Underway', sent, n + 2)
    BY <1>1, <2>2, WithoutDropped
  <2>4. 2 * upsets' = n + 2
    BY <1>1, <1>3, <1>11
  <2>. QED
    BY <1>2, <1>6, <2>3, <2>4
<1>. QED
  BY <1>10, <1>11

LEMMA ResyncNoise ==
  ASSUME ResyncInv, Noise
  PROVE  Expect(got', ReaderOf(rx'), Underway', sent', 2 * upsets')
<1> DEFINE r == ReaderOf(rx)  u == tx.uart  a == RxBytes(rx)  c == TxBytes(tx')  n == 2 * upsets
<1>1. /\ TxOK(tx) /\ RxOK(rx) /\ r \in Reader /\ a \in Seq(Bytes) /\ Underway = a \o TxBytes(tx)
      /\ sent \in Seq(Packet) /\ got \in Seq(Packet) /\ n \in Nat /\ 2 * (upsets + 1) = n + 2
      /\ Expect(got, r, Underway, sent, n)
  BY ResyncTyped
<1>2. /\ u # <<>> /\ tx' = WithoutByte(tx) /\ rx' = rx /\ sent' = sent /\ got' = got
      /\ upsets' = upsets + 1
  BY DEF Noise, WithoutByte
<1>3. TxOK(tx') /\ TxBytes(tx) = u \o c
  BY <1>1, <1>2, ByteLeaves
<1>4. u \in Seq(Bytes) /\ c \in Seq(Bytes)
  BY <1>1, <1>3, TxTyped DEF TxOK
<1>5. Underway' = a \o c /\ ReaderOf(rx') = r
  BY <1>1, <1>2, <1>3, UnderwayNext
<1>. HIDE DEF a, c, r, u, n
<1>6. Without(Underway, Underway')
  BY <1>1, <1>3, <1>4, <1>5 DEF Without
<1>7. Expect(got, r, Underway', sent, n + 2)
  BY <1>1, <1>6, WithoutDropped
<1>. QED
  BY <1>1, <1>2, <1>5, <1>7

LEMMA ResyncGet ==
  ASSUME ResyncInv, CmdGet
  PROVE  Expect(got', ReaderOf(rx'), Underway', sent', 2 * upsets')
<1> DEFINE r == ReaderOf(rx)  s == ReaderOf(rx')  o == TxBytes(tx)  v == Underway'  n == 2 * upsets
<1>1. /\ TxOK(tx) /\ RxOK(rx) /\ rx \in RxT /\ r \in Reader /\ o \in Seq(Bytes) /\ Underway = RxBytes(rx) \o o
      /\ sent \in Seq(Packet) /\ got \in Seq(Packet) /\ n \in Nat /\ 2 * (upsets + 1) = n + 2
      /\ Expect(got, r, Underway, sent, n)
  BY ResyncTyped
<1>2. tx' = tx /\ sent' = sent
  BY DEF CmdGet
<1>3. CASE Overflowing(rx)
  <2> DEFINE w == [rx EXCEPT !.inque = <<>>, !.newpacket = TRUE]  q == rx.inque  u == rx.uart  d == u \o o
  <2>1. rx' = w /\ upsets' = upsets + 1 /\ got' = got
    BY <1>3 DEF CmdGet
  <2>. HIDE DEF w
  <2>2. RxOK(rx')
    BY <1>1, <2>1, ThrownOut DEF w
  <2>3. s \in Reader /\ q \in Seq(Bytes) /\ u \in Seq(Bytes)
    BY <1>1, <2>2, RxTyped DEF RxOK
  <2>4. RxBytes(rx') = u
    <3>1. rx'.inque = <<>> /\ rx'.uart = u
      BY <1>1, <2>1 DEF w, RxT
    <3>2. <<>> \o u = u
      BY <2>3, ConcatEmptySeq
    <3>. QED
      BY <3>1, <3>2 DEF RxBytes
  <2>5. v = d
    BY <1>1, <1>2, <2>2, <2>4, UnderwayNext
  <2>6. Underway = (q \o u) \o o
    BY <1>1 DEF RxBytes
  <2>. HIDE DEF q, u, o, v, s, r, n
  <2>7. d \in Seq(Bytes) /\ Underway = q \o d
    <3>1. (q \o u) \o o = q \o (u \o o)
      BY <1>1, <2>3, JoinedOn
    <3>2. u \o o \in Seq(Bytes)
      BY <1>1, <2>3, ConcatProperties
    <3>. QED
      BY <2>6, <3>1, <3>2
  <2>. HIDE DEF d
  <2>8. Expect(got, s, d, sent, n + 2)
    BY <1>1, <2>3, <2>7, Emptied
  <2>. QED
    BY <1>1, <1>2, <2>1, <2>5, <2>8 DEF s, v
<1>4. CASE ~Overflowing(rx)
  <2>1. /\ rx' = ReadPacket(rx) /\ upsets' = upsets
        /\ got' = IF rx'.newpacket THEN Append(got, rx'.packet) ELSE got
    BY <1>4 DEF CmdGet
  <2>2. RxOK(rx') /\ \E a : Takes(rx, rx', a)
    BY <1>1, <1>4, <2>1, ReadPacketKeeps
  <2>3. PICK a : Takes(rx, rx', a)
    BY <2>2
  <2>4. a \in Seq(Bytes) /\ RxBytes(rx) = a \o RxBytes(rx') /\ OnePacket(r, a, s)
    BY <2>3 DEF Takes
  <2>5. got' = got \o Packets(r, a)
    BY <1>1, <2>1, <2>2, <2>4, GotOnePacket DEF Packet
  <2>6. v \in Seq(Bytes) /\ Underway = a \o v
    BY <1>1, <1>2, <2>2, <2>4, UnderwayRead DEF Packet
  <2>7. s = After(r, a)
    BY <2>4 DEF OnePacket
  <2>. HIDE DEF r, s, v, n
  <2>8. Expect(got \o Packets(r, a), After(r, a), v, sent, n)
    BY <1>1, <2>4, <2>6, ExpectRead
  <2>. QED
    BY <1>2, <2>1, <2>5, <2>7, <2>8 DEF s, v, n
<1>. QED
  BY <1>3, <1>4

LEMMA ResyncStep ==
  ASSUME ResyncInv, LineNext \/ UNCHANGED lineVars
  PROVE  ResyncInv'
<1>1. LineInv'
  BY LineStep DEF ResyncInv
<1>2. Expect(got', ReaderOf(rx'), Underway', sent', 2 * upsets')
  <2>1. CASE UNCHANGED lineVars
    <3>1. /\ tx' = tx /\ rx' = rx /\ sent' = sent /\ got' = got /\ upsets' = upsets
          /\ Underway' = Underway
      BY <2>1 DEF lineVars, Underway
    <3>. QED
      BY <3>1 DEF ResyncInv
  <2>2. ASSUME NEW p, CmdSend(p) PROVE Expect(got', ReaderOf(rx'), Underway', sent', 2 * upsets')
    BY <2>2, ResyncSend
  <2>3. CASE CmdGet \/ TxISR \/ Arrive \/ Noise
    BY <2>3, ResyncGet, ResyncTransmit, ResyncArrive, ResyncNoise
  <2>. QED
    BY <2>1, <2>2, <2>3 DEF LineNext
<1>. QED
  BY <1>1, <1>2 DEF ResyncInv, ReaderOf, Underway

LEMMA ResyncImplies == ResyncInv => Resync
<1>. SUFFICES ASSUME ResyncInv PROVE Resync
  OBVIOUS
<1> DEFINE r == ReaderOf(rx)  e == <<>>  k == Packets(r, e)
<1>1. /\ r \in Reader /\ Underway \in Seq(Bytes) /\ sent \in Seq(Packet) /\ got \in Seq(Packet)
      /\ 2 * upsets \in Nat /\ Expect(got, r, Underway, sent, 2 * upsets)
  BY ResyncTyped
<1>. HIDE DEF r
<1>2. e \in Seq(Bytes) /\ k = <<>> /\ e \o Underway = Underway
  BY <1>1, NothingRead, ConcatEmptySeq
<1>3. got \o k = got
  BY <1>1, <1>2, ConcatEmptySeq
<1>. HIDE DEF e
<1>4. Expect(got, r, e \o Underway, sent, 2 * upsets)
  BY <1>1, <1>2
<1>5. MostlyFrom(got \o k, sent, 2 * upsets)
  BY <1>1, <1>2, <1>4, MostlyGot
<1>. QED
  BY <1>3, <1>5 DEF Resync

\* Each time bytes are lost, to noise or to full queues, at most two packets are garbled;
\* the others that the game gets are those sent, in order, each at most once (WriteBuffer,
\* DoReceiveByte, ReadPacket).
THEOREM ResyncHolds == DriverSpec => []Resync
<1>1. DriverInit => ResyncInv
  BY ResyncStart DEF DriverInit
<1>2. ResyncInv /\ [DriverNext]_driverVars => ResyncInv'
  <2>. SUFFICES ASSUME ResyncInv, [DriverNext]_driverVars PROVE ResyncInv'
    OBVIOUS
  <2>1. CASE ModemNext /\ Connecting
    BY <2>1, ResyncStep DEF Connecting
  <2>2. CASE Begin
    BY <2>2, ResyncStep DEF Begin
  <2>3. CASE LineNext /\ PlayingSerial
    BY <2>3, ResyncStep
  <2>4. CASE ParNext /\ PlayingParallel
    BY <2>4, ResyncStep DEF PlayingParallel
  <2>5. CASE UNCHANGED driverVars
    BY <2>5, ResyncStep DEF driverVars
  <2>. QED
    BY <2>1, <2>2, <2>3, <2>4, <2>5 DEF DriverNext
<1>. QED
  BY <1>1, <1>2, ResyncImplies, PTL DEF DriverSpec
=============================================================================
