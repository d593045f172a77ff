--------------------------- MODULE IpxSetupProof ---------------------------
(***************************************************************************)
(* Proofs about IpxSetup, for any scenarios: any number of machines with   *)
(* any addresses and flags, any number of ECBs, losses and aborts.         *)
(***************************************************************************)
EXTENDS IpxSetup, FiniteSetTheorems, SequenceTheorems, WellFoundedInduction, TLAPS

-----------------------------------------------------------------------------
(***************************************************************************)
(* The inductive invariant.  MachineOK is about one machine, and is kept   *)
(* by each operation of the driver; Together and Ordered relate machines.  *)
(***************************************************************************)
\* A setup packet tells the flags of its sender, and a -dup that some machine asked for.
PacketOK(pkt) ==
  /\ pkt \in Packet
  /\ pkt.time = -1 => /\ pkt.old = flags[pkt.src].old /\ pkt.player = flags[pkt.src].player
                      /\ pkt.dup >= flags[pkt.src].dup
                      /\ \E n \in Machine : pkt.dup = flags[n].dup

\* The table of nodes: nobody is in it twice, the own node is first, and the flags are
\* those of the nodes; only the own -player is not noted before the first broadcast. No
\* other node asks for the number that m asks for.
TableOK(m, r) ==
  /\ IF r.phase \in {"setup", "game"} THEN r.nodes # <<>> /\ r.nodes[1].addr = m ELSE r.nodes = <<>>
  /\ \A i, j \in DOMAIN r.nodes : r.nodes[i].addr = r.nodes[j].addr => i = j
  /\ \A i \in DOMAIN r.nodes :
       /\ \/ r.nodes[i].player = flags[r.nodes[i].addr].player
          \/ i = 1 /\ r.nodes[i].found = 1 /\ r.nodes[i].player = 0
       /\ i # 1 /\ flags[m].player # -1 => flags[r.nodes[i].addr].player # flags[m].player

\* doomnet_dup is the highest -dup of the nodes that are known, or an even higher one.
DupOK(r) ==
  /\ r.phase \in {"setup", "game"} => \E n \in Machine : r.doomnet_dup = flags[n].dup
  /\ \A i \in DOMAIN r.nodes : r.doomnet_dup >= flags[r.nodes[i].addr].dup

\* A game runs on what was found at its launch.
GameOK(m, r) ==
  IF r.phase = "game"
  THEN AllFound(r) /\ r.localtime >= 0 /\ r.consoleplayer = DetermineConsolePlayer(m, r)
  ELSE r.localtime = -1

MachineOK(m, r) ==
  /\ r \in Driver /\ TableOK(m, r) /\ DupOK(r) /\ GameOK(m, r)
  /\ \A i \in Waiting(r) : PacketOK(r.pool[i])

\* Who tells that it has found all has found all, and does not forget it.
Whole(r) == r.phase \in {"setup", "game"} /\ Len(r.nodes) = Wanted
Complete(machines) == {n \in Machine : Whole(machines[n])}
Told(r, complete) ==
  /\ \A i \in DOMAIN r.nodes : r.nodes[i].found = Wanted => r.nodes[i].addr \in complete
  /\ \A i \in Waiting(r) : r.pool[i].found = Wanted => r.pool[i].src \in complete
Together == aborts = 0 => \A m \in Machine : Told(machine[m], Complete(machine))

\* Packets of the game of n wait in a pool with different times, not later than n's clock
\* and later than the times of those that the game that reads the pool has got.
GamePacket(pkt, n) == pkt.src = n /\ pkt.time # -1
InTime(pool, times, n, clock) ==
  /\ \A i, j \in 1 .. Slots : GamePacket(pool[i], n) /\ GamePacket(pool[j], n) /\ pool[i].time = pool[j].time => i = j
  /\ \A i \in 1 .. Slots : GamePacket(pool[i], n) => pool[i].time <= clock
  /\ \A k \in DOMAIN times : times[k] <= clock
  /\ \A k \in DOMAIN times, i \in 1 .. Slots : GamePacket(pool[i], n) => times[k] < pool[i].time
  /\ \A k, l \in DOMAIN times : k < l => times[k] < times[l]
Ordered == \A m, n \in Machine : InTime(machine[m].pool, got[m][n], n, machine[n].localtime)

Inv ==
  /\ scenario \in Scenarios /\ machine \in [Machine -> Driver] /\ got \in [Machine -> [Machine -> Seq(Nat)]]
  /\ losses \in 0 .. scenario.losses /\ lastlost \in BOOLEAN /\ aborts \in 0 .. scenario.aborts
  /\ \A m \in Machine : MachineOK(m, machine[m])
-----------------------------------------------------------------------------
(***************************************************************************)
(* Scenarios, and the least of a set of numbers.                           *)
(***************************************************************************)
LEMMA ScenarioFacts ==
  ASSUME scenario \in Scenarios
  PROVE  /\ IsFiniteSet(Machine) /\ Machine \subseteq Nat /\ Wanted \in Nat
         /\ \A m \in Machine : /\ flags[m].player \in {-1} \cup 1 .. Wanted
                               /\ flags[m].dup \in Nat \ {0} /\ flags[m].old \in BOOLEAN
                               /\ flags[m].old => flags[m].player = -1 /\ flags[m].dup = 1
         /\ {scenario.backlog, scenario.sends, scenario.losses, scenario.aborts} \subseteq Nat
<1>1. /\ IsFiniteSet(Machine) /\ Machine \subseteq Nat /\ scenario \in Scenario(Machine)
      /\ \A m \in Machine : flags[m].old => flags[m].player = -1 /\ flags[m].dup = 1
  BY ScenariosAssumption DEF Machine, flags
<1>2. Wanted \in Nat
  BY <1>1, FS_CardinalityType DEF Wanted
<1>. QED
  BY <1>1, <1>2 DEF Scenario, flags, Wanted

LEMMA LeastNumber ==
  ASSUME NEW S, S \subseteq Nat, S # {}
  PROVE  \E x \in S : \A y \in S : x <= y
<1>1. PICK x \in S : \A y \in S : ~ (<<y, x>> \in OpToRel(<, Nat))
  BY NatLessThanWellFounded, WFMin
<1>2. \A y \in Nat : y < x => <<y, x>> \in OpToRel(<, Nat)
  BY DEF OpToRel
<1>3. \A y \in S : ~(y < x) /\ y \in Nat /\ x \in Nat
  BY <1>1, <1>2
<1>. QED
  BY <1>3

\* Of the packets that wait, IPXGetPacket takes one with the lowest time.
LEMMA LowestTime ==
  ASSUME NEW r, Waiting(r) # {}, \A i \in Waiting(r) : r.pool[i].time \in Nat \cup {-1}
  PROVE  /\ IPXGetPacket(r) \in Waiting(r)
         /\ \A j \in Waiting(r) : r.pool[IPXGetPacket(r)].time <= r.pool[j].time
<1> DEFINE Times == {r.pool[i].time + 1 : i \in Waiting(r)}
<1>0. Waiting(r) \subseteq Nat
  BY SlotsAssumption DEF Waiting
<1>1. PICK t \in Times : \A u \in Times : t <= u
  <2>1. Times \subseteq Nat /\ Times # {}
    OBVIOUS
  <2>. QED
    BY <2>1, LeastNumber
<1> DEFINE First == {i \in Waiting(r) : r.pool[i].time + 1 = t}
<1>2. PICK i \in First : \A j \in First : i <= j
  <2>1. First \subseteq Nat /\ First # {}
    BY <1>0
  <2>. QED
    BY <2>1, LeastNumber
<1> DEFINE Lowest(k) == \A j \in Waiting(r) :
             \/ r.pool[k].time < r.pool[j].time
             \/ r.pool[k].time = r.pool[j].time /\ k <= j
<1>3. i \in Waiting(r) /\ Lowest(i)
  <2>1. i \in Waiting(r) /\ r.pool[i].time + 1 = t /\ i \in Nat
    BY <1>0, <1>2
  <2>2. ASSUME NEW j \in Waiting(r)
        PROVE  r.pool[i].time < r.pool[j].time \/ (r.pool[i].time = r.pool[j].time /\ i <= j)
    <3>0. r.pool[j].time + 1 \in Times
      OBVIOUS
    <3>1. t <= r.pool[j].time + 1 /\ r.pool[i].time \in Int /\ r.pool[j].time \in Int
      <4>1. t <= r.pool[j].time + 1
        BY <1>1, <3>0
      <4>2. \A k \in Waiting(r) : r.pool[k].time \in Int
        OBVIOUS
      <4>. QED
        BY <2>1, <4>1, <4>2
    <3>2. r.pool[j].time + 1 = t => i <= j
      BY <1>2, <2>2
    <3>. QED
      BY <2>1, <3>1, <3>2
  <2>. QED
    BY <2>1, <2>2
<1>4. IPXGetPacket(r) \in Waiting(r) /\ Lowest(IPXGetPacket(r))
  BY <1>3 DEF IPXGetPacket
<1>. QED
  BY <1>4

-----------------------------------------------------------------------------
(***************************************************************************)
(* Player numbers.  Asked numbers are taken; a machine that asks for none  *)
(* gets the free number that has as many free ones below it as there are   *)
(* such machines of lower address.                                         *)
(***************************************************************************)
FreeNumber(p) == \A n \in Machine : p # flags[n].player - 1
FreeBelow(p) == {q \in 0 .. p - 1 : FreeNumber(q)}
TakenBelow(p) == {q \in 0 .. p - 1 : ~FreeNumber(q)}
Lower(m) == {n \in Machine : flags[n].player = -1 /\ n < m}
NumberOf(m, p) == FreeNumber(p) /\ Cardinality(FreeBelow(p)) = Cardinality(Lower(m))

LEMMA BelowCount ==
  ASSUME NEW p \in Nat
  PROVE  /\ IsFiniteSet(FreeBelow(p)) /\ IsFiniteSet(TakenBelow(p))
         /\ Cardinality(FreeBelow(p)) \in Nat /\ Cardinality(TakenBelow(p)) \in Nat
         /\ Cardinality(FreeBelow(p)) + Cardinality(TakenBelow(p)) = p
<1>1. IsFiniteSet(0 .. p - 1) /\ Cardinality(0 .. p - 1) = p
  BY FS_Interval
<1>2. FreeBelow(p) \in SUBSET (0 .. p - 1) /\ TakenBelow(p) \in SUBSET (0 .. p - 1)
  BY DEF FreeBelow, TakenBelow
<1>3. IsFiniteSet(FreeBelow(p)) /\ IsFiniteSet(TakenBelow(p))
  BY <1>1, <1>2, FS_Subset
<1>4. FreeBelow(p) \cup TakenBelow(p) = 0 .. p - 1 /\ FreeBelow(p) \cap TakenBelow(p) = {}
  BY DEF FreeBelow, TakenBelow
<1>5. /\ Cardinality(FreeBelow(p)) \in Nat /\ Cardinality(TakenBelow(p)) \in Nat
      /\ Cardinality({}) = 0
  BY <1>3, FS_CardinalityType, FS_EmptySet
<1>6. p = Cardinality(FreeBelow(p)) + Cardinality(TakenBelow(p)) - Cardinality({})
  BY <1>1, <1>3, <1>4, FS_Union
<1>. QED
  BY <1>3, <1>5, <1>6

\* Those who ask, those of lower address and the machine itself are different machines.
LEMMA TakenCount ==
  ASSUME scenario \in Scenarios, NEW m \in Machine, flags[m].player = -1, NEW p \in Nat
  PROVE  /\ Cardinality(Lower(m)) \in Nat
         /\ Cardinality(TakenBelow(p)) + Cardinality(Lower(m)) < Wanted
<1> DEFINE Asking == {n \in Machine : flags[n].player # -1}
           Rest == Machine \ {m}
<1>1. /\ IsFiniteSet(Machine) /\ Machine \subseteq Nat
      /\ IsFiniteSet(Asking) /\ IsFiniteSet(Lower(m)) /\ IsFiniteSet(Rest)
      /\ IsFiniteSet(TakenBelow(p))
  BY ScenarioFacts, FS_Subset, BelowCount DEF Lower
<1>2. /\ Cardinality(Asking) \in Nat /\ Cardinality(Lower(m)) \in Nat /\ Wanted \in Nat
      /\ Cardinality(Rest) = Wanted - 1 /\ Cardinality(TakenBelow(p)) \in Nat
  BY <1>1, FS_CardinalityType, FS_RemoveElement DEF Wanted
<1>3. Cardinality(TakenBelow(p)) <= Cardinality(Asking)
  <2> DEFINE f == [q \in TakenBelow(p) |-> CHOOSE n \in Asking : q = flags[n].player - 1]
  <2>1. \A q \in TakenBelow(p) : \E n \in Asking : q = flags[n].player - 1
    BY DEF TakenBelow, FreeNumber
  <2>2. \A q \in TakenBelow(p) : f[q] \in Asking /\ q = flags[f[q]].player - 1
    BY <2>1
  <2>3. f \in Injection(TakenBelow(p), Asking)
    <3>. HIDE DEF f
    <3>1. DOMAIN f = TakenBelow(p) /\ f = [q \in TakenBelow(p) |-> f[q]]
      BY DEF f
    <3>. QED
      BY <2>2, <3>1 DEF Injection, IsInjective
  <2>. QED
    BY <2>3, <1>1, FS_Injection
<1>4. Cardinality(Asking \cup Lower(m)) = Cardinality(Asking) + Cardinality(Lower(m))
  <2>1. Asking \cap Lower(m) = {} /\ Cardinality({}) = 0
    BY FS_EmptySet DEF Lower
  <2>2. Cardinality(Asking \cup Lower(m))
          = Cardinality(Asking) + Cardinality(Lower(m)) - Cardinality(Asking \cap Lower(m))
    BY <1>1, FS_Union
  <2>. HIDE DEF Asking
  <2>. QED
    BY <1>2, <2>1, <2>2
<1>5. Cardinality(Asking \cup Lower(m)) <= Cardinality(Rest)
  <2>1. Asking \cup Lower(m) \in SUBSET Rest
    BY <1>1 DEF Lower
  <2>. QED
    BY <1>1, <2>1, FS_Subset
<1>. QED
  BY <1>2, <1>3, <1>4, <1>5

LEMMA NumberExists ==
  ASSUME scenario \in Scenarios, NEW m \in Machine, flags[m].player = -1
  PROVE  \E p \in 0 .. 2 * Wanted : NumberOf(m, p)
<1> DEFINE Enough == {k \in 0 .. Wanted : Cardinality(FreeBelow(k)) > Cardinality(Lower(m))}
<1>0. Wanted \in Nat /\ Cardinality(Lower(m)) \in Nat
  BY ScenarioFacts, TakenCount
<1>1. Wanted \in Enough
  <2>1. Wanted \in 0 .. Wanted
    BY <1>0
  <2>2. Cardinality(TakenBelow(Wanted)) + Cardinality(Lower(m)) < Wanted
    BY <1>0, TakenCount
  <2>3. /\ Cardinality(FreeBelow(Wanted)) \in Nat /\ Cardinality(TakenBelow(Wanted)) \in Nat
        /\ Cardinality(FreeBelow(Wanted)) + Cardinality(TakenBelow(Wanted)) = Wanted
    BY <1>0, BelowCount
  <2>4. Cardinality(FreeBelow(Wanted)) > Cardinality(Lower(m))
    BY ONLY <1>0, <2>2, <2>3
  <2>. QED
    BY <2>1, <2>4
<1>2. PICK k \in Enough : \A l \in Enough : k <= l
  <2>1. Enough \subseteq Nat
    BY <1>0
  <2>. QED
    BY <1>1, <2>1, LeastNumber
<1>3. k # 0
  BY <1>0, <1>2, BelowCount
<1>4. k - 1 \in Nat /\ k - 1 \in 0 .. 2 * Wanted /\ k - 1 \in 0 .. Wanted /\ k \in Nat
  BY <1>0, <1>2, <1>3
<1>5. ~(Cardinality(FreeBelow(k - 1)) > Cardinality(Lower(m)))
  BY <1>2, <1>4
<1>6. Cardinality(FreeBelow(k - 1)) \in Nat /\ Cardinality(FreeBelow(k)) > Cardinality(Lower(m))
  BY <1>2, <1>4, BelowCount
<1>7. IF FreeNumber(k - 1) THEN FreeBelow(k) = FreeBelow(k - 1) \cup {k - 1}
                           ELSE FreeBelow(k) = FreeBelow(k - 1)
  BY <1>4 DEF FreeBelow
<1>8. FreeNumber(k - 1)
  BY <1>5, <1>6, <1>7
<1>9. Cardinality(FreeBelow(k)) = Cardinality(FreeBelow(k - 1)) + 1
  <2>1. k - 1 \notin FreeBelow(k - 1) /\ IsFiniteSet(FreeBelow(k - 1))
    <3>1. k - 1 \notin 0 .. (k - 1) - 1
      BY <1>4
    <3>. QED
      BY <1>4, <3>1, BelowCount DEF FreeBelow
  <2>. QED
    BY <1>7, <1>8, <2>1, FS_AddElement
<1>. QED
  BY <1>0, <1>4, <1>5, <1>6, <1>8, <1>9 DEF NumberOf

LEMMA NumberBound ==
  ASSUME scenario \in Scenarios, NEW m \in Machine, flags[m].player = -1, NEW p \in Nat, NumberOf(m, p)
  PROVE  p < Wanted
<1>1. /\ Cardinality(Lower(m)) \in Nat /\ Wanted \in Nat
      /\ Cardinality(TakenBelow(p)) + Cardinality(Lower(m)) < Wanted
  BY ScenarioFacts, TakenCount
<1>2. /\ Cardinality(FreeBelow(p)) \in Nat /\ Cardinality(TakenBelow(p)) \in Nat
      /\ Cardinality(FreeBelow(p)) + Cardinality(TakenBelow(p)) = p
  BY BelowCount
<1>3. Cardinality(FreeBelow(p)) = Cardinality(Lower(m))
  BY DEF NumberOf
<1>. QED
  BY ONLY <1>1, <1>2, <1>3, p \in Nat

LEMMA NumbersDiffer ==
  ASSUME scenario \in Scenarios, NEW m \in Machine, NEW n \in Machine, NEW p \in Nat,
         flags[m].player = -1, flags[n].player = -1, NumberOf(m, p), NumberOf(n, p)
  PROVE  m = n
<1>1. ASSUME NEW a \in Machine, NEW b \in Machine, flags[a].player = -1, a < b,
             Cardinality(Lower(a)) = Cardinality(Lower(b))
      PROVE  FALSE
  <2>1. Machine \subseteq Nat /\ IsFiniteSet(Lower(b))
    BY ScenarioFacts, FS_Subset DEF Lower
  <2>2. Lower(a) \in SUBSET Lower(b) /\ a \in Lower(b) /\ a \notin Lower(a)
    <3>1. \A c \in Machine : c < a => c < b
      BY <1>1, <2>1
    <3>2. ~(a < a)
      BY <2>1
    <3>. QED
      BY <1>1, <3>1, <3>2 DEF Lower
  <2>. QED
    BY <1>1, <2>1, <2>2, FS_Subset
<1>2. m \in Nat /\ n \in Nat
  BY ScenarioFacts
<1>3. Cardinality(Lower(m)) = Cardinality(Lower(n))
  BY DEF NumberOf
<1>4. ~(m < n) /\ ~(n < m)
  BY <1>1, <1>3
<1>. QED
  BY <1>2, <1>4

-----------------------------------------------------------------------------
(***************************************************************************)
(* The table of nodes.                                                     *)
(***************************************************************************)
Once(nodes) == \A i, j \in DOMAIN nodes : nodes[i].addr = nodes[j].addr => i = j

LEMMA IntervalCount ==
  ASSUME NEW n \in Nat PROVE IsFiniteSet(1 .. n) /\ Cardinality(1 .. n) = n
BY FS_Interval

LEMMA TableSize ==
  ASSUME scenario \in Scenarios, NEW nodes \in Seq(Node), Once(nodes)
  PROVE  /\ Len(nodes) <= Wanted
         /\ Len(nodes) = Wanted => \A n \in Machine : \E i \in DOMAIN nodes : nodes[i].addr = n
<1> DEFINE f == [i \in 1 .. Len(nodes) |-> nodes[i].addr]
<1>1. IsFiniteSet(Machine) /\ Len(nodes) \in Nat /\ Cardinality(1 .. Len(nodes)) = Len(nodes)
  <2>1. Len(nodes) \in Nat
    OBVIOUS
  <2>. QED
    BY <2>1, ScenarioFacts, IntervalCount
<1>2. DOMAIN nodes = 1 .. Len(nodes) /\ \A i \in 1 .. Len(nodes) : nodes[i].addr \in Machine
  <2>1. \A i \in 1 .. Len(nodes) : nodes[i] \in Node
    BY ElementOfSeq
  <2>. QED
    BY <2>1 DEF Node
<1>3. f \in Injection(1 .. Len(nodes), Machine)
  BY <1>2 DEF Once, Injection, IsInjective
<1>4. /\ Cardinality(1 .. Len(nodes)) <= Cardinality(Machine)
      /\ Cardinality(1 .. Len(nodes)) = Cardinality(Machine) => f \in Surjection(1 .. Len(nodes), Machine)
  BY <1>1, <1>3, FS_Injection
<1>5. Len(nodes) <= Wanted
  BY <1>1, <1>4 DEF Wanted
<1>6. ASSUME Len(nodes) = Wanted, NEW n \in Machine PROVE \E i \in DOMAIN nodes : nodes[i].addr = n
  <2>1. f \in Surjection(1 .. Len(nodes), Machine)
    BY <1>1, <1>4, <1>6 DEF Wanted
  <2>2. PICK i \in 1 .. Len(nodes) : f[i] = n
    BY <2>1 DEF Surjection
  <2>. QED
    BY <1>2, <2>2
<1>. QED
  BY <1>5, <1>6

LEMMA AllFoundFacts ==
  ASSUME scenario \in Scenarios, NEW r, r.nodes \in Seq(Node), Once(r.nodes), AllFound(r)
  PROVE  Len(r.nodes) = Wanted /\ \A i \in DOMAIN r.nodes : r.nodes[i].found = Wanted
<1> DEFINE complete == {i \in DOMAIN r.nodes : \A j \in 1 .. i : r.nodes[j].found = Wanted}
<1>1. complete \in SUBSET (1 .. Len(r.nodes)) /\ Len(r.nodes) \in Nat
  OBVIOUS
<1>2. IsFiniteSet(1 .. Len(r.nodes)) /\ Cardinality(1 .. Len(r.nodes)) = Len(r.nodes)
  BY <1>1, IntervalCount
<1>3. /\ Cardinality(complete) <= Len(r.nodes)
      /\ Cardinality(complete) = Len(r.nodes) => complete = 1 .. Len(r.nodes)
  BY <1>1, <1>2, FS_Subset
<1>4. Cardinality(complete) = Wanted /\ Wanted \in Nat /\ Len(r.nodes) <= Wanted
  BY TableSize, ScenarioFacts DEF AllFound
<1>5. Len(r.nodes) = Wanted /\ complete = 1 .. Len(r.nodes)
  BY <1>1, <1>3, <1>4
<1>. QED
  BY <1>1, <1>5

LEMMA NodeForAddressFacts ==
  ASSUME NEW r, r.nodes \in Seq(Node), Once(r.nodes), NEW addr
  PROVE  \/ /\ NodeForAddress(r, addr) = 0 /\ \A i \in DOMAIN r.nodes : r.nodes[i].addr # addr
         \/ /\ NodeForAddress(r, addr) \in DOMAIN r.nodes
            /\ NodeForAddress(r, addr) # 0 /\ r.nodes[NodeForAddress(r, addr)].addr = addr
<1>1. CASE \A i \in DOMAIN r.nodes : r.nodes[i].addr # addr
  <2>1. {0} \cup {i \in DOMAIN r.nodes : r.nodes[i].addr = addr} = {0}
    BY <1>1
  <2>2. Max({0}) = 0
    BY DEF Max
  <2>. QED
    BY <1>1, <2>1, <2>2 DEF NodeForAddress
<1>2. CASE \E i \in DOMAIN r.nodes : r.nodes[i].addr = addr
  <2>1. PICK i \in DOMAIN r.nodes : r.nodes[i].addr = addr
    BY <1>2
  <2>2. {0} \cup {k \in DOMAIN r.nodes : r.nodes[k].addr = addr} = {0, i} /\ i \in Nat \ {0}
    BY <2>1 DEF Once
  <2>3. Max({0, i}) = i
    BY <2>2 DEF Max
  <2>. QED
    BY <2>1, <2>2, <2>3 DEF NodeForAddress
<1>. QED
  BY <1>1, <1>2

LEMMA MaxOfTwo ==
  ASSUME NEW a \in Nat, NEW b \in Nat
  PROVE  Max({a, b}) \in {a, b} /\ Max({a, b}) >= a /\ Max({a, b}) >= b
BY DEF Max

\* What DetermineConsolePlayer finds in a complete table depends on the flags only, not
\* on the order of the table nor on what else it tells of the nodes.
LEMMA ConsolePlayerFacts ==
  ASSUME scenario \in Scenarios, NEW m \in Machine, NEW r \in Driver, TableOK(m, r), AllFound(r),
         r.phase \in {"setup", "game"}
  PROVE  /\ flags[m].player # -1 => DetermineConsolePlayer(m, r) = flags[m].player - 1
         /\ flags[m].player = -1 => NumberOf(m, DetermineConsolePlayer(m, r))
         /\ DetermineConsolePlayer(m, r) \in 0 .. Wanted - 1
<1>1. /\ r.nodes \in Seq(Node) /\ Once(r.nodes) /\ DOMAIN r.nodes = 1 .. Wanted
      /\ \A i \in 1 .. Wanted : r.nodes[i] \in Node /\ r.nodes[i].found = Wanted
      /\ \A n \in Machine : \E i \in 1 .. Wanted : r.nodes[i].addr = n
  <2>1. r.nodes \in Seq(Node) /\ Once(r.nodes)
    BY DEF Driver, TableOK, Once
  <2>2. Len(r.nodes) = Wanted
    BY <2>1, AllFoundFacts
  <2>. QED
    BY <2>1, <2>2, AllFoundFacts, TableSize, ElementOfSeq
<1>2. CASE flags[m].player # -1
  BY <1>2, ScenarioFacts DEF DetermineConsolePlayer
<1>3. CASE flags[m].player = -1
  <2> DEFINE nodes == {r.nodes[i] : i \in 1 .. Wanted}
             low == {n \in nodes : n.player = -1 /\ n.addr < m}
             Free(p) == \A n \in nodes : p # n.player - 1
  <2>1. ASSUME NEW i \in 1 .. Wanted
        PROVE  \/ r.nodes[i].player = flags[r.nodes[i].addr].player
               \/ r.nodes[i].addr = m /\ r.nodes[i].player = 0
    BY <1>1 DEF TableOK
  <2>2. \A p \in Nat : Free(p) <=> FreeNumber(p)
    <3>1. ASSUME NEW p \in Nat, FreeNumber(p), NEW i \in 1 .. Wanted PROVE p # r.nodes[i].player - 1
      <4>1. CASE r.nodes[i].player = flags[r.nodes[i].addr].player
        BY <1>1, <3>1, <4>1 DEF FreeNumber, Node
      <4>2. CASE r.nodes[i].player = 0
        BY <3>1, <4>2
      <4>. QED
        BY <2>1, <4>1, <4>2
    <3>2. ASSUME NEW p \in Nat, Free(p), NEW n \in Machine PROVE p # flags[n].player - 1
      <4>1. PICK i \in 1 .. Wanted : r.nodes[i].addr = n
        BY <1>1
      <4>2. CASE n = m
        BY <1>3, <4>2
      <4>3. CASE n # m
        BY <2>1, <3>2, <4>1, <4>3
      <4>. QED
        BY <4>2, <4>3
    <3>. QED
      BY <3>1, <3>2 DEF FreeNumber
  <2>3. Cardinality(low) = Cardinality(Lower(m))
    <3> DEFINE f == [n \in low |-> n.addr]
    <3>1. Machine \subseteq Nat /\ IsFiniteSet(Lower(m))
      BY ScenarioFacts, FS_Subset DEF Lower
    <3>2. ASSUME NEW i \in 1 .. Wanted PROVE r.nodes[i] \in low <=> r.nodes[i].addr \in Lower(m)
      <4>1. r.nodes[i].addr \in Machine /\ ~(m < m)
        BY <1>1, <3>1 DEF Node
      <4>2. r.nodes[i].addr < m => r.nodes[i].player = flags[r.nodes[i].addr].player
        BY <2>1, <4>1
      <4>. QED
        BY <4>1, <4>2 DEF Lower
    <3>3. f \in Injection(low, Lower(m))
      <4>1. \A n \in low : \E i \in 1 .. Wanted : n = r.nodes[i]
        OBVIOUS
      <4>2. \A n \in low : n.addr \in Lower(m)
        BY <3>2, <4>1
      <4>3. \A a, b \in low : a.addr = b.addr => a = b
        BY <1>1, <4>1 DEF Once
      <4>. HIDE DEF low
      <4>4. f \in [low -> Lower(m)] /\ \A a, b \in low : f[a] = f[b] => a = b
        BY <4>2, <4>3
      <4>. QED
        BY <4>4 DEF Injection, IsInjective
    <3>4. f \in Surjection(low, Lower(m))
      <4>1. ASSUME NEW n \in Lower(m) PROVE \E x \in low : f[x] = n
        <5>1. PICK i \in 1 .. Wanted : r.nodes[i].addr = n
          BY <1>1 DEF Lower
        <5>2. r.nodes[i] \in low
          BY <3>2, <5>1
        <5>. QED
          BY <5>1, <5>2
      <4>. QED
        BY <3>3, <4>1 DEF Surjection, Injection
    <3>. QED
      BY <3>1, <3>3, <3>4, FS_Injection
  <2>4. \A p \in Nat : {q \in 0 .. p - 1 : Free(q)} = FreeBelow(p)
    BY <2>2 DEF FreeBelow
  <2> DEFINE Chosen(p) == Free(p) /\ Cardinality({q \in 0 .. p - 1 : Free(q)}) = Cardinality(low)
  <2>5. DetermineConsolePlayer(m, r) = CHOOSE p \in 0 .. 2 * Wanted : Chosen(p)
    BY <1>3 DEF DetermineConsolePlayer
  <2>6. \A p \in Nat : Chosen(p) <=> NumberOf(m, p)
    BY <2>2, <2>3, <2>4 DEF NumberOf
  <2>7. Wanted \in Nat
    BY ScenarioFacts
  <2>. HIDE DEF Chosen
  <2>8. \E p \in 0 .. 2 * Wanted : Chosen(p)
    BY <1>3, <2>6, <2>7, NumberExists
  <2>9. DetermineConsolePlayer(m, r) \in 0 .. 2 * Wanted /\ Chosen(DetermineConsolePlayer(m, r))
    BY <2>5, <2>8
  <2>. QED
    BY <1>3, <2>6, <2>7, <2>9, NumberBound
<1>. QED
  BY <1>2, <1>3

-----------------------------------------------------------------------------
(***************************************************************************)
(* MachineOK is kept by what a driver does with its state.                 *)
(***************************************************************************)
\* What the table determines does not depend on the rest of the state.
LEMMA NodesOnly ==
  ASSUME NEW m, NEW r, NEW s, r.nodes = s.nodes
  PROVE  AllFound(r) = AllFound(s) /\ DetermineConsolePlayer(m, r) = DetermineConsolePlayer(m, s)
BY DEF AllFound, DetermineConsolePlayer

LEMMA NoPacketFacts == ASSUME scenario \in Scenarios PROVE NoPacket \notin Packet
BY ScenarioFacts DEF NoPacket, Packet

LEMMA OffOK ==
  ASSUME scenario \in Scenarios, NEW m
  PROVE  MachineOK(m, Off) /\ MachineOK(m, [Off EXCEPT !.phase = "error"])
<1>1. /\ Off \in Driver /\ Off.phase = "off" /\ Off.nodes = <<>> /\ Off.localtime = -1
      /\ Off.pool = [i \in 1 .. Slots |-> NoPacket]
  <2>1. <<>> \in Seq(Node) /\ [i \in 1 .. Slots |-> NoPacket] \in [1 .. Slots -> Packet \cup {NoPacket}]
    OBVIOUS
  <2>2. -1 \in -1 .. Wanted /\ -1 \in -1 .. scenario.sends
    BY ScenarioFacts
  <2>. HIDE DEF NoPacket
  <2>. QED
    BY <2>1, <2>2 DEF Off, Driver
<1> DEFINE error == [Off EXCEPT !.phase = "error"]
<1>2. /\ error \in Driver /\ error.phase = "error" /\ error.nodes = <<>> /\ error.localtime = -1
      /\ error.pool = [i \in 1 .. Slots |-> NoPacket]
  BY <1>1 DEF Driver
<1>. HIDE DEF error
<1>3. Waiting(Off) = {} /\ Waiting(error) = {}
  BY <1>1, <1>2 DEF Waiting, Listening
<1>4. DOMAIN <<>> = {}
  OBVIOUS
<1>5. MachineOK(m, Off) /\ MachineOK(m, error)
  BY <1>1, <1>2, <1>3, <1>4 DEF MachineOK, TableOK, DupOK, GameOK
<1>. QED
  BY <1>5 DEF error

LEMMA StartedOK ==
  ASSUME scenario \in Scenarios, NEW m \in Machine
  PROVE  MachineOK(m, Started(m))
<1> DEFINE own == [addr |-> m, found |-> 1, player |-> 0, dup |-> 0]
<1>1. own \in Node
  <2>1. Wanted >= 1
    BY ScenarioFacts, FS_EmptySet DEF Wanted
  <2>. QED
    BY <2>1, ScenarioFacts DEF Node
<1>2. /\ Started(m).phase = "setup" /\ Started(m).nodes = <<own>> /\ Started(m).doomnet_dup = flags[m].dup
      /\ Started(m).localtime = -1 /\ Started(m).pool = [i \in 1 .. Slots |-> NoPacket]
      /\ Started(m).consoleplayer = -1
  BY DEF Started, Off
<1>3. Started(m) \in Driver
  <2>1. <<own>> \in Seq(Node) /\ flags[m].dup \in Nat
    BY <1>1, ScenarioFacts
  <2>2. Off \in Driver
    BY OffOK DEF MachineOK
  <2>. HIDE DEF own
  <2>. QED
    BY <2>1, <2>2 DEF Started, Driver, own
<1>4. Waiting(Started(m)) = {}
  BY <1>2 DEF Waiting, Listening
<1>5. TableOK(m, Started(m)) /\ DupOK(Started(m))
  BY <1>2, ScenarioFacts DEF TableOK, DupOK
<1>. QED
  BY <1>2, <1>3, <1>4, <1>5 DEF MachineOK, GameOK

LEMMA ReleaseOK ==
  ASSUME NEW m, NEW r, MachineOK(m, r), NEW i \in 1 .. Slots
  PROVE  MachineOK(m, IPXReleasePacket(r, i))
<1> DEFINE s == IPXReleasePacket(r, i)
<1>1. /\ s \in Driver /\ s.nodes = r.nodes /\ s.phase = r.phase /\ s.doomnet_dup = r.doomnet_dup
      /\ s.localtime = r.localtime /\ s.consoleplayer = r.consoleplayer
      /\ \A k \in 1 .. Slots : s.pool[k] = IF k = i THEN NoPacket ELSE r.pool[k]
  BY DEF IPXReleasePacket, MachineOK, Driver
<1>. HIDE DEF s
<1>2. GameOK(m, s)
  BY <1>1, NodesOnly DEF MachineOK, GameOK
<1>3. \A k \in Waiting(s) : PacketOK(s.pool[k])
  BY <1>1 DEF MachineOK, Waiting, Listening
<1>4. MachineOK(m, s)
  BY <1>1, <1>2, <1>3 DEF MachineOK, TableOK, DupOK
<1>. QED
  BY <1>4 DEF s

LEMMA ArriveOK ==
  ASSUME NEW m, NEW r, MachineOK(m, r), NEW i \in 1 .. Slots, NEW pkt, PacketOK(pkt)
  PROVE  MachineOK(m, [r EXCEPT !.pool[i] = pkt])
<1> DEFINE s == [r EXCEPT !.pool[i] = pkt]
<1>1. /\ s \in Driver /\ s.nodes = r.nodes /\ s.phase = r.phase /\ s.doomnet_dup = r.doomnet_dup
      /\ s.localtime = r.localtime /\ s.consoleplayer = r.consoleplayer
      /\ \A k \in 1 .. Slots : s.pool[k] = IF k = i THEN pkt ELSE r.pool[k]
  BY DEF MachineOK, Driver, PacketOK
<1>. HIDE DEF s
<1>2. GameOK(m, s)
  BY <1>1, NodesOnly DEF MachineOK, GameOK
<1>3. \A k \in Waiting(s) : PacketOK(s.pool[k])
  BY <1>1 DEF MachineOK, Waiting, Listening
<1>4. MachineOK(m, s)
  BY <1>1, <1>2, <1>3 DEF MachineOK, TableOK, DupOK
<1>. QED
  BY <1>4 DEF s

\* A node's entry is replaced: the table still knows the same nodes.
LEMMA UpdateOK ==
  ASSUME scenario \in Scenarios, NEW m \in Machine, NEW r, MachineOK(m, r), r.phase = "setup",
         NEW n \in DOMAIN r.nodes, NEW setup \in Node, setup.addr = r.nodes[n].addr,
         setup.player = flags[setup.addr].player
  PROVE  MachineOK(m, [r EXCEPT !.nodes[n] = setup])
<1> DEFINE s == [r EXCEPT !.nodes[n] = setup]
<1>1. /\ [r.nodes EXCEPT ![n] = setup] \in Seq(Node)
      /\ DOMAIN [r.nodes EXCEPT ![n] = setup] = DOMAIN r.nodes
      /\ \A i \in DOMAIN r.nodes : [r.nodes EXCEPT ![n] = setup][i] = IF i = n THEN setup ELSE r.nodes[i]
  BY ExceptSeq DEF MachineOK, Driver
<1>2. /\ s \in Driver /\ s.nodes = [r.nodes EXCEPT ![n] = setup] /\ s.phase = r.phase
      /\ s.doomnet_dup = r.doomnet_dup /\ s.localtime = r.localtime
      /\ s.consoleplayer = r.consoleplayer /\ s.pool = r.pool
  BY <1>1 DEF MachineOK, Driver
<1>. HIDE DEF s
<1>3. TableOK(m, s)
  <2>1. r.nodes # <<>> /\ s.nodes # <<>> /\ 1 \in DOMAIN r.nodes
    BY <1>1, <1>2 DEF MachineOK, TableOK, Driver
  <2>2. /\ DOMAIN s.nodes = DOMAIN r.nodes
        /\ \A i \in DOMAIN r.nodes : s.nodes[i].addr = r.nodes[i].addr
        /\ \A i \in DOMAIN r.nodes : i # n => s.nodes[i] = r.nodes[i]
        /\ s.nodes[n] = setup
    BY <1>1, <1>2
  <2>. QED
    BY <1>2, <2>1, <2>2 DEF MachineOK, TableOK
<1>4. DupOK(s)
  <2>1. DOMAIN s.nodes = DOMAIN r.nodes /\ \A i \in DOMAIN r.nodes : s.nodes[i].addr = r.nodes[i].addr
    BY <1>1, <1>2
  <2>. QED
    BY <1>2, <2>1 DEF MachineOK, DupOK
<1>5. GameOK(m, s) /\ \A k \in Waiting(s) : PacketOK(s.pool[k])
  BY <1>2 DEF MachineOK, GameOK, Waiting, Listening
<1>6. MachineOK(m, s)
  BY <1>2, <1>3, <1>4, <1>5 DEF MachineOK
<1>. QED
  BY <1>6 DEF s

\* A node is new: the table grows, and -dup goes up to that of the node.
LEMMA AppendOK ==
  ASSUME scenario \in Scenarios, NEW m \in Machine, NEW r, MachineOK(m, r), r.phase = "setup",
         NEW setup \in Node, \A i \in DOMAIN r.nodes : r.nodes[i].addr # setup.addr,
         setup.player = flags[setup.addr].player,
         flags[m].player # -1 => setup.player # flags[m].player,
         setup.dup >= flags[setup.addr].dup, \E n \in Machine : setup.dup = flags[n].dup
  PROVE  MachineOK(m, [r EXCEPT !.nodes = Append(@, setup), !.doomnet_dup = Max({@, setup.dup})])
<1> DEFINE q == Append(r.nodes, setup)
           d == Max({r.doomnet_dup, setup.dup})
           s == [r EXCEPT !.nodes = q, !.doomnet_dup = d]
<1>0. r \in Driver /\ r.nodes \in Seq(Node) /\ r.doomnet_dup \in Nat /\ setup.dup \in Nat
  BY DEF MachineOK, Driver, Node
<1>1. /\ q \in Seq(Node) /\ DOMAIN q = 1 .. Len(r.nodes) + 1 /\ q[Len(r.nodes) + 1] = setup
      /\ DOMAIN r.nodes = 1 .. Len(r.nodes) /\ Len(r.nodes) \in Nat
      /\ \A i \in 1 .. Len(r.nodes) : q[i] = r.nodes[i]
  BY <1>0
<1>2. d \in Nat /\ d \in {r.doomnet_dup, setup.dup} /\ d >= r.doomnet_dup /\ d >= setup.dup
  BY <1>0, MaxOfTwo
<1>. HIDE DEF q, d
<1>3. /\ s \in Driver /\ s.nodes = q /\ s.phase = "setup" /\ s.doomnet_dup = d
      /\ s.localtime = r.localtime /\ s.pool = r.pool
  BY <1>0, <1>1, <1>2 DEF Driver
<1>. HIDE DEF s
<1>4. TableOK(m, s)
  <2>1. r.nodes # <<>> /\ r.nodes[1].addr = m /\ 1 \in 1 .. Len(r.nodes)
    BY <1>1 DEF MachineOK, TableOK
  <2>2. q # <<>> /\ q[1].addr = m
    BY <1>1, <2>1
  <2>3. ASSUME NEW i \in DOMAIN q, NEW j \in DOMAIN q, q[i].addr = q[j].addr PROVE i = j
    <3>1. i \in DOMAIN r.nodes \/ i = Len(r.nodes) + 1
      BY <1>1
    <3>2. j \in DOMAIN r.nodes \/ j = Len(r.nodes) + 1
      BY <1>1
    <3>. QED
      BY <1>1, <2>3, <3>1, <3>2 DEF MachineOK, TableOK
  <2>4. ASSUME NEW i \in DOMAIN q
        PROVE  /\ \/ q[i].player = flags[q[i].addr].player
                  \/ i = 1 /\ q[i].found = 1 /\ q[i].player = 0
               /\ i # 1 /\ flags[m].player # -1 => flags[q[i].addr].player # flags[m].player
    <3>1. CASE i \in DOMAIN r.nodes
      BY <1>1, <3>1 DEF MachineOK, TableOK
    <3>2. CASE i = Len(r.nodes) + 1
      BY <1>1, <3>2
    <3>. QED
      BY <1>1, <3>1, <3>2
  <2>. QED
    BY <1>3, <2>2, <2>3, <2>4 DEF TableOK
<1>5. DupOK(s)
  <2>1. \E n \in Machine : d = flags[n].dup
    BY <1>2 DEF MachineOK, DupOK
  <2>2. ASSUME NEW i \in DOMAIN q PROVE d >= flags[q[i].addr].dup
    <3>1. CASE i \in DOMAIN r.nodes
      <4>1. r.doomnet_dup >= flags[r.nodes[i].addr].dup /\ q[i] = r.nodes[i] /\ r.nodes[i] \in Node
        BY <1>0, <1>1, <3>1, ElementOfSeq DEF MachineOK, DupOK
      <4>2. flags[r.nodes[i].addr].dup \in Nat
        BY <4>1, ScenarioFacts DEF Node
      <4>. QED
        BY <1>0, <1>2, <4>1, <4>2
    <3>2. CASE i = Len(r.nodes) + 1
      <4>1. q[i] = setup /\ flags[setup.addr].dup \in Nat
        BY <1>1, <3>2, ScenarioFacts DEF Node
      <4>. QED
        BY <1>0, <1>2, <4>1
    <3>. QED
      BY <1>1, <3>1, <3>2
  <2>. QED
    BY <1>3, <2>1, <2>2 DEF DupOK
<1>6. GameOK(m, s) /\ \A k \in Waiting(s) : PacketOK(s.pool[k])
  BY <1>3 DEF MachineOK, GameOK, Waiting, Listening
<1>7. MachineOK(m, s)
  BY <1>3, <1>4, <1>5, <1>6 DEF MachineOK
<1>. QED
  BY <1>7 DEF s, q, d

\* A setup packet updates the table, makes it grow, or ends the driver.
LEMMA ProcessOK ==
  ASSUME scenario \in Scenarios, NEW m \in Machine, NEW r, MachineOK(m, r), r.phase = "setup",
         NEW pkt, PacketOK(pkt)
  PROVE  MachineOK(m, ProcessSetupPacket(m, r, pkt))
<1> DEFINE setup == [addr |-> pkt.src, found |-> pkt.found,
                     player |-> IF pkt.old THEN -1 ELSE pkt.player,
                     dup |-> IF pkt.old THEN 1 ELSE pkt.dup]
           n == NodeForAddress(r, pkt.src)
<1>1. CASE pkt.time # -1
  BY <1>1 DEF ProcessSetupPacket
<1>2. CASE pkt.time = -1
  <2>1. /\ pkt.src \in Machine /\ pkt.found \in 0 .. Wanted /\ pkt.dup \in Nat
        /\ pkt.old = flags[pkt.src].old /\ pkt.player = flags[pkt.src].player
        /\ pkt.dup >= flags[pkt.src].dup /\ \E k \in Machine : pkt.dup = flags[k].dup
    BY <1>2 DEF PacketOK, Packet
  <2>2. flags[pkt.src].old => flags[pkt.src].player = -1 /\ flags[pkt.src].dup = 1
    BY <2>1, ScenarioFacts
  <2>3. flags[pkt.src].player \in {-1} \cup 0 .. Wanted
    BY <2>1, ScenarioFacts
  <2>4. /\ setup \in Node /\ setup.addr = pkt.src /\ setup.player = flags[pkt.src].player
        /\ setup.dup >= flags[pkt.src].dup /\ \E k \in Machine : setup.dup = flags[k].dup
    <3>1. setup.player = flags[pkt.src].player /\ setup.player \in {-1} \cup 0 .. Wanted
      BY <2>1, <2>2, <2>3
    <3>2. setup.dup \in Nat /\ setup.dup >= flags[pkt.src].dup /\ \E k \in Machine : setup.dup = flags[k].dup
      <4>1. CASE pkt.old
        BY <2>1, <2>2, <4>1
      <4>2. CASE ~pkt.old
        BY <2>1, <4>2
      <4>. QED
        BY <4>1, <4>2
    <3>. QED
      BY <2>1, <3>1, <3>2 DEF Node
  <2>5. \/ n = 0 /\ \A i \in DOMAIN r.nodes : r.nodes[i].addr # pkt.src
        \/ n # 0 /\ n \in DOMAIN r.nodes /\ r.nodes[n].addr = pkt.src
    BY NodeForAddressFacts DEF MachineOK, Driver, TableOK, Once
  <2>6. ProcessSetupPacket(m, r, pkt)
          = IF n # 0 THEN [r EXCEPT !.nodes[n] = setup]
            ELSE IF Clashes(m, pkt) THEN [Off EXCEPT !.phase = "error"]
            ELSE [r EXCEPT !.nodes = Append(@, setup), !.doomnet_dup = Max({@, setup.dup})]
    BY <1>2 DEF ProcessSetupPacket
  <2>. HIDE DEF setup, n
  <2>7. CASE n # 0
    BY <2>4, <2>5, <2>6, <2>7, UpdateOK
  <2>8. CASE n = 0 /\ Clashes(m, pkt)
    BY <2>6, <2>8, OffOK
  <2>9. CASE n = 0 /\ ~Clashes(m, pkt)
    <3>1. flags[m].player # -1 => setup.player # flags[m].player
      BY <2>1, <2>4, <2>9 DEF Clashes
    <3>2. MachineOK(m, [r EXCEPT !.nodes = Append(@, setup), !.doomnet_dup = Max({@, setup.dup})])
      BY <2>4, <2>5, <2>9, <3>1, AppendOK
    <3>. QED
      BY <2>6, <2>9, <3>2
  <2>. QED
    BY <2>7, <2>8, <2>9
<1>. QED
  BY <1>1, <1>2 DEF PacketOK, Packet

\* The packet that IPXGetPacket takes, and the driver without it.
LEMMA TakenOK ==
  ASSUME scenario \in Scenarios, NEW m \in Machine, NEW r, MachineOK(m, r), Waiting(r) # {}
  PROVE  /\ IPXGetPacket(r) \in 1 .. Slots /\ PacketOK(r.pool[IPXGetPacket(r)])
         /\ MachineOK(m, IPXReleasePacket(r, IPXGetPacket(r)))
         /\ IPXReleasePacket(r, IPXGetPacket(r)).phase = r.phase
<1>1. \A i \in Waiting(r) : PacketOK(r.pool[i]) /\ r.pool[i].time \in Nat \cup {-1}
  BY ScenarioFacts DEF MachineOK, PacketOK, Packet
<1>2. IPXGetPacket(r) \in Waiting(r)
  BY <1>1, LowestTime
<1>3. IPXGetPacket(r) \in 1 .. Slots
  BY <1>2 DEF Waiting
<1>4. r \in Driver
  BY DEF MachineOK
<1>5. IPXReleasePacket(r, IPXGetPacket(r)).phase = r.phase
  BY <1>4 DEF IPXReleasePacket, Driver
<1>. QED
  BY <1>1, <1>2, <1>3, <1>5, ReleaseOK

\* What all machines are after a packet is sent.
LEMMA SendOK ==
  ASSUME Inv, NEW m \in Machine, NEW r, MachineOK(m, r), NEW pkt, PacketOK(pkt),
         NEW into, DOMAIN into \subseteq Machine, IPXSendPacket(m, r, pkt, into)
  PROVE  /\ machine' \in [Machine -> Driver] /\ \A d \in Machine : MachineOK(d, machine'[d])
         /\ losses' \in 0 .. scenario.losses /\ lastlost' \in BOOLEAN
<1> DEFINE missed == {d \in DOMAIN into : into[d] = 0}
           lost == {d \in missed : Receivers(machine[d]) # {}}
<1>1. Cardinality(lost) \in Nat
  <2>1. lost \in SUBSET Machine /\ IsFiniteSet(Machine)
    BY ScenarioFacts DEF Inv
  <2>. HIDE DEF lost
  <2>. QED
    BY <2>1, FS_Subset, FS_CardinalityType
<1>2. losses' = losses + Cardinality(lost) /\ losses' <= scenario.losses
  BY DEF IPXSendPacket
<1>3. losses' \in 0 .. scenario.losses
  <2>. HIDE DEF lost
  <2>. QED
    BY <1>1, <1>2, ScenarioFacts DEF Inv
<1>4. lastlost' \in BOOLEAN
  BY DEF IPXSendPacket, Inv
<1>5. ASSUME NEW d \in Machine PROVE MachineOK(d, machine'[d])
  <2>1. CASE d = m
    BY <2>1 DEF IPXSendPacket
  <2>2. CASE d # m /\ d \in DOMAIN into \ missed
    <3>1. machine'[d] = [machine[d] EXCEPT !.pool[into[d]] = pkt] /\ into[d] \in Receivers(machine[d])
      BY <2>2 DEF IPXSendPacket
    <3>2. into[d] \in 1 .. Slots /\ MachineOK(d, machine[d])
      BY <3>1 DEF Receivers, Listening, Inv
    <3>. QED
      BY <3>1, <3>2, ArriveOK
  <2>3. CASE d # m /\ d \notin DOMAIN into \ missed
    BY <2>3 DEF IPXSendPacket, Inv
  <2>. QED
    BY <2>1, <2>2, <2>3
<1>6. DOMAIN machine' = Machine /\ machine' = [d \in Machine |-> machine'[d]]
  BY DEF IPXSendPacket
<1>. QED
  BY <1>3, <1>4, <1>5, <1>6 DEF MachineOK

-----------------------------------------------------------------------------
(***************************************************************************)
(* Each operation keeps the invariant.                                     *)
(***************************************************************************)
MachinesOK(machines) ==
  machines \in [Machine -> Driver] /\ \A m \in Machine : MachineOK(m, machines[m])

LEMMA OneMachine ==
  ASSUME Inv, NEW m \in Machine, NEW r, MachineOK(m, r)
  PROVE  MachinesOK([machine EXCEPT ![m] = r])
BY DEF Inv, MachinesOK, MachineOK

LEMMA ListenKeeps ==
  ASSUME Inv, NEW m \in Machine, Listen(m)
  PROVE  MachinesOK(machine')
<1> DEFINE i == IPXGetPacket(machine[m])
           r == ProcessSetupPacket(m, IPXReleasePacket(machine[m], i), machine[m].pool[i])
<1>1. MachineOK(m, machine[m]) /\ scenario \in Scenarios /\ machine \in [Machine -> Driver]
  BY DEF Inv
<1>2. MachineOK(m, r)
  BY <1>1, TakenOK, ProcessOK DEF Listen
<1>3. machine' = [machine EXCEPT ![m] = r]
  BY <1>1 DEF Listen
<1>. HIDE DEF r
<1>. QED
  BY <1>2, <1>3, OneMachine

LEMMA LaunchKeeps ==
  ASSUME Inv, NEW m \in Machine, Launch(m)
  PROVE  MachinesOK(machine')
<1> DEFINE number == DetermineConsolePlayer(m, machine[m])
           r == [machine[m] EXCEPT !.phase = "game", !.localtime = 0, !.consoleplayer = number]
<1>1. /\ MachineOK(m, machine[m]) /\ machine[m] \in Driver
      /\ scenario \in Scenarios /\ machine \in [Machine -> Driver]
  BY DEF Inv, MachineOK
<1>2. number \in -1 .. Wanted /\ AllFound(machine[m]) /\ 0 \in -1 .. scenario.sends
  <2>1. AllFound(machine[m]) /\ machine[m].phase = "setup"
    BY DEF Launch
  <2>2. number \in 0 .. Wanted - 1
    BY <1>1, <2>1, ConsolePlayerFacts DEF MachineOK
  <2>. HIDE DEF number
  <2>. QED
    BY <1>1, <2>1, <2>2, ScenarioFacts
<1>3. machine' = [machine EXCEPT ![m] = r]
  BY <1>1 DEF Launch
<1>. HIDE DEF number
<1>4. /\ r \in Driver /\ r.phase = "game" /\ r.localtime = 0 /\ r.consoleplayer = number
      /\ r.nodes = machine[m].nodes /\ r.doomnet_dup = machine[m].doomnet_dup /\ r.pool = machine[m].pool
  BY <1>1, <1>2 DEF Driver
<1>. HIDE DEF r
<1>5. GameOK(m, r)
  BY <1>2, <1>4, NodesOnly DEF GameOK, number
<1>6. TableOK(m, r) /\ DupOK(r)
  <2>1. machine[m].phase = "setup"
    BY DEF Launch
  <2>. QED
    BY <1>1, <1>4, <2>1 DEF MachineOK, TableOK, DupOK
<1>7. Waiting(r) = Waiting(machine[m])
  BY <1>4 DEF Waiting, Listening
<1>8. MachineOK(m, r)
  BY <1>1, <1>4, <1>5, <1>6, <1>7 DEF MachineOK
<1>. QED
  BY <1>3, <1>8, OneMachine

LEMMA BroadcastKeeps ==
  ASSUME Inv, NEW m \in Machine, NEW into \in [Others(m) -> 0 .. Slots], Broadcast(m, into)
  PROVE  MachinesOK(machine') /\ losses' \in 0 .. scenario.losses /\ lastlost' \in BOOLEAN
<1> DEFINE own == [addr |-> m, found |-> Len(machine[m].nodes), player |-> flags[m].player,
                   dup |-> machine[m].doomnet_dup]
           r == [machine[m] EXCEPT !.nodes[1] = own]
           pkt == [src |-> m, time |-> -1, old |-> flags[m].old, found |-> own.found,
                   player |-> own.player, dup |-> own.dup]
<1>1. /\ MachineOK(m, machine[m]) /\ machine[m] \in Driver /\ machine[m].phase = "setup"
      /\ scenario \in Scenarios
  BY DEF Inv, MachineOK, Broadcast
<1>2. machine[m].nodes \in Seq(Node) /\ 1 \in DOMAIN machine[m].nodes /\ machine[m].nodes[1].addr = m
  BY <1>1 DEF MachineOK, TableOK, Driver
<1>3. Len(machine[m].nodes) \in 0 .. Wanted
  <2>1. Len(machine[m].nodes) <= Wanted
    BY <1>1, <1>2, TableSize DEF MachineOK, TableOK, Once
  <2>. QED
    BY <1>1, <1>2, <2>1, ScenarioFacts
<1>4. flags[m].player \in {-1} \cup 0 .. Wanted /\ flags[m].old \in BOOLEAN /\ flags[m].dup \in Nat
  BY <1>1, ScenarioFacts
<1>5. own \in Node
  BY <1>1, <1>3, <1>4 DEF Node, Driver
<1>6. PacketOK(pkt)
  <2>1. pkt \in Packet
    BY <1>1, <1>3, <1>4 DEF Packet, Driver
  <2>2. machine[m].doomnet_dup >= flags[m].dup /\ \E n \in Machine : machine[m].doomnet_dup = flags[n].dup
    BY <1>1, <1>2 DEF MachineOK, DupOK
  <2>. QED
    BY <2>1, <2>2 DEF PacketOK
<1>7. MachineOK(m, r)
  <2>1. own.addr = machine[m].nodes[1].addr /\ own.player = flags[own.addr].player
    BY <1>2
  <2>. HIDE DEF own
  <2>. QED
    BY <1>1, <1>2, <1>5, <2>1, UpdateOK
<1>8. IPXSendPacket(m, r, pkt, into) /\ DOMAIN into \subseteq Machine
  BY DEF Broadcast, Others
<1>. HIDE DEF r, pkt
<1>. QED
  BY <1>6, <1>7, <1>8, SendOK DEF MachinesOK

LEMMA CmdSendKeeps ==
  ASSUME Inv, NEW m \in Machine, NEW n \in 2 .. Wanted, NEW d \in Others(m), NEW i \in 0 .. Slots,
         CmdSend(m, n, [x \in {d} |-> i])
  PROVE  MachinesOK(machine') /\ losses' \in 0 .. scenario.losses /\ lastlost' \in BOOLEAN
<1> DEFINE r == [machine[m] EXCEPT !.localtime = @ + 1]
           pkt == [NoPacket EXCEPT !.src = m, !.time = r.localtime]
           into == [x \in {d} |-> i]
<1>1. /\ MachineOK(m, machine[m]) /\ machine[m] \in Driver /\ machine[m].phase = "game"
      /\ machine[m].localtime < scenario.sends /\ scenario \in Scenarios
  BY DEF Inv, MachineOK, CmdSend
<1>2. machine[m].localtime + 1 \in 1 .. scenario.sends
  <2>1. machine[m].localtime \in -1 .. scenario.sends /\ machine[m].localtime >= 0
    BY <1>1 DEF MachineOK, GameOK, Driver
  <2>. QED
    BY <1>1, <2>1, ScenarioFacts
<1>3. machine[m].localtime + 1 \in -1 .. scenario.sends /\ machine[m].localtime + 1 >= 0
  BY <1>1, <1>2, ScenarioFacts
<1>4. /\ r \in Driver /\ r.localtime = machine[m].localtime + 1 /\ r.phase = "game"
      /\ r.nodes = machine[m].nodes /\ r.doomnet_dup = machine[m].doomnet_dup
      /\ r.consoleplayer = machine[m].consoleplayer /\ r.pool = machine[m].pool
  BY <1>1, <1>3 DEF Driver
<1>5. IPXSendPacket(m, r, pkt, into) /\ DOMAIN into \subseteq Machine
  BY DEF CmdSend, Others
<1>. HIDE DEF r, into
<1>6. MachineOK(m, r)
  <2>1. GameOK(m, r)
    BY <1>1, <1>3, <1>4, NodesOnly DEF MachineOK, GameOK
  <2>2. Waiting(r) = Waiting(machine[m])
    BY <1>4 DEF Waiting, Listening
  <2>. QED
    BY <1>1, <1>4, <2>1, <2>2 DEF MachineOK, TableOK, DupOK
<1>7. PacketOK(pkt)
  <2> DEFINE time == machine[m].localtime + 1
  <2>1. time \in 1 .. scenario.sends /\ time # -1
    BY <1>1, <1>2, ScenarioFacts
  <2>2. 0 \in 0 .. Wanted
    BY <1>1, ScenarioFacts
  <2>3. pkt = [NoPacket EXCEPT !.src = m, !.time = time]
    BY <1>4
  <2>. HIDE DEF pkt, time
  <2>4. pkt = [src |-> m, time |-> time, old |-> FALSE, found |-> 0, player |-> 0, dup |-> 0]
    BY <2>3 DEF NoPacket
  <2>. QED
    BY <2>1, <2>2, <2>4 DEF PacketOK, Packet
<1>. HIDE DEF pkt
<1>. QED
  BY <1>5, <1>6, <1>7, SendOK DEF MachinesOK

LEMMA CmdGetKeeps ==
  ASSUME Inv, NEW m \in Machine, CmdGet(m)
  PROVE  MachinesOK(machine') /\ got' \in [Machine -> [Machine -> Seq(Nat)]]
<1> DEFINE i == IPXGetPacket(machine[m])
           pkt == machine[m].pool[i]
<1>1. MachineOK(m, machine[m]) /\ scenario \in Scenarios /\ machine \in [Machine -> Driver]
  BY DEF Inv
<1>2. PacketOK(pkt) /\ MachineOK(m, IPXReleasePacket(machine[m], i))
  BY <1>1, TakenOK DEF CmdGet
<1>3. MachinesOK(machine')
  <2>1. machine' = [machine EXCEPT ![m] = IPXReleasePacket(machine[m], i)]
    BY <1>1 DEF CmdGet
  <2>. HIDE DEF i
  <2>. QED
    BY <1>2, <2>1, OneMachine
<1>4. pkt.src \in Machine /\ (pkt.time = -1 \/ pkt.time \in Nat)
  BY <1>1, <1>2, ScenarioFacts DEF PacketOK, Packet
<1>5. got' = IF pkt.time = -1 \/ NodeForAddress(machine[m], pkt.src) = 0 THEN got
             ELSE [got EXCEPT ![m][pkt.src] = Append(@, pkt.time)]
  BY DEF CmdGet
<1>. HIDE DEF pkt
<1>. QED
  BY <1>3, <1>4, <1>5 DEF Inv

\* The scenario does not change, so that what is said of one machine is not.
LEMMA SameScenario ==
  ASSUME scenario' = scenario
  PROVE  Machine' = Machine /\ flags' = flags /\ Wanted' = Wanted /\ Node' = Node
         /\ Packet' = Packet /\ Driver' = Driver
BY DEF Machine, flags, Wanted, Node, Packet, Driver

LEMMA MachinesOKStep ==
  ASSUME scenario' = scenario, MachinesOK(machine')
  PROVE  MachinesOK(machine)'
<1>1. ASSUME NEW m \in Machine, NEW r, MachineOK(m, r) PROVE MachineOK(m, r)'
  BY <1>1, SameScenario DEF MachineOK, TableOK, DupOK, GameOK, PacketOK, AllFound, DetermineConsolePlayer,
     Waiting, Listening
<1>. QED
  BY <1>1, SameScenario DEF MachinesOK

LEMMA InvInit == Init => Inv
<1>. SUFFICES ASSUME Init PROVE Inv
  OBVIOUS
<1>1. scenario \in Scenarios /\ losses = 0 /\ lastlost = FALSE /\ aborts = 0
  BY DEF Init
<1>2. losses \in 0 .. scenario.losses /\ aborts \in 0 .. scenario.aborts
  <2>1. scenario.losses \in Nat /\ scenario.aborts \in Nat
    BY <1>1, ScenarioFacts
  <2>. QED
    BY <1>1, <2>1
<1>3. got \in [Machine -> [Machine -> Seq(Nat)]]
  <2>1. <<>> \in Seq(Nat)
    OBVIOUS
  <2>. QED
    BY <2>1 DEF Init
<1>4. \A m \in Machine : machine[m] = Off /\ MachineOK(m, machine[m])
  BY <1>1, OffOK DEF Init
<1>5. machine \in [Machine -> Driver]
  BY <1>4 DEF Init, MachineOK
<1>6. lastlost \in BOOLEAN
  BY <1>1
<1>. QED
  BY <1>1, <1>2, <1>3, <1>4, <1>5, <1>6 DEF Inv

LEMMA InvStep == Inv /\ [Next]_vars => Inv'
<1>. SUFFICES ASSUME Inv, [Next]_vars PROVE Inv'
  OBVIOUS
<1> DEFINE Kept == /\ scenario' = scenario /\ MachinesOK(machine')
                   /\ got' \in [Machine -> [Machine -> Seq(Nat)]] /\ losses' \in 0 .. scenario.losses
                   /\ lastlost' \in BOOLEAN /\ aborts' \in 0 .. scenario.aborts
<1>0. scenario \in Scenarios /\ MachinesOK(machine)
  BY DEF Inv, MachinesOK
<1>1. ASSUME NEW m \in Machine, Start(m) PROVE Kept
  <2>1. MachinesOK([machine EXCEPT ![m] = Started(m)])
    BY <1>0, StartedOK, OneMachine
  <2>. QED
    BY <1>1, <2>1 DEF Start, Inv
<1>2. ASSUME NEW m \in Machine, Listen(m) PROVE Kept
  <2>1. MachinesOK(machine')
    BY <1>2, ListenKeeps
  <2>. QED
    BY <1>2, <2>1 DEF Listen, Inv
<1>3. ASSUME NEW m \in Machine, Launch(m) PROVE Kept
  <2>1. MachinesOK(machine')
    BY <1>3, LaunchKeeps
  <2>. QED
    BY <1>3, <2>1 DEF Launch, Inv
<1>4. ASSUME NEW m \in Machine, Abort(m) PROVE Kept
  <2>1. MachinesOK([machine EXCEPT ![m] = Off])
    BY <1>0, OffOK, OneMachine
  <2>2. aborts' \in 0 .. scenario.aborts
    BY <1>0, <1>4, ScenarioFacts DEF Abort, Inv
  <2>. QED
    BY <1>4, <2>1, <2>2 DEF Abort, Inv
<1>5. ASSUME NEW m \in Machine, CmdGet(m) PROVE Kept
  <2>1. MachinesOK(machine') /\ got' \in [Machine -> [Machine -> Seq(Nat)]]
    BY <1>5, CmdGetKeeps
  <2>. QED
    BY <1>5, <2>1 DEF CmdGet, Inv
<1>6. ASSUME NEW m \in Machine, BroadcastAny(m) PROVE Kept
  <2>1. PICK into \in [Others(m) -> 0 .. Slots] : Broadcast(m, into)
    BY <1>6 DEF BroadcastAny
  <2>2. MachinesOK(machine') /\ losses' \in 0 .. scenario.losses /\ lastlost' \in BOOLEAN
    BY <2>1, BroadcastKeeps
  <2>. QED
    BY <2>1, <2>2 DEF Broadcast, Inv
<1>7. ASSUME NEW m \in Machine, SendAny(m) PROVE Kept
  <2>1. PICK n \in 2 .. Wanted, d \in Others(m), i \in 0 .. Slots : CmdSend(m, n, [x \in {d} |-> i])
    BY <1>7 DEF SendAny
  <2>2. MachinesOK(machine') /\ losses' \in 0 .. scenario.losses /\ lastlost' \in BOOLEAN
    BY <2>1, CmdSendKeeps
  <2>. QED
    BY <2>1, <2>2 DEF CmdSend, Inv
<1>8. ASSUME UNCHANGED vars PROVE Kept
  BY <1>0, <1>8 DEF vars, Inv
<1>9. Kept
  <2>. HIDE DEF Kept
  <2>. QED
    BY <1>1, <1>2, <1>3, <1>4, <1>5, <1>6, <1>7, <1>8 DEF Next
<1>10. MachinesOK(machine)'
  BY <1>9, MachinesOKStep
<1>. QED
  BY <1>0, <1>9, <1>10, SameScenario DEF Inv, MachinesOK

LEMMA InvHolds == Spec => []Inv
BY InvInit, InvStep, PTL DEF Spec

-----------------------------------------------------------------------------
(***************************************************************************)
(* What follows.                                                           *)
(***************************************************************************)
\* The types hold in every state, and no driver ever has a node twice in its table.
THEOREM TypesHold == Spec => []TypeOK
<1>1. Inv => TypeOK
  BY DEF Inv, TypeOK, MachineOK, TableOK
<1>. QED
  BY <1>1, InvHolds, PTL

\* A game's table has every machine, with its flags.
LEMMA GameFacts ==
  ASSUME Inv, NEW m \in InGame
  PROVE  /\ m \in Machine /\ MachineOK(m, machine[m]) /\ machine[m].phase = "game"
         /\ \A n \in Machine : \E i \in DOMAIN machine[m].nodes : machine[m].nodes[i].addr = n
         /\ flags[m].player # -1 => machine[m].consoleplayer = flags[m].player - 1
         /\ flags[m].player = -1 => NumberOf(m, machine[m].consoleplayer)
         /\ machine[m].consoleplayer \in 0 .. Wanted - 1
<1>1. m \in Machine /\ MachineOK(m, machine[m]) /\ machine[m].phase = "game" /\ scenario \in Scenarios
  BY DEF Inv, InGame
<1>2. /\ machine[m] \in Driver /\ TableOK(m, machine[m]) /\ AllFound(machine[m])
      /\ machine[m].consoleplayer = DetermineConsolePlayer(m, machine[m])
  BY <1>1 DEF MachineOK, GameOK
<1>3. machine[m].nodes \in Seq(Node) /\ Once(machine[m].nodes)
  BY <1>2 DEF Driver, TableOK, Once
<1>. QED
  BY <1>1, <1>2, <1>3, AllFoundFacts, TableSize, ConsolePlayerFacts

\* Machines that launch have different player numbers below the number of machines, and
\* those they asked for, whatever order their tables are in.
THEOREM PlayersDifferHolds == Spec => []PlayersDiffer
<1>1. ASSUME Inv PROVE PlayersDiffer
  <2>1. scenario \in Scenarios /\ \A m \in InGame : m \in Machine
    BY <1>1 DEF Inv, InGame
  <2>2. ASSUME NEW m \in InGame, NEW n \in InGame, machine[m].consoleplayer = machine[n].consoleplayer
        PROVE  m = n
    <3>0. /\ machine[m].consoleplayer \in Nat /\ m \in Machine /\ n \in Machine
          /\ flags[m].player \in Int /\ flags[n].player \in Int
      <4>1. flags[m].player \in Int /\ flags[n].player \in Int
        BY <2>1, ScenarioFacts
      <4>. QED
        BY <1>1, <2>1, <4>1, GameFacts, ScenarioFacts
    <3>1. CASE flags[m].player = -1 /\ flags[n].player = -1
      BY <1>1, <2>1, <2>2, <3>0, <3>1, GameFacts, NumbersDiffer
    <3>2. CASE flags[m].player = -1 /\ flags[n].player # -1
      BY <1>1, <2>2, <3>0, <3>2, GameFacts DEF NumberOf, FreeNumber
    <3>3. CASE flags[m].player # -1 /\ flags[n].player = -1
      BY <1>1, <2>2, <3>0, <3>3, GameFacts DEF NumberOf, FreeNumber
    <3>4. CASE flags[m].player # -1 /\ flags[n].player # -1
      <4>1. flags[m].player = flags[n].player
        <5> DEFINE a == flags[m].player
                   b == flags[n].player
        <5>1. a - 1 = b - 1
          BY <1>1, <2>2, <3>4, GameFacts
        <5>2. a \in Int /\ b \in Int
          BY <3>0
        <5>. HIDE DEF a, b
        <5>3. a = b
          BY <5>1, <5>2
        <5>. QED
          BY <5>3 DEF a, b
      <4>2. PICK i \in DOMAIN machine[m].nodes : machine[m].nodes[i].addr = n
        BY <1>1, <3>0, GameFacts
      <4>3. MachineOK(m, machine[m]) /\ machine[m].phase = "game"
        BY <1>1, GameFacts
      <4>4. i = 1
        BY <3>4, <4>1, <4>2, <4>3 DEF MachineOK, TableOK
      <4>. QED
        BY <4>2, <4>3, <4>4 DEF MachineOK, TableOK
    <3>. QED
      BY <3>1, <3>2, <3>3, <3>4
  <2>3. ASSUME NEW m \in InGame
        PROVE  /\ machine[m].consoleplayer < Wanted
               /\ flags[m].player # -1 => machine[m].consoleplayer = flags[m].player - 1
    <3>1. machine[m].consoleplayer \in 0 .. Wanted - 1 /\ Wanted \in Nat
      BY <1>1, <2>1, GameFacts, ScenarioFacts
    <3>. QED
      BY <1>1, <3>1, GameFacts
  <2>. QED
    BY <2>2, <2>3 DEF PlayersDiffer
<1>. QED
  BY <1>1, InvHolds, PTL

\* All games run with the highest -dup that any machine was given, unless an original
\* IPXSETUP is among them.
THEOREM DupsAgreeHolds == Spec => []DupsAgree
<1>1. ASSUME Inv PROVE DupsAgree
  <2>1. ASSUME NEW m \in InGame
        PROVE  machine[m].doomnet_dup = Max({flags[n].dup : n \in Machine})
    <3> DEFINE dups == {flags[n].dup : n \in Machine}
               dup == machine[m].doomnet_dup
    <3>0. dups \subseteq Nat
      BY <1>1, ScenarioFacts DEF Inv
    <3>1. dup \in dups
      BY <1>1, <2>1, GameFacts DEF MachineOK, DupOK
    <3>2. \A n \in Machine : dup >= flags[n].dup
      <4>1. ASSUME NEW n \in Machine PROVE dup >= flags[n].dup
        <5>1. PICK i \in DOMAIN machine[m].nodes : machine[m].nodes[i].addr = n
          BY <1>1, <2>1, GameFacts
        <5>. QED
          BY <1>1, <2>1, <5>1, GameFacts DEF MachineOK, DupOK
      <4>. QED
        BY <4>1
    <3>3. \A d \in dups : dup >= d
      BY <3>2
    <3>. HIDE DEF dups, dup
    <3>4. Max(dups) \in dups /\ \A d \in dups : Max(dups) >= d
      BY <3>1, <3>3 DEF Max
    <3>5. dup = Max(dups)
      <4>1. dup \in Nat /\ Max(dups) \in Nat /\ dup >= Max(dups) /\ Max(dups) >= dup
        BY <3>0, <3>1, <3>3, <3>4
      <4>. QED
        BY <4>1
    <3>. QED
      BY <3>5 DEF dup, dups
  <2>. QED
    BY <2>1 DEF DupsAgree
<1>. QED
  BY <1>1, InvHolds, PTL

-----------------------------------------------------------------------------
(***************************************************************************)
(* Machines launch together.                                               *)
(***************************************************************************)
\* A machine that knows all of them takes a packet without changing that.
LEMMA ProcessTold ==
  ASSUME scenario \in Scenarios, NEW m \in Machine, NEW r, MachineOK(m, r), r.phase = "setup",
         NEW pkt, PacketOK(pkt), NEW complete, Told(r, complete),
         pkt.found = Wanted => pkt.src \in complete
  PROVE  /\ Told(ProcessSetupPacket(m, r, pkt), complete)
         /\ Whole(r) => Whole(ProcessSetupPacket(m, r, pkt))
<1> DEFINE setup == [addr |-> pkt.src, found |-> pkt.found,
                     player |-> IF pkt.old THEN -1 ELSE pkt.player,
                     dup |-> IF pkt.old THEN 1 ELSE pkt.dup]
           n == NodeForAddress(r, pkt.src)
<1>1. CASE pkt.time # -1
  BY <1>1 DEF ProcessSetupPacket
<1>2. CASE pkt.time = -1
  <2>0. /\ r \in Driver /\ r.nodes \in Seq(Node) /\ Once(r.nodes) /\ pkt.src \in Machine
        /\ setup.addr = pkt.src /\ setup.found = pkt.found
    BY DEF MachineOK, Driver, TableOK, Once, PacketOK, Packet
  <2>1. \/ n = 0 /\ \A i \in DOMAIN r.nodes : r.nodes[i].addr # pkt.src
        \/ n # 0 /\ n \in DOMAIN r.nodes /\ r.nodes[n].addr = pkt.src
    BY <2>0, NodeForAddressFacts
  <2>2. n = 0 => ~Whole(r)
    BY <2>0, <2>1, TableSize DEF Whole
  <2>3. ProcessSetupPacket(m, r, pkt)
          = IF n # 0 THEN [r EXCEPT !.nodes[n] = setup]
            ELSE IF Clashes(m, pkt) THEN [Off EXCEPT !.phase = "error"]
            ELSE [r EXCEPT !.nodes = Append(@, setup), !.doomnet_dup = Max({@, setup.dup})]
    BY <1>2 DEF ProcessSetupPacket
  <2>. HIDE DEF setup, n
  <2>4. CASE n # 0
    <3> DEFINE s == [r EXCEPT !.nodes[n] = setup]
    <3>1. /\ s.nodes = [r.nodes EXCEPT ![n] = setup] /\ s.phase = r.phase /\ s.pool = r.pool
      BY <2>0 DEF Driver
    <3>2. /\ DOMAIN s.nodes = DOMAIN r.nodes /\ Len(s.nodes) = Len(r.nodes)
          /\ \A i \in DOMAIN r.nodes : s.nodes[i] = IF i = n THEN setup ELSE r.nodes[i]
      BY <2>0, <2>1, <2>4, <3>1
    <3>. HIDE DEF s
    <3>3. Told(s, complete) /\ (Whole(r) => Whole(s))
      BY <2>0, <3>1, <3>2 DEF Told, Whole, Waiting, Listening
    <3>. QED
      BY <2>3, <2>4, <3>3 DEF s
  <2>5. CASE n = 0 /\ Clashes(m, pkt)
    <3> DEFINE error == [Off EXCEPT !.phase = "error"]
    <3>1. error.nodes = <<>> /\ error.pool = [i \in 1 .. Slots |-> NoPacket]
      BY DEF Off
    <3>. HIDE DEF error
    <3>2. DOMAIN error.nodes = {} /\ Waiting(error) = {}
      BY <3>1 DEF Waiting, Listening
    <3>3. Told(error, complete)
      BY <3>2 DEF Told
    <3>. QED
      BY <2>2, <2>3, <2>5, <3>3 DEF error
  <2>6. CASE n = 0 /\ ~Clashes(m, pkt)
    <3> DEFINE q == Append(r.nodes, setup)
               d == Max({r.doomnet_dup, setup.dup})
               s == [r EXCEPT !.nodes = q, !.doomnet_dup = d]
    <3>1. /\ DOMAIN q = 1 .. Len(r.nodes) + 1 /\ q[Len(r.nodes) + 1] = setup
          /\ DOMAIN r.nodes = 1 .. Len(r.nodes) /\ Len(r.nodes) \in Nat
          /\ \A i \in 1 .. Len(r.nodes) : q[i] = r.nodes[i]
      BY <2>0
    <3>. HIDE DEF q, d
    <3>2. s.nodes = q /\ s.pool = r.pool
      BY <2>0 DEF Driver
    <3>. HIDE DEF s
    <3>3. ASSUME NEW i \in DOMAIN q, q[i].found = Wanted PROVE q[i].addr \in complete
      <4>1. CASE i \in DOMAIN r.nodes
        BY <3>1, <3>3, <4>1 DEF Told
      <4>2. CASE i = Len(r.nodes) + 1
        BY <2>0, <3>1, <3>3, <4>2
      <4>. QED
        BY <3>1, <4>1, <4>2
    <3>4. Told(s, complete)
      BY <3>2, <3>3 DEF Told, Waiting, Listening
    <3>. QED
      BY <2>2, <2>3, <2>6, <3>4 DEF s, q, d
  <2>. QED
    BY <2>4, <2>5, <2>6
<1>. QED
  BY <1>1, <1>2

LEMMA ReleaseTold ==
  ASSUME NEW r \in Driver, NEW complete, Told(r, complete), NEW i \in 1 .. Slots
  PROVE  /\ Told(IPXReleasePacket(r, i), complete)
         /\ Whole(r) => Whole(IPXReleasePacket(r, i))
<1> DEFINE s == IPXReleasePacket(r, i)
<1>1. /\ s.nodes = r.nodes /\ s.phase = r.phase
      /\ \A k \in 1 .. Slots : s.pool[k] = IF k = i THEN NoPacket ELSE r.pool[k]
  BY DEF IPXReleasePacket, Driver
<1>. HIDE DEF s
<1>2. Told(s, complete) /\ (Whole(r) => Whole(s))
  BY <1>1 DEF Told, Whole, Waiting, Listening
<1>. QED
  BY <1>2 DEF s

LEMMA SendTold ==
  ASSUME Inv, NEW m \in Machine, NEW r, NEW pkt, NEW into, IPXSendPacket(m, r, pkt, into),
         NEW complete, \A d \in Machine : Told(machine[d], complete), Told(r, complete),
         pkt.found = Wanted => pkt.src \in complete, Whole(machine[m]) => Whole(r),
         NEW d \in Machine
  PROVE  Told(machine'[d], complete) /\ (Whole(machine[d]) => Whole(machine'[d]))
<1>1. CASE d = m
  BY <1>1 DEF IPXSendPacket
<1>2. CASE machine'[d] = machine[d]
  BY <1>2
<1>3. CASE d # m /\ d \in DOMAIN into /\ into[d] # 0
  <2> DEFINE s == [machine[d] EXCEPT !.pool[into[d]] = pkt]
  <2>1. machine'[d] = s /\ into[d] \in 1 .. Slots
    BY <1>3 DEF IPXSendPacket, Receivers, Listening
  <2>2. /\ s.nodes = machine[d].nodes /\ s.phase = machine[d].phase
        /\ \A k \in 1 .. Slots : s.pool[k] = IF k = into[d] THEN pkt ELSE machine[d].pool[k]
    BY <2>1 DEF Inv, Driver
  <2>. HIDE DEF s
  <2>3. Told(s, complete) /\ (Whole(machine[d]) => Whole(s))
    BY <2>2 DEF Told, Whole, Waiting, Listening
  <2>. QED
    BY <2>1, <2>3
<1>. QED
  BY <1>1, <1>2, <1>3 DEF IPXSendPacket

LEMMA TogetherInit == Init => Together
<1>1. ASSUME Init, NEW m \in Machine PROVE Told(machine[m], Complete(machine))
  <2>1. machine[m].nodes = <<>> /\ machine[m].pool = [i \in 1 .. Slots |-> NoPacket]
    BY <1>1 DEF Init, Off
  <2>2. DOMAIN machine[m].nodes = {} /\ Waiting(machine[m]) = {}
    BY <2>1 DEF Waiting, Listening
  <2>. QED
    BY <2>2 DEF Told
<1>. QED
  BY <1>1 DEF Together

LEMMA TogetherStep == Inv /\ Together /\ [Next]_vars => Together'
<1>. SUFFICES ASSUME Inv, Together, [Next]_vars, aborts' = 0
              PROVE  \A m \in Machine' : Told(machine[m], Complete(machine))'
  BY DEF Together
<1> DEFINE Kept == scenario' = scenario /\ \A m \in Machine : Told(machine'[m], Complete(machine'))
           complete == Complete(machine)
<1>0. aborts = 0 /\ scenario' = scenario
  <2>1. aborts \in Nat
    BY ScenarioFacts DEF Inv
  <2> DEFINE Same == scenario' = scenario /\ (aborts' = aborts \/ aborts' = aborts + 1)
  <2>2. ASSUME NEW m \in Machine, Start(m) \/ Listen(m) \/ Launch(m) \/ Abort(m) \/ CmdGet(m) PROVE Same
    BY <2>2 DEF Start, Listen, Launch, Abort, CmdGet
  <2>3. ASSUME NEW m \in Machine, NEW into, Broadcast(m, into) PROVE Same
    BY <2>3 DEF Broadcast
  <2>4. ASSUME NEW m \in Machine, NEW n, NEW into, CmdSend(m, n, into) PROVE Same
    BY <2>4 DEF CmdSend
  <2>5. ASSUME UNCHANGED vars PROVE Same
    BY <2>5 DEF vars
  <2>. HIDE DEF Same
  <2>6. Same
    BY <2>2, <2>3, <2>4, <2>5 DEF Next, BroadcastAny, SendAny
  <2>. QED
    BY <2>1, <2>6 DEF Same
<1>1. /\ scenario \in Scenarios /\ machine \in [Machine -> Driver]
      /\ \A m \in Machine : MachineOK(m, machine[m]) /\ Told(machine[m], complete)
  BY <1>0 DEF Inv, Together
\* It is enough that each machine keeps to those that were complete, and stays so.
<1>2. ASSUME \A m \in Machine : Told(machine'[m], complete) /\ (Whole(machine[m]) => Whole(machine'[m]))
      PROVE  Kept
  <2>1. complete \subseteq Complete(machine')
    BY <1>2 DEF Complete
  <2>. HIDE DEF complete
  <2>. QED
    BY <1>0, <1>2, <2>1 DEF Told
<1>3. ASSUME NEW m \in Machine, Start(m) PROVE Kept
  <2>1. /\ machine'[m].phase = "setup" /\ Len(machine'[m].nodes) = 1 /\ machine'[m].nodes[1].addr = m
        /\ machine'[m].pool = [i \in 1 .. Slots |-> NoPacket]
    BY <1>1, <1>3 DEF Start, Started, Off
  <2>2. \A d \in Machine : d # m => machine'[d] = machine[d]
    BY <1>1, <1>3 DEF Start
  <2>3. Waiting(machine'[m]) = {} /\ ~Whole(machine[m])
    BY <1>3, <2>1 DEF Waiting, Listening, Start, Whole
  <2>4. DOMAIN machine'[m].nodes = {1} /\ machine'[m].nodes[1].found = 1
    BY <1>1, <1>3 DEF Start, Started, Off
  <2>5. complete \subseteq Complete(machine')
    BY <2>2, <2>3 DEF Complete
  <2>6. Told(machine'[m], Complete(machine'))
    <3>1. Wanted = 1 => m \in Complete(machine')
      BY <2>1 DEF Complete, Whole
    <3>. QED
      BY <2>1, <2>3, <2>4, <3>1 DEF Told
  <2>. HIDE DEF complete
  <2>. QED
    BY <1>0, <1>1, <2>2, <2>5, <2>6 DEF Told
<1>4. ASSUME NEW m \in Machine, NEW r, machine' = [machine EXCEPT ![m] = r],
             Told(r, complete), Whole(machine[m]) => Whole(r)
      PROVE  Kept
  <2>. HIDE DEF complete, Kept
  <2>. QED
    BY <1>1, <1>2, <1>4
<1>5. ASSUME NEW m \in Machine, Listen(m) PROVE Kept
  <2> DEFINE i == IPXGetPacket(machine[m])
             pkt == machine[m].pool[i]
             s == IPXReleasePacket(machine[m], i)
             r == ProcessSetupPacket(m, s, pkt)
  <2>1. /\ Waiting(machine[m]) # {} /\ machine[m].phase = "setup"
        /\ machine' = [machine EXCEPT ![m] = r]
    BY <1>1, <1>5 DEF Listen
  <2>2. i \in 1 .. Slots /\ PacketOK(pkt) /\ MachineOK(m, s) /\ s.phase = "setup"
    BY <1>1, <2>1, TakenOK
  <2>3. Told(s, complete) /\ (Whole(machine[m]) => Whole(s))
    BY <1>1, <2>2, ReleaseTold
  <2>4. pkt.found = Wanted => pkt.src \in complete
    <3>1. i \in Waiting(machine[m])
      <4>1. pkt # NoPacket
        BY <1>1, <2>2, NoPacketFacts DEF PacketOK
      <4>. QED
        BY <2>2, <4>1 DEF Waiting, Listening
    <3>. QED
      BY <1>1, <3>1 DEF Told
  <2>. HIDE DEF s, pkt, complete, Kept
  <2>5. Told(r, complete) /\ (Whole(s) => Whole(r))
    BY <1>1, <2>2, <2>3, <2>4, ProcessTold
  <2>. HIDE DEF r
  <2>. QED
    BY <1>4, <2>1, <2>3, <2>5
<1>6. ASSUME NEW m \in Machine, Launch(m) PROVE Kept
  <2> DEFINE number == DetermineConsolePlayer(m, machine[m])
             r == [machine[m] EXCEPT !.phase = "game", !.localtime = 0, !.consoleplayer = number]
  <2>1. machine' = [machine EXCEPT ![m] = r] /\ machine[m].phase = "setup"
    BY <1>1, <1>6 DEF Launch
  <2>. HIDE DEF number
  <2>2. r.phase = "game" /\ r.nodes = machine[m].nodes /\ r.pool = machine[m].pool
    BY <1>1 DEF Driver
  <2>. HIDE DEF r, complete, Kept
  <2>3. Told(r, complete) /\ (Whole(machine[m]) => Whole(r))
    BY <1>1, <2>1, <2>2 DEF Told, Whole, Waiting, Listening
  <2>. QED
    BY <1>4, <2>1, <2>3
<1>7. ASSUME NEW m \in Machine, Abort(m) PROVE Kept
  BY <1>0, <1>7 DEF Abort
<1>8. ASSUME NEW m \in Machine, CmdGet(m) PROVE Kept
  <2> DEFINE i == IPXGetPacket(machine[m])
             r == IPXReleasePacket(machine[m], i)
  <2>1. machine' = [machine EXCEPT ![m] = r] /\ i \in 1 .. Slots
    BY <1>1, <1>8, TakenOK DEF CmdGet
  <2>. HIDE DEF i
  <2>2. Told(r, complete) /\ (Whole(machine[m]) => Whole(r))
    BY <1>1, <2>1, ReleaseTold
  <2>. HIDE DEF r, complete, Kept
  <2>. QED
    BY <1>4, <2>1, <2>2
<1>9. ASSUME NEW m \in Machine, NEW into \in [Others(m) -> 0 .. Slots], Broadcast(m, into) PROVE Kept
  <2> DEFINE own == [addr |-> m, found |-> Len(machine[m].nodes), player |-> flags[m].player,
                     dup |-> machine[m].doomnet_dup]
             r == [machine[m] EXCEPT !.nodes[1] = own]
             pkt == [src |-> m, time |-> -1, old |-> flags[m].old, found |-> own.found,
                     player |-> own.player, dup |-> own.dup]
  <2>1. IPXSendPacket(m, r, pkt, into) /\ machine[m].phase = "setup"
    BY <1>9 DEF Broadcast
  <2>2. /\ machine[m] \in Driver /\ machine[m].nodes \in Seq(Node) /\ 1 \in DOMAIN machine[m].nodes
    BY <1>1, <2>1 DEF MachineOK, TableOK, Driver
  <2>3. Len(machine[m].nodes) = Wanted => m \in complete
    BY <2>1 DEF Complete, Whole
  <2>4. pkt.found = Wanted => pkt.src \in complete
    BY <2>3
  <2>5. own.found = Wanted => own.addr \in complete
    BY <2>3
  <2>6. /\ r.phase = "setup" /\ r.nodes = [machine[m].nodes EXCEPT ![1] = own] /\ r.pool = machine[m].pool
    BY <2>1, <2>2 DEF Driver
  <2>. HIDE DEF own, complete, Kept, pkt
  <2>7. /\ DOMAIN r.nodes = DOMAIN machine[m].nodes /\ Len(r.nodes) = Len(machine[m].nodes)
        /\ \A i \in DOMAIN r.nodes : r.nodes[i] = IF i = 1 THEN own ELSE machine[m].nodes[i]
    BY <2>2, <2>6
  <2>. HIDE DEF r
  <2>8. Told(r, complete) /\ (Whole(machine[m]) => Whole(r))
    BY <1>1, <2>1, <2>5, <2>6, <2>7 DEF Told, Whole, Waiting, Listening
  <2>. QED
    BY <1>1, <1>2, <2>1, <2>4, <2>8, SendTold
<1>10. ASSUME NEW m \in Machine, NEW n \in 2 .. Wanted, NEW d \in Others(m), NEW i \in 0 .. Slots,
              CmdSend(m, n, [x \in {d} |-> i])
       PROVE  Kept
  <2> DEFINE r == [machine[m] EXCEPT !.localtime = @ + 1]
             pkt == [NoPacket EXCEPT !.src = m, !.time = r.localtime]
             into == [x \in {d} |-> i]
  <2>1. IPXSendPacket(m, r, pkt, into)
    BY <1>10 DEF CmdSend
  <2>2. r.phase = machine[m].phase /\ r.nodes = machine[m].nodes /\ r.pool = machine[m].pool
    BY <1>1 DEF Driver
  <2>3. pkt.found # Wanted
    <3>1. pkt.found = 0
      BY DEF NoPacket
    <3>2. 0 # Wanted
      BY <1>1, ScenarioFacts
    <3>. QED
      BY <3>1, <3>2
  <2>. HIDE DEF r, complete, Kept, pkt, into
  <2>4. Told(r, complete) /\ (Whole(machine[m]) => Whole(r))
    BY <1>1, <2>2 DEF Told, Whole, Waiting, Listening
  <2>. QED
    BY <1>1, <1>2, <2>1, <2>3, <2>4, SendTold
<1>11. ASSUME UNCHANGED vars PROVE Kept
  BY <1>0, <1>1, <1>11 DEF vars
<1>12. Kept
  <2>. HIDE DEF Kept
  <2>. QED
    BY <1>3, <1>5, <1>6, <1>7, <1>8, <1>9, <1>10, <1>11 DEF Next, BroadcastAny, SendAny
<1>13. ASSUME NEW m \in Machine PROVE Told(machine[m], Complete(machine))'
  BY <1>0, <1>12, SameScenario DEF Told, Complete, Whole, Waiting, Listening
<1>. QED
  BY <1>0, <1>13, SameScenario

\* Nobody launches while another machine lacks a node, or is not there, unless a user has
\* aborted.
THEOREM LaunchesTogetherHolds == Spec => []LaunchesTogether
<1>1. Inv /\ Together => LaunchesTogether
  <2>. SUFFICES ASSUME Inv, Together, aborts = 0, NEW m \in InGame, NEW n \in Machine
                PROVE  Whole(machine[n])
    BY DEF LaunchesTogether, Whole
  <2>1. m \in Machine /\ MachineOK(m, machine[m]) /\ machine[m].phase = "game" /\ scenario \in Scenarios
    BY GameFacts DEF Inv
  <2>2. PICK i \in DOMAIN machine[m].nodes : machine[m].nodes[i].addr = n
    BY GameFacts
  <2>3. machine[m].nodes[i].found = Wanted
    <3>1. machine[m].nodes \in Seq(Node) /\ Once(machine[m].nodes) /\ AllFound(machine[m])
      BY <2>1 DEF MachineOK, Driver, TableOK, Once, GameOK
    <3>. QED
      BY <2>1, <3>1, AllFoundFacts
  <2>. QED
    BY <2>1, <2>2, <2>3 DEF Together, Told, Complete
<1>. QED
  BY <1>1, InvHolds, InvInit, InvStep, TogetherInit, TogetherStep, PTL DEF Spec

-----------------------------------------------------------------------------
(***************************************************************************)
(* Packets of a game are got in the order in which they were sent.         *)
(***************************************************************************)
Timed(pool) == \A i \in 1 .. Slots : pool[i].time \in Int

\* Packets are taken away, setup packets arrive, time goes on.
LEMMA InTimeKept ==
  ASSUME NEW n, NEW pool, Timed(pool), NEW times \in Seq(Nat), NEW clock \in Int,
         InTime(pool, times, n, clock), NEW later \in Int, clock <= later,
         NEW left, \A i \in 1 .. Slots : left[i] = pool[i] \/ ~GamePacket(left[i], n)
  PROVE  InTime(left, times, n, later)
<1>1. \A i \in 1 .. Slots : GamePacket(left[i], n) => left[i] = pool[i]
  OBVIOUS
<1>2. \A k \in DOMAIN times : times[k] \in Int
  OBVIOUS
<1>3. \A k \in DOMAIN times : times[k] <= later
  BY <1>2 DEF InTime
<1>4. \A i \in 1 .. Slots : GamePacket(left[i], n) => left[i].time <= later
  BY <1>1 DEF InTime, Timed
<1>. QED
  BY <1>1, <1>3, <1>4 DEF InTime

\* The next packet of the game of n arrives.
LEMMA InTimeArrives ==
  ASSUME NEW n, NEW pool, Timed(pool), NEW times \in Seq(Nat), NEW clock \in Int,
         InTime(pool, times, n, clock), NEW at \in 1 .. Slots,
         NEW after, after[at].time = clock + 1, \A i \in 1 .. Slots : i # at => after[i] = pool[i]
  PROVE  InTime(after, times, n, clock + 1)
<1>1. \A k \in DOMAIN times : times[k] \in Int /\ times[k] <= clock
  BY DEF InTime
<1>2. \A i \in 1 .. Slots : GamePacket(after[i], n) /\ i # at => after[i].time \in Int /\ after[i].time <= clock
  BY DEF InTime, Timed
<1>3. \A i \in 1 .. Slots : GamePacket(after[i], n) => after[i].time <= clock + 1
  <2>1. ASSUME NEW i \in 1 .. Slots, GamePacket(after[i], n) PROVE after[i].time <= clock + 1
    <3>1. CASE i = at
      BY <3>1
    <3>2. CASE i # at
      BY <1>2, <2>1, <3>2
    <3>. QED
      BY <3>1, <3>2
  <2>. QED
    BY <2>1
<1>4. ASSUME NEW i \in 1 .. Slots, NEW j \in 1 .. Slots, GamePacket(after[i], n),
             GamePacket(after[j], n), after[i].time = after[j].time
      PROVE  i = j
  <2>1. CASE i = at /\ j # at
    BY <1>2, <1>4, <2>1
  <2>2. CASE i # at /\ j = at
    BY <1>2, <1>4, <2>2
  <2>3. CASE i # at /\ j # at
    BY <1>4, <2>3 DEF InTime
  <2>. QED
    BY <2>1, <2>2, <2>3
<1>5. ASSUME NEW k \in DOMAIN times, NEW i \in 1 .. Slots, GamePacket(after[i], n)
      PROVE  times[k] < after[i].time
  <2>1. CASE i = at
    BY <1>1, <2>1
  <2>2. CASE i # at
    BY <1>5, <2>2 DEF InTime
  <2>. QED
    BY <2>1, <2>2
<1>6. \A k \in DOMAIN times : times[k] <= clock + 1
  BY <1>1
<1>. QED
  BY <1>3, <1>4, <1>5, <1>6 DEF InTime

\* The game gets the packet of n with the lowest time.
LEMMA InTimeTaken ==
  ASSUME NEW n, NEW pool, Timed(pool), NEW times \in Seq(Nat), NEW clock \in Int,
         InTime(pool, times, n, clock), NEW at \in 1 .. Slots, GamePacket(pool[at], n),
         pool[at].time \in Nat,
         \A i \in 1 .. Slots : GamePacket(pool[i], n) => pool[at].time <= pool[i].time,
         NEW after, \A i \in 1 .. Slots : IF i = at THEN ~GamePacket(after[i], n) ELSE after[i] = pool[i]
  PROVE  InTime(after, Append(times, pool[at].time), n, clock)
<1> DEFINE time == pool[at].time
           all == Append(times, time)
<1>1. /\ DOMAIN all = 1 .. Len(times) + 1 /\ all[Len(times) + 1] = time /\ Len(times) \in Nat
      /\ DOMAIN times = 1 .. Len(times) /\ \A k \in 1 .. Len(times) : all[k] = times[k]
  OBVIOUS
<1>2. \A k \in 1 .. Len(times) : all[k] < time /\ all[k] \in Int /\ all[k] <= clock
  BY <1>1 DEF InTime
<1>3. time \in Int /\ time <= clock
  BY DEF InTime
<1>4. \A i \in 1 .. Slots : GamePacket(after[i], n) => i # at /\ after[i] = pool[i]
  OBVIOUS
<1>5. \A i \in 1 .. Slots : GamePacket(after[i], n) => after[i].time \in Int /\ time < after[i].time
  <2>1. ASSUME NEW i \in 1 .. Slots, GamePacket(after[i], n)
        PROVE  pool[i].time \in Int /\ time <= pool[i].time /\ time # pool[i].time
    BY <1>4, <2>1 DEF InTime, Timed
  <2>. HIDE DEF time
  <2>. QED
    BY <1>3, <1>4, <2>1
<1>. HIDE DEF time, all
<1>6. \A k \in DOMAIN all : all[k] \in Int /\ all[k] <= clock /\ all[k] <= time
  BY <1>1, <1>2, <1>3
<1>7. \A k \in DOMAIN all, i \in 1 .. Slots : GamePacket(after[i], n) => all[k] < after[i].time
  BY <1>3, <1>5, <1>6
<1>8. \A k, l \in DOMAIN all : k < l => all[k] < all[l]
  <2>1. ASSUME NEW k \in DOMAIN all, NEW l \in DOMAIN all, k < l PROVE all[k] < all[l]
    <3>1. k \in 1 .. Len(times)
      BY <1>1, <2>1
    <3>2. CASE l \in 1 .. Len(times)
      BY <1>1, <2>1, <3>1, <3>2 DEF InTime
    <3>3. CASE l = Len(times) + 1
      BY <1>1, <1>2, <3>1, <3>3
    <3>. QED
      BY <1>1, <3>2, <3>3
  <2>. QED
    BY <2>1
<1>9. InTime(after, all, n, clock)
  BY <1>4, <1>6, <1>7, <1>8 DEF InTime
<1>. QED
  BY <1>9 DEF all, time

LEMMA NoGamePacket == ASSUME scenario \in Scenarios, NEW n \in Machine PROVE ~GamePacket(NoPacket, n)
BY ScenarioFacts DEF GamePacket, NoPacket

\* Setup leaves no packets behind that it has not received.
LEMMA ProcessPool ==
  ASSUME NEW m, NEW r \in Driver, r.localtime = -1, NEW pkt
  PROVE  /\ ProcessSetupPacket(m, r, pkt).localtime = -1
         /\ \A i \in 1 .. Slots : ProcessSetupPacket(m, r, pkt).pool[i] \in {r.pool[i], NoPacket}
<1>1. /\ [Off EXCEPT !.phase = "error"].localtime = -1
      /\ \A i \in 1 .. Slots : [Off EXCEPT !.phase = "error"].pool[i] = NoPacket
  <2>. HIDE DEF NoPacket
  <2>. QED
    BY DEF Off
<1>2. \A n, setup : LET s == [r EXCEPT !.nodes[n] = setup] IN s.localtime = -1 /\ s.pool = r.pool
  BY DEF Driver
<1>3. \A q, d : LET s == [r EXCEPT !.nodes = q, !.doomnet_dup = d] IN s.localtime = -1 /\ s.pool = r.pool
  BY DEF Driver
<1>. QED
  BY <1>1, <1>2, <1>3 DEF ProcessSetupPacket

LEMMA OrderedInit == Init => Ordered
<1>. SUFFICES ASSUME Init, NEW m \in Machine, NEW n \in Machine
              PROVE  InTime(machine[m].pool, got[m][n], n, machine[n].localtime)
  BY DEF Ordered
<1>1. scenario \in Scenarios
  BY DEF Init
<1>2. \A i \in 1 .. Slots : machine[m].pool[i] = NoPacket
  BY DEF Init, Off
<1>3. \A i \in 1 .. Slots : ~GamePacket(machine[m].pool[i], n)
  BY <1>1, <1>2, NoGamePacket
<1>4. DOMAIN got[m][n] = {}
  BY DEF Init
<1>. QED
  BY <1>3, <1>4 DEF InTime

LEMMA OrderedStep == Inv /\ Ordered /\ [Next]_vars => Ordered'
<1>. SUFFICES ASSUME Inv, Ordered, [Next]_vars PROVE Ordered'
  OBVIOUS
<1> DEFINE Kept == scenario' = scenario /\ \A m, n \in Machine :
                     InTime(machine'[m].pool, got'[m][n], n, machine'[n].localtime)
<1>1. /\ scenario \in Scenarios /\ machine \in [Machine -> Driver]
      /\ \A m \in Machine : MachineOK(m, machine[m])
      /\ \A m, n \in Machine : got[m][n] \in Seq(Nat)
  BY DEF Inv
<1>2. ASSUME NEW r \in Driver PROVE r.localtime \in Int /\ Timed(r.pool)
  <2>1. r.localtime \in Int
    BY DEF Driver
  <2>2. ASSUME NEW i \in 1 .. Slots PROVE r.pool[i].time \in Int
    <3>1. r.pool[i] \in Packet \/ r.pool[i] = NoPacket
      BY DEF Driver
    <3>2. NoPacket.time \in Int
      BY DEF NoPacket
    <3>3. r.pool[i] \in Packet => r.pool[i].time \in Int
      BY <1>1, ScenarioFacts DEF Packet
    <3>. QED
      BY <3>1, <3>2, <3>3
  <2>. QED
    BY <2>1, <2>2 DEF Timed
\* Steps that put no packets of games into pools, and do not let games get any.
<1>3. ASSUME scenario' = scenario, got' = got,
             \A d \in Machine :
               /\ machine'[d].localtime \in Int /\ machine[d].localtime <= machine'[d].localtime
               /\ \A i \in 1 .. Slots : \/ machine'[d].pool[i] = machine[d].pool[i]
                                        \/ \A n \in Machine : ~GamePacket(machine'[d].pool[i], n)
      PROVE  Kept
  <2>1. ASSUME NEW m \in Machine, NEW n \in Machine
        PROVE  InTime(machine'[m].pool, got[m][n], n, machine'[n].localtime)
    <3>1. machine[m] \in Driver /\ machine[n] \in Driver
      BY <1>1
    <3>2. InTime(machine[m].pool, got[m][n], n, machine[n].localtime)
      BY DEF Ordered
    <3>. QED
      BY <1>1, <1>2, <1>3, <3>1, <3>2, InTimeKept
  <2>. QED
    BY <1>3, <2>1
<1>4. ASSUME NEW m \in Machine, NEW r, scenario' = scenario, got' = got, machine' = [machine EXCEPT ![m] = r],
             r.localtime \in Int, machine[m].localtime <= r.localtime,
             \A i \in 1 .. Slots : r.pool[i] \in {machine[m].pool[i], NoPacket}
      PROVE  Kept
  <2>. HIDE DEF Kept
  <2>1. \A d \in Machine : machine'[d] = IF d = m THEN r ELSE machine[d]
    BY <1>1, <1>4
  <2>2. \A d \in Machine : machine'[d].localtime \in Int /\ machine[d].localtime <= machine'[d].localtime
    BY <1>1, <1>2, <1>4, <2>1
  <2>3. \A d \in Machine, i \in 1 .. Slots : \/ machine'[d].pool[i] = machine[d].pool[i]
                                             \/ machine'[d].pool[i] = NoPacket
    BY <1>4, <2>1
  <2>. QED
    BY <1>1, <1>3, <1>4, <2>2, <2>3, NoGamePacket
<1>5. ASSUME NEW m \in Machine, Start(m) \/ Abort(m) PROVE Kept
  <2>1. machine[m].localtime = -1
    BY <1>1, <1>5 DEF MachineOK, GameOK, Start, Abort
  <2>2. /\ Off.localtime = -1 /\ Started(m).localtime = -1
        /\ \A i \in 1 .. Slots : Off.pool[i] = NoPacket /\ Started(m).pool[i] = NoPacket
    <3>. HIDE DEF NoPacket
    <3>. QED
      BY DEF Off, Started
  <2>. HIDE DEF Kept
  <2>3. ASSUME NEW r, r \in {Off, Started(m)}, scenario' = scenario, got' = got,
               machine' = [machine EXCEPT ![m] = r]
        PROVE  Kept
    <3>1. r.localtime = -1 /\ \A i \in 1 .. Slots : r.pool[i] \in {machine[m].pool[i], NoPacket}
      BY <2>2, <2>3
    <3>2. r.localtime \in Int /\ machine[m].localtime <= r.localtime
      BY <2>1, <3>1
    <3>. QED
      BY <1>4, <2>3, <3>1, <3>2
  <2>. QED
    BY <1>5, <2>3 DEF Start, Abort
<1>6. ASSUME NEW m \in Machine, Listen(m) PROVE Kept
  <2> DEFINE i == IPXGetPacket(machine[m])
             s == IPXReleasePacket(machine[m], i)
             r == ProcessSetupPacket(m, s, machine[m].pool[i])
  <2>1. /\ scenario' = scenario /\ got' = got /\ machine' = [machine EXCEPT ![m] = r]
        /\ machine[m].phase = "setup" /\ machine[m] \in Driver
    BY <1>1, <1>6 DEF Listen
  <2>2. machine[m].localtime = -1
    BY <1>1, <2>1 DEF MachineOK, GameOK
  <2>3. /\ s \in Driver /\ s.localtime = -1
        /\ \A k \in 1 .. Slots : s.pool[k] \in {machine[m].pool[k], NoPacket}
    <3>. HIDE DEF i
    <3>. QED
      BY <2>1, <2>2 DEF IPXReleasePacket, Driver
  <2>. HIDE DEF s, Kept
  <2>4. r.localtime = -1 /\ \A k \in 1 .. Slots : r.pool[k] \in {s.pool[k], NoPacket}
    BY <2>3, ProcessPool
  <2>. HIDE DEF r
  <2>5. \A k \in 1 .. Slots : r.pool[k] \in {machine[m].pool[k], NoPacket}
    BY <2>3, <2>4
  <2>6. r.localtime \in Int /\ machine[m].localtime <= r.localtime
    BY <2>2, <2>4
  <2>. QED
    BY <1>4, <2>1, <2>5, <2>6
<1>7. ASSUME NEW m \in Machine, Launch(m) PROVE Kept
  <2> DEFINE number == DetermineConsolePlayer(m, machine[m])
             r == [machine[m] EXCEPT !.phase = "game", !.localtime = 0, !.consoleplayer = number]
  <2>1. /\ scenario' = scenario /\ got' = got /\ machine' = [machine EXCEPT ![m] = r]
        /\ machine[m].phase = "setup" /\ machine[m] \in Driver
    BY <1>1, <1>7 DEF Launch
  <2>2. machine[m].localtime = -1
    BY <1>1, <2>1 DEF MachineOK, GameOK
  <2>. HIDE DEF number
  <2>3. r.localtime = 0 /\ r.pool = machine[m].pool
    BY <2>1 DEF Driver
  <2>4. r.localtime \in Int /\ machine[m].localtime <= r.localtime
    BY <2>2, <2>3
  <2>. HIDE DEF r, Kept
  <2>5. \A k \in 1 .. Slots : r.pool[k] \in {machine[m].pool[k], NoPacket}
    BY <2>3
  <2>. QED
    BY <1>4, <2>1, <2>4, <2>5
<1>8. ASSUME NEW m \in Machine, NEW into \in [Others(m) -> 0 .. Slots], Broadcast(m, into) PROVE Kept
  <2> DEFINE own == [addr |-> m, found |-> Len(machine[m].nodes), player |-> flags[m].player,
                     dup |-> machine[m].doomnet_dup]
             r == [machine[m] EXCEPT !.nodes[1] = own]
             pkt == [src |-> m, time |-> -1, old |-> flags[m].old, found |-> own.found,
                     player |-> own.player, dup |-> own.dup]
  <2>1. IPXSendPacket(m, r, pkt, into) /\ scenario' = scenario /\ got' = got
    BY <1>8 DEF Broadcast
  <2>2. pkt.time = -1
    OBVIOUS
  <2>. HIDE DEF pkt, own
  <2>3. r.localtime = machine[m].localtime /\ r.pool = machine[m].pool
    BY <1>1 DEF Driver
  <2>. HIDE DEF r, Kept
  <2>4. ASSUME NEW d \in Machine
        PROVE  /\ machine'[d].localtime = machine[d].localtime
               /\ \A i \in 1 .. Slots : machine'[d].pool[i] = machine[d].pool[i] \/ machine'[d].pool[i] = pkt
    <3>1. CASE d = m
      BY <2>1, <2>3, <3>1 DEF IPXSendPacket
    <3>2. CASE machine'[d] = machine[d]
      BY <3>2
    <3>3. CASE machine'[d] = [machine[d] EXCEPT !.pool[into[d]] = pkt]
      BY <1>1, <3>3 DEF Driver
    <3>. QED
      BY <2>1, <3>1, <3>2, <3>3 DEF IPXSendPacket
  <2>5. \A n \in Machine : ~GamePacket(pkt, n)
    BY <2>2 DEF GamePacket
  <2>6. \A d \in Machine : machine'[d].localtime \in Int /\ machine[d].localtime <= machine'[d].localtime
    BY <1>1, <1>2, <2>4
  <2>. QED
    BY <1>3, <2>1, <2>4, <2>5, <2>6
<1>9. ASSUME NEW m \in Machine, NEW n \in 2 .. Wanted, NEW e \in Others(m), NEW at \in 0 .. Slots,
             CmdSend(m, n, [x \in {e} |-> at])
      PROVE  Kept
  <2> DEFINE clock == machine[m].localtime
             r == [machine[m] EXCEPT !.localtime = @ + 1]
             pkt == [NoPacket EXCEPT !.src = m, !.time = r.localtime]
             into == [x \in {e} |-> at]
  <2>1. IPXSendPacket(m, r, pkt, into) /\ scenario' = scenario /\ got' = got
    BY <1>9 DEF CmdSend
  <2>2. r.localtime = clock + 1 /\ r.pool = machine[m].pool /\ clock \in Int
    BY <1>1, <1>2 DEF Driver
  <2>3. pkt.src = m /\ pkt.time = clock + 1
    BY <2>2 DEF NoPacket
  <2>. HIDE DEF pkt, r
  <2>4. ASSUME NEW d \in Machine
        PROVE  /\ machine'[d].localtime = IF d = m THEN clock + 1 ELSE machine[d].localtime
               /\ \/ machine'[d].pool = machine[d].pool
                  \/ /\ d = e /\ at \in 1 .. Slots
                     /\ machine'[d].pool = [machine[d].pool EXCEPT ![at] = pkt]
    <3>1. CASE d = m
      BY <2>1, <2>2, <3>1 DEF IPXSendPacket
    <3>2. CASE d # m /\ machine'[d] = machine[d]
      BY <3>2
    <3>3. CASE d # m /\ d = e /\ at # 0 /\ machine'[d] = [machine[d] EXCEPT !.pool[into[d]] = pkt]
      <4>1. into[d] = at /\ at \in 1 .. Slots
        BY <3>3, SlotsAssumption
      <4>2. machine'[d] = [machine[d] EXCEPT !.pool[at] = pkt] /\ machine[d] \in Driver
        BY <1>1, <3>3, <4>1
      <4>. QED
        BY <3>3, <4>1, <4>2 DEF Driver
    <3>. QED
      BY <2>1, <3>1, <3>2, <3>3 DEF IPXSendPacket
  <2>5. ASSUME NEW d \in Machine, NEW k \in Machine
        PROVE  InTime(machine'[d].pool, got[d][k], k, machine'[k].localtime)
    <3>1. /\ machine[d] \in Driver /\ machine[k] \in Driver /\ got[d][k] \in Seq(Nat)
          /\ InTime(machine[d].pool, got[d][k], k, machine[k].localtime)
      BY <1>1 DEF Ordered
    <3>2. Timed(machine[d].pool) /\ machine[k].localtime \in Int
      BY <1>2, <3>1
    <3>3. machine'[k].localtime \in Int /\ machine[k].localtime <= machine'[k].localtime
      <4>1. clock + 1 \in Int /\ clock <= clock + 1
        BY <2>2
      <4>2. machine[k].localtime <= machine[k].localtime
        BY <3>2
      <4>3. machine'[k].localtime = IF k = m THEN clock + 1 ELSE machine[k].localtime
        BY <2>4
      <4>4. CASE k = m
        BY <4>1, <4>3, <4>4
      <4>5. CASE k # m
        BY <3>2, <4>2, <4>3, <4>5
      <4>. QED
        BY <4>4, <4>5
    <3>4. CASE machine'[d].pool = machine[d].pool
      BY <3>1, <3>2, <3>3, <3>4, InTimeKept
    <3>5. CASE at \in 1 .. Slots /\ machine'[d].pool = [machine[d].pool EXCEPT ![at] = pkt]
      <4>1. \A i \in 1 .. Slots : machine'[d].pool[i] = IF i = at THEN pkt ELSE machine[d].pool[i]
        BY <3>1, <3>5 DEF Driver
      <4>2. CASE k = m
        <5>1. machine'[k].localtime = machine[k].localtime + 1 /\ machine'[d].pool[at].time = machine[k].localtime + 1
          BY <2>3, <2>4, <3>5, <4>1, <4>2
        <5> DEFINE before == machine[d].pool
                   after == machine'[d].pool
                   times == got[d][k]
                   now == machine[k].localtime
        <5>2. /\ Timed(before) /\ times \in Seq(Nat) /\ now \in Int /\ InTime(before, times, k, now)
              /\ at \in 1 .. Slots /\ after[at].time = now + 1
          BY <3>1, <3>2, <3>5, <5>1
        <5>3. \A i \in 1 .. Slots : i # at => after[i] = before[i]
          BY <4>1
        <5>. HIDE DEF before, after, times, now
        <5>4. InTime(after, times, k, now + 1)
          BY <5>2, <5>3, InTimeArrives
        <5>. QED
          BY <5>1, <5>4 DEF after, times, now
      <4>3. CASE k # m
        <5>1. ~GamePacket(pkt, k)
          BY <2>3, <4>3 DEF GamePacket
        <5>. QED
          BY <3>1, <3>2, <3>3, <4>1, <5>1, InTimeKept
      <4>. QED
        BY <4>2, <4>3
    <3>. QED
      BY <2>4, <3>4, <3>5
  <2>. QED
    BY <2>1, <2>5
<1>10. ASSUME NEW m \in Machine, CmdGet(m) PROVE Kept
  <2> DEFINE at == IPXGetPacket(machine[m])
             pkt == machine[m].pool[at]
             r == IPXReleasePacket(machine[m], at)
  <2>1. /\ Waiting(machine[m]) # {} /\ machine' = [machine EXCEPT ![m] = r] /\ scenario' = scenario
        /\ got' = IF pkt.time = -1 \/ NodeForAddress(machine[m], pkt.src) = 0 THEN got
                  ELSE [got EXCEPT ![m][pkt.src] = Append(@, pkt.time)]
    BY <1>1, <1>10 DEF CmdGet
  <2>2. at \in 1 .. Slots /\ PacketOK(pkt)
    BY <1>1, <2>1, TakenOK
  <2>3. \A i \in Waiting(machine[m]) : pkt.time <= machine[m].pool[i].time
    <3>1. \A i \in Waiting(machine[m]) : machine[m].pool[i].time \in Nat \cup {-1}
      <4>1. \A i \in Waiting(machine[m]) : machine[m].pool[i] \in Packet
        BY <1>1 DEF MachineOK, PacketOK
      <4>. QED
        BY <1>1, <4>1, ScenarioFacts DEF Packet
    <3>. QED
      BY <2>1, <3>1, LowestTime
  <2>4. /\ r.localtime = machine[m].localtime
        /\ \A i \in 1 .. Slots : r.pool[i] = IF i = at THEN NoPacket ELSE machine[m].pool[i]
    <3>. HIDE DEF at
    <3>. QED
      BY <1>1, <2>2 DEF IPXReleasePacket, Driver
  <2>. HIDE DEF pkt, r, at
  <2>5. pkt.src \in Machine /\ (pkt.time = -1 \/ pkt.time \in Nat)
    <3>1. pkt \in Packet /\ scenario \in Scenarios
      BY <1>1, <2>2 DEF PacketOK
    <3>. QED
      BY <3>1, ScenarioFacts DEF Packet
  <2>6. CASE got' = got
    <3>. HIDE DEF Kept
    <3>1. ASSUME NEW d \in Machine
          PROVE  /\ machine'[d].localtime \in Int /\ machine[d].localtime <= machine'[d].localtime
                 /\ \A i \in 1 .. Slots : \/ machine'[d].pool[i] = machine[d].pool[i]
                                          \/ \A n \in Machine : ~GamePacket(machine'[d].pool[i], n)
      <4>1. machine[d] \in Driver
        BY <1>1
      <4>2. machine[d].localtime \in Int
        BY <1>2, <4>1
      <4>3. machine'[d].localtime = machine[d].localtime
        BY <1>1, <2>1, <2>4
      <4>4. \A i \in 1 .. Slots : machine'[d].pool[i] \in {machine[d].pool[i], NoPacket}
        BY <1>1, <2>1, <2>4
      <4>5. machine'[d].localtime \in Int /\ machine[d].localtime <= machine'[d].localtime
        BY <4>2, <4>3
      <4>6. \A i \in 1 .. Slots : \/ machine'[d].pool[i] = machine[d].pool[i]
                                \/ \A n \in Machine : ~GamePacket(machine'[d].pool[i], n)
        <5>1. \A n \in Machine : ~GamePacket(NoPacket, n)
          BY <1>1, NoGamePacket
        <5>. QED
          BY ONLY <4>4, <5>1
      <4>. QED
        BY <4>5, <4>6
    <3>. QED
      BY <1>3, <2>1, <2>6, <3>1
  <2>7. CASE pkt.time # -1 /\ got' = [got EXCEPT ![m][pkt.src] = Append(@, pkt.time)]
    <3>0. /\ \A d, k \in Machine : got'[d][k] = IF d = m /\ k = pkt.src THEN Append(got[d][k], pkt.time)
                                                ELSE got[d][k]
          /\ \A d \in Machine : machine'[d] = IF d = m THEN r ELSE machine[d]
      <4>1. /\ machine \in [Machine -> Driver] /\ got \in [Machine -> [Machine -> Seq(Nat)]]
            /\ machine' = [machine EXCEPT ![m] = r]
        BY <1>1, <2>1 DEF Inv
      <4>2. got[m] \in [Machine -> Seq(Nat)]
        BY <4>1
      <4>. QED
        BY <2>5, <2>7, <4>1, <4>2
    <3>1. ASSUME NEW d \in Machine, NEW k \in Machine
          PROVE  InTime(machine'[d].pool, got'[d][k], k, machine'[k].localtime)
      <4>1. /\ machine[d] \in Driver /\ machine[k] \in Driver /\ got[d][k] \in Seq(Nat)
            /\ InTime(machine[d].pool, got[d][k], k, machine[k].localtime)
        BY <1>1 DEF Ordered
      <4>2. /\ Timed(machine[d].pool) /\ machine[k].localtime \in Int
            /\ machine'[k].localtime = machine[k].localtime
        BY <1>2, <2>4, <3>0, <4>1
      <4>3. machine[k].localtime <= machine[k].localtime
        BY <4>2
      <4>4. \A i \in 1 .. Slots : \/ machine'[d].pool[i] = machine[d].pool[i]
                                  \/ ~GamePacket(machine'[d].pool[i], k)
        BY <1>1, <2>4, <3>0, NoGamePacket
      <4>5. CASE d = m /\ k = pkt.src
        <5>1. pkt = machine[d].pool[at] /\ pkt.time \in Nat /\ GamePacket(pkt, k)
          BY <2>5, <2>7, <4>5 DEF pkt, GamePacket
        <5>2. \A i \in 1 .. Slots : GamePacket(machine[d].pool[i], k) => pkt.time <= machine[d].pool[i].time
          <6>1. \A i \in 1 .. Slots : GamePacket(machine[d].pool[i], k) => i \in Waiting(machine[d])
            BY <1>1, NoGamePacket DEF Waiting, Listening
          <6>. QED
            BY <2>3, <4>5, <6>1
        <5>3. \A i \in 1 .. Slots : IF i = at THEN ~GamePacket(machine'[d].pool[i], k)
                                    ELSE machine'[d].pool[i] = machine[d].pool[i]
          BY <1>1, <2>4, <3>0, <4>5, NoGamePacket
        <5>4. InTime(machine'[d].pool, Append(got[d][k], machine[d].pool[at].time), k, machine[k].localtime)
          BY <2>2, <4>1, <4>2, <5>1, <5>2, <5>3, InTimeTaken
        <5>. QED
          BY <3>0, <4>2, <4>5, <5>1, <5>4
      <4>6. CASE ~(d = m /\ k = pkt.src)
        <5>1. InTime(machine'[d].pool, got[d][k], k, machine[k].localtime)
          BY <4>1, <4>2, <4>3, <4>4, InTimeKept
        <5>. QED
          BY <3>0, <4>2, <4>6, <5>1
      <4>. QED
        BY <4>5, <4>6
    <3>. QED
      BY <2>1, <3>1
  <2>. QED
    BY <2>1, <2>6, <2>7
<1>11. ASSUME UNCHANGED vars PROVE Kept
  BY <1>11 DEF vars, Ordered
<1>12. Kept
  <2>. HIDE DEF Kept
  <2>. QED
    BY <1>5, <1>6, <1>7, <1>8, <1>9, <1>10, <1>11 DEF Next, BroadcastAny, SendAny
<1>. QED
  BY <1>12, SameScenario DEF Ordered, InTime, GamePacket

\* A game gets the packets of another in the order in which they were sent, whichever ECBs
\* they arrived in.
THEOREM InOrderHolds == Spec => []InOrder
<1>1. Ordered => InOrder
  BY DEF Ordered, InTime, InOrder
<1>. QED
  BY <1>1, InvHolds, InvInit, InvStep, OrderedInit, OrderedStep, PTL DEF Spec

=============================================================================
