--------------------------- MODULE SirStartProof ---------------------------
(***************************************************************************)
(* Proofs about SirStart: the arbitration of the infrared driver, for any  *)
(* number of machines with any flags, and any number of packets and losses. *)
(***************************************************************************)
EXTENDS SirStart, FiniteSetTheorems, SequenceTheorems, NaturalsInduction, WellFoundedInduction, TLAPS

-----------------------------------------------------------------------------
(***************************************************************************)
(* The invariant.                                                          *)
(***************************************************************************)
Entry == [id : Station, wanted : Nat, found : Nat, dup : Nat, player : Int]
Machine ==
  [phase : {"off", "arbitrate", "flush", "game", "error"}, nodes : Seq(Entry),
   out : Seq([pkt : Entry, last : BOOLEAN]), in : Seq(Entry), number : Int]

Ids(r) == {r.nodes[i].id : i \in DOMAIN r.nodes}
Active(r) == r.phase \in {"arbitrate", "flush", "game"}

\* It knows of all the others, and will not fail any more.
Complete(r) == Active(r) /\ Ids(r) = Station

\* The player number that a machine asks for.
Asked(s) == IF flags[s].player = -1 THEN -1 ELSE flags[s].player - 1

DupOK(dup, s) == Cardinality(Numbers) <= 2 => dup \in Numbers /\ dup >= flags[s].dup

\* What a packet says of its sender: one that has found as many as it wants has found all.
PacketOK(at, pkt) ==
  /\ pkt.wanted >= flags[pkt.id].nodes /\ pkt.wanted <= Cardinality(Station)
  /\ pkt.player = Asked(pkt.id)
  /\ DupOK(pkt.dup, pkt.id)
  /\ pkt.found = pkt.wanted => Complete(at[pkt.id])

\* What a machine knows: itself first, and every other once. It wants as many as any of
\* them, and none has its number.
TableOK(s, r) ==
  /\ Len(r.nodes) >= 1 /\ r.nodes[1].id = s
  /\ \A i, j \in DOMAIN r.nodes : r.nodes[i].id = r.nodes[j].id => i = j
  /\ r.nodes[1].found <= Len(r.nodes) /\ r.nodes[1].wanted <= Cardinality(Station)
  /\ \A i \in DOMAIN r.nodes :
       /\ r.nodes[1].wanted >= flags[r.nodes[i].id].nodes
       /\ r.nodes[i].player = Asked(r.nodes[i].id)
       /\ DupOK(r.nodes[1].dup, r.nodes[i].id)
       /\ i # 1 => r.nodes[1].player = -1 \/ r.nodes[i].player # r.nodes[1].player

MachineOK(at, s, r) ==
  /\ Active(r) => TableOK(s, r) /\ \A i \in 2 .. Len(r.nodes) : PacketOK(at, r.nodes[i])
  /\ \A i \in DOMAIN r.in : PacketOK(at, r.in[i]) /\ r.in[i].id # s
  /\ \A i \in DOMAIN r.out : PacketOK(at, r.out[i].pkt) /\ r.out[i].pkt.id = s

\* A machine leaves when all are complete.
LeavesComplete(at) ==
  \A s \in Station : at[s].phase \in {"flush", "game"} => \A t \in Station : Complete(at[t])

NumberOK(r) == r.phase = "game" => r.number = AssignPlayerNumbers(r)

Good(at) ==
  /\ at \in [Station -> Machine]
  /\ \A s \in Station : MachineOK(at, s, at[s]) /\ NumberOK(at[s])
  /\ LeavesComplete(at)

ArbInv == setup \in Setups /\ Good(station)

-----------------------------------------------------------------------------
(***************************************************************************)
(* Numbers and sets.                                                       *)
(***************************************************************************)
LEMMA MaxIs ==
  ASSUME NEW S \in SUBSET Int, NEW m \in S, \A x \in S : x <= m
  PROVE  Max(S) = m
<1>1. \A x \in S : m >= x
  OBVIOUS
<1>2. \A x \in S : (\A y \in S : x >= y) => x = m
  OBVIOUS
<1>. QED
  BY <1>1, <1>2 DEF Max

LEMMA LeastNumber ==
  ASSUME NEW S \in SUBSET Nat, S # {}
  PROVE  \E m \in S : \A x \in S : m <= x
<1>1. PICK m \in S : \A x \in S : ~ (<<x, m>> \in OpToRel(<, Nat))
  BY NatLessThanWellFounded, WFMin
<1>2. \A x \in Nat : x < m => <<x, m>> \in OpToRel(<, Nat)
  BY DEF OpToRel
<1>3. \A x \in S : ~(x < m) /\ x \in Nat /\ m \in Nat
  BY <1>1, <1>2
<1>. QED
  BY <1>3

\* How many elements of F are less than p.
Rank(F, p) == Cardinality({q \in F : q < p})

LEMMA RankStep ==
  ASSUME NEW n \in Nat, NEW F \in SUBSET (0 .. n), NEW p \in Nat
  PROVE  /\ IsFiniteSet(F) /\ Rank(F, p) \in Nat /\ Rank(F, 0) = 0 /\ Rank(F, n + 1) = Cardinality(F)
         /\ Rank(F, p + 1) = IF p \in F THEN Rank(F, p) + 1 ELSE Rank(F, p)
<1>1. IsFiniteSet(0 .. n)
  BY FS_Interval
<1>2. IsFiniteSet(F) /\ IsFiniteSet({q \in F : q < p})
  BY <1>1, FS_Subset
<1>0. \A q \in F : q \in Int /\ ~(q < 0) /\ q < n + 1 /\ (q < p + 1 <=> q < p \/ q = p)
  OBVIOUS
<1>3. {q \in F : q < 0} = {} /\ {q \in F : q < n + 1} = F
  BY <1>0
<1>4. {q \in F : q < p + 1} = IF p \in F THEN {q \in F : q < p} \cup {p} ELSE {q \in F : q < p}
  BY <1>0
<1>5. Rank(F, p) \in Nat
  BY <1>2, FS_CardinalityType DEF Rank
<1>6. Rank(F, p + 1) = IF p \in F THEN Rank(F, p) + 1 ELSE Rank(F, p)
  <2>1. p \notin {q \in F : q < p}
    OBVIOUS
  <2>2. Cardinality({q \in F : q < p} \cup {p}) = Cardinality({q \in F : q < p}) + 1
    BY <1>2, <2>1, FS_AddElement
  <2>. QED
    BY <1>4, <2>2 DEF Rank
<1>. QED
  BY <1>2, <1>3, <1>5, <1>6, FS_EmptySet DEF Rank

\* Every number less than the size of a set of numbers is the rank of an element.
LEMMA RankExists ==
  ASSUME NEW n \in Nat, NEW F \in SUBSET (0 .. n), NEW k \in Nat, k < Cardinality(F)
  PROVE  \E p \in F : Rank(F, p) = k
<1> DEFINE Above == {p \in Nat : k < Rank(F, p + 1)}
<1>1. Rank(F, n + 1) = Cardinality(F)
  BY RankStep
<1>2. Above # {}
  BY <1>1
<1>3. PICK m \in Above : \A x \in Above : m <= x
  BY <1>2, LeastNumber
<1>4. Rank(F, m) <= k
  <2>1. CASE m = 0
    BY <2>1, RankStep
  <2>2. CASE m # 0
    <3>1. m - 1 \in Nat /\ m - 1 \notin Above /\ (m - 1) + 1 = m
      BY <1>3, <2>2
    <3>2. ~(k < Rank(F, (m - 1) + 1)) /\ Rank(F, m) \in Nat
      BY <3>1, RankStep
    <3>. QED
      BY <3>1, <3>2
  <2>. QED
    BY <2>1, <2>2
<1>5. Rank(F, m + 1) = (IF m \in F THEN Rank(F, m) + 1 ELSE Rank(F, m)) /\ Rank(F, m) \in Nat
  BY RankStep
<1>6. k < Rank(F, m + 1)
  OBVIOUS
<1>. QED
  BY <1>4, <1>5, <1>6

\* A table in which everybody is once has as many entries as there are machines in it.
LEMMA OneByOne ==
  ASSUME NEW s \in Seq(Entry), \A i, j \in DOMAIN s : s[i].id = s[j].id => i = j,
         NEW D \in SUBSET DOMAIN s
  PROVE  /\ IsFiniteSet(D) /\ IsFiniteSet({s[i].id : i \in D})
         /\ Cardinality({s[i].id : i \in D}) = Cardinality(D)
<1> DEFINE f == [i \in D |-> s[i].id]
<1>1. IsFiniteSet(1 .. Len(s)) /\ DOMAIN s = 1 .. Len(s)
  BY FS_Interval
<1>2. IsFiniteSet(D)
  BY <1>1, FS_Subset
<1>3. f \in Bijection(D, {s[i].id : i \in D})
  BY DEF Bijection, Injection, Surjection, IsInjective
<1>. QED
  BY <1>2, <1>3, FS_Bijection DEF ExistsBijection

-----------------------------------------------------------------------------
(***************************************************************************)
(* The setup, and what it says of a table.                                 *)
(***************************************************************************)
LEMMA SetupFacts ==
  ASSUME setup \in Setups
  PROVE  /\ IsFiniteSet(Station) /\ Station \subseteq Nat /\ Cardinality(Station) \in Nat
         /\ \A s \in Station :
              /\ flags[s].nodes \in Nat \ {0} /\ flags[s].nodes <= Cardinality(Station)
              /\ flags[s].player \in {-1} \cup (Nat \ {0}) /\ flags[s].player <= flags[s].nodes
              /\ flags[s].dup \in Nat \ {0}
<1>1. /\ IsFiniteSet(Station) /\ Station \subseteq Nat /\ setup \in Setup(Station)
      /\ \A s \in Station : flags[s].player <= flags[s].nodes
  BY SetupsAssumption DEF Station, flags
<1>2. \A s \in Station : flags[s] \in [nodes : Nat \ {0}, player : {-1} \cup (Nat \ {0}), dup : Nat \ {0}]
  BY <1>1 DEF Setup, flags
<1>3. ASSUME NEW s \in Station PROVE flags[s].nodes <= Cardinality(Station)
  <2>1. Station \in (SUBSET DOMAIN setup.flags) \ {{}} /\ Station = DOMAIN setup.flags
    BY <1>3 DEF Station, flags
  <2>. QED
    BY <2>1, NodesAssumption DEF flags
<1>. QED
  BY <1>1, <1>2, <1>3, FS_CardinalityType

LEMMA AskedFacts ==
  ASSUME setup \in Setups, NEW s \in Station
  PROVE  /\ Asked(s) \in -1 .. Cardinality(Station) - 1
         /\ flags[s].player = -1 <=> Asked(s) = -1
BY SetupFacts DEF Asked

\* A machine that has found as many as it wants has found all.
LEMMA ReadyIsComplete ==
  ASSUME setup \in Setups, NEW s, NEW r \in Machine, TableOK(s, r), r.nodes[1].found = r.nodes[1].wanted
  PROVE  Ids(r) = Station
<1>1. /\ r.nodes \in Seq(Entry) /\ Len(r.nodes) \in Nat \ {0} /\ DOMAIN r.nodes = 1 .. Len(r.nodes)
      /\ r.nodes[1] \in Entry
  BY DEF Machine, TableOK
<1>2. Ids(r) \in (SUBSET Station) \ {{}}
  <2>1. \A i \in DOMAIN r.nodes : r.nodes[i] \in Entry
    BY <1>1
  <2>2. \A i \in DOMAIN r.nodes : r.nodes[i].id \in Station
    BY <2>1 DEF Entry
  <2>3. r.nodes[1].id \in Ids(r)
    BY <1>1 DEF Ids
  <2>. QED
    BY <2>2, <2>3 DEF Ids
<1>3. Cardinality(Ids(r)) = Len(r.nodes)
  <2>1. Cardinality(1 .. Len(r.nodes)) = Len(r.nodes)
    BY <1>1, FS_Interval
  <2>. QED
    <3>1. r.nodes \in Seq(Entry) /\ \A i, j \in DOMAIN r.nodes : r.nodes[i].id = r.nodes[j].id => i = j
      BY <1>1 DEF TableOK
    <3>2. Cardinality({r.nodes[i].id : i \in DOMAIN r.nodes}) = Cardinality(DOMAIN r.nodes)
      BY <3>1, OneByOne
    <3>. QED
      BY <1>1, <2>1, <3>2 DEF Ids
<1>4. \A t \in Ids(r) : flags[t].nodes <= Cardinality(Ids(r))
  <2>. SUFFICES ASSUME NEW i \in DOMAIN r.nodes PROVE flags[r.nodes[i].id].nodes <= Len(r.nodes)
    BY <1>3 DEF Ids
  <2>1. r.nodes[1].wanted >= flags[r.nodes[i].id].nodes /\ r.nodes[1].found <= Len(r.nodes)
    BY DEF TableOK
  <2>2. r.nodes[1].wanted \in Nat /\ r.nodes[1].found \in Nat /\ r.nodes[i].id \in Station
    <3>1. r.nodes[i] \in Entry
      BY <1>1
    <3>. QED
      BY <1>1, <3>1 DEF Entry
  <2>3. flags[r.nodes[i].id].nodes \in Nat
    BY <2>2, SetupFacts
  <2>. QED
    BY <1>1, <2>1, <2>2, <2>3
<1>5. ASSUME Ids(r) # Station PROVE FALSE
  <2>1. \E t \in Ids(r) : flags[t].nodes > Cardinality(Ids(r))
    BY <1>2, <1>5, NodesAssumption DEF Station, flags
  <2>2. PICK t \in Ids(r) : flags[t].nodes > Cardinality(Ids(r))
    BY <2>1
  <2>3. flags[t].nodes \in Nat
    BY <1>2, SetupFacts
  <2>. QED
    BY <1>1, <1>3, <1>4, <2>2, <2>3
<1>. QED
  BY <1>5

LEMMA NodeForStationIDFacts ==
  ASSUME NEW s, NEW r \in Machine, TableOK(s, r), NEW id
  PROVE  \/ NodeForStationID(r, id) = 0 /\ \A i \in 2 .. Len(r.nodes) : r.nodes[i].id # id
         \/ NodeForStationID(r, id) \in 2 .. Len(r.nodes) /\ r.nodes[NodeForStationID(r, id)].id = id
<1> DEFINE Places == {i \in 2 .. Len(r.nodes) : r.nodes[i].id = id}
<1>1. Len(r.nodes) \in Nat /\ DOMAIN r.nodes = 1 .. Len(r.nodes)
  BY DEF Machine
<1>2. CASE Places = {}
  <2>1. {0} \cup Places \in SUBSET Int /\ 0 \in {0} \cup Places /\ \A i \in {0} \cup Places : i <= 0
    BY <1>2
  <2>2. Max({0} \cup Places) = 0
    BY <2>1, MaxIs
  <2>. QED
    BY <1>2, <2>2 DEF NodeForStationID
<1>3. ASSUME NEW n \in Places
      PROVE  NodeForStationID(r, id) = n
  <2>1. \A i \in Places : i = n
    BY <1>1, <1>3 DEF TableOK
  <2>2. {0} \cup Places \in SUBSET Int /\ n \in {0} \cup Places /\ \A i \in {0} \cup Places : i <= n
    BY <1>1, <1>3, <2>1
  <2>3. Max({0} \cup Places) = n
    BY <2>2, MaxIs
  <2>. QED
    BY <2>3 DEF NodeForStationID
<1>. QED
  BY <1>2, <1>3

LEMMA EntriesOf ==
  ASSUME NEW r \in Machine
  PROVE  /\ \A i \in 2 .. Len(r.nodes) : r.nodes[i] \in Entry
         /\ \A i \in DOMAIN r.in : r.in[i] \in Entry
         /\ \A i \in DOMAIN r.out : r.out[i].pkt \in Entry
<1>1. r.nodes \in Seq(Entry) /\ r.in \in Seq(Entry) /\ r.out \in Seq([pkt : Entry, last : BOOLEAN])
  BY DEF Machine
<1>2. /\ \A i \in 1 .. Len(r.nodes) : r.nodes[i] \in Entry
      /\ \A i \in DOMAIN r.in : r.in[i] \in Entry
      /\ \A i \in DOMAIN r.out : r.out[i] \in [pkt : Entry, last : BOOLEAN]
  <2>1. \A S : \A q \in Seq(S) : \A i \in DOMAIN q : q[i] \in S
    BY ElementOfSeq, LenProperties
  <2>2. DOMAIN r.nodes = 1 .. Len(r.nodes)
    BY <1>1
  <2>. QED
    BY <1>1, <2>1, <2>2
<1>3. Len(r.nodes) \in Nat
  BY <1>1
<1>. QED
  BY <1>2, <1>3

\* What is said of machines stays true while the complete ones stay so.
LEMMA StaysOK ==
  ASSUME NEW at, NEW next, \A t \in Station : Complete(at[t]) => Complete(next[t])
  PROVE  /\ \A pkt \in Entry : PacketOK(at, pkt) => PacketOK(next, pkt)
         /\ \A s \in Station : \A r \in Machine : MachineOK(at, s, r) => MachineOK(next, s, r)
<1>1. \A pkt \in Entry : PacketOK(at, pkt) => PacketOK(next, pkt)
  BY DEF PacketOK, Entry
<1>2. ASSUME NEW s \in Station, NEW r \in Machine, MachineOK(at, s, r) PROVE MachineOK(next, s, r)
  <2>1. /\ \A i \in 2 .. Len(r.nodes) : r.nodes[i] \in Entry
        /\ \A i \in DOMAIN r.in : r.in[i] \in Entry
        /\ \A i \in DOMAIN r.out : r.out[i].pkt \in Entry
    BY EntriesOf
  <2>. QED
    BY <1>1, <1>2, <2>1 DEF MachineOK
<1>. QED
  BY <1>1, <1>2
-----------------------------------------------------------------------------
(***************************************************************************)
(* ProcessSetupPacket.                                                     *)
(***************************************************************************)
LEMMA MachineFacts ==
  ASSUME NEW r \in Machine
  PROVE  /\ r.phase \in {"off", "arbitrate", "flush", "game", "error"} /\ r.number \in Int
         /\ r.nodes \in Seq(Entry) /\ r.out \in Seq([pkt : Entry, last : BOOLEAN]) /\ r.in \in Seq(Entry)
         /\ Len(r.nodes) \in Nat /\ DOMAIN r.nodes = 1 .. Len(r.nodes)
         /\ \A i \in 1 .. Len(r.nodes) : r.nodes[i] \in Entry
BY DEF Machine

LEMMA EntryFacts ==
  ASSUME NEW e \in Entry
  PROVE  e.id \in Station /\ e.wanted \in Nat /\ e.found \in Nat /\ e.dup \in Nat /\ e.player \in Int
BY DEF Entry

\* Two elements of a set of two are all of it.
LEMMA JustTwo ==
  ASSUME NEW S, IsFiniteSet(S), Cardinality(S) <= 2, NEW a \in S, NEW b \in S, a # b
  PROVE  S = {a, b}
<1>1. IsFiniteSet({a}) /\ Cardinality({a}) = 1
  BY FS_Singleton
<1>2. IsFiniteSet({a} \cup {b}) /\ Cardinality({a} \cup {b}) = 2
  <2>1. b \notin {a}
    OBVIOUS
  <2>2. Cardinality({a} \cup {b}) = Cardinality({a}) + 1 /\ IsFiniteSet({a} \cup {b})
    BY <1>1, <2>1, FS_AddElement
  <2>. QED
    BY <1>1, <2>2
<1>3. {a, b} = {a} \cup {b} /\ {a, b} \in SUBSET S
  OBVIOUS
<1>4. Cardinality(S) \in Nat
  BY FS_CardinalityType
<1>5. Cardinality({a, b}) <= Cardinality(S) /\ (Cardinality(S) = Cardinality({a, b}) => S = {a, b})
  BY <1>3, FS_Subset
<1>. QED
  BY <1>2, <1>3, <1>4, <1>5

LEMMA NumbersFacts ==
  ASSUME setup \in Setups
  PROVE  IsFiniteSet(Numbers) /\ Numbers \subseteq Nat
<1> DEFINE f == [s \in Station |-> flags[s].dup]
<1>1. f \in Surjection(Station, Numbers)
  BY DEF Surjection, Numbers
<1>2. IsFiniteSet(Station) /\ \A s \in Station : flags[s].dup \in Nat
  BY SetupFacts
<1>. QED
  BY <1>1, <1>2, FS_Surjection DEF Numbers

\* With two different -dup, the own and one that is more, there is no other.
LEMMA DupAdjusted ==
  ASSUME setup \in Setups, NEW s \in Station, NEW t \in Station, NEW u \in Station,
         NEW own \in Nat, NEW p \in Nat, NEW new \in Nat,
         new = (IF p > flags[s].dup THEN p ELSE own),
         DupOK(own, s), DupOK(own, t), DupOK(p, u)
  PROVE  DupOK(new, t) /\ DupOK(new, u)
<1> SUFFICES ASSUME Cardinality(Numbers) <= 2
             PROVE  new \in Numbers /\ new >= flags[t].dup /\ new >= flags[u].dup
  BY DEF DupOK
<1>1. /\ own \in Numbers /\ own >= flags[s].dup /\ own >= flags[t].dup
      /\ p \in Numbers /\ p >= flags[u].dup
  BY DEF DupOK
<1>2. /\ flags[s].dup \in Nat /\ flags[t].dup \in Nat /\ flags[u].dup \in Nat
      /\ flags[s].dup \in Numbers /\ flags[t].dup \in Numbers /\ flags[u].dup \in Numbers
  BY SetupFacts DEF Numbers
<1>3. CASE p > flags[s].dup
  <2>1. p # flags[s].dup
    BY <1>2, <1>3
  <2>2. Numbers = {flags[s].dup, p}
    BY <1>1, <1>2, <2>1, NumbersFacts, JustTwo
  <2>. QED
    BY <1>1, <1>2, <1>3, <2>2
<1>4. CASE ~(p > flags[s].dup)
  BY <1>1, <1>2, <1>4
<1>. QED
  BY <1>3, <1>4

\* A packet from a known machine replaces what was known of it.
Replacing(r, n, pkt) == [r EXCEPT !.nodes = [r.nodes EXCEPT ![n] = pkt]]

LEMMA Replaced ==
  ASSUME NEW at, NEW s \in Station, NEW r \in Machine, r.phase = "arbitrate", MachineOK(at, s, r),
         NEW pkt \in Entry, PacketOK(at, pkt)
  PROVE  \A n \in 2 .. Len(r.nodes) :
            r.nodes[n].id = pkt.id
            => /\ Replacing(r, n, pkt) \in Machine /\ Replacing(r, n, pkt).phase = "arbitrate"
               /\ MachineOK(at, s, Replacing(r, n, pkt)) /\ Ids(Replacing(r, n, pkt)) = Ids(r)
<1>. SUFFICES ASSUME NEW n \in 2 .. Len(r.nodes), r.nodes[n].id = pkt.id, NEW q, q = Replacing(r, n, pkt)
              PROVE  q \in Machine /\ q.phase = "arbitrate" /\ MachineOK(at, s, q) /\ Ids(q) = Ids(r)
  OBVIOUS
<1>1. TableOK(s, r) /\ \A i \in 2 .. Len(r.nodes) : PacketOK(at, r.nodes[i])
  BY DEF MachineOK, Active
<1>2. /\ r.nodes \in Seq(Entry) /\ Len(r.nodes) \in Nat /\ DOMAIN r.nodes = 1 .. Len(r.nodes)
      /\ n \in 1 .. Len(r.nodes) /\ n # 1
  BY MachineFacts
<1>3. /\ q.nodes = [r.nodes EXCEPT ![n] = pkt] /\ q.in = r.in /\ q.out = r.out /\ q.phase = r.phase
      /\ (q.nodes \in Seq(Entry) => q \in Machine)
  BY DEF Machine, Replacing
<1>4. /\ q.nodes \in Seq(Entry) /\ Len(q.nodes) = Len(r.nodes)
      /\ \A i \in 1 .. Len(r.nodes) : q.nodes[i] = IF i = n THEN pkt ELSE r.nodes[i]
  BY <1>2, <1>3, ExceptSeq
<1>5. q \in Machine /\ DOMAIN q.nodes = 1 .. Len(r.nodes)
  BY <1>3, <1>4, MachineFacts
<1>6. \A i \in 1 .. Len(r.nodes) :
        q.nodes[i].id = r.nodes[i].id /\ q.nodes[i].player = r.nodes[i].player
  <2>1. pkt.player = Asked(pkt.id) /\ r.nodes[n].player = Asked(r.nodes[n].id)
    BY <1>1, <1>2 DEF PacketOK, TableOK
  <2>. QED
    BY <1>4, <2>1
<1>7. Ids(q) = Ids(r)
  BY <1>2, <1>5, <1>6 DEF Ids
<1>8. q.nodes[1] = r.nodes[1]
  BY <1>2, <1>4
<1>9. TableOK(s, q)
  <2>1. Len(q.nodes) >= 1 /\ q.nodes[1].id = s
    BY <1>1, <1>4, <1>8 DEF TableOK
  <2>2. \A i, j \in DOMAIN q.nodes : q.nodes[i].id = q.nodes[j].id => i = j
    BY <1>1, <1>2, <1>5, <1>6 DEF TableOK
  <2>3. q.nodes[1].found <= Len(q.nodes) /\ q.nodes[1].wanted <= Cardinality(Station)
    BY <1>1, <1>4, <1>8 DEF TableOK
  <2>4. ASSUME NEW i \in DOMAIN q.nodes
        PROVE  /\ q.nodes[1].wanted >= flags[q.nodes[i].id].nodes
               /\ q.nodes[i].player = Asked(q.nodes[i].id)
               /\ DupOK(q.nodes[1].dup, q.nodes[i].id)
               /\ i # 1 => q.nodes[1].player = -1 \/ q.nodes[i].player # q.nodes[1].player
    <3>1. i \in DOMAIN r.nodes
      BY <1>2, <1>5
    <3>. QED
      BY <1>1, <1>2, <3>1, <1>6, <1>8 DEF TableOK
  <2>. QED
    BY <2>1, <2>2, <2>3, <2>4 DEF TableOK
<1>10. \A i \in 2 .. Len(q.nodes) : PacketOK(at, q.nodes[i])
  <2>1. \A i \in 2 .. Len(r.nodes) : i \in 1 .. Len(r.nodes)
    BY <1>2
  <2>. QED
    BY <1>1, <1>4, <2>1
<1>11. MachineOK(at, s, q)
  BY <1>3, <1>9, <1>10 DEF MachineOK
<1>. QED
  BY <1>3, <1>5, <1>7, <1>11

\* One from a machine that is new is appended, and the own node adjusted to it.
LEMMA Appended ==
  ASSUME setup \in Setups,
         NEW at, NEW s \in Station, NEW r \in Machine, r.phase = "arbitrate", MachineOK(at, s, r),
         NEW pkt \in Entry, PacketOK(at, pkt), pkt.id # s, ~Clash(r, pkt),
         \A i \in 2 .. Len(r.nodes) : r.nodes[i].id # pkt.id,
         NEW q, q = [r EXCEPT !.nodes = Append([r.nodes EXCEPT ![1] = Adjusted(s, @, pkt)], pkt)]
  PROVE  q \in Machine /\ q.phase = "arbitrate" /\ MachineOK(at, s, q)
<1> DEFINE own == r.nodes[1]  new == Adjusted(s, own, pkt)  L == Len(r.nodes)
           old == [r.nodes EXCEPT ![1] = new]
<1>1. TableOK(s, r) /\ \A i \in 2 .. L : PacketOK(at, r.nodes[i])
  BY DEF MachineOK, Active
<1>2. /\ r.nodes \in Seq(Entry) /\ L \in Nat /\ DOMAIN r.nodes = 1 .. L
      /\ \A i \in 1 .. L : r.nodes[i] \in Entry
  BY MachineFacts
<1>3. L >= 1 /\ 1 \in 1 .. L /\ own \in Entry /\ own.id = s
  BY <1>1, <1>2 DEF TableOK
<1>4. /\ new \in Entry /\ new.id = own.id /\ new.found = own.found /\ new.player = own.player
      /\ new.wanted = (IF pkt.wanted > own.wanted THEN pkt.wanted ELSE own.wanted)
      /\ new.dup = (IF pkt.dup > flags[s].dup THEN pkt.dup ELSE own.dup)
  BY <1>3 DEF Adjusted, Entry
<1> HIDE DEF new
<1>5. /\ q.nodes = Append(old, pkt) /\ q.in = r.in /\ q.out = r.out /\ q.phase = r.phase
      /\ (q.nodes \in Seq(Entry) => q \in Machine)
  <2>1. q = [r EXCEPT !.nodes = Append([r.nodes EXCEPT ![1] = Adjusted(s, r.nodes[1], pkt)], pkt)]
    OBVIOUS
  <2>2. q = [r EXCEPT !.nodes = Append(old, pkt)]
    BY <2>1 DEF new
  <2> HIDE DEF old
  <2>. QED
    BY <2>2 DEF Machine
<1>6. old \in Seq(Entry) /\ Len(old) = L /\ \A i \in 1 .. L : old[i] = IF i = 1 THEN new ELSE r.nodes[i]
  BY <1>2, <1>3, <1>4, ExceptSeq
<1> HIDE DEF old
<1>7. /\ q.nodes \in Seq(Entry) /\ Len(q.nodes) = L + 1 /\ q.nodes[L + 1] = pkt
      /\ \A i \in 1 .. L : q.nodes[i] = IF i = 1 THEN new ELSE r.nodes[i]
  <2>1. /\ Append(old, pkt) \in Seq(Entry) /\ Len(Append(old, pkt)) = L + 1
        /\ Append(old, pkt)[L + 1] = pkt /\ \A i \in 1 .. L : Append(old, pkt)[i] = old[i]
    BY <1>6, AppendProperties
  <2>. QED
    BY <1>5, <1>6, <2>1
<1>8. q \in Machine /\ DOMAIN q.nodes = 1 .. L + 1 /\ q.nodes[1] = new
  BY <1>3, <1>5, <1>7, MachineFacts
<1>9. \A i \in 1 .. L : q.nodes[i].id = r.nodes[i].id /\ q.nodes[i].player = r.nodes[i].player
  BY <1>3, <1>4, <1>7
<1>10. \A i \in 1 .. L + 1 : i \in 1 .. L \/ i = L + 1
  BY <1>2
<1>11. \A i \in 1 .. L : r.nodes[i].id # pkt.id /\ r.nodes[i].id \in Station
  <2>1. \A i \in 1 .. L : i = 1 \/ i \in 2 .. L
    BY <1>2
  <2>. QED
    BY <2>1, <1>2, <1>3, EntryFacts
<1>12. TableOK(s, q)
  <2>1. Len(q.nodes) >= 1 /\ q.nodes[1].id = s
    BY <1>2, <1>3, <1>4, <1>7, <1>8
  <2>2. ASSUME NEW i \in DOMAIN q.nodes, NEW j \in DOMAIN q.nodes, q.nodes[i].id = q.nodes[j].id
        PROVE  i = j
    <3>1. i \in 1 .. L /\ j \in 1 .. L => i = j
      BY <1>1, <1>2, <1>9, <2>2 DEF TableOK
    <3>. QED
      BY <1>7, <1>8, <1>9, <1>10, <1>11, <2>2, <3>1
  <2>3. /\ own.wanted \in Nat /\ own.found \in Nat /\ own.dup \in Nat /\ pkt.wanted \in Nat /\ pkt.dup \in Nat
        /\ new.wanted \in Nat /\ new.dup \in Nat /\ pkt.id \in Station
        /\ own.found <= L /\ own.wanted <= Cardinality(Station)
        /\ pkt.wanted <= Cardinality(Station) /\ pkt.wanted >= flags[pkt.id].nodes
        /\ Cardinality(Station) \in Nat /\ pkt.player = Asked(pkt.id) /\ DupOK(pkt.dup, pkt.id)
    BY <1>1, <1>3, <1>4, EntryFacts, SetupFacts DEF TableOK, PacketOK
  <2>4. q.nodes[1].found <= Len(q.nodes) /\ q.nodes[1].wanted <= Cardinality(Station)
    BY <1>2, <1>4, <1>7, <1>8, <2>3
  <2>5. \A i \in 1 .. L : new.wanted >= flags[r.nodes[i].id].nodes
    <3>1. \A i \in 1 .. L : own.wanted >= flags[r.nodes[i].id].nodes /\ flags[r.nodes[i].id].nodes \in Nat
      BY <1>1, <1>2, <1>11, SetupFacts DEF TableOK
    <3>. QED
      BY <1>4, <2>3, <3>1
  <2>6. new.wanted >= flags[pkt.id].nodes
    <3>1. flags[pkt.id].nodes \in Nat
      BY <2>3, SetupFacts
    <3>. QED
      BY <1>4, <2>3, <3>1
  <2>7. \A i \in 1 .. L : DupOK(own.dup, r.nodes[i].id)
    BY <1>1, <1>2 DEF TableOK
  <2>8. \A i \in 1 .. L : DupOK(new.dup, r.nodes[i].id) /\ DupOK(new.dup, pkt.id)
    <3>1. DupOK(own.dup, s)
      BY <1>3, <2>7
    <3>2. ASSUME NEW i \in 1 .. L
          PROVE  DupOK(new.dup, r.nodes[i].id) /\ DupOK(new.dup, pkt.id)
      <4>1. r.nodes[i].id \in Station /\ DupOK(own.dup, r.nodes[i].id)
        BY <1>11, <2>7
      <4> DEFINE t == r.nodes[i].id  u == pkt.id  a == own.dup  b == pkt.dup  c == new.dup
      <4>2. /\ t \in Station /\ u \in Station /\ a \in Nat /\ b \in Nat /\ c \in Nat
            /\ c = (IF b > flags[s].dup THEN b ELSE a)
            /\ DupOK(a, s) /\ DupOK(a, t) /\ DupOK(b, u)
        BY <1>4, <2>3, <3>1, <4>1
      <4> HIDE DEF t, u, a, b, c
      <4>3. DupOK(c, t) /\ DupOK(c, u)
        BY <4>2, DupAdjusted
      <4>. QED
        BY <4>3 DEF t, u, c
    <3>. QED
      BY <3>2
  <2>9. own.player = -1 \/ pkt.player # own.player
    BY DEF Clash
  <2>10. ASSUME NEW i \in DOMAIN q.nodes
         PROVE  /\ q.nodes[1].wanted >= flags[q.nodes[i].id].nodes
                /\ q.nodes[i].player = Asked(q.nodes[i].id)
                /\ DupOK(q.nodes[1].dup, q.nodes[i].id)
                /\ i # 1 => q.nodes[1].player = -1 \/ q.nodes[i].player # q.nodes[1].player
    <3>1. CASE i \in 1 .. L
      BY <1>1, <1>2, <1>3, <1>4, <1>8, <1>9, <2>5, <2>8, <3>1 DEF TableOK
    <3>2. CASE i = L + 1
      BY <1>3, <1>4, <1>7, <1>8, <2>3, <2>6, <2>8, <2>9, <3>2
    <3>. QED
      BY <1>8, <1>10, <3>1, <3>2
  <2>. QED
    BY <2>1, <2>2, <2>4, <2>10 DEF TableOK
<1>13. ASSUME NEW i \in 2 .. Len(q.nodes) PROVE PacketOK(at, q.nodes[i])
  <2>1. (i \in 1 .. L /\ i \in 2 .. L /\ i # 1) \/ i = L + 1
    BY <1>2, <1>7
  <2>. QED
    BY <1>1, <1>7, <2>1
<1>14. MachineOK(at, s, q)
  BY <1>5, <1>12, <1>13 DEF MachineOK
<1>. QED
  BY <1>5, <1>8, <1>14

LEMMA Processed ==
  ASSUME setup \in Setups,
         NEW at, NEW s \in Station, NEW r \in Machine, r.phase = "arbitrate", MachineOK(at, s, r),
         NEW pkt \in Entry, PacketOK(at, pkt), pkt.id # s,
         NEW q, q = ProcessSetupPacket(s, r, pkt)
  PROVE  /\ q \in Machine /\ q.phase \in {"arbitrate", "error"} /\ MachineOK(at, s, q)
         /\ Complete(r) => Complete(q)
<1> DEFINE n == NodeForStationID(r, pkt.id)
<1>1. TableOK(s, r)
  BY DEF MachineOK, Active
<1>2. CASE n # 0
  <2>1. n \in 2 .. Len(r.nodes) /\ r.nodes[n].id = pkt.id
    BY <1>1, <1>2, NodeForStationIDFacts
  <2>2. q = Replacing(r, n, pkt)
    BY <1>2 DEF ProcessSetupPacket, Replacing
  <2>3. q \in Machine /\ q.phase = "arbitrate" /\ MachineOK(at, s, q) /\ Ids(q) = Ids(r)
    <3>1. PICK m \in 2 .. Len(r.nodes) : r.nodes[m].id = pkt.id /\ q = Replacing(r, m, pkt)
      BY <2>1, <2>2
    <3>2. /\ s \in Station /\ r \in Machine /\ r.phase = "arbitrate" /\ MachineOK(at, s, r)
          /\ pkt \in Entry /\ PacketOK(at, pkt) /\ m \in 2 .. Len(r.nodes) /\ r.nodes[m].id = pkt.id
          /\ q = Replacing(r, m, pkt)
      BY <3>1
    <3>3. \A k \in 2 .. Len(r.nodes) :
            r.nodes[k].id = pkt.id
            => /\ Replacing(r, k, pkt) \in Machine /\ Replacing(r, k, pkt).phase = "arbitrate"
               /\ MachineOK(at, s, Replacing(r, k, pkt)) /\ Ids(Replacing(r, k, pkt)) = Ids(r)
      BY Replaced
    <3>. QED
      BY ONLY <3>2, <3>3
  <2>. QED
    BY <2>3 DEF Complete, Active
<1>3. CASE n = 0
  <2>1. \A i \in 2 .. Len(r.nodes) : r.nodes[i].id # pkt.id
    <3>1. n \notin 2 .. Len(r.nodes)
      BY <1>3
    <3>. QED
      BY <1>1, <3>1, NodeForStationIDFacts
  <2>2. ~Complete(r)
    <3>1. \A i \in DOMAIN r.nodes : r.nodes[i].id # pkt.id
      <4>1. \A i \in DOMAIN r.nodes : i = 1 \/ i \in 2 .. Len(r.nodes)
        BY MachineFacts
      <4>. QED
        BY <1>1, <2>1, <4>1 DEF TableOK
    <3>2. pkt.id \in Station
      BY EntryFacts
    <3>. QED
      BY <3>1, <3>2 DEF Complete, Ids
  <2>3. CASE Clash(r, pkt)
    <3>1. q = [Stopped EXCEPT !.phase = "error"]
      BY <1>3, <2>3 DEF ProcessSetupPacket
    <3>2. /\ q.phase = "error" /\ q.nodes = <<>> /\ q.out = <<>> /\ q.in = <<>> /\ q.number = -1
          /\ q = [phase |-> "error", nodes |-> <<>>, out |-> <<>>, in |-> <<>>, number |-> -1]
      BY <3>1 DEF Stopped
    <3>3. q \in Machine
      BY <3>2 DEF Machine
    <3>4. MachineOK(at, s, q)
      BY <3>2 DEF MachineOK, Active
    <3>. QED
      BY <2>2, <3>2, <3>3, <3>4
  <2>4. CASE ~Clash(r, pkt)
    <3>1. q = [r EXCEPT !.nodes = Append([r.nodes EXCEPT ![1] = Adjusted(s, @, pkt)], pkt)]
      BY <1>3, <2>4 DEF ProcessSetupPacket
    <3>2. q \in Machine /\ q.phase = "arbitrate" /\ MachineOK(at, s, q)
      BY <2>1, <2>4, <3>1, Appended
    <3>. QED
      BY <2>2, <3>2
  <2>. QED
    BY <2>3, <2>4
<1>. QED
  BY <1>2, <1>3
-----------------------------------------------------------------------------
(***************************************************************************)
(* The steps.                                                              *)
(***************************************************************************)
\* A step of one machine.
LEMMA OneStep ==
  ASSUME Good(station), NEW s \in Station, NEW q \in Machine,
         MachineOK(station, s, q), NumberOK(q), Complete(station[s]) => Complete(q),
         NEW next, next = [station EXCEPT ![s] = q],
         q.phase \in {"flush", "game"} => \A t \in Station : Complete(next[t])
  PROVE  Good(next)
<1>1. station \in [Station -> Machine] /\ LeavesComplete(station)
  BY DEF Good
<1>2. next \in [Station -> Machine] /\ \A t \in Station : next[t] = IF t = s THEN q ELSE station[t]
  BY <1>1
<1>3. \A t \in Station : Complete(station[t]) => Complete(next[t])
  BY <1>2
<1>4. ASSUME NEW t \in Station PROVE MachineOK(next, t, next[t]) /\ NumberOK(next[t])
  <2>1. MachineOK(station, t, next[t]) /\ next[t] \in Machine /\ NumberOK(next[t])
    BY <1>2 DEF Good
  <2>. QED
    BY <1>3, <2>1, StaysOK
<1>5. LeavesComplete(next)
  <2>. SUFFICES ASSUME NEW t \in Station, next[t].phase \in {"flush", "game"}
                PROVE  \A u \in Station : Complete(next[u])
    BY DEF LeavesComplete
  <2>1. CASE t = s
    BY <1>2, <2>1
  <2>2. CASE t # s
    <3>1. station[t].phase \in {"flush", "game"}
      BY <1>2, <2>2
    <3>. QED
      BY <1>1, <1>3, <3>1 DEF LeavesComplete
  <2>. QED
    BY <2>1, <2>2
<1>. QED
  BY <1>2, <1>4, <1>5 DEF Good

LEMMA StoppedIs ==
  /\ Stopped \in Machine /\ Stopped.phase = "off" /\ Stopped.nodes = <<>>
  /\ Stopped.out = <<>> /\ Stopped.in = <<>> /\ Stopped.number = -1
BY DEF Stopped, Machine

LEMMA StoppedOK ==
  ASSUME NEW at, NEW s
  PROVE  MachineOK(at, s, Stopped) /\ NumberOK(Stopped)
<1>1. DOMAIN Stopped.out = {} /\ DOMAIN Stopped.in = {} /\ ~Active(Stopped)
  BY StoppedIs DEF Active
<1>2. NumberOK(Stopped)
  BY StoppedIs DEF NumberOK
<1>. QED
  BY <1>1, <1>2 DEF MachineOK

LEMMA ToldOK ==
  ASSUME setup \in Setups, NEW s \in Station
  PROVE  /\ Told(s) \in Entry /\ Told(s).id = s /\ Told(s).wanted = flags[s].nodes /\ Told(s).found = 1
         /\ Told(s).dup = flags[s].dup /\ Told(s).player = Asked(s) /\ DupOK(Told(s).dup, s)
<1>1. /\ Told(s).id = s /\ Told(s).wanted = flags[s].nodes /\ Told(s).found = 1
      /\ Told(s).dup = flags[s].dup /\ Told(s).player = Asked(s)
  BY DEF Told, Asked
<1>2. flags[s].nodes \in Nat /\ flags[s].dup \in Nat /\ Asked(s) \in Int
  BY SetupFacts, AskedFacts
<1>3. Told(s) \in Entry
  BY <1>1, <1>2 DEF Told, Entry
<1>4. flags[s].dup \in Numbers /\ flags[s].dup >= flags[s].dup
  BY <1>2 DEF Numbers
<1>. QED
  BY <1>1, <1>3, <1>4 DEF DupOK

LEMMA BeginLookForNodesKeeps ==
  ASSUME setup \in Setups, Good(station), NEW s \in Station, BeginLookForNodes(s)
  PROVE  Good(station')
<1> DEFINE q == Begun(s)
<1>1. station[s].phase = "off" /\ station' = [station EXCEPT ![s] = q]
  BY DEF BeginLookForNodes
<1>2. /\ q.phase = "arbitrate" /\ q.nodes = <<Told(s)>> /\ q.out = <<>> /\ q.in = <<>>
      /\ DOMAIN q.nodes = {1} /\ q.nodes[1] = Told(s) /\ Len(q.nodes) = 1
  BY DEF Begun, Stopped
<1>3. q \in Machine
  <2>1. Told(s) \in Entry
    BY ToldOK
  <2>2. <<Told(s)>> \in Seq(Entry)
    BY <2>1
  <2>. QED
    BY <2>2, StoppedIs DEF Begun, Machine
<1> HIDE DEF q
<1>4. TableOK(s, q)
  <2>1. flags[s].nodes \in Nat /\ flags[s].nodes <= Cardinality(Station)
    BY SetupFacts
  <2>. QED
    BY <1>2, <2>1, ToldOK DEF TableOK
<1>5. MachineOK(station, s, q)
  BY <1>2, <1>4 DEF MachineOK
<1>6. NumberOK(q) /\ ~Complete(station[s])
  BY <1>1, <1>2 DEF NumberOK, Complete, Active
<1>. QED
  BY <1>1, <1>2, <1>3, <1>5, <1>6, OneStep

LEMMA ListenKeeps ==
  ASSUME setup \in Setups, Good(station), NEW s \in Station, Listen(s)
  PROVE  Good(station')
<1> DEFINE now == station[s]  r == [now EXCEPT !.in = Tail(now.in)]
           pkt == Head(now.in)  q == ProcessSetupPacket(s, r, pkt)
<1>1. now.phase = "arbitrate" /\ now.in # <<>>
  BY DEF Listen
<1>2. station' = [station EXCEPT ![s] = q]
  BY DEF Listen
<1>3. now \in Machine /\ MachineOK(station, s, now)
  BY DEF Good
<1> HIDE DEF now
<1>4. /\ now.in \in Seq(Entry) /\ Len(now.in) \in Nat \ {0} /\ DOMAIN now.in = 1 .. Len(now.in)
      /\ pkt \in Entry /\ pkt = now.in[1]
      /\ Tail(now.in) \in Seq(Entry) /\ DOMAIN Tail(now.in) = 1 .. Len(now.in) - 1
      /\ \A i \in 1 .. Len(now.in) - 1 : Tail(now.in)[i] = now.in[i + 1]
  <2>1. now.in \in Seq(Entry)
    BY <1>3, MachineFacts
  <2>. QED
    BY <1>1, <2>1
<1> HIDE DEF pkt
<1>5. PacketOK(station, pkt) /\ pkt.id # s
  BY <1>3, <1>4 DEF MachineOK
<1>6. /\ r.phase = "arbitrate" /\ r.nodes = now.nodes /\ r.out = now.out /\ r.in = Tail(now.in)
      /\ r.number = now.number /\ r \in Machine
  BY <1>1, <1>3, <1>4 DEF Machine
<1> HIDE DEF r
<1>7. MachineOK(station, s, r)
  <2>1. TableOK(s, now) /\ \A i \in 2 .. Len(now.nodes) : PacketOK(station, now.nodes[i])
    BY <1>1, <1>3 DEF MachineOK, Active
  <2>2. TableOK(s, r)
    BY <1>6, <2>1 DEF TableOK
  <2>3. \A i \in DOMAIN r.in : i + 1 \in DOMAIN now.in /\ r.in[i] = now.in[i + 1]
    BY <1>4, <1>6
  <2>4. \A i \in DOMAIN r.in : PacketOK(station, r.in[i]) /\ r.in[i].id # s
    BY <1>3, <2>3 DEF MachineOK
  <2>. QED
    BY <1>3, <1>6, <2>1, <2>2, <2>4 DEF MachineOK
<1>8. /\ q \in Machine /\ q.phase \in {"arbitrate", "error"} /\ MachineOK(station, s, q)
      /\ Complete(r) => Complete(q)
  <2>1. /\ setup \in Setups /\ s \in Station /\ r \in Machine /\ r.phase = "arbitrate"
        /\ MachineOK(station, s, r) /\ pkt \in Entry /\ PacketOK(station, pkt) /\ pkt.id # s
    BY <1>4, <1>5, <1>6, <1>7
  <2>. QED
    BY ONLY <2>1, Processed
<1>9. Complete(now) => Complete(r)
  BY <1>1, <1>6 DEF Complete, Active, Ids
<1>10. NumberOK(q)
  BY <1>8 DEF NumberOK
<1> HIDE DEF q
<1>. QED
  BY <1>2, <1>8, <1>9, <1>10, OneStep DEF now
-----------------------------------------------------------------------------
(***************************************************************************)
(* Player numbers. When a machine knows all, what it assigns follows from  *)
(* the flags alone.                                                        *)
(***************************************************************************)
Loose == {t \in Station : Asked(t) = -1}
Free == (0 .. Cardinality(Station) - 1) \ {Asked(t) : t \in Station}
Lower(s) == {t \in Loose : t < s}

\* There is a number left for everybody who asks for none.
LEMMA EnoughFree ==
  ASSUME setup \in Setups
  PROVE  /\ IsFiniteSet(Free) /\ IsFiniteSet(Loose) /\ Cardinality(Free) \in Nat /\ Cardinality(Loose) \in Nat
         /\ Cardinality(Loose) <= Cardinality(Free)
<1> DEFINE n == Cardinality(Station)  Fixed == {t \in Station : Asked(t) # -1}
           Places == 0 .. n - 1  taken == {Asked(t) : t \in Fixed}
           f == [t \in Fixed |-> Asked(t)]
<1>1. IsFiniteSet(Station) /\ n \in Nat
  BY SetupFacts
<1>2. IsFiniteSet(Places) /\ Cardinality(Places) = n
  BY <1>1, FS_Interval
<1>3. /\ IsFiniteSet(Loose) /\ IsFiniteSet(Fixed) /\ Loose \cap Fixed = {} /\ Loose \cup Fixed = Station
      /\ Fixed = Station \ Loose /\ Station \cap Loose = Loose
  <2>1. Loose \in SUBSET Station /\ Fixed \in SUBSET Station
    BY DEF Loose
  <2>2. IsFiniteSet(Loose) /\ IsFiniteSet(Fixed)
    BY <1>1, <2>1, FS_Subset
  <2>. QED
    BY <2>2 DEF Loose
<1>4. Cardinality(Fixed) = n - Cardinality(Loose) /\ Cardinality(Loose) \in Nat
  <2>1. Cardinality(Station \ Loose) = n - Cardinality(Station \cap Loose)
    BY <1>1, FS_Difference
  <2>. QED
    BY <1>3, <2>1, FS_CardinalityType
<1>5. f \in Surjection(Fixed, taken)
  BY DEF Surjection
<1>6. IsFiniteSet(taken) /\ Cardinality(taken) <= Cardinality(Fixed)
  <2> HIDE DEF f, taken, Fixed
  <2>. QED
    BY <1>3, <1>5, FS_Surjection
<1>7. taken \in SUBSET Places
  BY AskedFacts
<1>8. Free = Places \ taken /\ Places \cap taken = taken
  <2>1. \A t \in Station : Asked(t) = -1 => Asked(t) \notin Places
    BY <1>1
  <2>2. Free = Places \ taken
    BY <2>1 DEF Free
  <2>. QED
    BY <1>7, <2>2
<1> HIDE DEF f, taken, Fixed, Places
<1>9. IsFiniteSet(Free) /\ Cardinality(Free) = Cardinality(Places) - Cardinality(taken)
  BY <1>2, <1>8, FS_Difference
<1>10. Cardinality(Free) \in Nat /\ Cardinality(taken) \in Nat /\ Cardinality(Fixed) \in Nat
  BY <1>3, <1>6, <1>9, FS_CardinalityType
<1>. QED
  BY <1>1, <1>2, <1>3, <1>4, <1>6, <1>9, <1>10

LEMMA LowerFacts ==
  ASSUME setup \in Setups, NEW s \in Station
  PROVE  /\ IsFiniteSet(Lower(s)) /\ Cardinality(Lower(s)) \in Nat
         /\ s \in Loose => Cardinality(Lower(s)) < Cardinality(Loose)
<1>1. IsFiniteSet(Loose) /\ Cardinality(Loose) \in Nat /\ Lower(s) \in SUBSET Loose /\ s \in Nat
  BY EnoughFree, SetupFacts DEF Lower
<1>2. /\ IsFiniteSet(Lower(s)) /\ Cardinality(Lower(s)) <= Cardinality(Loose)
      /\ Cardinality(Loose) = Cardinality(Lower(s)) => Loose = Lower(s)
  BY <1>1, FS_Subset
<1>3. s \notin Lower(s)
  BY <1>1 DEF Lower
<1>4. Cardinality(Lower(s)) \in Nat
  BY <1>2, FS_CardinalityType
<1>. QED
  BY <1>1, <1>2, <1>3, <1>4

\* Of two machines the lower one has less below it.
LEMMA LowerGrows ==
  ASSUME setup \in Setups, NEW s \in Loose, NEW t \in Loose, s < t
  PROVE  Cardinality(Lower(s)) # Cardinality(Lower(t))
<1>1. s \in Station /\ t \in Station /\ Loose \subseteq Station /\ Station \subseteq Nat
  BY SetupFacts DEF Loose
<1>2. Lower(s) \in SUBSET Lower(t) /\ s \in Lower(t) /\ s \notin Lower(s)
  <2>1. \A u \in Loose : u < s => u < t
    BY <1>1
  <2>2. ~(s < s)
    BY <1>1
  <2>. QED
    BY <2>1, <2>2 DEF Lower
<1>3. IsFiniteSet(Lower(t))
  BY <1>1, LowerFacts
<1>. QED
  BY <1>2, <1>3, FS_Subset

\* What AssignPlayerNumbers gives to a machine that knows all.
Numbered(s, p) ==
  IF Asked(s) # -1 THEN p = Asked(s) ELSE p \in Free /\ Rank(Free, p) = Cardinality(Lower(s))

LEMMA NumberIs ==
  ASSUME setup \in Setups, NEW s \in Station, NEW r \in Machine, TableOK(s, r), Ids(r) = Station
  PROVE  /\ Len(r.nodes) = Cardinality(Station)
         /\ AssignPlayerNumbers(r) \in 0 .. Cardinality(Station) - 1
         /\ Numbered(s, AssignPlayerNumbers(r))
<1> DEFINE own == r.nodes[1]  L == Len(r.nodes)
           free == (0 .. L - 1) \ {r.nodes[i].player : i \in DOMAIN r.nodes}
           lower == {i \in DOMAIN r.nodes : r.nodes[i].player = -1 /\ r.nodes[i].id < own.id}
<1>1. /\ r.nodes \in Seq(Entry) /\ L \in Nat /\ DOMAIN r.nodes = 1 .. L /\ 1 \in 1 .. L
      /\ \A i \in 1 .. L : r.nodes[i] \in Entry /\ r.nodes[i].player = Asked(r.nodes[i].id)
      /\ own.id = s /\ own.player = Asked(s)
      /\ \A i, j \in DOMAIN r.nodes : r.nodes[i].id = r.nodes[j].id => i = j
  BY MachineFacts DEF TableOK
<1>2. L = Cardinality(Station)
  <2>1. Cardinality({r.nodes[i].id : i \in DOMAIN r.nodes}) = Cardinality(DOMAIN r.nodes)
    BY <1>1, OneByOne
  <2>2. Cardinality(DOMAIN r.nodes) = L
    BY <1>1, FS_Interval
  <2>. QED
    BY <2>1, <2>2 DEF Ids
<1>3. free = Free
  <2>1. \A p : p \in {r.nodes[i].player : i \in DOMAIN r.nodes} <=> p \in {Asked(t) : t \in Station}
    BY <1>1 DEF Ids
  <2>2. {r.nodes[i].player : i \in DOMAIN r.nodes} = {Asked(t) : t \in Station}
    BY <2>1
  <2>. QED
    BY <1>2, <2>2 DEF Free
<1>4. Cardinality(lower) = Cardinality(Lower(s))
  <2>1. Cardinality({r.nodes[i].id : i \in lower}) = Cardinality(lower)
    <3>1. lower \in SUBSET DOMAIN r.nodes
      OBVIOUS
    <3> HIDE DEF lower
    <3>. QED
      BY <1>1, <3>1, OneByOne
  <2>2. \A t : t \in {r.nodes[i].id : i \in lower} <=> t \in Lower(s)
    BY <1>1 DEF Lower, Loose, Ids
  <2>3. {r.nodes[i].id : i \in lower} = Lower(s)
    BY <2>2
  <2>. QED
    BY <2>1, <2>3
<1>5. AssignPlayerNumbers(r) = IF own.player # -1 THEN own.player
        ELSE CHOOSE p \in free : Cardinality({q \in free : q < p}) = Cardinality(lower)
  BY DEF AssignPlayerNumbers
<1>6. CASE Asked(s) # -1
  BY <1>1, <1>2, <1>5, <1>6, AskedFacts DEF Numbered
<1>7. CASE Asked(s) = -1
  <2> HIDE DEF free, lower
  <2>1. AssignPlayerNumbers(r) = CHOOSE p \in Free : Rank(Free, p) = Cardinality(Lower(s))
    BY <1>1, <1>3, <1>4, <1>5, <1>7 DEF Rank
  <2>2. s \in Loose /\ Cardinality(Station) \in Nat
    BY <1>7, SetupFacts DEF Loose
  <2>3. Cardinality(Lower(s)) \in Nat /\ Cardinality(Lower(s)) < Cardinality(Free)
    <3>1. /\ Cardinality(Lower(s)) \in Nat /\ Cardinality(Loose) \in Nat /\ Cardinality(Free) \in Nat
          /\ Cardinality(Lower(s)) < Cardinality(Loose) /\ Cardinality(Loose) <= Cardinality(Free)
      BY <2>2, LowerFacts, EnoughFree
    <3>. QED
      BY <3>1
  <2>4. Free \in SUBSET (0 .. Cardinality(Station)) /\ Free \subseteq 0 .. Cardinality(Station) - 1
    BY <2>2 DEF Free
  <2>5. \E p \in Free : Rank(Free, p) = Cardinality(Lower(s))
    BY <2>2, <2>3, <2>4, RankExists
  <2>6. AssignPlayerNumbers(r) \in Free /\ Rank(Free, AssignPlayerNumbers(r)) = Cardinality(Lower(s))
    BY <2>1, <2>5
  <2>. QED
    BY <1>2, <1>7, <2>4, <2>6 DEF Numbered
<1>. QED
  BY <1>2, <1>6, <1>7
-----------------------------------------------------------------------------
(***************************************************************************)
(* The other steps.                                                        *)
(***************************************************************************)
\* What a machine says of itself is true, and it knows no less for it.
LEMMA Sent ==
  ASSUME setup \in Setups, NEW at, NEW s \in Station, at[s] \in Machine,
         at[s].phase = "arbitrate", MachineOK(at, s, at[s]), NEW last \in BOOLEAN,
         NEW q, q = SendSetupPacket(at[s], last)
  PROVE  q \in Machine /\ q.phase = "arbitrate" /\ MachineOK(at, s, q) /\ Ids(q) = Ids(at[s])
<1>0. PICK r : /\ r = at[s] /\ r \in Machine /\ r.phase = "arbitrate" /\ MachineOK(at, s, r)
               /\ q = SendSetupPacket(r, last)
  OBVIOUS
<1> DEFINE L == Len(r.nodes)  own == [r.nodes[1] EXCEPT !.found = L]
           nodes == [r.nodes EXCEPT ![1] = own]  packet == [pkt |-> own, last |-> last]
<1>1. TableOK(s, r) /\ \A i \in 2 .. L : PacketOK(at, r.nodes[i])
  BY <1>0 DEF MachineOK, Active
<1>2. /\ r.nodes \in Seq(Entry) /\ L \in Nat /\ DOMAIN r.nodes = 1 .. L /\ 1 \in 1 .. L
      /\ \A i \in 1 .. L : r.nodes[i] \in Entry
      /\ r.out \in Seq([pkt : Entry, last : BOOLEAN])
  <2>1. L \in Nat /\ L >= 1
    BY <1>0, <1>1, MachineFacts DEF TableOK
  <2>2. 1 \in 1 .. L
    BY <2>1
  <2>. QED
    BY <1>0, <2>1, <2>2, MachineFacts
<1>3. /\ own \in Entry /\ own.found = L /\ own.id = r.nodes[1].id /\ own.wanted = r.nodes[1].wanted
      /\ own.dup = r.nodes[1].dup /\ own.player = r.nodes[1].player
  BY <1>2 DEF Entry
<1> HIDE DEF own
<1>4. /\ nodes \in Seq(Entry) /\ Len(nodes) = L /\ DOMAIN nodes = 1 .. L
      /\ \A i \in 1 .. L : nodes[i] = IF i = 1 THEN own ELSE r.nodes[i]
  BY <1>2, <1>3, ExceptSeq
<1> HIDE DEF nodes
<1>5. packet \in [pkt : Entry, last : BOOLEAN] /\ packet.pkt = own
  BY <1>3
<1> HIDE DEF packet
<1>6. /\ Append(r.out, packet) \in Seq([pkt : Entry, last : BOOLEAN])
      /\ Len(Append(r.out, packet)) = Len(r.out) + 1 /\ Append(r.out, packet)[Len(r.out) + 1] = packet
      /\ \A i \in 1 .. Len(r.out) : Append(r.out, packet)[i] = r.out[i]
      /\ Len(r.out) \in Nat
  BY <1>2, <1>5, AppendProperties
<1>7. /\ q.nodes = nodes /\ q.out = Append(r.out, packet) /\ q.in = r.in /\ q.phase = r.phase
      /\ (q.nodes \in Seq(Entry) /\ q.out \in Seq([pkt : Entry, last : BOOLEAN]) => q \in Machine)
  BY <1>0 DEF SendSetupPacket, own, nodes, packet, Machine
<1>8. q \in Machine
  BY <1>4, <1>6, <1>7
<1>9. \A i \in 1 .. L : /\ nodes[i].id = r.nodes[i].id /\ nodes[i].player = r.nodes[i].player
  BY <1>3, <1>4
<1>10. Ids(q) = Ids(r)
  BY <1>2, <1>4, <1>7, <1>9 DEF Ids
<1>11. TableOK(s, q)
  <2>1. nodes[1] = own /\ L <= L
    BY <1>2, <1>4
  <2>2. q.nodes[1].found <= Len(q.nodes) /\ Len(q.nodes) >= 1 /\ q.nodes[1].id = s
        /\ q.nodes[1].wanted <= Cardinality(Station)
    BY <1>1, <1>3, <1>4, <1>7, <2>1 DEF TableOK
  <2>3. \A i, j \in DOMAIN q.nodes : q.nodes[i].id = q.nodes[j].id => i = j
    BY <1>1, <1>2, <1>4, <1>7, <1>9 DEF TableOK
  <2>4. \A i \in DOMAIN q.nodes :
       /\ q.nodes[1].wanted >= flags[q.nodes[i].id].nodes
       /\ q.nodes[i].player = Asked(q.nodes[i].id)
       /\ DupOK(q.nodes[1].dup, q.nodes[i].id)
       /\ i # 1 => q.nodes[1].player = -1 \/ q.nodes[i].player # q.nodes[1].player
    BY <1>1, <1>2, <1>3, <1>4, <1>7, <1>9, <2>1 DEF TableOK
  <2>. QED
    BY <2>2, <2>3, <2>4 DEF TableOK
<1>12. PacketOK(at, own) /\ own.id = s
  <2>1. /\ own.id = s /\ own.wanted >= flags[own.id].nodes /\ own.wanted <= Cardinality(Station)
        /\ own.player = Asked(own.id) /\ DupOK(own.dup, own.id)
    BY <1>1, <1>2, <1>3 DEF TableOK
  <2>2. ASSUME own.found = own.wanted PROVE Complete(at[s])
    <3>1. q.nodes[1].found = q.nodes[1].wanted
      BY <1>2, <1>4, <1>7, <2>2
    <3>2. Ids(q) = Station
      BY <1>8, <1>11, <3>1, ReadyIsComplete
    <3>. QED
      BY <1>0, <1>10, <3>2 DEF Complete, Active
  <2>. QED
    BY <2>1, <2>2 DEF PacketOK
<1>13. \A i \in 2 .. Len(q.nodes) : PacketOK(at, q.nodes[i])
  <2>1. \A i \in 2 .. L : i \in 1 .. L /\ i # 1
    BY <1>2
  <2>. QED
    BY <1>1, <1>4, <1>7, <2>1
<1>14. \A i \in DOMAIN q.out : PacketOK(at, q.out[i].pkt) /\ q.out[i].pkt.id = s
  <2>1. DOMAIN q.out = 1 .. Len(r.out) + 1 /\ DOMAIN r.out = 1 .. Len(r.out)
    BY <1>2, <1>6, <1>7
  <2>2. \A i \in DOMAIN q.out : i \in DOMAIN r.out \/ i = Len(r.out) + 1
    BY <1>6, <2>1
  <2>3. \A i \in DOMAIN r.out : PacketOK(at, r.out[i].pkt) /\ r.out[i].pkt.id = s
    BY <1>0 DEF MachineOK
  <2>. QED
    BY <1>5, <1>6, <1>7, <1>12, <2>1, <2>2, <2>3
<1>15. MachineOK(at, s, q)
  <2>1. \A i \in DOMAIN q.in : PacketOK(at, q.in[i]) /\ q.in[i].id # s
    BY <1>0, <1>7 DEF MachineOK
  <2>. QED
    BY <1>11, <1>13, <1>14, <2>1 DEF MachineOK
<1>. QED
  BY <1>0, <1>7, <1>8, <1>10, <1>15

LEMMA AnnounceKeeps ==
  ASSUME setup \in Setups, Good(station), NEW s \in Station, Announce(s)
  PROVE  Good(station')
<1> DEFINE r == station[s]  q == SendSetupPacket(r, FALSE)
<1>1. r.phase = "arbitrate" /\ station' = [station EXCEPT ![s] = q]
  BY DEF Announce
<1>2. r \in Machine /\ MachineOK(station, s, r)
  BY DEF Good
<1>3. q \in Machine /\ q.phase = "arbitrate" /\ MachineOK(station, s, q) /\ Ids(q) = Ids(r)
  <2>1. /\ setup \in Setups /\ s \in Station /\ station[s] \in Machine
        /\ station[s].phase = "arbitrate" /\ MachineOK(station, s, station[s])
    BY <1>1, <1>2
  <2>2. FALSE \in BOOLEAN /\ q = SendSetupPacket(station[s], FALSE)
    OBVIOUS
  <2> HIDE DEF q
  <2>. QED
    BY ONLY <2>1, <2>2, Sent
<1>4. NumberOK(q) /\ (Complete(station[s]) => Complete(q))
  BY <1>1, <1>3 DEF NumberOK, Complete, Active
<1> HIDE DEF q
<1>. QED
  BY <1>1, <1>3, <1>4, OneStep

\* All that a machine knows of have found as many as they want: then it knows of all, and
\* they of all.
LEMMA AllReady ==
  ASSUME setup \in Setups, Good(station), NEW s \in Station,
         station[s].phase = "arbitrate", AllNodesReady(station[s])
  PROVE  \A t \in Station : Complete(station[t])
<1> DEFINE r == station[s]
<1>1. r \in Machine /\ TableOK(s, r) /\ \A i \in 2 .. Len(r.nodes) : PacketOK(station, r.nodes[i])
  BY DEF Good, MachineOK, Active
<1>2. /\ Len(r.nodes) \in Nat /\ DOMAIN r.nodes = 1 .. Len(r.nodes) /\ 1 \in DOMAIN r.nodes
      /\ r.nodes[1].id = s
  BY <1>1, MachineFacts DEF TableOK
<1>3. Ids(r) = Station
  <2>1. r.nodes[1].found = r.nodes[1].wanted
    BY <1>2 DEF AllNodesReady
  <2> HIDE DEF r
  <2>. QED
    BY <1>1, <2>1, ReadyIsComplete
<1>4. Complete(r)
  BY <1>3 DEF Complete, Active
<1>5. ASSUME NEW t \in Station PROVE Complete(station[t])
  <2>1. PICK i \in DOMAIN r.nodes : r.nodes[i].id = t
    BY <1>3 DEF Ids
  <2>2. CASE i = 1
    BY <1>2, <1>4, <2>1, <2>2
  <2>3. CASE i # 1
    <3>1. i \in 2 .. Len(r.nodes)
      BY <1>2, <2>3
    <3>2. PacketOK(station, r.nodes[i]) /\ r.nodes[i].found = r.nodes[i].wanted
      BY <1>1, <3>1 DEF AllNodesReady
    <3>. QED
      BY <2>1, <3>2 DEF PacketOK
  <2>. QED
    BY <2>2, <2>3
<1>. QED
  BY <1>5

LEMMA LastAnnounceKeeps ==
  ASSUME setup \in Setups, Good(station), NEW s \in Station, LastAnnounce(s)
  PROVE  Good(station')
<1> DEFINE r == station[s]  p == SendSetupPacket(r, TRUE)  q == [p EXCEPT !.phase = "flush"]
<1>1. r.phase = "arbitrate" /\ AllNodesReady(r) /\ station' = [station EXCEPT ![s] = q]
  BY DEF LastAnnounce
<1>2. r \in Machine /\ MachineOK(station, s, r)
  BY DEF Good
<1>3. p \in Machine /\ p.phase = "arbitrate" /\ MachineOK(station, s, p) /\ Ids(p) = Ids(r)
  <2>1. /\ setup \in Setups /\ s \in Station /\ station[s] \in Machine
        /\ station[s].phase = "arbitrate" /\ MachineOK(station, s, station[s])
    BY <1>1, <1>2
  <2>2. TRUE \in BOOLEAN /\ p = SendSetupPacket(station[s], TRUE)
    OBVIOUS
  <2> HIDE DEF p
  <2>. QED
    BY ONLY <2>1, <2>2, Sent
<1> HIDE DEF p
<1>4. /\ q \in Machine /\ q.phase = "flush" /\ q.nodes = p.nodes /\ q.in = p.in /\ q.out = p.out
  BY <1>3 DEF Machine
<1> HIDE DEF q
<1>5. MachineOK(station, s, q)
  BY <1>3, <1>4 DEF MachineOK, TableOK, Active
<1>6. \A t \in Station : Complete(station[t])
  BY <1>1, AllReady
<1>7. Complete(q)
  <2>1. Ids(r) = Station
    BY <1>6 DEF Complete
  <2> HIDE DEF r
  <2>2. Ids(q) = Station
    BY <1>3, <1>4, <2>1 DEF Ids
  <2>. QED
    BY <1>4, <2>2 DEF Complete, Active
<1>8. station \in [Station -> Machine] /\ \A t \in Station : Complete(station'[t])
  BY <1>1, <1>6, <1>7 DEF Good
<1>9. NumberOK(q)
  BY <1>4 DEF NumberOK
<1>. QED
  BY <1>1, <1>4, <1>5, <1>7, <1>8, <1>9, OneStep

LEMMA LaunchDoomKeeps ==
  ASSUME setup \in Setups, Good(station), NEW s \in Station, LaunchDoom(s)
  PROVE  Good(station')
<1> DEFINE r == station[s]
           q == [r EXCEPT !.phase = "game", !.in = <<>>, !.number = AssignPlayerNumbers(r)]
<1>1. station \in [Station -> Machine] /\ r \in Machine /\ MachineOK(station, s, r) /\ LeavesComplete(station)
  BY DEF Good
<1>2. r.phase = "flush"
  BY DEF LaunchDoom
<1>3. station' = [station EXCEPT ![s] = q]
  <2>1. station' = [station EXCEPT ![s].phase = "game", ![s].in = <<>>,
                                  ![s].number = AssignPlayerNumbers(station[s])]
    BY DEF LaunchDoom
  <2>. QED
    BY <1>1, <2>1
<1>4. \A t \in Station : Complete(station[t])
  BY <1>1, <1>2 DEF LeavesComplete
<1>5. TableOK(s, r) /\ Ids(r) = Station
  BY <1>1, <1>4 DEF MachineOK, Complete
<1> HIDE DEF r
<1>6. AssignPlayerNumbers(r) \in Int
  <2>1. AssignPlayerNumbers(r) \in 0 .. Cardinality(Station) - 1
    BY <1>1, <1>5, NumberIs
  <2>. QED
    BY <2>1
<1>7. /\ q.phase = "game" /\ q.in = <<>> /\ q.number = AssignPlayerNumbers(r)
      /\ q.nodes = r.nodes /\ q.out = r.out
  BY <1>1 DEF Machine
<1>8. q \in Machine
  <2>1. <<>> \in Seq(Entry)
    OBVIOUS
  <2>. QED
    BY <1>1, <1>6, <2>1 DEF Machine
<1> HIDE DEF q
<1>9. MachineOK(station, s, q)
  <2>1. DOMAIN q.in = {}
    BY <1>7
  <2>2. TableOK(s, q)
    BY <1>5, <1>7 DEF TableOK
  <2>3. Active(r)
    BY <1>2 DEF Active
  <2>. QED
    BY <1>1, <1>7, <2>1, <2>2, <2>3 DEF MachineOK
<1>10. NumberOK(q)
  BY <1>7 DEF NumberOK, AssignPlayerNumbers
<1>11. Complete(q)
  BY <1>5, <1>7 DEF Complete, Active, Ids
<1>12. \A t \in Station : Complete(station'[t])
  BY <1>1, <1>3, <1>4, <1>11
<1>. QED
  BY <1>3, <1>8, <1>9, <1>10, <1>11, <1>12, OneStep
LEMMA TailFacts ==
  ASSUME NEW S, NEW q \in Seq(S), q # <<>>
  PROVE  /\ Len(q) \in Nat \ {0} /\ DOMAIN q = 1 .. Len(q) /\ 1 \in DOMAIN q
         /\ Head(q) = q[1] /\ Head(q) \in S
         /\ Tail(q) \in Seq(S) /\ DOMAIN Tail(q) = 1 .. Len(q) - 1
         /\ \A i \in DOMAIN Tail(q) : i + 1 \in DOMAIN q /\ Tail(q)[i] = q[i + 1]
<1>1. Len(q) \in Nat \ {0} /\ DOMAIN q = 1 .. Len(q)
  BY EmptySeq, LenProperties
<1>2. Tail(q) \in Seq(S) /\ Len(Tail(q)) = Len(q) - 1 /\ Head(q) \in S
  BY HeadTailProperties
<1>3. DOMAIN Tail(q) = 1 .. Len(q) - 1
  BY <1>2, LenProperties
<1>4. \A i \in 1 .. Len(q) - 1 : Tail(q)[i] = q[i + 1]
  BY <1>2, HeadTailProperties
<1>. QED
  BY <1>1, <1>2, <1>3, <1>4

\* AssignPlayerNumbers looks at the nodes only.
LEMMA SameNodesSameNumber ==
  ASSUME NEW r, NEW q, q.nodes = r.nodes
  PROVE  AssignPlayerNumbers(q) = AssignPlayerNumbers(r)
BY DEF AssignPlayerNumbers

LEMMA TransmitKeeps ==
  ASSUME setup \in Setups, Good(station), NEW s \in Station, NEW lost, Transmit(s, lost)
  PROVE  Good(station')
<1> DEFINE now == station[s]  pkt == Head(now.out).pkt
           hears == {d \in Station \ {s} : station[d].phase \in {"arbitrate", "flush"}}
<1>1. now.out # <<>>
  BY DEF Transmit
<1>2. station' = [d \in Station |->
          IF d = s THEN [now EXCEPT !.out = Tail(now.out)]
          ELSE IF d \in hears \ lost THEN [station[d] EXCEPT !.in = Append(station[d].in, pkt)]
          ELSE station[d]]
  BY DEF Transmit
<1>3. /\ station \in [Station -> Machine] /\ LeavesComplete(station)
      /\ \A d \in Station : station[d] \in Machine /\ MachineOK(station, d, station[d]) /\ NumberOK(station[d])
  BY DEF Good
<1>4. /\ now \in Machine /\ 1 \in DOMAIN now.out
      /\ Head(now.out) = now.out[1] /\ Head(now.out) \in [pkt : Entry, last : BOOLEAN]
      /\ Tail(now.out) \in Seq([pkt : Entry, last : BOOLEAN])
      /\ \A i \in DOMAIN Tail(now.out) : i + 1 \in DOMAIN now.out /\ Tail(now.out)[i] = now.out[i + 1]
  <2>1. now \in Machine
    BY <1>3
  <2>2. now.out \in Seq([pkt : Entry, last : BOOLEAN])
    BY <2>1, MachineFacts
  <2> HIDE DEF now
  <2>. QED
    BY <1>1, <2>1, <2>2, TailFacts
<1>5. pkt \in Entry /\ PacketOK(station, pkt) /\ pkt.id = s
  <2>1. pkt = now.out[1].pkt /\ 1 \in DOMAIN now.out
    BY <1>4
  <2>. QED
    BY <1>3, <1>4, <2>1 DEF MachineOK
<1>6. ASSUME NEW d \in Station
      PROVE  /\ station'[d] \in Machine /\ station'[d].phase = station[d].phase
             /\ station'[d].nodes = station[d].nodes /\ station'[d].number = station[d].number
             /\ \A i \in DOMAIN station'[d].in : PacketOK(station, station'[d].in[i]) /\ station'[d].in[i].id # d
             /\ \A i \in DOMAIN station'[d].out :
                  PacketOK(station, station'[d].out[i].pkt) /\ station'[d].out[i].pkt.id = d
  <2> DEFINE r == station[d]
  <2>0. r \in Machine /\ r.in \in Seq(Entry)
    BY <1>3, MachineFacts
  <2>1. /\ \A i \in DOMAIN r.in : PacketOK(station, r.in[i]) /\ r.in[i].id # d
        /\ \A i \in DOMAIN r.out : PacketOK(station, r.out[i].pkt) /\ r.out[i].pkt.id = d
    BY <1>3 DEF MachineOK
  <2>2. CASE d = s
    <3> DEFINE q == [now EXCEPT !.out = Tail(now.out)]
    <3>1. station'[d] = q /\ now = r
      BY <1>2, <2>2
    <3>2. /\ q \in Machine /\ q.phase = now.phase /\ q.nodes = now.nodes /\ q.number = now.number
          /\ q.in = now.in /\ q.out = Tail(now.out)
      <4> HIDE DEF now
      <4>. QED
        BY <1>4 DEF Machine
    <3>3. \A i \in DOMAIN q.out : i + 1 \in DOMAIN now.out /\ q.out[i] = now.out[i + 1]
      BY <1>4, <3>2
    <3> HIDE DEF q, now, r
    <3>. QED
      BY <2>1, <3>1, <3>2, <3>3 DEF r
  <2>3. CASE d # s /\ d \in hears \ lost
    <3> DEFINE q == [r EXCEPT !.in = Append(r.in, pkt)]
    <3>1. station'[d] = q
      BY <1>2, <2>3
    <3> HIDE DEF r, pkt
    <3>2. /\ Append(r.in, pkt) \in Seq(Entry) /\ DOMAIN Append(r.in, pkt) = 1 .. Len(r.in) + 1
          /\ DOMAIN r.in = 1 .. Len(r.in) /\ Len(r.in) \in Nat /\ Append(r.in, pkt)[Len(r.in) + 1] = pkt
          /\ \A i \in 1 .. Len(r.in) : Append(r.in, pkt)[i] = r.in[i]
      BY <1>5, <2>0, AppendProperties, LenProperties
    <3>3. /\ q \in Machine /\ q.phase = r.phase /\ q.nodes = r.nodes /\ q.number = r.number
          /\ q.in = Append(r.in, pkt) /\ q.out = r.out
      BY <2>0, <3>2 DEF Machine
    <3>4. \A i \in DOMAIN q.in : i \in DOMAIN r.in \/ i = Len(r.in) + 1
      BY <3>2, <3>3
    <3>5. \A i \in DOMAIN q.in : PacketOK(station, q.in[i]) /\ q.in[i].id # d
      BY <1>5, <2>1, <2>3, <3>2, <3>3, <3>4
    <3> HIDE DEF q
    <3>. QED
      BY <2>1, <3>1, <3>3, <3>5 DEF r
  <2>4. CASE d # s /\ ~(d \in hears \ lost)
    <3>1. station'[d] = station[d]
      BY <1>2, <2>4
    <3>. QED
      BY <2>0, <2>1, <3>1
  <2>. QED
    BY <2>2, <2>3, <2>4
<1> HIDE DEF now, pkt, hears
<1>7. \A d \in Station : Complete(station[d]) <=> Complete(station'[d])
  BY <1>6 DEF Complete, Active, Ids
<1>8. ASSUME NEW d \in Station PROVE MachineOK(station', d, station'[d]) /\ NumberOK(station'[d])
  <2>1. MachineOK(station, d, station[d]) /\ NumberOK(station[d])
    BY <1>3
  <2>2. MachineOK(station, d, station'[d])
    BY <1>6, <2>1 DEF MachineOK, TableOK, Active
  <2>3. NumberOK(station'[d])
    BY <1>6, <2>1, SameNodesSameNumber DEF NumberOK
  <2>. QED
    BY <1>6, <1>7, <2>2, <2>3, StaysOK
<1>9. LeavesComplete(station')
  BY <1>3, <1>6, <1>7 DEF LeavesComplete
<1>10. station' \in [Station -> Machine]
  BY <1>2, <1>6
<1>. QED
  BY <1>8, <1>9, <1>10 DEF Good

\* Before the drivers are started, and when the game begins, all are stopped.
LEMMA AllStopped ==
  ASSUME NEW at, at = [s \in Station |-> Stopped]
  PROVE  Good(at)
<1>1. at \in [Station -> Machine] /\ \A s \in Station : at[s] = Stopped
  BY StoppedIs
<1>2. LeavesComplete(at)
  BY <1>1, StoppedIs DEF LeavesComplete
<1>. QED
  BY <1>1, <1>2, StoppedOK DEF Good

\* The setup does not change.
LEMMA SameSetup ==
  ASSUME setup' = setup, Good(station')
  PROVE  Good(station)'
<1>1. Station' = Station /\ flags' = flags
  BY DEF Station, flags
<1>2. Entry' = Entry
  BY <1>1 DEF Entry
<1>3. Machine' = Machine
  BY <1>2 DEF Machine
<1>4. \A s : Asked(s)' = Asked(s)
  BY <1>1 DEF Asked
<1>5. Numbers' = Numbers
  BY <1>1 DEF Numbers
<1>6. \A d, s : DupOK(d, s)' <=> DupOK(d, s)
  BY <1>1, <1>5 DEF DupOK
<1>7. \A r : Complete(r)' <=> Complete(r)
  BY <1>1 DEF Complete, Active, Ids
<1>8. \A pkt \in Entry : PacketOK(station, pkt)' <=> PacketOK(station', pkt)
  BY <1>1, <1>4, <1>6, <1>7 DEF PacketOK
<1>9. \A s, r : TableOK(s, r)' <=> TableOK(s, r)
  BY <1>1, <1>4, <1>6 DEF TableOK
<1>10. station' \in [Station -> Machine]
  BY DEF Good
<1>11. ASSUME NEW s \in Station PROVE MachineOK(station, s, station[s])' /\ NumberOK(station[s])'
  <2>1. MachineOK(station', s, station'[s]) /\ NumberOK(station'[s])
    BY DEF Good
  <2>2. /\ \A i \in 2 .. Len(station'[s].nodes) : station'[s].nodes[i] \in Entry
        /\ \A i \in DOMAIN station'[s].in : station'[s].in[i] \in Entry
        /\ \A i \in DOMAIN station'[s].out : station'[s].out[i].pkt \in Entry
    <3>1. station'[s] \in Machine
      BY <1>10
    <3>. QED
      BY <3>1, EntriesOf
  <2>3. NumberOK(station[s])'
    BY <2>1 DEF NumberOK, AssignPlayerNumbers
  <2>. QED
    BY <1>8, <1>9, <2>1, <2>2, <2>3 DEF MachineOK, Active
<1>12. LeavesComplete(station)'
  <2>1. LeavesComplete(station')
    BY DEF Good
  <2>. QED
    BY <1>1, <1>7, <2>1 DEF LeavesComplete
<1>. QED
  BY <1>1, <1>3, <1>10, <1>11, <1>12 DEF Good
LEMMA StepKeeps ==
  ASSUME ArbInv, [StartNext]_startVars
  PROVE  ArbInv'
<1>1. setup \in Setups /\ Good(station)
  BY DEF ArbInv
<1>2. setup' = setup /\ Good(station')
  <2>1. ASSUME NEW s \in Station, BeginLookForNodes(s) PROVE setup' = setup /\ Good(station')
    BY <1>1, <2>1, BeginLookForNodesKeeps DEF BeginLookForNodes
  <2>2. ASSUME NEW s \in Station, Listen(s) PROVE setup' = setup /\ Good(station')
    BY <1>1, <2>2, ListenKeeps DEF Listen
  <2>3. ASSUME NEW s \in Station, Announce(s) PROVE setup' = setup /\ Good(station')
    BY <1>1, <2>3, AnnounceKeeps DEF Announce
  <2>4. ASSUME NEW s \in Station, LastAnnounce(s) PROVE setup' = setup /\ Good(station')
    BY <1>1, <2>4, LastAnnounceKeeps DEF LastAnnounce
  <2>5. ASSUME NEW s \in Station, LaunchDoom(s) PROVE setup' = setup /\ Good(station')
    BY <1>1, <2>5, LaunchDoomKeeps DEF LaunchDoom
  <2>6. ASSUME NEW s \in Station, TransmitAny(s) PROVE setup' = setup /\ Good(station')
    BY <1>1, <2>6, TransmitKeeps DEF TransmitAny, Transmit
  <2>7. ASSUME Begin PROVE setup' = setup /\ Good(station')
    BY <2>7, AllStopped DEF Begin
  <2>8. ASSUME Next /\ Continuing PROVE setup' = setup /\ Good(station')
    BY <1>1, <2>8 DEF Continuing, arbVars
  <2>9. ASSUME UNCHANGED startVars PROVE setup' = setup /\ Good(station')
    BY <1>1, <2>9 DEF startVars, arbVars
  <2>10. ASSUME ArbNext PROVE setup' = setup /\ Good(station')
    BY <2>1, <2>2, <2>3, <2>4, <2>5, <2>6, <2>10 DEF ArbNext
  <2>. QED
    BY <2>7, <2>8, <2>9, <2>10 DEF StartNext
<1>3. Good(station)'
  BY <1>2, SameSetup
<1>. QED
  BY <1>1, <1>2, <1>3 DEF ArbInv

LEMMA InitiallyGood == StartInit => ArbInv
<1> SUFFICES ASSUME StartInit PROVE ArbInv
  OBVIOUS
<1>1. setup \in Setups /\ station = [s \in Station |-> Stopped]
  BY DEF StartInit, ArbInit, Station, flags
<1>. QED
  BY <1>1, AllStopped DEF ArbInv

\* In every reachable state the machines know what is true of each other.
LEMMA ArbInvHolds == StartInit /\ [][StartNext]_startVars => []ArbInv
<1>1. ArbInv /\ [StartNext]_startVars => ArbInv'
  BY StepKeeps
<1>. QED
  BY <1>1, InitiallyGood, PTL

-----------------------------------------------------------------------------
(***************************************************************************)
(* What follows.                                                           *)
(***************************************************************************)
\* When a machine plays, all are complete and have their numbers.
LEMMA PlayingFacts ==
  ASSUME ArbInv, NEW s \in Playing
  PROVE  /\ setup \in Setups /\ s \in Station
         /\ \A t \in Station : /\ station[t] \in Machine /\ Complete(station[t])
                               /\ TableOK(t, station[t]) /\ Ids(station[t]) = Station
         /\ station[s].number = AssignPlayerNumbers(station[s])
<1>1. s \in Station /\ station[s].phase = "game" /\ setup \in Setups /\ Good(station)
  BY DEF Playing, ArbInv
<1>2. \A t \in Station : station[t] \in Machine /\ Complete(station[t])
  BY <1>1 DEF Good, LeavesComplete
<1>3. \A t \in Station : TableOK(t, station[t]) /\ Ids(station[t]) = Station
  BY <1>1, <1>2 DEF Good, MachineOK, Complete
<1>. QED
  BY <1>1, <1>2, <1>3 DEF Good, NumberOK

LEMMA AllFoundFollows == ArbInv => AllFoundAtLaunch
<1> SUFFICES ASSUME ArbInv, NEW s \in Playing, NEW t \in Station
             PROVE  /\ station[t].phase \in {"arbitrate", "flush", "game"}
                    /\ Len(station[t].nodes) = Cardinality(Station)
                    /\ {station[t].nodes[i].id : i \in DOMAIN station[t].nodes} = Station
  BY DEF AllFoundAtLaunch
<1>1. /\ setup \in Setups /\ station[t] \in Machine /\ Complete(station[t])
      /\ TableOK(t, station[t]) /\ Ids(station[t]) = Station
  BY PlayingFacts
<1>2. Len(station[t].nodes) = Cardinality(Station)
  BY <1>1, NumberIs
<1>. QED
  BY <1>1, <1>2 DEF Complete, Active, Ids

\* Some machine asks for as many as there are.
LEMMA SomebodyWantsAll ==
  ASSUME setup \in Setups, NEW s \in Station
  PROVE  \E m \in Station : flags[m].nodes >= Cardinality(Station)
<1>1. /\ IsFiniteSet(Station) /\ Cardinality(Station) \in Nat
      /\ \A m \in Station : flags[m].nodes \in Nat \ {0}
  BY SetupFacts
<1> DEFINE others == Station \ {s}
<1>2. IsFiniteSet(others) /\ Cardinality(others) = Cardinality(Station) - 1
  BY <1>1, FS_RemoveElement
<1>3. CASE others = {}
  <2>1. Cardinality(Station) = 1
    BY <1>1, <1>2, <1>3, FS_EmptySet
  <2>. QED
    BY <1>1, <2>1
<1>4. CASE others # {}
  <2>1. others \in (SUBSET DOMAIN setup.flags) \ {{}} /\ others # DOMAIN setup.flags
    BY <1>4 DEF Station, flags
  <2> HIDE DEF others
  <2>2. \E m \in others : setup.flags[m].nodes > Cardinality(others)
    BY <2>1, NodesAssumption
  <2>3. PICK m \in others : flags[m].nodes > Cardinality(others)
    BY <2>2 DEF flags
  <2>4. m \in Station
    BY DEF others
  <2>5. flags[m].nodes \in Nat /\ flags[m].nodes >= Cardinality(Station)
    BY <1>1, <1>2, <2>3, <2>4
  <2>. QED
    BY <2>4, <2>5
<1>. QED
  BY <1>3, <1>4

\* No two get one number.
LEMMA NumbersDiffer ==
  ASSUME ArbInv, NEW s \in Playing, NEW t \in Playing, station[s].number = station[t].number
  PROVE  s = t
<1> DEFINE p == station[s].number
<1>1. /\ setup \in Setups /\ s \in Station /\ t \in Station /\ s \in Nat /\ t \in Nat
      /\ TableOK(s, station[s]) /\ Ids(station[s]) = Station /\ station[s] \in Machine
      /\ Numbered(s, p) /\ Numbered(t, p)
  <2>1. /\ setup \in Setups /\ s \in Station /\ t \in Station
        /\ TableOK(s, station[s]) /\ Ids(station[s]) = Station /\ station[s] \in Machine
        /\ TableOK(t, station[t]) /\ Ids(station[t]) = Station /\ station[t] \in Machine
        /\ p = AssignPlayerNumbers(station[s]) /\ p = AssignPlayerNumbers(station[t])
    BY PlayingFacts
  <2>. QED
    BY <2>1, NumberIs, SetupFacts
<1> HIDE DEF p
<1>2. \A u \in Station : Asked(u) \notin Free
  BY DEF Free
<1>3. CASE Asked(s) # -1 /\ Asked(t) # -1
  <2>1. Asked(s) = Asked(t)
    BY <1>1, <1>3 DEF Numbered
  <2>2. PICK i \in DOMAIN station[s].nodes : station[s].nodes[i].id = t
    BY <1>1 DEF Ids
  <2>3. /\ station[s].nodes[1].id = s /\ 1 \in DOMAIN station[s].nodes
    BY <1>1, MachineFacts DEF TableOK
  <2>4. station[s].nodes[i].player = Asked(t) /\ station[s].nodes[1].player = Asked(s)
    BY <1>1, <2>2, <2>3 DEF TableOK
  <2>5. i # 1 => station[s].nodes[1].player = -1 \/ station[s].nodes[i].player # station[s].nodes[1].player
    BY <1>1 DEF TableOK
  <2>. QED
    BY <1>3, <2>1, <2>2, <2>3, <2>4, <2>5
<1>4. CASE Asked(s) # -1 /\ Asked(t) = -1
  BY <1>1, <1>2, <1>4 DEF Numbered
<1>5. CASE Asked(s) = -1 /\ Asked(t) # -1
  BY <1>1, <1>2, <1>5 DEF Numbered
<1>6. CASE Asked(s) = -1 /\ Asked(t) = -1
  <2>1. s \in Loose /\ t \in Loose
    BY <1>1, <1>6 DEF Loose
  <2>2. Cardinality(Lower(s)) = Cardinality(Lower(t))
    BY <1>1, <1>6 DEF Numbered
  <2>3. ~(s < t) /\ ~(t < s)
    BY <1>1, <2>1, <2>2, LowerGrows
  <2>. QED
    BY <1>1, <2>3
<1>. QED
  BY <1>3, <1>4, <1>5, <1>6

LEMMA GamesAgreeFollows == ArbInv => GamesAgree
<1> SUFFICES ASSUME ArbInv, NEW s \in Playing
             PROVE  /\ \A t \in Playing : station[s].number = station[t].number => s = t
                    /\ station[s].number \in 0 .. Cardinality(Station) - 1
                    /\ flags[s].player # -1 => station[s].number = flags[s].player - 1
                    /\ station[s].nodes[1].wanted = Cardinality(Station)
                    /\ Cardinality(Numbers) <= 2 => station[s].nodes[1].dup = Max(Numbers)
  BY DEF GamesAgree
<1> DEFINE r == station[s]  own == r.nodes[1]
<1>1. /\ setup \in Setups /\ s \in Station /\ r \in Machine /\ TableOK(s, r) /\ Ids(r) = Station
      /\ r.number = AssignPlayerNumbers(r)
  BY PlayingFacts
<1> HIDE DEF r
<1>2. \A t \in Playing : station[s].number = station[t].number => s = t
  BY NumbersDiffer
<1>3. r.number \in 0 .. Cardinality(Station) - 1 /\ Numbered(s, r.number)
  BY <1>1, NumberIs
<1>4. ASSUME flags[s].player # -1 PROVE r.number = flags[s].player - 1
  BY <1>1, <1>3, <1>4, AskedFacts DEF Numbered, Asked
<1>5. own \in Entry /\ 1 \in DOMAIN r.nodes
  BY <1>1, MachineFacts DEF TableOK
<1>6. own.wanted = Cardinality(Station)
  <2>1. PICK m \in Station : flags[m].nodes >= Cardinality(Station)
    BY <1>1, SomebodyWantsAll
  <2>2. PICK i \in DOMAIN r.nodes : r.nodes[i].id = m
    BY <1>1 DEF Ids
  <2>3. own.wanted >= flags[m].nodes /\ own.wanted <= Cardinality(Station)
    BY <1>1, <2>2 DEF TableOK
  <2>4. own.wanted \in Nat /\ flags[m].nodes \in Nat /\ Cardinality(Station) \in Nat
    BY <1>1, <1>5, EntryFacts, SetupFacts
  <2>. QED
    BY <2>1, <2>3, <2>4
<1>7. ASSUME Cardinality(Numbers) <= 2 PROVE own.dup = Max(Numbers)
  <2>1. \A t \in Station : DupOK(own.dup, t)
    BY <1>1 DEF TableOK, Ids
  <2>2. own.dup \in Numbers /\ \A t \in Station : own.dup >= flags[t].dup
    BY <1>1, <1>7, <2>1 DEF DupOK
  <2>3. Numbers \in SUBSET Int /\ own.dup \in Int /\ \A x \in Numbers : x \in Int
    BY <1>1, <2>2, NumbersFacts
  <2>4. \A x \in Numbers : x <= own.dup
    BY <2>2, <2>3 DEF Numbers
  <2> HIDE DEF own
  <2>. QED
    BY <2>2, <2>3, <2>4, MaxIs
<1>. QED
  BY <1>2, <1>3, <1>4, <1>6, <1>7 DEF r

\* When the driver of any machine launches the game, every machine has found all the
\* others, each once, and none has gone.
THEOREM AllFound == StartSpec => []AllFoundAtLaunch
BY ArbInvHolds, AllFoundFollows, PTL DEF StartSpec

\* The numbers that AssignPlayerNumbers gives are those asked for, and the others all
\* differ; adjusted to each other, all agree on how many they are and on -dup.
THEOREM PlayersAgree == StartSpec => []GamesAgree
BY ArbInvHolds, GamesAgreeFollows, PTL DEF StartSpec

=============================================================================
