---------------------------- MODULE MetanetProof ----------------------------
(***************************************************************************)
(* Proofs about Metanet, for any machines on any networks, any number of   *)
(* nodes and hops, and any packets lost or sent.                           *)
(***************************************************************************)
EXTENDS Metanet, FiniteSetTheorems, SequenceTheorems, WellFoundedInduction, NaturalsInduction, TLAPS

-----------------------------------------------------------------------------
(***************************************************************************)
(* Numbers, and functions defined by recursion over 0 .. n.                *)
(***************************************************************************)
LEMMA LeastNumber ==
  ASSUME NEW S \in SUBSET Nat, S # {}
  PROVE  \E x \in S : \A y \in S : x <= y
<1>1. PICK x \in S : \A y \in S : ~ (<<y, x>> \in OpToRel(<, Nat))
  BY NatLessThanWellFounded, WFMin
<1>2. \A y \in Nat : y < x => <<y, x>> \in OpToRel(<, Nat)
  BY DEF OpToRel
<1>3. \A y \in S : ~(y < x) /\ y \in Nat /\ x \in Nat
  BY <1>1, <1>2
<1>. QED
  BY <1>3

\* What holds for 0 and, with n - 1, for n, holds up to the end: S are those for which it
\* holds.
LEMMA UpTo ==
  ASSUME NEW last \in Nat, NEW S, 0 \in S, \A n \in 1 .. last : n - 1 \in S => n \in S
  PROVE  0 .. last \subseteq S
<1>. SUFFICES ASSUME (0 .. last) \ S # {} PROVE FALSE
  OBVIOUS
<1>1. (0 .. last) \ S \in SUBSET Nat
  OBVIOUS
<1>2. PICK x \in (0 .. last) \ S : \A y \in (0 .. last) \ S : x <= y
  BY <1>1, LeastNumber
<1>3. x # 0 /\ x \in 1 .. last
  OBVIOUS
<1>4. x - 1 \in 0 .. last /\ ~(x <= x - 1)
  BY <1>3
<1>5. x - 1 \in S
  BY <1>2, <1>4
<1>. QED
  BY <1>3, <1>5

-----------------------------------------------------------------------------
(***************************************************************************)
(* Paths.                                                                  *)
(***************************************************************************)
StopsTo(m, path, k, f) == f = [n \in 0 .. k |-> IF n = 0 THEN m ELSE At(f[n - 1], path[n])]

LEMMA StopsDef ==
  ASSUME NEW m, NEW path, Len(path) \in Nat
  PROVE  StopsTo(m, path, Len(path), Stops(m, path))
<1> DEFINE S == {k \in 0 .. Len(path) : \E f : StopsTo(m, path, k, f)}
<1>1. 0 \in S
  <2> DEFINE f == [n \in 0 .. 0 |-> m]
  <2>1. StopsTo(m, path, 0, f)
    BY DEF StopsTo
  <2>. QED
    BY <2>1
<1>2. ASSUME NEW k \in 1 .. Len(path), k - 1 \in S PROVE k \in S
  <2>1. PICK f : StopsTo(m, path, k - 1, f)
    BY <1>2
  <2> DEFINE g == [n \in 0 .. k |-> IF n = k THEN At(f[k - 1], path[k]) ELSE f[n]]
  <2>2. ASSUME NEW n \in 0 .. k PROVE g[n] = IF n = 0 THEN m ELSE At(g[n - 1], path[n])
    <3>1. CASE n = 0
      BY <2>1, <3>1 DEF StopsTo
    <3>2. CASE n \in 1 .. k - 1
      <4>1. n \in 0 .. k - 1 /\ n # k /\ n - 1 # k /\ n - 1 \in 0 .. k
        BY <3>2
      <4>2. f[n] = At(f[n - 1], path[n])
        BY <2>1, <3>2, <4>1 DEF StopsTo
      <4>. QED
        BY <3>2, <4>1, <4>2
    <3>3. CASE n = k
      <4>1. k - 1 # k /\ k - 1 \in 0 .. k /\ k # 0
        OBVIOUS
      <4>. QED
        BY <3>3, <4>1
    <3>. QED
      BY <3>1, <3>2, <3>3
  <2>3. StopsTo(m, path, k, g)
    BY <2>2 DEF StopsTo
  <2>. QED
    BY <2>3
<1>3. Len(path) \in S
  <2>1. Len(path) \in 0 .. Len(path)
    OBVIOUS
  <2>. HIDE DEF S
  <2>. QED
    BY <1>1, <1>2, <2>1, UpTo
<1>4. PICK f : StopsTo(m, path, Len(path), f)
  BY <1>3
<1>. QED
  BY <1>4 DEF Stops, StopsTo

LEMMA StopsFacts ==
  ASSUME NEW m, NEW path, Len(path) \in Nat
  PROVE  /\ DOMAIN Stops(m, path) = 0 .. Len(path) /\ Stops(m, path)[0] = m
         /\ \A n \in 1 .. Len(path) : Stops(m, path)[n] = At(Stops(m, path)[n - 1], path[n])
BY StopsDef DEF StopsTo

\* The stops are the only ones.
Leads(f, m, path, n) == f[0] = m /\ \A k \in 1 .. n : f[k] = At(f[k - 1], path[k])

LEMMA StopsUnique ==
  ASSUME NEW m, NEW path, NEW n \in Nat, NEW f, NEW g, Leads(f, m, path, n), Leads(g, m, path, n)
  PROVE  \A k \in 0 .. n : f[k] = g[k]
<1> DEFINE S == {k \in 0 .. n : f[k] = g[k]}
<1>1. 0 \in S
  BY DEF Leads
<1>2. \A k \in 1 .. n : k - 1 \in S => k \in S
  BY DEF Leads
<1>3. 0 .. n \subseteq S
  <2>. HIDE DEF S
  <2>. QED
    BY <1>1, <1>2, UpTo
<1>. QED
  BY <1>3

\* A hop is of a driver and a node; the machine at it is another one, and has just one hop back.
Hop == Nat \X Nat

LEMMA HopFacts ==
  ASSUME NEW m \in Machine
  PROVE  /\ Neighbor[m] \in Seq(Seq(Machine)) /\ Len(Neighbor[m]) \in Nat
         /\ Hops[m] = UNION {{<<d, n>> : n \in DOMAIN Neighbor[m][d]} : d \in DOMAIN Neighbor[m]}
         /\ \A h \in Hops[m] : /\ h \in Hop /\ h[1] \in 1 .. Len(Neighbor[m]) /\ h # NoHop
                              /\ At(m, h) \in Machine
<1>1. DOMAIN HopSeq[m] = DOMAIN Neighbor[m]
  BY DEF HopSeq
<1>2. \A d \in DOMAIN Neighbor[m] : ToSet(HopSeq[m][d]) = {<<d, n>> : n \in DOMAIN Neighbor[m][d]}
  BY DEF HopSeq, ToSet
<1>3. Hops[m] = UNION {{<<d, n>> : n \in DOMAIN Neighbor[m][d]} : d \in DOMAIN Neighbor[m]}
  BY <1>1, <1>2 DEF Hops
<1>4. Neighbor[m] \in Seq(Seq(Machine))
  BY NeighborAssumption
<1>5. ASSUME NEW h \in Hops[m]
      PROVE  h \in Hop /\ h[1] \in 1 .. Len(Neighbor[m]) /\ h # NoHop /\ At(m, h) \in Machine
  <2>0. PICK d \in DOMAIN Neighbor[m] : h \in {<<d, n>> : n \in DOMAIN Neighbor[m][d]}
    BY <1>3
  <2>1. PICK n \in DOMAIN Neighbor[m][d] : h = <<d, n>>
    BY <2>0
  <2>2. Neighbor[m][d] \in Seq(Machine) /\ d \in 1 .. Len(Neighbor[m]) /\ Len(Neighbor[m]) \in Nat
    BY <1>4, ElementOfSeq
  <2>3. Neighbor[m][d][n] \in Machine /\ n \in Nat
    BY <2>2, ElementOfSeq
  <2>. QED
    BY <2>1, <2>2, <2>3 DEF At, Hop, NoHop
<1>. QED
  BY <1>3, <1>4, <1>5

LEMMA BackFacts ==
  ASSUME NEW m \in Machine, NEW h \in Hops[m]
  PROVE  /\ Back[m][h] \in Hops[At(m, h)] /\ At(At(m, h), Back[m][h]) = m
         /\ Back[At(m, h)][Back[m][h]] = h
<1>1. Back[m][h] = CHOOSE g \in Hops[At(m, h)] : At(At(m, h), g) = m
  BY DEF Back
<1>2. \E g \in Hops[At(m, h)] : At(At(m, h), g) = m
  BY NeighborAssumption
<1>3. Back[m][h] \in Hops[At(m, h)] /\ At(At(m, h), Back[m][h]) = m
  BY <1>1, <1>2
<1> DEFINE k == At(m, h)
           g == Back[m][h]
<1>4. k \in Machine /\ g \in Hops[k] /\ At(k, g) = m
  BY <1>3, HopFacts
<1>5. Back[k][g] = CHOOSE f \in Hops[At(k, g)] : At(At(k, g), f) = k
  BY <1>4 DEF Back
<1>6. Back[k][g] \in Hops[m] /\ At(m, Back[k][g]) = k
  BY <1>4, <1>5
<1>7. Back[k][g] = h
  BY <1>6, NeighborAssumption
<1>. QED
  BY <1>3, <1>7

\* The hop by which the end of a path sees the stop before, and those by which it goes on:
\* a packet does not leave a machine by the driver it came by.
Arrived(m, path) == Back[Stops(m, path)[Len(path) - 1]][path[Len(path)]]
Onward(m, path) == {g \in Hops[Follow(m, path)] : g[1] # Arrived(m, path)[1]}

Route(m, path) ==
  \A n \in 1 .. Len(path) :
    /\ Stops(m, path)[n - 1] \in Machine /\ path[n] \in Hops[Stops(m, path)[n - 1]]
    /\ n > 1 => path[n][1] # Back[Stops(m, path)[n - 2]][path[n - 1]][1]

LEMMA RouteFacts ==
  ASSUME NEW m \in Machine, NEW path \in Seq(Hop), path # <<>>, Route(m, path)
  PROVE  /\ Len(path) \in Nat \ {0} /\ path[1] \in Hops[m]
         /\ \A n \in 0 .. Len(path) : Stops(m, path)[n] \in Machine
         /\ Follow(m, path) \in Machine
         /\ Arrived(m, path) \in Hops[Follow(m, path)]
         /\ At(Follow(m, path), Arrived(m, path)) = Stops(m, path)[Len(path) - 1]
<1> DEFINE at == Stops(m, path)
           n == Len(path)
<1>1. n \in Nat /\ n # 0 /\ n \in 1 .. n /\ 1 \in 1 .. n
  BY EmptySeq, LenProperties
<1>2. at[0] = m /\ \A k \in 1 .. n : at[k] = At(at[k - 1], path[k])
  BY <1>1, StopsFacts
<1>3. \A k \in 1 .. n : at[k - 1] \in Machine /\ path[k] \in Hops[at[k - 1]]
  BY DEF Route
<1>4. \A k \in 1 .. n : at[k] \in Machine
  BY <1>2, <1>3, HopFacts
<1>5. \A k \in 0 .. n : at[k] \in Machine
  BY <1>2, <1>4
<1>6. at[n - 1] \in Machine /\ path[n] \in Hops[at[n - 1]] /\ at[n] = At(at[n - 1], path[n])
  BY <1>1, <1>2, <1>3
<1>7. Back[at[n - 1]][path[n]] \in Hops[at[n]] /\ At(at[n], Back[at[n - 1]][path[n]]) = at[n - 1]
  BY <1>6, BackFacts
<1>8. path[1] \in Hops[at[1 - 1]] /\ 1 - 1 = 0
  BY <1>1, <1>3
<1>9. path[1] \in Hops[m]
  BY <1>2, <1>8
<1>. QED
  BY <1>1, <1>5, <1>6, <1>7, <1>9 DEF Follow, Arrived

LEMMA OneHop ==
  ASSUME NEW m \in Machine, NEW h \in Hops[m]
  PROVE  /\ <<h>> \in Seq(Hop) /\ Route(m, <<h>>) /\ Follow(m, <<h>>) = At(m, h)
         /\ Arrived(m, <<h>>) = Back[m][h]
<1>1. <<h>> \in Seq(Hop) /\ Len(<<h>>) = 1 /\ <<h>>[1] = h
  BY HopFacts
<1>2. Stops(m, <<h>>)[0] = m /\ Stops(m, <<h>>)[1] = At(Stops(m, <<h>>)[1 - 1], <<h>>[1])
  <2> DEFINE path == <<h>>
  <2>1. Len(path) = 1 /\ Len(path) \in Nat /\ 1 \in 1 .. Len(path)
    BY <1>1
  <2>. HIDE DEF path
  <2>2. Stops(m, path)[0] = m /\ Stops(m, path)[1] = At(Stops(m, path)[1 - 1], path[1])
    BY <2>1, StopsFacts
  <2>. QED
    BY <2>2 DEF path
<1>3. Stops(m, <<h>>)[1] = At(m, h)
  BY <1>1, <1>2
<1>4. Route(m, <<h>>)
  BY <1>1, <1>2 DEF Route
<1>. QED
  BY <1>1, <1>2, <1>3, <1>4 DEF Follow, Arrived

\* A route that goes on by one more hop, and one that is cut off before its last hop.
LEMMA RouteAppend ==
  ASSUME NEW m \in Machine, NEW path \in Seq(Hop), path # <<>>, NEW g \in Hop
  PROVE  /\ Route(m, Append(path, g)) <=> Route(m, path) /\ g \in Onward(m, path)
         /\ Route(m, path) => /\ Follow(m, Append(path, g)) = At(Follow(m, path), g)
                              /\ Arrived(m, Append(path, g)) = Back[Follow(m, path)][g]
         /\ Follow(m, Append(path, g)) = At(Follow(m, path), g)
<1> DEFINE n == Len(path)
           long == Append(path, g)
           at == Stops(m, path)
           far == Stops(m, long)
<1>1. /\ n \in Nat \ {0} /\ long \in Seq(Hop) /\ Len(long) = n + 1 /\ long[n + 1] = g
      /\ \A k \in 1 .. n : long[k] = path[k]
  BY EmptySeq, LenProperties, AppendProperties
<1>2. at[0] = m /\ \A k \in 1 .. n : at[k] = At(at[k - 1], path[k])
  BY <1>1, StopsFacts
<1>3. far[0] = m /\ \A k \in 1 .. n + 1 : far[k] = At(far[k - 1], long[k])
  <2>1. Len(long) \in Nat /\ Len(long) = n + 1
    BY <1>1
  <2>. HIDE DEF long
  <2>. QED
    BY <2>1, StopsFacts
<1>4. \A k \in 0 .. n : far[k] = at[k]
  <2>1. \A k \in 1 .. n : far[k] = At(far[k - 1], path[k])
    BY <1>1, <1>3
  <2>2. n \in Nat /\ Leads(far, m, path, n) /\ Leads(at, m, path, n)
    BY <1>1, <1>2, <1>3, <2>1 DEF Leads
  <2>. HIDE DEF n, at, far
  <2>. QED
    BY <2>2, StopsUnique
<1>5. far[n + 1] = At(at[n], g)
  <2>1. n + 1 \in 1 .. n + 1 /\ n + 1 - 1 = n /\ n \in 0 .. n
    BY <1>1
  <2>. QED
    BY <1>1, <1>3, <1>4, <2>1
<1>6. Follow(m, long) = At(Follow(m, path), g)
  BY <1>1, <1>5 DEF Follow
<1>7. Arrived(m, long) = Back[Follow(m, path)][g]
  <2>1. n + 1 - 1 = n /\ n \in 0 .. n
    BY <1>1
  <2>. QED
    BY <1>1, <1>4, <2>1 DEF Arrived, Follow
<1>8. ASSUME Route(m, long) PROVE Route(m, path) /\ g \in Onward(m, path)
  <2>1. ASSUME NEW k \in 1 .. n
        PROVE  /\ at[k - 1] \in Machine /\ path[k] \in Hops[at[k - 1]]
               /\ k > 1 => path[k][1] # Back[at[k - 2]][path[k - 1]][1]
    <3>1. k \in 1 .. n + 1 /\ k - 1 \in 0 .. n /\ (k > 1 => k - 2 \in 0 .. n /\ k - 1 \in 1 .. n)
      BY <1>1
    <3>. QED
      BY <1>1, <1>4, <1>8, <3>1 DEF Route
  <2>2. Route(m, path)
    BY <2>1 DEF Route
  <2>3. n + 1 \in 1 .. n + 1 /\ n + 1 > 1 /\ n + 1 - 1 = n /\ n + 1 - 2 = n - 1 /\ n \in 0 .. n /\ n - 1 \in 0 .. n
        /\ n \in 1 .. n
    BY <1>1
  <2>4. g \in Hops[far[n]] /\ g[1] # Back[far[n - 1]][long[n]][1]
    BY <1>1, <1>8, <2>3 DEF Route
  <2>5. g \in Onward(m, path)
    BY <1>1, <1>4, <2>3, <2>4 DEF Onward, Follow, Arrived
  <2>. QED
    BY <2>2, <2>5
<1>9. ASSUME Route(m, path), g \in Onward(m, path) PROVE Route(m, long)
  <2>1. ASSUME NEW k \in 1 .. n + 1
        PROVE  /\ far[k - 1] \in Machine /\ long[k] \in Hops[far[k - 1]]
               /\ k > 1 => long[k][1] # Back[far[k - 2]][long[k - 1]][1]
    <3>1. CASE k \in 1 .. n
      <4>1. k - 1 \in 0 .. n /\ (k > 1 => k - 2 \in 0 .. n /\ k - 1 \in 1 .. n)
        BY <1>1, <3>1
      <4>. QED
        BY <1>1, <1>4, <1>9, <3>1, <4>1 DEF Route
    <3>2. CASE k = n + 1
      <4>1. k - 1 = n /\ k - 2 = n - 1 /\ n \in 0 .. n /\ n - 1 \in 0 .. n /\ n \in 1 .. n
        BY <1>1, <3>2
      <4>2. at[n] \in Machine
        BY <1>1, <1>9, RouteFacts DEF Follow
      <4>. QED
        BY <1>1, <1>4, <1>9, <3>2, <4>1, <4>2 DEF Onward, Follow, Arrived
    <3>. QED
      BY <1>1, <3>1, <3>2
  <2>. QED
    BY <1>1, <2>1 DEF Route
<1>. QED
  BY <1>6, <1>7, <1>8, <1>9

\* A route from a neighbor of m that goes on by another driver of it is one from m.
LEMMA RoutePrepend ==
  ASSUME NEW m \in Machine, NEW g \in Hops[m], NEW path \in Seq(Hop), path # <<>>,
         Route(At(m, g), path), path[1][1] # Back[m][g][1]
  PROVE  /\ <<g>> \o path \in Seq(Hop) /\ Len(<<g>> \o path) = Len(path) + 1
         /\ Route(m, <<g>> \o path)
         /\ Follow(m, <<g>> \o path) = Follow(At(m, g), path)
         /\ Arrived(m, <<g>> \o path) = Arrived(At(m, g), path)
<1> DEFINE n == Len(path)
           long == <<g>> \o path
           k == At(m, g)
           at == Stops(k, path)
           far == Stops(m, long)
           f == [j \in 0 .. n |-> far[j + 1]]
<1>0. k \in Machine /\ g \in Hop
  BY HopFacts
<1>1. /\ n \in Nat \ {0} /\ long \in Seq(Hop) /\ Len(long) = n + 1 /\ long[1] = g
      /\ \A j \in 1 .. n : long[j + 1] = path[j]
  <2>1. <<g>> \in Seq(Hop) /\ Len(<<g>>) = 1 /\ <<g>>[1] = g
    BY <1>0
  <2>2. n \in Nat \ {0}
    BY EmptySeq
  <2>3. /\ long \in Seq(Hop) /\ Len(long) = 1 + n
        /\ \A i \in 1 .. 1 + n : long[i] = IF i <= 1 THEN <<g>>[i] ELSE path[i - 1]
    BY <2>1, <2>2, ConcatProperties
  <2>. HIDE DEF long, n
  <2>. QED
    BY <2>1, <2>2, <2>3
<1>2. Leads(at, k, path, n)
  BY <1>1, StopsFacts DEF Leads
<1>3. far[0] = m /\ \A j \in 1 .. n + 1 : far[j] = At(far[j - 1], long[j])
  <2>1. Len(long) \in Nat /\ Len(long) = n + 1
    BY <1>1
  <2>. HIDE DEF long
  <2>. QED
    BY <2>1, StopsFacts
<1>4. Leads(f, k, path, n)
  <2>1. f[0] = k
    <3>1. 1 \in 1 .. n + 1 /\ 0 \in 0 .. n /\ 0 + 1 = 1 /\ 1 - 1 = 0
      BY <1>1
    <3>2. far[1] = At(far[0], long[1])
      BY <1>3, <3>1
    <3>. QED
      BY <1>1, <1>3, <3>1, <3>2
  <2>2. ASSUME NEW j \in 1 .. n PROVE f[j] = At(f[j - 1], path[j])
    <3>1. j + 1 \in 1 .. n + 1 /\ j \in 0 .. n /\ j - 1 \in 0 .. n /\ j - 1 + 1 = j /\ j + 1 - 1 = j
      BY <1>1
    <3>2. far[j + 1] = At(far[j], long[j + 1])
      BY <1>3, <3>1
    <3>3. f[j] = far[j + 1] /\ f[j - 1] = far[j] /\ long[j + 1] = path[j]
      BY <1>1, <3>1
    <3>. QED
      BY <3>2, <3>3
  <2>. QED
    BY <2>1, <2>2 DEF Leads
<1>5. \A j \in 0 .. n : f[j] = at[j]
  <2>. HIDE DEF f, at, k, n
  <2>. QED
    BY <1>1, <1>2, <1>4, StopsUnique
<1>6. \A j \in 0 .. n : far[j + 1] = at[j]
  BY <1>5
<1>7. /\ n \in 0 .. n /\ n - 1 \in 0 .. n /\ n + 1 - 1 = n /\ n - 1 + 1 = n /\ n \in 1 .. n
  BY <1>1
<1>8. Follow(m, long) = Follow(k, path)
  BY <1>1, <1>6, <1>7 DEF Follow
<1>9. Arrived(m, long) = Arrived(k, path)
  <2>1. long[n + 1] = path[n] /\ far[n] = at[n - 1]
    BY <1>1, <1>6, <1>7
  <2>. QED
    BY <1>1, <1>7, <2>1 DEF Arrived
<1>10. ASSUME NEW j \in 1 .. n + 1
       PROVE  /\ far[j - 1] \in Machine /\ long[j] \in Hops[far[j - 1]]
              /\ j > 1 => long[j][1] # Back[far[j - 2]][long[j - 1]][1]
  <2>1. CASE j = 1
    BY <1>1, <1>3, <2>1
  <2>2. CASE j = 2
    <3>1. 1 \in 1 .. n /\ 0 \in 0 .. n /\ 0 + 1 = 1 /\ 1 + 1 = 2 /\ 2 - 1 = 1 /\ 2 - 2 = 0 /\ 1 - 1 = 0
      BY <1>1
    <3>2. long[2] = path[1] /\ far[1] = at[0]
      BY <1>1, <1>6, <3>1
    <3>3. at[0] = k /\ path[1] \in Hops[at[0]]
      BY <1>2, <3>1 DEF Route, Leads
    <3>. QED
      BY <1>0, <1>1, <1>3, <2>2, <3>1, <3>2, <3>3
  <2>3. CASE j > 2
    <3> DEFINE i == j - 1
    <3>1. /\ i \in 1 .. n /\ i > 1 /\ i - 1 \in 0 .. n /\ i - 2 \in 0 .. n /\ i - 1 \in 1 .. n
          /\ i + 1 = j /\ i - 1 + 1 = j - 1 /\ i - 2 + 1 = j - 2
      BY <1>1, <2>3
    <3>2. long[j] = path[i] /\ long[j - 1] = path[i - 1] /\ far[j - 1] = at[i - 1] /\ far[j - 2] = at[i - 2]
      BY <1>1, <1>6, <3>1
    <3>3. /\ at[i - 1] \in Machine /\ path[i] \in Hops[at[i - 1]]
          /\ path[i][1] # Back[at[i - 2]][path[i - 1]][1]
      BY <3>1 DEF Route
    <3>. QED
      BY <3>2, <3>3
  <2>. QED
    BY <1>1, <2>1, <2>2, <2>3
<1>11. Route(m, long)
  BY <1>1, <1>10 DEF Route
<1>. QED
  BY <1>1, <1>8, <1>9, <1>11

-----------------------------------------------------------------------------
(***************************************************************************)
(* The hops of a machine but those of a driver, each once.                 *)
(***************************************************************************)
HopsTo(m, d, last, f) ==
  f = [e \in 0 .. last |-> IF e = 0 THEN <<>> ELSE f[e - 1] \o IF e = d THEN <<>> ELSE HopSeq[m][e]]

LEMMA HopsUpToDef ==
  ASSUME NEW m \in Machine, NEW d
  PROVE  HopsTo(m, d, Len(Neighbor[m]), HopsUpTo(m, d))
<1> DEFINE last == Len(Neighbor[m])
           S == {k \in 0 .. last : \E f : HopsTo(m, d, k, f)}
<1>0. last \in Nat
  BY HopFacts
<1>1. 0 \in S
  <2> DEFINE f == [e \in 0 .. 0 |-> <<>>]
  <2>1. HopsTo(m, d, 0, f)
    BY DEF HopsTo
  <2>. QED
    BY <1>0, <2>1
<1>2. ASSUME NEW k \in 1 .. last, k - 1 \in S PROVE k \in S
  <2>1. PICK f : HopsTo(m, d, k - 1, f)
    BY <1>2
  <2> DEFINE g == [e \in 0 .. k |-> IF e = k THEN f[k - 1] \o IF k = d THEN <<>> ELSE HopSeq[m][k] ELSE f[e]]
  <2>2. ASSUME NEW e \in 0 .. k
        PROVE  g[e] = IF e = 0 THEN <<>> ELSE g[e - 1] \o IF e = d THEN <<>> ELSE HopSeq[m][e]
    <3>1. CASE e = 0
      BY <1>0, <2>1, <3>1 DEF HopsTo
    <3>2. CASE e \in 1 .. k - 1
      <4>1. e \in 0 .. k - 1 /\ e # 0 /\ e # k /\ e - 1 # k /\ e - 1 \in 0 .. k
        BY <1>0, <3>2
      <4>2. f[e] = f[e - 1] \o IF e = d THEN <<>> ELSE HopSeq[m][e]
        BY <2>1, <3>2, <4>1 DEF HopsTo
      <4>. QED
        BY <3>2, <4>1, <4>2
    <3>3. CASE e = k
      <4>1. k - 1 # k /\ k - 1 \in 0 .. k /\ k # 0
        BY <1>0
      <4>. QED
        BY <3>3, <4>1
    <3>. QED
      BY <1>0, <3>1, <3>2, <3>3
  <2>3. HopsTo(m, d, k, g)
    BY <2>2 DEF HopsTo
  <2>. QED
    BY <2>3
<1>3. last \in S
  <2>1. last \in 0 .. last
    BY <1>0
  <2>. HIDE DEF S
  <2>. QED
    BY <1>0, <1>1, <1>2, <2>1, UpTo
<1>4. PICK f : HopsTo(m, d, last, f)
  BY <1>3
<1>. QED
  BY <1>4 DEF HopsUpTo, HopsTo

\* s has each element of a set, once.
Lists(s, set) ==
  /\ s \in Seq(Hop) /\ \A i \in 1 .. Len(s) : s[i] \in set
  /\ \A h \in set : \E i \in 1 .. Len(s) : s[i] = h
  /\ \A i, j \in 1 .. Len(s) : s[i] = s[j] => i = j

LEMMA ListsBoth ==
  ASSUME NEW s, NEW t, NEW A, NEW B, Lists(s, A), Lists(t, B), A \cap B = {}
  PROVE  Lists(s \o t, A \cup B)
<1> DEFINE a == Len(s)
           b == Len(t)
           st == s \o t
<1>1. s \in Seq(Hop) /\ t \in Seq(Hop) /\ a \in Nat /\ b \in Nat
  BY DEF Lists
<1>2. st \in Seq(Hop) /\ Len(st) = a + b /\ \A i \in 1 .. a + b : st[i] = IF i <= a THEN s[i] ELSE t[i - a]
  BY <1>1, ConcatProperties
<1>0. ASSUME NEW i \in 1 .. b PROVE i + a \in 1 .. a + b /\ st[i + a] = t[i]
  <2> DEFINE j == i + a
  <2>1. j \in 1 .. a + b /\ ~(j <= a) /\ j - a = i
    BY <1>1
  <2>. HIDE DEF j, st, a, b
  <2>2. st[j] = t[j - a]
    BY <1>2, <2>1
  <2>. QED
    BY <2>1, <2>2 DEF j
<1>. HIDE DEF a, b, st
<1>3. \A i \in 1 .. a + b : IF i <= a THEN i \in 1 .. a ELSE i - a \in 1 .. b
  BY <1>1
<1>4. \A i \in 1 .. a + b : IF i <= a THEN st[i] \in A ELSE st[i] \in B
  BY <1>2, <1>3 DEF Lists, a, b
<1>5. ASSUME NEW h \in A \cup B PROVE \E i \in 1 .. a + b : st[i] = h
  <2>1. CASE h \in A
    <3>1. PICK i \in 1 .. a : s[i] = h
      BY <2>1 DEF Lists, a
    <3>2. i \in 1 .. a + b /\ i <= a
      BY <1>1
    <3>. QED
      BY <1>2, <3>1, <3>2
  <2>2. CASE h \in B
    <3>1. PICK i \in 1 .. b : t[i] = h
      BY <2>2 DEF Lists, b
    <3>2. i + a \in 1 .. a + b /\ st[i + a] = h
      BY <1>0, <3>1
    <3>. QED
      BY <3>2
  <2>. QED
    BY <2>1, <2>2
<1>6. ASSUME NEW i \in 1 .. a + b, NEW j \in 1 .. a + b, st[i] = st[j] PROVE i = j
  <2>1. CASE i <= a /\ j <= a
    BY <1>2, <1>3, <1>6, <2>1 DEF Lists, a
  <2>2. CASE ~(i <= a) /\ ~(j <= a)
    <3>1. i - a \in 1 .. b /\ j - a \in 1 .. b /\ t[i - a] = t[j - a]
      BY <1>2, <1>3, <1>6, <2>2
    <3>2. i - a = j - a
      BY <3>1 DEF Lists, b
    <3>. QED
      BY <1>1, <3>2
  <2>. QED
    BY <1>4, <1>6, <2>1, <2>2
<1>7. \A i \in 1 .. a + b : st[i] \in A \cup B
  BY <1>4
<1>. QED
  BY <1>2, <1>5, <1>6, <1>7 DEF Lists, st

\* The hops of driver e.
LEMMA HopSeqLists ==
  ASSUME NEW m \in Machine, NEW e \in 1 .. Len(Neighbor[m])
  PROVE  Lists(HopSeq[m][e], {h \in Hops[m] : h[1] = e})
<1> DEFINE s == HopSeq[m][e]
           n == Len(Neighbor[m][e])
<1>1. e \in DOMAIN Neighbor[m] /\ Neighbor[m][e] \in Seq(Machine)
  BY HopFacts, ElementOfSeq
<1>2. n \in Nat /\ DOMAIN Neighbor[m][e] = 1 .. n
  BY <1>1
<1>3. s = [i \in 1 .. n |-> <<e, i>>]
  BY <1>1, <1>2 DEF HopSeq
<1>4. e \in Nat
  BY HopFacts
<1>5. s \in Seq(Hop) /\ Len(s) = n
  BY <1>2, <1>3, <1>4 DEF Hop
<1>6. {h \in Hops[m] : h[1] = e} = {<<e, i>> : i \in 1 .. n}
  <2>1. {<<e, i>> : i \in 1 .. n} \subseteq Hops[m]
    BY <1>1, <1>2, HopFacts
  <2>2. ASSUME NEW h \in Hops[m], h[1] = e PROVE h \in {<<e, i>> : i \in 1 .. n}
    <3>1. PICK d \in DOMAIN Neighbor[m] : h \in {<<d, i>> : i \in DOMAIN Neighbor[m][d]}
      BY HopFacts
    <3>2. PICK i \in DOMAIN Neighbor[m][d] : h = <<d, i>>
      BY <3>1
    <3>3. d = e
      BY <2>2, <3>2
    <3>. QED
      BY <1>2, <3>2, <3>3
  <2>. QED
    BY <2>1, <2>2
<1>. QED
  BY <1>2, <1>3, <1>5, <1>6 DEF Lists

LEMMA HopsButLists ==
  ASSUME NEW m \in Machine, NEW d \in 0 .. Len(Neighbor[m])
  PROVE  Lists(HopsBut[m][d], {h \in Hops[m] : h[1] # d})
<1> DEFINE last == Len(Neighbor[m])
           f == HopsUpTo(m, d)
           First(e) == {h \in Hops[m] : h[1] <= e /\ h[1] # d}
           S == {e \in 0 .. last : Lists(f[e], First(e))}
<1>. HIDE DEF First, f
<1>0. last \in Nat /\ \A h \in Hops[m] : h \in Hop /\ h[1] \in 1 .. last
  BY HopFacts
<1>1. f[0] = <<>> /\ \A e \in 1 .. last : f[e] = f[e - 1] \o IF e = d THEN <<>> ELSE HopSeq[m][e]
  <2>1. HopsTo(m, d, last, f)
    BY HopsUpToDef DEF f
  <2>. HIDE DEF last
  <2>. QED
    BY <1>0, <2>1, SMTT(30) DEF HopsTo
<1>2. 0 \in S
  <2>1. First(0) = {}
    BY <1>0 DEF First
  <2>2. Lists(<<>>, {})
    BY DEF Lists
  <2>3. 0 \in 0 .. last
    BY <1>0
  <2>4. Lists(f[0], First(0))
    BY <1>1, <2>1, <2>2
  <2>. QED
    BY <2>3, <2>4
<1>3. ASSUME NEW e \in 1 .. last, e - 1 \in S PROVE e \in S
  <2>1. Lists(f[e - 1], First(e - 1)) /\ e \in 0 .. last
    BY <1>0, <1>3
  <2>2. CASE e = d
    <3>1. First(e) = First(e - 1)
      BY <1>0, <2>2 DEF First
    <3>2. f[e - 1] \in Seq(Hop)
      BY <2>1 DEF Lists
    <3>3. f[e] = f[e - 1]
      BY <1>1, <2>2, <3>2, ConcatEmptySeq
    <3>. QED
      BY <2>1, <3>1, <3>3
  <2>3. CASE e # d
    <3>1. First(e) = First(e - 1) \cup {h \in Hops[m] : h[1] = e}
      BY <1>0, <2>3 DEF First
    <3>2. First(e - 1) \cap {h \in Hops[m] : h[1] = e} = {}
      BY <1>0 DEF First
    <3>3. f[e] = f[e - 1] \o HopSeq[m][e]
      BY <1>1, <2>3
    <3>4. Lists(HopSeq[m][e], {h \in Hops[m] : h[1] = e})
      BY HopSeqLists
    <3>5. Lists(f[e], First(e))
      BY <2>1, <3>1, <3>2, <3>3, <3>4, ListsBoth
    <3>. QED
      BY <2>1, <3>5
  <2>. QED
    BY <2>2, <2>3
<1>4. last \in S
  <2>1. last \in 0 .. last
    BY <1>0
  <2>. HIDE DEF S
  <2>. QED
    BY <1>0, <1>2, <1>3, <2>1, UpTo
<1>5. First(last) = {h \in Hops[m] : h[1] # d}
  BY <1>0 DEF First
<1>6. HopsBut[m][d] = f[last]
  BY DEF HopsBut, f
<1>. QED
  BY <1>4, <1>5, <1>6

-----------------------------------------------------------------------------
(***************************************************************************)
(* Packets that are on their way: their source leads back to the origin,   *)
(* and a discover message says the truth of it.                            *)
(***************************************************************************)
Body == [launched : BOOLEAN, forwarder : BOOLEAN, station : Nat, neighbors : Seq(Hop)]
PacketT == [hop : Hop, type : {"discover", "data", "quit"}, src : Seq(Hop), dest : Seq(Hop),
            origin : Machine, body : Body]

\* What a discover message says of machine k, that its neighbors beyond hop g are to know.
SaysTrue(body, k, g) ==
  /\ body.station = Station[k] /\ body.forwarder = (k \in Forwarder)
  /\ body.neighbors = FirstOf(HopsBut[k][g[1]], MaxNodes)

OnItsWay(m, h, p) ==
  /\ p \in PacketT /\ Len(p.src) <= MaxHops
  /\ Route(m, <<h>> \o p.src) /\ Follow(m, <<h>> \o p.src) = p.origin
  /\ p.type = "discover" => SaysTrue(p.body, p.origin, Arrived(m, <<h>> \o p.src))
OnTheirWay(m, h) == {p \in PacketT : OnItsWay(m, h, p)}

BoxOK(box) ==
  /\ box = [m \in Machine |-> [h \in Hops[m] |-> box[m][h]]]
  /\ \A m \in Machine : \A h \in Hops[m] : box[m][h] \in Seq(OnTheirWay(m, h))

\* What m may send.
Sendable(m) == {p \in PacketT : p.hop \in Hops[m] /\ OnItsWay(At(m, p.hop), Back[m][p.hop], p)}

LEMMA SeqHop ==
  /\ <<>> \in Seq(Hop) /\ NoHop \in Hop /\ Broadcast \in Seq(Hop) /\ NoBody \in Body
  /\ \A h \in Hop, s \in Seq(Hop) :
       /\ <<h>> \o s \in Seq(Hop) /\ Len(<<h>> \o s) = Len(s) + 1 /\ <<h>> \o s # <<>>
       /\ (<<h>> \o s)[1] = h /\ \A i \in 1 .. Len(s) : (<<h>> \o s)[i + 1] = s[i]
       /\ \A g \in Hop : Append(<<h>> \o s, g) = <<h>> \o Append(s, g)
<1>1. NoHop \in Hop /\ <<8, 31>> \in Hop /\ MaxHops \in Nat
  BY BoundsAssumption DEF NoHop, Hop
<1>2. Broadcast \in Seq(Hop)
  BY <1>1 DEF Broadcast
<1>3. NoBody \in Body
  BY DEF NoBody, Body
<1>4. ASSUME NEW h \in Hop, NEW s \in Seq(Hop)
      PROVE  /\ <<h>> \o s \in Seq(Hop) /\ Len(<<h>> \o s) = Len(s) + 1 /\ <<h>> \o s # <<>>
             /\ (<<h>> \o s)[1] = h /\ \A i \in 1 .. Len(s) : (<<h>> \o s)[i + 1] = s[i]
             /\ \A g \in Hop : Append(<<h>> \o s, g) = <<h>> \o Append(s, g)
  <2>1. <<h>> \in Seq(Hop) /\ Len(<<h>>) = 1 /\ <<h>>[1] = h /\ Len(s) \in Nat
    OBVIOUS
  <2>2. /\ <<h>> \o s \in Seq(Hop) /\ Len(<<h>> \o s) = Len(s) + 1
        /\ \A i \in 1 .. Len(s) + 1 : (<<h>> \o s)[i] = IF i = 1 THEN h ELSE s[i - 1]
    BY <2>1
  <2>3. <<h>> \o s # <<>> /\ (<<h>> \o s)[1] = h
    BY <2>1, <2>2
  <2>4. \A i \in 1 .. Len(s) : (<<h>> \o s)[i + 1] = s[i]
    <3>1. \A i \in 1 .. Len(s) : i + 1 \in 1 .. Len(s) + 1 /\ i + 1 # 1 /\ i + 1 - 1 = i
      BY <2>1
    <3>. QED
      BY <2>2, <3>1
  <2>5. \A g \in Hop : Append(<<h>> \o s, g) = <<h>> \o Append(s, g)
    OBVIOUS
  <2>. QED
    BY <2>2, <2>3, <2>4, <2>5
<1>. QED
  BY <1>1, <1>2, <1>3, <1>4

LEMMA NetSendPacketOK ==
  ASSUME NEW box, BoxOK(box), NEW m \in Machine, NEW p \in Sendable(m)
  PROVE  BoxOK(NetSendPacket(box, m, p))
<1> DEFINE k == At(m, p.hop)
           g == Back[m][p.hop]
           new == [box EXCEPT ![k][g] = Append(@, p)]
<1>1. k \in Machine /\ g \in Hops[k] /\ p \in OnTheirWay(k, g)
  BY HopFacts, BackFacts DEF Sendable, OnTheirWay
<1>2. box[k][g] \in Seq(OnTheirWay(k, g))
  BY <1>1 DEF BoxOK
<1>3. Append(box[k][g], p) \in Seq(OnTheirWay(k, g))
  BY <1>1, <1>2
<1>4. BoxOK(new)
  <2>. HIDE DEF k, g
  <2>. QED
    BY <1>1, <1>3 DEF BoxOK
<1>. QED
  BY <1>4 DEF NetSendPacket

BoxTo(box, m, packets, last, f) ==
  f = [n \in 0 .. last |-> IF n = 0 THEN box ELSE NetSendPacket(f[n - 1], m, packets[n])]

LEMMA BoxAfterDef ==
  ASSUME NEW box, NEW m, NEW packets, Len(packets) \in Nat
  PROVE  BoxTo(box, m, packets, Len(packets), BoxAfter(box, m, packets))
<1> DEFINE last == Len(packets)
           S == {k \in 0 .. last : \E f : BoxTo(box, m, packets, k, f)}
<1>1. 0 \in S
  <2> DEFINE f == [n \in 0 .. 0 |-> box]
  <2>1. BoxTo(box, m, packets, 0, f)
    BY DEF BoxTo
  <2>. QED
    BY <2>1
<1>2. ASSUME NEW k \in 1 .. last, k - 1 \in S PROVE k \in S
  <2>1. PICK f : BoxTo(box, m, packets, k - 1, f)
    BY <1>2
  <2> DEFINE g == [n \in 0 .. k |-> IF n = k THEN NetSendPacket(f[k - 1], m, packets[k]) ELSE f[n]]
  <2>2. ASSUME NEW n \in 0 .. k PROVE g[n] = IF n = 0 THEN box ELSE NetSendPacket(g[n - 1], m, packets[n])
    <3>1. CASE n = 0
      BY <2>1, <3>1 DEF BoxTo
    <3>2. CASE n \in 1 .. k - 1
      <4>1. n \in 0 .. k - 1 /\ n # 0 /\ n # k /\ n - 1 # k /\ n - 1 \in 0 .. k
        BY <3>2
      <4>2. f[n] = NetSendPacket(f[n - 1], m, packets[n])
        BY <2>1, <3>2, <4>1 DEF BoxTo
      <4>. QED
        BY <3>2, <4>1, <4>2
    <3>3. CASE n = k
      <4>1. k - 1 # k /\ k - 1 \in 0 .. k /\ k # 0
        OBVIOUS
      <4>. QED
        BY <3>3, <4>1
    <3>. QED
      BY <3>1, <3>2, <3>3
  <2>3. BoxTo(box, m, packets, k, g)
    BY <2>2 DEF BoxTo
  <2>. QED
    BY <2>3
<1>3. last \in S
  <2>1. last \in 0 .. last
    OBVIOUS
  <2>. HIDE DEF S
  <2>. QED
    BY <1>1, <1>2, <2>1, UpTo
<1>4. PICK f : BoxTo(box, m, packets, last, f)
  BY <1>3
<1>. QED
  BY <1>4 DEF BoxAfter, BoxTo

LEMMA DeliveredOK ==
  ASSUME NEW box, BoxOK(box), NEW m \in Machine, NEW packets \in Seq(Sendable(m))
  PROVE  BoxOK(Delivered(box, m, packets))
<1> DEFINE last == Len(packets)
           f == BoxAfter(box, m, packets)
           S == {n \in 0 .. last : BoxOK(f[n])}
<1>0. last \in Nat
  OBVIOUS
<1>1. f[0] = box /\ \A n \in 1 .. last : f[n] = NetSendPacket(f[n - 1], m, packets[n])
  <2>1. BoxTo(box, m, packets, last, f)
    BY <1>0, BoxAfterDef
  <2>. HIDE DEF last, f
  <2>. QED
    BY <1>0, <2>1 DEF BoxTo
<1>. HIDE DEF f
<1>2. 0 \in S
  BY <1>0, <1>1
<1>3. ASSUME NEW n \in 1 .. last, n - 1 \in S PROVE n \in S
  <2>1. BoxOK(f[n - 1]) /\ packets[n] \in Sendable(m) /\ n \in 0 .. last
    BY <1>0, <1>3
  <2>2. BoxOK(NetSendPacket(f[n - 1], m, packets[n]))
    BY <2>1, NetSendPacketOK
  <2>. QED
    BY <1>1, <2>1, <2>2
<1>4. last \in S
  <2>1. last \in 0 .. last
    BY <1>0
  <2>. HIDE DEF S
  <2>. QED
    BY <1>0, <1>2, <1>3, <2>1, UpTo
<1>. QED
  BY <1>4 DEF Delivered, f

LEMMA FirstOfFacts ==
  ASSUME NEW X, NEW s \in Seq(X), NEW k \in Nat
  PROVE  /\ FirstOf(s, k) \in Seq(X) /\ Len(FirstOf(s, k)) = IF Len(s) < k THEN Len(s) ELSE k
         /\ \A i \in 1 .. Len(FirstOf(s, k)) : i \in 1 .. Len(s) /\ FirstOf(s, k)[i] = s[i]
<1> DEFINE n == IF Len(s) < k THEN Len(s) ELSE k
<1>1. n \in Nat /\ n <= Len(s) /\ Len(s) \in Nat
  OBVIOUS
<1>. HIDE DEF n
<1>2. SubSeq(s, 1, n) = [i \in 1 .. n |-> s[i]]
  BY <1>1
<1>3. \A i \in 1 .. n : i \in 1 .. Len(s)
  BY <1>1
<1>4. SubSeq(s, 1, n) \in Seq(X) /\ Len(SubSeq(s, 1, n)) = n
  BY <1>1, <1>2, <1>3
<1>. QED
  BY <1>2, <1>3, <1>4 DEF FirstOf, n

LEMMA SendDiscoverSendable ==
  ASSUME NEW m \in Machine, NEW node, node.hop \in Hops[m], node.addr \in Seq(Hop)
  PROVE  SendDiscover(m, node) \in Sendable(m)
<1> DEFINE p == SendDiscover(m, node)
           h == node.hop
           k == At(m, h)
           g == Back[m][h]
<1>1. h \in Hop /\ h[1] \in 1 .. Len(Neighbor[m]) /\ Len(Neighbor[m]) \in Nat /\ k \in Machine
  BY HopFacts
<1>2. g \in Hops[k] /\ At(k, g) = m /\ Back[k][g] = h
  BY BackFacts
<1>3. HopsBut[m][h[1]] \in Seq(Hop)
  <2>1. h[1] \in 0 .. Len(Neighbor[m])
    BY <1>1
  <2>. HIDE DEF h
  <2>2. Lists(HopsBut[m][h[1]], {f \in Hops[m] : f[1] # h[1]})
    BY <2>1, HopsButLists
  <2>. QED
    BY <2>2 DEF Lists
<1>4. /\ p.hop = h /\ p.type = "discover" /\ p.src = <<>> /\ p.dest = node.addr /\ p.origin = m
      /\ SaysTrue(p.body, m, h)
  BY DEF SendDiscover, Packet, SaysTrue
<1>5. p \in PacketT
  <2>1. FirstOf(HopsBut[m][h[1]], MaxNodes) \in Seq(Hop)
    BY <1>3, FirstOfFacts, BoundsAssumption
  <2>2. Station[m] \in Nat
    BY StationAssumption
  <2>. QED
    BY <1>1, <2>1, <2>2 DEF SendDiscover, Packet, PacketT, Body
<1>6. OnItsWay(k, g, p)
  <2>1. <<g>> \o <<>> = <<g>>
    BY <1>1, <1>2, OneHop, ConcatEmptySeq
  <2>2. Route(k, <<g>>) /\ Follow(k, <<g>>) = m /\ Arrived(k, <<g>>) = h
    BY <1>1, <1>2, OneHop
  <2>3. Len(<<>>) <= MaxHops
    BY BoundsAssumption
  <2>. HIDE DEF p, g, k, h
  <2>. QED
    BY <1>4, <1>5, <2>1, <2>2, <2>3 DEF OnItsWay
<1>. HIDE DEF p
<1>7. p \in Sendable(m)
  BY <1>4, <1>5, <1>6 DEF Sendable
<1>. QED
  BY <1>7 DEF p

\* What came by hop h may be sent on by any hop of another driver.
LEMMA SendableOn ==
  ASSUME NEW m \in Machine, NEW h \in Hops[m], NEW p \in OnTheirWay(m, h), Len(p.src) < MaxHops,
         NEW q \in PacketT, q.hop \in Hops[m], q.hop[1] # h[1], q.src = <<h>> \o p.src,
         q.origin = p.origin, q.type = "discover" => p.type = "discover" /\ q.body = p.body
  PROVE  q \in Sendable(m)
<1> DEFINE k == At(m, q.hop)
           g == Back[m][q.hop]
           path == <<h>> \o p.src
<1>1. p \in PacketT /\ OnItsWay(m, h, p) /\ p.src \in Seq(Hop)
  BY DEF OnTheirWay, PacketT
<1>2. h \in Hop /\ k \in Machine /\ g \in Hops[k] /\ At(k, g) = m /\ Back[k][g] = q.hop
  BY HopFacts, BackFacts
<1>3. path \in Seq(Hop) /\ path # <<>> /\ path[1] = h /\ Len(path) = Len(p.src) + 1
  BY <1>1, <1>2, SeqHop
<1>4. Route(m, path) /\ Follow(m, path) = p.origin
  BY <1>1 DEF OnItsWay
<1>. HIDE DEF k, g, path
<1>5. /\ Route(k, <<g>> \o path) /\ Follow(k, <<g>> \o path) = p.origin
      /\ Arrived(k, <<g>> \o path) = Arrived(m, path)
  BY <1>2, <1>3, <1>4, RoutePrepend
<1>6. Len(q.src) <= MaxHops
  <2>1. Len(p.src) \in Nat /\ MaxHops \in Nat
    BY <1>1, BoundsAssumption
  <2>. QED
    BY <1>3, <2>1 DEF path
<1>7. OnItsWay(k, g, q)
  BY <1>1, <1>5, <1>6 DEF OnItsWay, path
<1>. QED
  BY <1>7 DEF Sendable, k, g

\* The hops that a broadcast is sent by.
LEMMA ToHopsFacts ==
  ASSUME NEW m \in Machine, NEW d \in 0 .. Len(Neighbor[m]), NEW p \in PacketT
  PROVE  /\ Len(ToHops(HopsBut[m][d], p)) \in Nat
         /\ DOMAIN ToHops(HopsBut[m][d], p) = 1 .. Len(ToHops(HopsBut[m][d], p))
         /\ ToHops(HopsBut[m][d], p) \in
              Seq({[p EXCEPT !.hop = g] : g \in {f \in Hops[m] : f[1] # d}})
<1> DEFINE hops == HopsBut[m][d]
           X == {[p EXCEPT !.hop = g] : g \in {f \in Hops[m] : f[1] # d}}
<1>1. hops \in Seq(Hop) /\ \A i \in 1 .. Len(hops) : hops[i] \in {f \in Hops[m] : f[1] # d}
  BY HopsButLists DEF Lists
<1>. HIDE DEF hops
<1>2. \A i \in 1 .. Len(hops) : [p EXCEPT !.hop = hops[i]] \in X
  BY <1>1
<1>. HIDE DEF X
<1>3. [i \in 1 .. Len(hops) |-> [p EXCEPT !.hop = hops[i]]] \in Seq(X)
  BY <1>1, <1>2
<1>4. ToHops(hops, p) \in Seq(X)
  BY <1>1, <1>3 DEF ToHops
<1>. QED
  BY <1>4 DEF hops, X

LEMMA SendableFirst ==
  ASSUME NEW m \in Machine, NEW q \in PacketT, q.hop \in Hops[m], q.src = <<>>, q.origin = m,
         q.type # "discover"
  PROVE  q \in Sendable(m)
<1> DEFINE k == At(m, q.hop)
           g == Back[m][q.hop]
<1>1. k \in Machine /\ g \in Hops[k] /\ At(k, g) = m
  BY HopFacts, BackFacts
<1>2. <<g>> \o <<>> = <<g>> /\ Route(k, <<g>>) /\ Follow(k, <<g>>) = m
  BY <1>1, OneHop, ConcatEmptySeq
<1>3. Len(<<>>) <= MaxHops
  BY BoundsAssumption
<1>. HIDE DEF k, g
<1>4. OnItsWay(k, g, q)
  BY <1>2, <1>3 DEF OnItsWay
<1>. QED
  BY <1>4 DEF Sendable, k, g

LEMMA PacketTyped ==
  ASSUME NEW h \in Hop, NEW type \in {"data", "quit"}, NEW src \in Seq(Hop), NEW dest \in Seq(Hop),
         NEW origin \in Machine
  PROVE  Packet(h, type, src, dest, origin, NoBody) \in PacketT
BY SeqHop DEF Packet, PacketT

\* A broadcast of m's own.
LEMMA BroadcastSendable ==
  ASSUME NEW m \in Machine, NEW type \in {"data", "quit"}
  PROVE  ToHops(HopsBut[m][0], Packet(NoHop, type, <<>>, Broadcast, m, NoBody)) \in Seq(Sendable(m))
<1> DEFINE p == Packet(NoHop, type, <<>>, Broadcast, m, NoBody)
           X == {[p EXCEPT !.hop = g] : g \in {f \in Hops[m] : f[1] # 0}}
<1>1. p \in PacketT
  BY PacketTyped, SeqHop
<1>2. p.src = <<>> /\ p.origin = m /\ p.type # "discover"
  BY DEF Packet
<1>. HIDE DEF p
<1>3. 0 \in 0 .. Len(Neighbor[m]) /\ Hops[m] \subseteq Hop
  BY HopFacts
<1>4. ASSUME NEW q \in X PROVE q \in Sendable(m)
  <2>1. PICK g \in Hops[m] : q = [p EXCEPT !.hop = g]
    OBVIOUS
  <2>2. g \in Hop
    BY <1>3
  <2>3. q \in PacketT /\ q.hop = g /\ q.src = <<>> /\ q.origin = m /\ q.type # "discover"
    BY <1>1, <1>2, <2>1, <2>2 DEF PacketT
  <2>. QED
    BY <2>3, SendableFirst
<1>5. ToHops(HopsBut[m][0], p) \in Seq(X)
  BY <1>1, <1>3, ToHopsFacts
<1>. HIDE DEF X
<1>. QED
  BY <1>4, <1>5 DEF p

LEMMA GetAndForwardSendable ==
  ASSUME NEW m \in Machine, NEW h \in Hops[m], NEW p \in OnTheirWay(m, h)
  PROVE  GetAndForward(m, h, p) \in Seq(Sendable(m))
<1>1. p \in PacketT /\ OnItsWay(m, h, p) /\ p.src \in Seq(Hop) /\ p.dest \in Seq(Hop)
  BY DEF OnTheirWay, PacketT
<1>2. h \in Hop /\ h[1] \in 0 .. Len(Neighbor[m]) /\ Hops[m] \subseteq Hop
  BY HopFacts
<1>3. ~TooManyHops(p.src) => Len(p.src) < MaxHops
  <2>1. Len(p.src) \in Nat /\ MaxHops \in Nat /\ Len(p.src) <= MaxHops
    BY <1>1, BoundsAssumption DEF OnItsWay
  <2>. QED
    BY <2>1 DEF TooManyHops
<1>4. <<h>> \o p.src \in Seq(Hop)
  BY <1>1, <1>2, SeqHop
<1>5. ForwardBroadcast(m, h, p) \in Seq(Sendable(m))
  <2>. SUFFICES ASSUME ~TooManyHops(p.src)
                PROVE  SendBroadcast(m, h[1], <<h>> \o p.src, p.origin) \in Seq(Sendable(m))
    BY DEF ForwardBroadcast
  <2> DEFINE pk == Packet(NoHop, "data", <<h>> \o p.src, Broadcast, p.origin, NoBody)
             X == {[pk EXCEPT !.hop = g] : g \in {f \in Hops[m] : f[1] # h[1]}}
  <2>1. pk \in PacketT
    BY <1>1, <1>4, PacketTyped, SeqHop DEF PacketT
  <2>2. pk.src = <<h>> \o p.src /\ pk.origin = p.origin /\ pk.type = "data"
    BY DEF Packet
  <2>. HIDE DEF pk
  <2>3. ASSUME NEW q \in X PROVE q \in Sendable(m)
    <3>1. PICK g \in Hops[m] : g[1] # h[1] /\ q = [pk EXCEPT !.hop = g]
      OBVIOUS
    <3>2. /\ q \in PacketT /\ q.hop = g /\ q.src = <<h>> \o p.src /\ q.origin = p.origin
          /\ q.type # "discover"
      BY <1>2, <2>1, <2>2, <3>1 DEF PacketT
    <3>. QED
      BY <1>3, <3>1, <3>2, SendableOn
  <2>4. ToHops(HopsBut[m][h[1]], pk) \in Seq(X)
    BY <1>2, <2>1, ToHopsFacts
  <2>. HIDE DEF X
  <2>. QED
    BY <2>3, <2>4 DEF SendBroadcast, pk
<1>6. p.dest # <<>> => ForwardPacket(m, h, p) \in Seq(Sendable(m))
  <2> DEFINE next == Head(p.dest)
             q == [p EXCEPT !.hop = next, !.src = <<h>> \o @, !.dest = Tail(@)]
  <2>1. ASSUME p.dest # <<>>, ~TooManyHops(p.src), next \in Hops[m], next[1] # h[1]
        PROVE  q \in Sendable(m)
    <3>1. next \in Hop /\ Tail(p.dest) \in Seq(Hop)
      BY <1>1, <2>1, HeadTailProperties
    <3>. HIDE DEF next
    <3>2. /\ q \in PacketT /\ q.hop = next /\ q.src = <<h>> \o p.src /\ q.origin = p.origin
          /\ q.type = p.type /\ q.body = p.body
      BY <1>1, <1>4, <3>1 DEF PacketT
    <3>. HIDE DEF q
    <3>. QED
      BY <1>3, <2>1, <3>2, SendableOn
  <2>. QED
    BY <2>1 DEF ForwardPacket
<1>. QED
  BY <1>5, <1>6 DEF GetAndForward

-----------------------------------------------------------------------------
(***************************************************************************)
(* Node tables: the machine itself, and then entries, each at the end of a *)
(* route, with the truth about the machine there once it has been got.     *)
(***************************************************************************)
NodeT == [hop : Hop, addr : Seq(Hop), got : BOOLEAN, forwarder : BOOLEAN, quit : BOOLEAN,
          station : Nat, player : Nat]

\* The machine that an entry of m's table is for.
Who(m, node) == IF node.hop = NoHop THEN m ELSE Follow(m, Path(node))

IsTrueOf(node, k) == node.got /\ node.station = Station[k] /\ node.forwarder = (k \in Forwarder)

EntryOK(m, node) ==
  /\ node \in NodeT /\ node.hop \in Hops[m] /\ Len(node.addr) <= MaxHops
  /\ Route(m, Path(node))
  /\ node.got => IsTrueOf(node, Follow(m, Path(node)))

TableOK(m, tbl) ==
  /\ tbl \in Seq(NodeT) /\ Len(tbl) \in 1 .. MaxNodes
  /\ tbl[1].hop = NoHop /\ tbl[1].addr = <<>> /\ IsTrueOf(tbl[1], m)
  /\ \A i \in 2 .. Len(tbl) : EntryOK(m, tbl[i])
  /\ \A i, j \in 1 .. Len(tbl) : tbl[i].hop = tbl[j].hop /\ tbl[i].addr = tbl[j].addr => i = j

\* There is an entry for an address.
Has(tbl, hop, addr) == \E i \in 1 .. Len(tbl) : tbl[i].hop = hop /\ tbl[i].addr = addr
HasOrFull(tbl, hop, addr) == Has(tbl, hop, addr) \/ Len(tbl) >= MaxNodes

LEMMA EntryFacts ==
  ASSUME NEW m \in Machine, NEW node, EntryOK(m, node)
  PROVE  /\ node \in NodeT /\ node.hop \in Hops[m] /\ node.hop \in Hop /\ node.addr \in Seq(Hop)
         /\ Path(node) \in Seq(Hop) /\ Path(node) # <<>> /\ Route(m, Path(node))
         /\ Who(m, node) = Follow(m, Path(node)) /\ Who(m, node) \in Machine
         /\ node.got => IsTrueOf(node, Who(m, node))
<1>1. node \in NodeT /\ node.hop \in Hops[m] /\ node.hop \in Hop /\ node.addr \in Seq(Hop)
  BY DEF EntryOK, NodeT
<1>2. Path(node) \in Seq(Hop) /\ Path(node) # <<>>
  BY <1>1, SeqHop DEF Path
<1>3. Route(m, Path(node)) /\ node.hop # NoHop
  BY <1>1, HopFacts DEF EntryOK
<1>4. Follow(m, Path(node)) \in Machine
  BY <1>2, <1>3, RouteFacts
<1>5. Who(m, node) = Follow(m, Path(node))
  BY <1>3 DEF Who
<1>. QED
  BY <1>1, <1>2, <1>3, <1>4, <1>5 DEF EntryOK

LEMMA TableFacts ==
  ASSUME NEW m \in Machine, NEW tbl, TableOK(m, tbl)
  PROVE  /\ Len(tbl) \in Nat \ {0} /\ DOMAIN tbl = 1 .. Len(tbl) /\ MaxNodes \in Nat \ {0}
         /\ \A i \in 1 .. Len(tbl) : tbl[i] \in NodeT
         /\ \A i \in 1 .. Len(tbl) : i # 1 <=> i \in 2 .. Len(tbl)
         /\ \A i \in 1 .. Len(tbl) : tbl[i].hop # NoHop <=> i # 1
         /\ \A i \in 1 .. Len(tbl) : tbl[i].hop \in Hops[m] => i \in 2 .. Len(tbl) /\ EntryOK(m, tbl[i])
         /\ \A i \in 1 .. Len(tbl) : Who(m, tbl[i]) \in Machine /\ (tbl[i].got => IsTrueOf(tbl[i], Who(m, tbl[i])))
<1>1. Len(tbl) \in Nat \ {0} /\ DOMAIN tbl = 1 .. Len(tbl) /\ MaxNodes \in Nat \ {0}
  BY BoundsAssumption DEF TableOK
<1>2. \A i \in 1 .. Len(tbl) : tbl[i] \in NodeT
  BY <1>1, ElementOfSeq DEF TableOK
<1>3. \A i \in 1 .. Len(tbl) : i # 1 <=> i \in 2 .. Len(tbl)
  BY <1>1
<1>4. NoHop \notin Hops[m]
  BY HopFacts
<1>5. \A i \in 1 .. Len(tbl) : tbl[i].hop # NoHop <=> i # 1
  BY <1>3, <1>4 DEF TableOK, EntryOK
<1>6. \A i \in 1 .. Len(tbl) : tbl[i].hop \in Hops[m] => i \in 2 .. Len(tbl) /\ EntryOK(m, tbl[i])
  BY <1>3, <1>4, <1>5 DEF TableOK
<1>7. ASSUME NEW i \in 1 .. Len(tbl)
      PROVE  Who(m, tbl[i]) \in Machine /\ (tbl[i].got => IsTrueOf(tbl[i], Who(m, tbl[i])))
  <2>1. CASE i = 1
    BY <2>1 DEF TableOK, Who
  <2>2. CASE i # 1
    <3>1. EntryOK(m, tbl[i])
      BY <1>3, <2>2 DEF TableOK
    <3>. QED
      BY <3>1, EntryFacts
  <2>. QED
    BY <2>1, <2>2
<1>. QED
  BY <1>1, <1>2, <1>3, <1>5, <1>6, <1>7

\* What the ways of learning of nodes do: entries stay, and those that are new are not got yet.
Grows(tbl, t) ==
  /\ Len(tbl) <= Len(t) /\ \A i \in 1 .. Len(tbl) : i \in 1 .. Len(t) /\ t[i] = tbl[i]
  /\ \A i \in 1 .. Len(t) : i \notin 1 .. Len(tbl) => ~t[i].got

LEMMA GrowsFacts ==
  ASSUME NEW a, NEW b, NEW c, Len(a) \in Nat, Len(b) \in Nat, Len(c) \in Nat
  PROVE  /\ Grows(a, a)
         /\ Grows(a, b) /\ Grows(b, c) => Grows(a, c)
         /\ Grows(a, b) => \A h, addr : HasOrFull(a, h, addr) => HasOrFull(b, h, addr)
<1>1. Grows(a, a)
  BY DEF Grows
<1>2. ASSUME Grows(a, b), Grows(b, c) PROVE Grows(a, c)
  <2>1. \A i \in 1 .. Len(c) : i \notin 1 .. Len(a) => ~c[i].got
    <3>. SUFFICES ASSUME NEW i \in 1 .. Len(c), i \notin 1 .. Len(a) PROVE ~c[i].got
      OBVIOUS
    <3>1. CASE i \in 1 .. Len(b)
      <4>1. c[i] = b[i] /\ ~b[i].got
        BY <1>2, <3>1 DEF Grows
      <4>. QED
        BY <4>1
    <3>2. CASE i \notin 1 .. Len(b)
      BY <1>2, <3>2 DEF Grows
    <3>. QED
      BY <3>1, <3>2
  <2>. QED
    BY <1>2, <2>1 DEF Grows
<1>3. ASSUME Grows(a, b), NEW h, NEW addr, HasOrFull(a, h, addr) PROVE HasOrFull(b, h, addr)
  <2>1. Has(a, h, addr) => Has(b, h, addr)
    BY <1>3 DEF Grows, Has
  <2>2. MaxNodes \in Nat
    BY BoundsAssumption
  <2>3. Len(a) >= MaxNodes => Len(b) >= MaxNodes
    BY <1>3, <2>2 DEF Grows
  <2>. QED
    BY <1>3, <2>1, <2>3 DEF HasOrFull
<1>. QED
  BY <1>1, <1>2, <1>3

LEMMA NodeForAddrFacts ==
  ASSUME NEW m \in Machine, NEW tbl, TableOK(m, tbl), NEW h, NEW addr
  PROVE  /\ NodeForAddr(tbl, h, addr) = {i \in 1 .. Len(tbl) : tbl[i].hop = h /\ tbl[i].addr = addr}
         /\ NodeForAddr(tbl, h, addr) # {} <=> Has(tbl, h, addr)
<1>1. DOMAIN tbl = 1 .. Len(tbl)
  BY TableFacts
<1>. QED
  BY <1>1 DEF NodeForAddr, Has

LEMMA NodeOrAddNodeOK ==
  ASSUME NEW m \in Machine, NEW tbl, TableOK(m, tbl), NEW h \in Hops[m], NEW addr \in Seq(Hop),
         Len(addr) <= MaxHops, Route(m, <<h>> \o addr)
  PROVE  /\ TableOK(m, NodeOrAddNode(tbl, h, addr)) /\ Grows(tbl, NodeOrAddNode(tbl, h, addr))
         /\ HasOrFull(NodeOrAddNode(tbl, h, addr), h, addr)
         /\ HasOrFull(tbl, h, addr) => NodeOrAddNode(tbl, h, addr) = tbl
<1> DEFINE node == NewNode(h, addr)
           t == Append(tbl, node)
           n == Len(tbl)
<1>1. n \in Nat \ {0} /\ MaxNodes \in Nat \ {0} /\ n <= MaxNodes /\ tbl \in Seq(NodeT)
  BY TableFacts DEF TableOK
<1>2. h \in Hop /\ h # NoHop
  BY HopFacts
<1>3. CASE HasOrFull(tbl, h, addr)
  <2>1. NodeOrAddNode(tbl, h, addr) = tbl
    BY <1>3, NodeForAddrFacts DEF NodeOrAddNode, HasOrFull
  <2>2. Grows(tbl, tbl)
    BY <1>1, GrowsFacts
  <2>. QED
    BY <1>3, <2>1, <2>2
<1>4. CASE ~HasOrFull(tbl, h, addr)
  <2>1. NodeOrAddNode(tbl, h, addr) = t /\ n < MaxNodes /\ ~Has(tbl, h, addr)
    BY <1>1, <1>4, NodeForAddrFacts DEF NodeOrAddNode, HasOrFull
  <2>2. node \in NodeT /\ node.hop = h /\ node.addr = addr /\ ~node.got
    BY <1>2 DEF NodeT, NewNode
  <2>3. EntryOK(m, node)
    BY <2>2 DEF EntryOK, Path
  <2>. HIDE DEF node
  <2>4. /\ t \in Seq(NodeT) /\ Len(t) = n + 1 /\ t[n + 1] = node
        /\ \A i \in 1 .. n : i \in 1 .. n + 1 /\ t[i] = tbl[i]
        /\ \A i \in 1 .. n + 1 : i # n + 1 => i \in 1 .. n
    BY <1>1, <2>2, AppendProperties
  <2>. HIDE DEF t
  <2>5. 1 \in 1 .. n /\ n + 1 \in 1 .. n + 1 /\ n <= n + 1 /\ n + 1 \in 1 .. MaxNodes
    BY <1>1, <2>1
  <2>. HIDE DEF n
  <2>6. Grows(tbl, t)
    BY <2>2, <2>4, <2>5 DEF Grows, n
  <2>7. Has(t, h, addr)
    BY <2>2, <2>4, <2>5 DEF Has
  <2>8. ASSUME NEW i \in 2 .. n + 1 PROVE EntryOK(m, t[i])
    <3>1. CASE i = n + 1
      BY <2>3, <2>4, <3>1
    <3>2. CASE i # n + 1
      <4>1. i \in 2 .. n /\ i \in 1 .. n
        BY <1>1, <3>2 DEF n
      <4>. QED
        BY <2>4, <4>1 DEF TableOK, n
    <3>. QED
      BY <3>1, <3>2
  <2>9. ASSUME NEW i \in 1 .. n + 1, NEW j \in 1 .. n + 1, t[i].hop = t[j].hop, t[i].addr = t[j].addr
        PROVE  i = j
    <3>1. \A k \in 1 .. n : ~(t[k].hop = h /\ t[k].addr = addr)
      BY <2>1, <2>4 DEF Has, n
    <3>2. CASE i \in 1 .. n /\ j \in 1 .. n
      <4>1. tbl[i].hop = tbl[j].hop /\ tbl[i].addr = tbl[j].addr
        BY <2>4, <2>9, <3>2
      <4>. QED
        BY <3>2, <4>1 DEF TableOK, n
    <3>3. CASE i \notin 1 .. n
      <4>1. i = n + 1
        BY <2>4, <3>3
      <4>2. t[j].hop = h /\ t[j].addr = addr
        BY <2>2, <2>4, <2>9, <4>1
      <4>. QED
        BY <2>4, <3>1, <4>1, <4>2
    <3>4. CASE j \notin 1 .. n
      <4>1. j = n + 1
        BY <2>4, <3>4
      <4>2. t[i].hop = h /\ t[i].addr = addr
        BY <2>2, <2>4, <2>9, <4>1
      <4>. QED
        BY <2>4, <3>1, <4>1, <4>2
    <3>. QED
      BY <3>2, <3>3, <3>4
  <2>10. t[1].hop = NoHop /\ t[1].addr = <<>> /\ IsTrueOf(t[1], m)
    BY <2>4, <2>5 DEF TableOK
  <2>11. TableOK(m, t)
    BY <2>4, <2>5, <2>8, <2>9, <2>10 DEF TableOK
  <2>. QED
    BY <1>4, <2>1, <2>6, <2>7, <2>11 DEF HasOrFull
<1>. QED
  BY <1>3, <1>4

\* The neighbors in a discover message are those that its way may go on to, or as many as a
\* table has room for.
LEMMA NeighborsFacts ==
  ASSUME NEW m \in Machine, NEW h \in Hops[m], NEW p \in OnTheirWay(m, h), p.type = "discover"
  PROVE  /\ p.body.neighbors \in Seq(Hop) /\ Len(p.body.neighbors) \in Nat
         /\ \A k \in 1 .. Len(p.body.neighbors) : p.body.neighbors[k] \in Onward(m, <<h>> \o p.src)
         /\ \A k, l \in 1 .. Len(p.body.neighbors) : p.body.neighbors[k] = p.body.neighbors[l] => k = l
         /\ \/ \A g \in Onward(m, <<h>> \o p.src) :
                 \E k \in 1 .. Len(p.body.neighbors) : p.body.neighbors[k] = g
            \/ Len(p.body.neighbors) = MaxNodes
<1> DEFINE path == <<h>> \o p.src
           o == p.origin
           d == Arrived(m, path)[1]
           s == HopsBut[o][d]
           nb == p.body.neighbors
<1>1. p \in PacketT /\ OnItsWay(m, h, p) /\ p.src \in Seq(Hop) /\ o \in Machine
  BY DEF OnTheirWay, PacketT
<1>2. path \in Seq(Hop) /\ path # <<>> /\ Route(m, path) /\ Follow(m, path) = o
  BY <1>1, HopFacts, SeqHop DEF OnItsWay
<1>3. Arrived(m, path) \in Hops[o]
  BY <1>2, RouteFacts
<1>4. d \in 0 .. Len(Neighbor[o])
  BY <1>1, <1>3, HopFacts
<1>5. nb = FirstOf(s, MaxNodes)
  BY <1>1 DEF OnItsWay, SaysTrue
<1>6. Onward(m, path) = {g \in Hops[o] : g[1] # d}
  BY <1>2 DEF Onward
<1>. HIDE DEF path, o, d
<1>7. Lists(s, Onward(m, path))
  BY <1>1, <1>4, <1>6, HopsButLists
<1>. HIDE DEF s, nb
<1>8. s \in Seq(Hop) /\ Len(s) \in Nat /\ MaxNodes \in Nat
  BY <1>7, BoundsAssumption DEF Lists
<1>9. /\ nb \in Seq(Hop) /\ Len(nb) = IF Len(s) < MaxNodes THEN Len(s) ELSE MaxNodes
      /\ \A i \in 1 .. Len(nb) : i \in 1 .. Len(s) /\ nb[i] = s[i]
  BY <1>5, <1>8, FirstOfFacts
<1>10. Len(nb) \in Nat
  BY <1>8, <1>9
<1>11. \A k \in 1 .. Len(nb) : nb[k] \in Onward(m, path)
  BY <1>7, <1>9 DEF Lists
<1>12. \A k, l \in 1 .. Len(nb) : nb[k] = nb[l] => k = l
  BY <1>7, <1>9 DEF Lists
<1>13. ASSUME Len(nb) # MaxNodes, NEW g \in Onward(m, path) PROVE \E k \in 1 .. Len(nb) : nb[k] = g
  <2>1. Len(nb) = Len(s)
    BY <1>8, <1>9, <1>13
  <2>2. PICK k \in 1 .. Len(s) : s[k] = g
    BY <1>7 DEF Lists
  <2>. QED
    BY <1>9, <2>1, <2>2
<1>. QED
  BY <1>9, <1>10, <1>11, <1>12, <1>13 DEF path, nb

TableTo(tbl, h, p, last, f) ==
  f = [n \in 0 .. last |->
         IF n = 0 THEN tbl ELSE NodeOrAddNode(f[n - 1], h, Append(p.src, p.body.neighbors[n]))]

LEMMA WithNeighborsDef ==
  ASSUME NEW tbl, NEW h, NEW p, Len(p.body.neighbors) \in Nat
  PROVE  TableTo(tbl, h, p, Len(p.body.neighbors), WithNeighbors(tbl, h, p))
<1> DEFINE last == Len(p.body.neighbors)
           far(n) == Append(p.src, p.body.neighbors[n])
           S == {k \in 0 .. last : \E f : TableTo(tbl, h, p, k, f)}
<1>1. 0 \in S
  <2> DEFINE f == [n \in 0 .. 0 |-> tbl]
  <2>1. TableTo(tbl, h, p, 0, f)
    BY DEF TableTo
  <2>. QED
    BY <2>1
<1>2. ASSUME NEW k \in 1 .. last, k - 1 \in S PROVE k \in S
  <2>1. PICK f : TableTo(tbl, h, p, k - 1, f)
    BY <1>2
  <2> DEFINE g == [n \in 0 .. k |-> IF n = k THEN NodeOrAddNode(f[k - 1], h, far(k)) ELSE f[n]]
  <2>2. ASSUME NEW n \in 0 .. k PROVE g[n] = IF n = 0 THEN tbl ELSE NodeOrAddNode(g[n - 1], h, far(n))
    <3>1. CASE n = 0
      BY <2>1, <3>1 DEF TableTo
    <3>2. CASE n \in 1 .. k - 1
      <4>1. n \in 0 .. k - 1 /\ n # 0 /\ n # k /\ n - 1 # k /\ n - 1 \in 0 .. k
        BY <3>2
      <4>2. f[n] = NodeOrAddNode(f[n - 1], h, far(n))
        BY <2>1, <3>2, <4>1 DEF TableTo
      <4>. QED
        BY <3>2, <4>1, <4>2
    <3>3. CASE n = k
      <4>1. k - 1 # k /\ k - 1 \in 0 .. k /\ k # 0
        OBVIOUS
      <4>. QED
        BY <3>3, <4>1
    <3>. QED
      BY <3>1, <3>2, <3>3
  <2>3. TableTo(tbl, h, p, k, g)
    BY <2>2 DEF TableTo
  <2>. QED
    BY <2>3
<1>3. last \in S
  <2>1. last \in 0 .. last
    OBVIOUS
  <2>. HIDE DEF S
  <2>. QED
    BY <1>1, <1>2, <2>1, UpTo
<1>4. PICK f : TableTo(tbl, h, p, last, f)
  BY <1>3
<1>. QED
  BY <1>4 DEF WithNeighbors, TableTo

\* The table after the first neighbors.
LEMMA WithNeighborsOK ==
  ASSUME NEW m \in Machine, NEW tbl, TableOK(m, tbl), NEW h \in Hops[m],
         NEW p \in OnTheirWay(m, h), p.type = "discover", Len(p.src) < MaxHops,
         NEW n \in 0 .. Len(p.body.neighbors)
  PROVE  /\ TableOK(m, WithNeighbors(tbl, h, p)[n]) /\ Grows(tbl, WithNeighbors(tbl, h, p)[n])
         /\ \A k \in 1 .. n : HasOrFull(WithNeighbors(tbl, h, p)[n], h, Append(p.src, p.body.neighbors[k]))
         /\ (\A k \in 1 .. Len(p.body.neighbors) : HasOrFull(tbl, h, Append(p.src, p.body.neighbors[k])))
              => WithNeighbors(tbl, h, p)[n] = tbl
<1> DEFINE last == Len(p.body.neighbors)
           nb == p.body.neighbors
           far(k) == Append(p.src, nb[k])
           f == WithNeighbors(tbl, h, p)
           All(k) == \A l \in 1 .. k : HasOrFull(f[k], h, far(l))
           Same(k) == (\A l \in 1 .. last : HasOrFull(tbl, h, far(l))) => f[k] = tbl
           S == {k \in 0 .. last : TableOK(m, f[k]) /\ Grows(tbl, f[k]) /\ All(k) /\ Same(k)}
<1>0. last \in Nat /\ \A k \in 1 .. last : nb[k] \in Onward(m, <<h>> \o p.src)
  BY NeighborsFacts
<1>1. f[0] = tbl /\ \A k \in 1 .. last : f[k] = NodeOrAddNode(f[k - 1], h, far(k))
  <2>1. TableTo(tbl, h, p, last, f)
    BY <1>0, WithNeighborsDef
  <2>. HIDE DEF last, f
  <2>. QED
    BY <1>0, <2>1 DEF TableTo
<1>2. p.src \in Seq(Hop) /\ Len(p.src) \in Nat /\ MaxHops \in Nat /\ Route(m, <<h>> \o p.src) /\ h \in Hop
  BY HopFacts, BoundsAssumption DEF OnTheirWay, OnItsWay, PacketT
<1>3. ASSUME NEW k \in 1 .. last
      PROVE  far(k) \in Seq(Hop) /\ Len(far(k)) <= MaxHops /\ Route(m, <<h>> \o far(k))
  <2> DEFINE g == nb[k]
             path == <<h>> \o p.src
  <2>1. path \in Seq(Hop) /\ path # <<>> /\ g \in Onward(m, path)
    BY <1>0, <1>2, SeqHop
  <2>2. g \in Hop
    BY <1>2, <2>1, RouteFacts, HopFacts DEF Onward
  <2>3. Route(m, Append(path, g))
    BY <1>2, <2>1, <2>2, RouteAppend
  <2>. HIDE DEF g
  <2>4. Append(path, g) = <<h>> \o Append(p.src, g)
    BY <1>2, <2>2, SeqHop
  <2>5. Append(p.src, g) \in Seq(Hop) /\ Len(Append(p.src, g)) = Len(p.src) + 1
    BY <1>2, <2>2, AppendProperties
  <2>6. Len(Append(p.src, g)) <= MaxHops
    BY <1>2, <2>5
  <2>7. Route(m, <<h>> \o Append(p.src, g))
    BY <2>3, <2>4
  <2>. QED
    BY <2>5, <2>6, <2>7 DEF g
<1>. HIDE DEF f, nb, far
<1>4. Grows(tbl, tbl) /\ Len(tbl) \in Nat
  BY TableFacts, GrowsFacts
<1>5. 0 \in S
  BY <1>0, <1>1, <1>4
<1>6. ASSUME NEW k \in 1 .. last, k - 1 \in S PROVE k \in S
  <2> DEFINE a == f[k - 1]
             b == f[k]
  <2>1. TableOK(m, a) /\ Grows(tbl, a) /\ All(k - 1) /\ Same(k - 1) /\ k \in 0 .. last
    BY <1>0, <1>6
  <2>2. b = NodeOrAddNode(a, h, far(k))
    BY <1>1
  <2>. HIDE DEF a, b
  <2>3. TableOK(m, b) /\ Grows(a, b) /\ HasOrFull(b, h, far(k)) /\ (HasOrFull(a, h, far(k)) => b = a)
    BY <1>3, <2>1, <2>2, NodeOrAddNodeOK
  <2>4. Len(a) \in Nat /\ Len(b) \in Nat
    BY <2>1, <2>3, TableFacts
  <2>5. Grows(tbl, b)
    BY <1>4, <2>1, <2>3, <2>4, GrowsFacts
  <2>6. All(k)
    <3>. SUFFICES ASSUME NEW l \in 1 .. k PROVE HasOrFull(b, h, far(l))
      BY DEF b
    <3>1. CASE l = k
      BY <2>3, <3>1
    <3>2. CASE l # k
      <4>1. l \in 1 .. k - 1
        BY <3>2
      <4>2. HasOrFull(a, h, far(l))
        BY <2>1, <4>1 DEF a
      <4>. QED
        BY <2>3, <2>4, <4>2, GrowsFacts
    <3>. QED
      BY <3>1, <3>2
  <2>7. Same(k)
    BY <2>1, <2>3 DEF a, b
  <2>. QED
    BY <2>1, <2>3, <2>5, <2>6, <2>7 DEF b
<1>7. n \in S
  <2>. HIDE DEF S
  <2>. QED
    BY <1>0, <1>5, <1>6, UpTo
<1>. QED
  BY <1>7 DEF f, far, nb

\* As many entries as a table has room for make it full.
LEMMA Full ==
  ASSUME NEW tbl, Len(tbl) \in Nat, NEW h, NEW far, \A k \in 1 .. MaxNodes : HasOrFull(tbl, h, far[k]),
         \A k, l \in 1 .. MaxNodes : far[k] = far[l] => k = l
  PROVE  Len(tbl) >= MaxNodes
<1>. SUFFICES ASSUME Len(tbl) < MaxNodes PROVE FALSE
  BY BoundsAssumption
<1> DEFINE A == 1 .. MaxNodes
           B == 1 .. Len(tbl)
           f == [k \in A |-> CHOOSE i \in B : tbl[i].hop = h /\ tbl[i].addr = far[k]]
<1>1. \A k \in A : f[k] \in B /\ tbl[f[k]].addr = far[k]
  <2>. SUFFICES ASSUME NEW k \in A PROVE f[k] \in B /\ tbl[f[k]].addr = far[k]
    OBVIOUS
  <2>1. \E i \in B : tbl[i].hop = h /\ tbl[i].addr = far[k]
    BY BoundsAssumption DEF HasOrFull, Has
  <2>. QED
    BY <2>1
<1>2. IsFiniteSet(A) /\ IsFiniteSet(B) /\ Cardinality(B) < Cardinality(A)
  <2>1. ASSUME NEW n \in Nat PROVE IsFiniteSet(1 .. n) /\ Cardinality(1 .. n) = n
    <3>1. IsFiniteSet(1 .. n) /\ Cardinality(1 .. n) = IF 1 > n THEN 0 ELSE n - 1 + 1
      BY FS_Interval
    <3>. QED
      BY <3>1
  <2>2. MaxNodes \in Nat
    BY BoundsAssumption
  <2>. QED
    BY <2>1, <2>2
<1>3. f \in [A -> B]
  BY <1>1
<1>. HIDE DEF A, B, f
<1>4. PICK k \in A, l \in A : k # l /\ f[k] = f[l]
  BY <1>2, <1>3, FS_PigeonHole
<1>. QED
  BY <1>1, <1>4 DEF A

\* Everybody who may be reached through the sender of a packet is known.
AllKnown(tbl, m, h, src) ==
  Len(src) < MaxHops => \A g \in Onward(m, <<h>> \o src) : HasOrFull(tbl, h, Append(src, g))

LEMMA AddNeighborsOK ==
  ASSUME NEW m \in Machine, NEW tbl, TableOK(m, tbl), NEW h \in Hops[m],
         NEW p \in OnTheirWay(m, h), p.type = "discover"
  PROVE  /\ TableOK(m, AddNeighbors(tbl, h, p)) /\ Grows(tbl, AddNeighbors(tbl, h, p))
         /\ AllKnown(AddNeighbors(tbl, h, p), m, h, p.src)
         /\ AllKnown(tbl, m, h, p.src) => AddNeighbors(tbl, h, p) = tbl
<1> DEFINE nb == p.body.neighbors
           last == Len(nb)
           t == WithNeighbors(tbl, h, p)[last]
           far == [k \in 1 .. MaxNodes |-> Append(p.src, nb[k])]
<1>1. p.src \in Seq(Hop) /\ Len(p.src) \in Nat /\ MaxHops \in Nat /\ Len(p.src) <= MaxHops
  BY BoundsAssumption DEF OnTheirWay, OnItsWay, PacketT
<1>2. CASE Len(p.src) = MaxHops
  <2>1. AddNeighbors(tbl, h, p) = tbl
    BY <1>2 DEF AddNeighbors
  <2>2. AllKnown(tbl, m, h, p.src)
    BY <1>1, <1>2 DEF AllKnown
  <2>3. Grows(tbl, tbl)
    BY TableFacts, GrowsFacts
  <2>. QED
    BY <2>1, <2>2, <2>3
<1>3. CASE Len(p.src) # MaxHops
  <2>1. AddNeighbors(tbl, h, p) = t
    BY <1>3 DEF AddNeighbors
  <2>2. /\ nb \in Seq(Hop) /\ last \in Nat /\ \A k \in 1 .. last : nb[k] \in Onward(m, <<h>> \o p.src)
        /\ \A k, l \in 1 .. last : nb[k] = nb[l] => k = l
        /\ (\A g \in Onward(m, <<h>> \o p.src) : \E k \in 1 .. last : nb[k] = g) \/ last = MaxNodes
    BY NeighborsFacts
  <2>3. last \in 0 .. last /\ Len(p.src) < MaxHops
    BY <1>1, <1>3, <2>2
  <2>4. /\ TableOK(m, t) /\ Grows(tbl, t)
        /\ \A k \in 1 .. last : HasOrFull(t, h, Append(p.src, nb[k]))
        /\ (\A k \in 1 .. last : HasOrFull(tbl, h, Append(p.src, nb[k]))) => t = tbl
    BY <2>3, WithNeighborsOK
  <2>. HIDE DEF t, last, nb
  <2>5. ASSUME last = MaxNodes PROVE Len(t) >= MaxNodes
    <3>1. \A k \in 1 .. MaxNodes : HasOrFull(t, h, far[k])
      BY <2>4, <2>5
    <3>2. ASSUME NEW k \in 1 .. MaxNodes, NEW l \in 1 .. MaxNodes, far[k] = far[l] PROVE k = l
      <4>1. nb[k] \in Hop /\ nb[l] \in Hop
        BY <2>2, <2>5, ElementOfSeq DEF last
      <4>2. nb[k] = nb[l]
        <5>1. Append(p.src, nb[k]) = Append(p.src, nb[l])
          BY <3>2
        <5>. QED
          BY <1>1, <4>1, <5>1, AppendProperties
      <4>. QED
        BY <2>2, <2>5, <4>2
    <3>3. Len(t) \in Nat
      BY <2>4, TableFacts
    <3>. HIDE DEF far
    <3>. QED
      BY <3>1, <3>2, <3>3, Full
  <2>6. AllKnown(t, m, h, p.src)
    <3>. SUFFICES ASSUME NEW g \in Onward(m, <<h>> \o p.src) PROVE HasOrFull(t, h, Append(p.src, g))
      BY DEF AllKnown
    <3>1. CASE last = MaxNodes
      BY <2>5, <3>1 DEF HasOrFull
    <3>2. CASE last # MaxNodes
      BY <2>2, <2>4, <3>2
    <3>. QED
      BY <3>1, <3>2
  <2>7. AllKnown(tbl, m, h, p.src) => t = tbl
    BY <2>2, <2>3, <2>4 DEF AllKnown
  <2>. QED
    BY <2>1, <2>4, <2>6, <2>7
<1>. QED
  BY <1>2, <1>3

Closed(m, tbl) ==
  /\ \A h \in Hops[m] : HasOrFull(tbl, h, <<>>)
  /\ \A i \in 2 .. Len(tbl) : tbl[i].got => AllKnown(tbl, m, tbl[i].hop, tbl[i].addr)

SameNodes(a, b) == Len(a) = Len(b) /\ \A i \in 1 .. Len(a) : a[i].hop = b[i].hop /\ a[i].addr = b[i].addr

LEMMA SameNodesHave ==
  ASSUME NEW a, NEW b, SameNodes(a, b), NEW h, NEW addr
  PROVE  HasOrFull(a, h, addr) <=> HasOrFull(b, h, addr)
BY DEF SameNodes, HasOrFull, Has

\* An entry whose machine has been heard of: now true of it.
Heard(tbl, i, p) ==
  [tbl EXCEPT ![i].got = TRUE, ![i].quit = FALSE, ![i].forwarder = p.body.forwarder,
              ![i].station = p.body.station]

LEMMA HeardOK ==
  ASSUME NEW m \in Machine, NEW tbl, TableOK(m, tbl), NEW h \in Hops[m],
         NEW p \in OnTheirWay(m, h), p.type = "discover",
         NEW i \in 1 .. Len(tbl), tbl[i].hop = h, tbl[i].addr = p.src
  PROVE  /\ TableOK(m, Heard(tbl, i, p)) /\ SameNodes(tbl, Heard(tbl, i, p)) /\ i \in 2 .. Len(tbl)
         /\ \A j \in 1 .. Len(tbl) : j # i => Heard(tbl, i, p)[j] = tbl[j]
         /\ tbl[i].got => Heard(tbl, i, p)[i] = [tbl[i] EXCEPT !.quit = FALSE]
<1> DEFINE u == Heard(tbl, i, p)
           n == Len(tbl)
           new == [tbl[i] EXCEPT !.got = TRUE, !.quit = FALSE, !.forwarder = p.body.forwarder,
                                 !.station = p.body.station]
<1>1. n \in Nat \ {0} /\ DOMAIN tbl = 1 .. n /\ \A j \in 1 .. n : tbl[j] \in NodeT
  BY TableFacts
<1>2. i \in 2 .. n /\ EntryOK(m, tbl[i])
  BY TableFacts
<1>3. u = [j \in 1 .. n |-> IF j = i THEN new ELSE tbl[j]]
  <2>1. tbl = [j \in 1 .. n |-> tbl[j]]
    BY <1>1 DEF TableOK
  <2>2. tbl[i] \in NodeT
    BY <1>1
  <2>. QED
    BY <1>1, <2>1, <2>2 DEF Heard, NodeT
<1>4. p.body \in Body /\ p.origin \in Machine /\ SaysTrue(p.body, p.origin, Arrived(m, <<h>> \o p.src))
      /\ Follow(m, <<h>> \o p.src) = p.origin
  BY DEF OnTheirWay, OnItsWay, PacketT
<1>5. /\ new \in NodeT /\ new.hop = h /\ new.addr = p.src /\ new.got
      /\ new.forwarder = p.body.forwarder /\ new.station = p.body.station
  BY <1>1, <1>4 DEF NodeT, Body
<1>6. tbl[i].got => new = [tbl[i] EXCEPT !.quit = FALSE]
  <2>. SUFFICES ASSUME tbl[i].got PROVE new = [tbl[i] EXCEPT !.quit = FALSE]
    OBVIOUS
  <2>1. tbl[i].station = Station[p.origin] /\ tbl[i].forwarder = (p.origin \in Forwarder)
    BY <1>2, <1>4 DEF EntryOK, IsTrueOf, Path
  <2>2. tbl[i].station = p.body.station /\ tbl[i].forwarder = p.body.forwarder /\ tbl[i].got = TRUE
    BY <1>1, <1>4, <2>1 DEF SaysTrue, NodeT
  <2>3. tbl[i] \in NodeT
    BY <1>1
  <2>. QED
    BY <2>2, <2>3 DEF NodeT
<1>7. Path(new) = Path(tbl[i]) /\ Path(new) = <<h>> \o p.src
  BY <1>5 DEF Path
<1>8. EntryOK(m, new)
  <2>1. IsTrueOf(new, Follow(m, Path(new)))
    BY <1>4, <1>5, <1>7 DEF IsTrueOf, SaysTrue
  <2>. QED
    BY <1>2, <1>5, <1>7, <2>1 DEF EntryOK
<1>. HIDE DEF new, u, n
<1>9. u \in Seq(NodeT) /\ Len(u) = n
  BY <1>1, <1>3, <1>5
<1>10. \A j \in 1 .. n : u[j] = IF j = i THEN new ELSE tbl[j]
  BY <1>3
<1>11. \A j \in 1 .. n : u[j].hop = tbl[j].hop /\ u[j].addr = tbl[j].addr
  BY <1>5, <1>10
<1>12. u[1] = tbl[1]
  BY <1>1, <1>2, <1>10
<1>13. \A j \in 2 .. n : EntryOK(m, u[j])
  BY <1>1, <1>8, <1>10 DEF TableOK, n
<1>14. TableOK(m, u)
  BY <1>9, <1>11, <1>12, <1>13 DEF TableOK, n
<1>15. SameNodes(tbl, u)
  BY <1>9, <1>11 DEF SameNodes, n
<1>. QED
  BY <1>2, <1>6, <1>10, <1>14, <1>15 DEF u, new, n

\* Two entries that differ in no more than the quit flag and the player number, and tables
\* with such entries where they differ in no more than quit flags.
SameNode(x, y) ==
  /\ x.hop = y.hop /\ x.addr = y.addr /\ x.got = y.got /\ x.forwarder = y.forwarder
  /\ x.station = y.station
Marked(a, b) ==
  /\ b \in Seq(NodeT) /\ Len(b) = Len(a)
  /\ \A i \in 1 .. Len(a) : SameNode(b[i], a[i]) /\ b[i].player = a[i].player

LEMMA DiscoveredOK ==
  ASSUME NEW m \in Machine, NEW tbl, TableOK(m, tbl), NEW h \in Hops[m],
         NEW p \in OnTheirWay(m, h), p.type = "discover"
  PROVE  /\ TableOK(m, Discovered(m, tbl, h, p))
         /\ Closed(m, tbl) => Closed(m, Discovered(m, tbl, h, p))
         /\ (\A i \in 1 .. Len(tbl) : tbl[i].got) /\ HasOrFull(tbl, h, p.src) /\ AllKnown(tbl, m, h, p.src)
              => Marked(tbl, Discovered(m, tbl, h, p))
<1> DEFINE t == NodeOrAddNode(tbl, h, p.src)
           i == CHOOSE j \in NodeForAddr(t, h, p.src) : TRUE
           u == Heard(t, i, p)
           v == AddNeighbors(u, h, p)
           ToldAll == (\A j \in 1 .. Len(tbl) : tbl[j].got) /\ HasOrFull(tbl, h, p.src) /\ AllKnown(tbl, m, h, p.src)
<1>1. p.src \in Seq(Hop) /\ Len(p.src) <= MaxHops /\ Route(m, <<h>> \o p.src)
  BY DEF OnTheirWay, OnItsWay, PacketT
<1>2. /\ TableOK(m, t) /\ Grows(tbl, t) /\ HasOrFull(t, h, p.src)
      /\ HasOrFull(tbl, h, p.src) => t = tbl
  BY <1>1, NodeOrAddNodeOK
<1>3. Len(tbl) \in Nat /\ Len(t) \in Nat
  BY <1>2, TableFacts
<1>. HIDE DEF t
<1>4. Closed(m, tbl) => Closed(m, t)
  <2>. SUFFICES ASSUME Closed(m, tbl) PROVE Closed(m, t)
    OBVIOUS
  <2>1. \A g, addr : HasOrFull(tbl, g, addr) => HasOrFull(t, g, addr)
    BY <1>2, <1>3, GrowsFacts
  <2>2. ASSUME NEW j \in 2 .. Len(t), t[j].got PROVE AllKnown(t, m, t[j].hop, t[j].addr)
    <3>1. j \in 1 .. Len(t)
      BY <1>3
    <3>2. j \in 1 .. Len(tbl) /\ t[j] = tbl[j]
      BY <1>2, <2>2, <3>1 DEF Grows
    <3>3. j \in 2 .. Len(tbl)
      BY <3>2
    <3>. QED
      BY <2>1, <2>2, <3>2, <3>3 DEF Closed, AllKnown
  <2>. QED
    BY <2>1, <2>2 DEF Closed
<1>5. ASSUME NEW a, TableOK(m, a) PROVE Marked(a, a)
  BY <1>5 DEF Marked, SameNode, TableOK
<1>6. CASE NodeForAddr(t, h, p.src) = {} \/ FallenBehind(m, p)
  <2>1. Discovered(m, tbl, h, p) = t
    BY <1>6 DEF Discovered, t
  <2>. QED
    BY <1>2, <1>4, <1>5, <2>1
<1>7. CASE NodeForAddr(t, h, p.src) # {} /\ ~FallenBehind(m, p)
  <2>1. i \in 1 .. Len(t) /\ t[i].hop = h /\ t[i].addr = p.src
    <3>1. i \in NodeForAddr(t, h, p.src)
      BY <1>7
    <3>. HIDE DEF i
    <3>. QED
      BY <1>2, <3>1, NodeForAddrFacts
  <2>2. Discovered(m, tbl, h, p) = v
    BY <1>7 DEF Discovered, t, Heard
  <2>. HIDE DEF i
  <2>3. /\ TableOK(m, u) /\ SameNodes(t, u) /\ i \in 2 .. Len(t)
        /\ \A j \in 1 .. Len(t) : j # i => u[j] = t[j]
        /\ t[i].got => u[i] = [t[i] EXCEPT !.quit = FALSE]
    BY <1>2, <2>1, HeardOK
  <2>. HIDE DEF u
  <2>4. /\ TableOK(m, v) /\ Grows(u, v) /\ AllKnown(v, m, h, p.src)
        /\ AllKnown(u, m, h, p.src) => v = u
    BY <2>3, AddNeighborsOK
  <2>5. Len(u) = Len(t) /\ Len(v) \in Nat /\ u[i].hop = h /\ u[i].addr = p.src
    BY <2>1, <2>3, <2>4, TableFacts DEF SameNodes
  <2>. HIDE DEF v
  <2>6. Closed(m, t) => Closed(m, v)
    <3>. SUFFICES ASSUME Closed(m, t) PROVE Closed(m, v)
      OBVIOUS
    <3>1. \A g, addr : HasOrFull(t, g, addr) => HasOrFull(v, g, addr)
      BY <1>3, <2>3, <2>4, <2>5, SameNodesHave, GrowsFacts
    <3>2. ASSUME NEW j \in 2 .. Len(v), v[j].got PROVE AllKnown(v, m, v[j].hop, v[j].addr)
      <4>1. j \in 1 .. Len(v)
        BY <2>5
      <4>2. j \in 1 .. Len(t) /\ v[j] = u[j]
        BY <2>4, <2>5, <3>2, <4>1 DEF Grows
      <4>3. j \in 2 .. Len(t)
        BY <4>2
      <4>4. CASE j = i
        BY <2>4, <2>5, <4>2, <4>4
      <4>5. CASE j # i
        <5>1. v[j] = t[j]
          BY <2>3, <4>2, <4>5
        <5>. QED
          BY <3>1, <3>2, <4>3, <5>1 DEF Closed, AllKnown
      <4>. QED
        BY <4>4, <4>5
    <3>. QED
      BY <3>1, <3>2 DEF Closed
  <2>7. ToldAll => Marked(tbl, v)
    <3>. SUFFICES ASSUME ToldAll PROVE Marked(tbl, v)
      OBVIOUS
    <3>1. t = tbl
      BY <1>2
    <3>2. v = u
      <4>1. AllKnown(u, m, h, p.src)
        BY <2>3, <3>1, SameNodesHave DEF AllKnown
      <4>. QED
        BY <2>4, <4>1
    <3>3. u \in Seq(NodeT) /\ \A j \in 1 .. Len(tbl) : tbl[j] \in NodeT
      BY <2>3, TableFacts DEF TableOK
    <3>4. u[i] = [tbl[i] EXCEPT !.quit = FALSE]
      BY <2>1, <2>3, <3>1
    <3>5. SameNode(u[i], tbl[i]) /\ u[i].player = tbl[i].player
      BY <2>1, <3>1, <3>3, <3>4 DEF SameNode, NodeT
    <3>6. \A j \in 1 .. Len(tbl) : SameNode(u[j], tbl[j]) /\ u[j].player = tbl[j].player
      BY <2>3, <3>1, <3>5 DEF SameNode
    <3>. QED
      BY <2>5, <3>1, <3>2, <3>3, <3>6 DEF Marked
  <2>. QED
    BY <1>4, <2>2, <2>4, <2>6, <2>7
<1>. QED
  BY <1>6, <1>7

-----------------------------------------------------------------------------
(***************************************************************************)
(* A table that is settled: everybody in it has been heard of, each        *)
(* machine once, and everybody they can reach is in it.                    *)
(***************************************************************************)
Settled(m, tbl) ==
  /\ \A i \in 1 .. Len(tbl) : tbl[i].got
  /\ \A i, j \in 1 .. Len(tbl) : Who(m, tbl[i]) = Who(m, tbl[j]) => i = j
  /\ Closed(m, tbl)

\* The same entries, but for quit flags and player numbers, the first one in its place.
Places(f, n) ==
  /\ f \in [1 .. n -> 1 .. n] /\ f[1] = 1
  /\ \A i, j \in 1 .. n : f[i] = f[j] => i = j
  /\ \A j \in 1 .. n : \E i \in 1 .. n : f[i] = j
Rearranged(a, b, f) ==
  /\ Places(f, Len(a)) /\ b \in Seq(NodeT) /\ Len(b) = Len(a)
  /\ \A i \in 1 .. Len(a) : SameNode(b[i], a[f[i]])

LEMMA SameNodeFacts ==
  ASSUME NEW m \in Machine, NEW x \in NodeT, NEW y \in NodeT, SameNode(x, y)
  PROVE  /\ EntryOK(m, y) => EntryOK(m, x)
         /\ Who(m, x) = Who(m, y) /\ Path(x) = Path(y)
         /\ \A k : IsTrueOf(y, k) => IsTrueOf(x, k)
<1>1. x.hop = y.hop /\ x.addr = y.addr /\ x.got = y.got /\ x.forwarder = y.forwarder /\ x.station = y.station
  BY DEF SameNode
<1>2. Path(x) = Path(y)
  BY <1>1 DEF Path
<1>. QED
  BY <1>1, <1>2 DEF EntryOK, Who, IsTrueOf

LEMMA RearrangedOK ==
  ASSUME NEW m \in Machine, NEW a, TableOK(m, a), NEW b, NEW f, Rearranged(a, b, f)
  PROVE  /\ TableOK(m, b) /\ (Closed(m, a) => Closed(m, b)) /\ (Settled(m, a) => Settled(m, b))
         /\ \A i \in 1 .. Len(a) : Who(m, b[i]) = Who(m, a[f[i]])
<1> DEFINE n == Len(a)
<1>1. n \in Nat \ {0} /\ \A i \in 1 .. n : a[i] \in NodeT
  BY TableFacts
<1>2. b \in Seq(NodeT) /\ Len(b) = n /\ \A i \in 1 .. n : b[i] \in NodeT
  BY ElementOfSeq DEF Rearranged
<1>3. /\ \A i \in 1 .. n : f[i] \in 1 .. n
      /\ f[1] = 1 /\ \A i, j \in 1 .. n : f[i] = f[j] => i = j
      /\ \A j \in 1 .. n : \E i \in 1 .. n : f[i] = j
  BY DEF Rearranged, Places
<1>4. \A i \in 1 .. n : SameNode(b[i], a[f[i]])
  BY DEF Rearranged
<1>. HIDE DEF n
<1>5. ASSUME NEW i \in 1 .. n
      PROVE  /\ Who(m, b[i]) = Who(m, a[f[i]]) /\ Path(b[i]) = Path(a[f[i]])
             /\ EntryOK(m, a[f[i]]) => EntryOK(m, b[i])
             /\ \A k : IsTrueOf(a[f[i]], k) => IsTrueOf(b[i], k)
             /\ b[i].hop = a[f[i]].hop /\ b[i].addr = a[f[i]].addr /\ b[i].got = a[f[i]].got
  <2>1. b[i] \in NodeT /\ a[f[i]] \in NodeT /\ SameNode(b[i], a[f[i]])
    BY <1>1, <1>2, <1>3, <1>4
  <2>. QED
    BY <2>1, SameNodeFacts DEF SameNode
<1>6. 1 \in 1 .. n /\ \A i \in 2 .. n : i \in 1 .. n /\ f[i] \in 2 .. n
  <2>1. 1 \in 1 .. n
    BY <1>1
  <2>. SUFFICES ASSUME NEW i \in 2 .. n PROVE i \in 1 .. n /\ f[i] \in 2 .. n
    BY <2>1
  <2>2. i \in 1 .. n /\ i # 1
    BY <1>1
  <2>3. f[i] \in 1 .. n /\ f[i] # 1
    BY <1>3, <2>1, <2>2
  <2>. QED
    BY <1>1, <2>2, <2>3
<1>7. TableOK(m, b)
  <2>1. n \in 1 .. MaxNodes
    BY DEF TableOK, n
  <2>2. b[1].hop = NoHop /\ b[1].addr = <<>> /\ IsTrueOf(b[1], m)
    <3>1. 1 \in 1 .. n /\ f[1] = 1
      BY <1>3, <1>6
    <3>2. a[1].hop = NoHop /\ a[1].addr = <<>> /\ IsTrueOf(a[1], m)
      BY DEF TableOK
    <3>3. /\ b[1].hop = a[1].hop /\ b[1].addr = a[1].addr
          /\ IsTrueOf(a[1], m) => IsTrueOf(b[1], m)
      BY <1>5, <3>1
    <3>. QED
      BY <3>2, <3>3
  <2>3. ASSUME NEW i \in 2 .. n PROVE EntryOK(m, b[i])
    <3>1. i \in 1 .. n /\ f[i] \in 2 .. n
      BY <1>6
    <3>2. EntryOK(m, a[f[i]])
      <4>1. \A x \in 2 .. Len(a) : EntryOK(m, a[x])
        BY DEF TableOK
      <4>2. \A x \in 2 .. n : EntryOK(m, a[x])
        BY <4>1 DEF n
      <4>. QED
        BY <3>1, <4>2
    <3>. QED
      BY <1>5, <3>1, <3>2
  <2>4. ASSUME NEW i \in 1 .. n, NEW j \in 1 .. n, b[i].hop = b[j].hop, b[i].addr = b[j].addr PROVE i = j
    <3>1. a[f[i]].hop = a[f[j]].hop /\ a[f[i]].addr = a[f[j]].addr
      BY <1>5, <2>4
    <3>0. \A x, y \in 1 .. n : a[x].hop = a[y].hop /\ a[x].addr = a[y].addr => x = y
      BY DEF TableOK, n
    <3>2. f[i] = f[j]
      <4>1. f[i] \in 1 .. n /\ f[j] \in 1 .. n
        BY <1>3
      <4>. QED
        BY <3>0, <3>1, <4>1
    <3>. QED
      BY <1>3, <3>2
  <2>. QED
    BY <1>2, <2>1, <2>2, <2>3, <2>4 DEF TableOK
<1>8. ASSUME NEW h, NEW addr, HasOrFull(a, h, addr) PROVE HasOrFull(b, h, addr)
  <2>1. Has(a, h, addr) => Has(b, h, addr)
    <3>. SUFFICES ASSUME Has(a, h, addr) PROVE Has(b, h, addr)
      OBVIOUS
    <3>1. PICK j \in 1 .. n : a[j].hop = h /\ a[j].addr = addr
      BY DEF Has, n
    <3>2. PICK i \in 1 .. n : f[i] = j
      BY <1>3
    <3>. QED
      BY <1>2, <1>5, <3>1, <3>2 DEF Has
  <2>. QED
    BY <1>2, <1>8, <2>1 DEF HasOrFull, n
<1>9. ASSUME Closed(m, a) PROVE Closed(m, b)
  <2>1. ASSUME NEW i \in 2 .. n, b[i].got PROVE AllKnown(b, m, b[i].hop, b[i].addr)
    <3>1. i \in 1 .. n /\ f[i] \in 2 .. n
      BY <1>6
    <3>2. AllKnown(a, m, a[f[i]].hop, a[f[i]].addr)
      BY <1>5, <1>9, <2>1, <3>1 DEF Closed, n
    <3>. QED
      BY <1>5, <1>8, <3>1, <3>2 DEF AllKnown
  <2>. QED
    BY <1>2, <1>8, <1>9, <2>1 DEF Closed
<1>10. ASSUME Settled(m, a) PROVE Settled(m, b)
  <2>1. \A i \in 1 .. n : b[i].got
    BY <1>3, <1>5, <1>10 DEF Settled, n
  <2>2. ASSUME NEW i \in 1 .. n, NEW j \in 1 .. n, Who(m, b[i]) = Who(m, b[j]) PROVE i = j
    <3>1. Who(m, a[f[i]]) = Who(m, a[f[j]])
      BY <1>5, <2>2
    <3>0. \A x, y \in 1 .. n : Who(m, a[x]) = Who(m, a[y]) => x = y
      BY <1>10 DEF Settled, n
    <3>2. f[i] = f[j]
      <4>1. f[i] \in 1 .. n /\ f[j] \in 1 .. n
        BY <1>3
      <4>. QED
        BY <3>0, <3>1, <4>1
    <3>. QED
      BY <1>3, <3>2
  <2>3. Closed(m, b)
    BY <1>9, <1>10 DEF Settled
  <2>. QED
    BY <1>2, <2>1, <2>2, <2>3 DEF Settled
<1>. QED
  BY <1>5, <1>7, <1>9, <1>10 DEF n

LEMMA MarkedOK ==
  ASSUME NEW m \in Machine, NEW a, TableOK(m, a), NEW b, Marked(a, b)
  PROVE  /\ TableOK(m, b) /\ (Closed(m, a) => Closed(m, b)) /\ (Settled(m, a) => Settled(m, b))
         /\ \A i \in 1 .. Len(a) : Who(m, b[i]) = Who(m, a[i])
<1> DEFINE n == Len(a)
           f == [i \in 1 .. n |-> i]
<1>1. n \in Nat \ {0}
  BY TableFacts
<1>2. Places(f, n)
  BY <1>1 DEF Places
<1>3. \A i \in 1 .. n : f[i] = i
  OBVIOUS
<1>. HIDE DEF f
<1>4. Rearranged(a, b, f)
  BY <1>2, <1>3 DEF Rearranged, Marked
<1>. QED
  BY <1>3, <1>4, RearrangedOK

LEMMA QuittedOK ==
  ASSUME NEW m \in Machine, NEW tbl, TableOK(m, tbl), NEW h, NEW p
  PROVE  Marked(tbl, Quitted(tbl, h, p))
<1> DEFINE n == Len(tbl)
           t == Quitted(tbl, h, p)
<1>1. n \in Nat /\ DOMAIN tbl = 1 .. n /\ tbl \in Seq(NodeT) /\ \A i \in 1 .. n : tbl[i] \in NodeT
  BY TableFacts DEF TableOK
<1>2. CASE NodeForAddr(tbl, h, p.src) = {}
  BY <1>1, <1>2 DEF Quitted, Marked, SameNode
<1>3. CASE NodeForAddr(tbl, h, p.src) # {}
  <2>1. t = [i \in 1 .. n |-> IF IsPrefix(p.src, tbl[i].addr) THEN [tbl[i] EXCEPT !.quit = TRUE] ELSE tbl[i]]
    BY <1>1, <1>3 DEF Quitted
  <2>. HIDE DEF n
  <2>2. ASSUME NEW i \in 1 .. n
        PROVE  t[i] \in NodeT /\ SameNode(t[i], tbl[i]) /\ t[i].player = tbl[i].player
    <3>1. tbl[i] \in NodeT
      BY <1>1
    <3>2. t[i] = [tbl[i] EXCEPT !.quit = TRUE] \/ t[i] = tbl[i]
      BY <2>1
    <3>. HIDE DEF t
    <3>. QED
      BY <3>1, <3>2 DEF NodeT, SameNode
  <2>3. t = [i \in 1 .. n |-> t[i]]
    BY <2>1
  <2>. HIDE DEF t
  <2>4. t \in Seq(NodeT) /\ Len(t) = n
    BY <1>1, <2>2, <2>3
  <2>. QED
    BY <2>2, <2>4 DEF Marked, n, t
<1>. QED
  BY <1>2, <1>3

-----------------------------------------------------------------------------
(***************************************************************************)
(* RearrangeNodes and AssignPlayerNumbers.                                 *)
(***************************************************************************)
Exchanged(t, x, y) == [t EXCEPT ![x] = t[y], ![y] = t[x]]

LEMMA SwapOK ==
  ASSUME NEW a, Len(a) \in Nat \ {0}, NEW t, NEW f, Rearranged(a, t, f),
         NEW x \in 2 .. Len(a), NEW y \in 2 .. Len(a)
  PROVE  /\ \E g : Rearranged(a, Exchanged(t, x, y), g)
         /\ \A i \in 1 .. Len(a) : Exchanged(t, x, y)[i] = t[IF i = y THEN x ELSE IF i = x THEN y ELSE i]
<1> DEFINE n == Len(a)
           u == Exchanged(t, x, y)
           from(i) == IF i = y THEN x ELSE IF i = x THEN y ELSE i
           g == [i \in 1 .. n |-> f[from(i)]]
<1>1. /\ t \in Seq(NodeT) /\ Len(t) = n /\ DOMAIN t = 1 .. n
      /\ \A i \in 1 .. n : t[i] \in NodeT /\ SameNode(t[i], a[f[i]])
  BY ElementOfSeq DEF Rearranged
<1>2. x \in 1 .. n /\ y \in 1 .. n /\ 1 \in 1 .. n /\ x # 1 /\ y # 1
  OBVIOUS
<1>3. \A i \in 1 .. n : u[i] = t[from(i)]
  BY <1>1, <1>2 DEF Exchanged
<1>. HIDE DEF n
<1>4. /\ \A i \in 1 .. n : from(i) \in 1 .. n
      /\ \A i, j \in 1 .. n : from(i) = from(j) => i = j
      /\ \A i \in 1 .. n : from(from(i)) = i
      /\ from(1) = 1
  BY <1>2
<1>5. u \in Seq(NodeT) /\ Len(u) = n
  BY <1>1, <1>2 DEF Exchanged
<1>. HIDE DEF u, from
<1>6. \A i \in 1 .. n : SameNode(u[i], a[g[i]])
  BY <1>1, <1>3, <1>4
<1>7. Places(g, n)
  <2>1. /\ \A i \in 1 .. n : f[i] \in 1 .. n
        /\ f[1] = 1 /\ \A i, j \in 1 .. n : f[i] = f[j] => i = j
        /\ \A j \in 1 .. n : \E i \in 1 .. n : f[i] = j
    BY DEF Rearranged, Places, n
  <2>2. g \in [1 .. n -> 1 .. n] /\ g[1] = 1
    BY <1>2, <1>4, <2>1
  <2>3. ASSUME NEW i \in 1 .. n, NEW j \in 1 .. n, g[i] = g[j] PROVE i = j
    <3>1. from(i) \in 1 .. n /\ from(j) \in 1 .. n /\ f[from(i)] = f[from(j)]
      BY <1>4, <2>3
    <3>2. from(i) = from(j)
      BY <2>1, <3>1
    <3>. QED
      BY <1>4, <3>2
  <2>4. ASSUME NEW j \in 1 .. n PROVE \E i \in 1 .. n : g[i] = j
    <3>1. PICK i \in 1 .. n : f[i] = j
      BY <2>1
    <3>2. from(i) \in 1 .. n /\ g[from(i)] = f[from(from(i))]
      BY <1>4
    <3>. QED
      BY <1>4, <3>1, <3>2
  <2>. HIDE DEF g
  <2>. QED
    BY <2>2, <2>3, <2>4 DEF Places
<1>8. Rearranged(a, u, g)
  BY <1>5, <1>6, <1>7 DEF Rearranged, n
<1>. QED
  BY <1>3, <1>8 DEF u, from, n

SwapsTo(s, last, f) == f = [i \in 0 .. last |-> IF i = 0 THEN s ELSE Swapped(f[i - 1], i)]

LEMMA SwappedUpToDef ==
  ASSUME NEW s, Len(s.t) \in Nat
  PROVE  SwapsTo(s, Len(s.t), SwappedUpTo(s))
<1> DEFINE last == Len(s.t)
           S == {k \in 0 .. last : \E f : SwapsTo(s, k, f)}
<1>1. 0 \in S
  <2> DEFINE f == [n \in 0 .. 0 |-> s]
  <2>1. SwapsTo(s, 0, f)
    BY DEF SwapsTo
  <2>. QED
    BY <2>1
<1>2. ASSUME NEW k \in 1 .. last, k - 1 \in S PROVE k \in S
  <2>1. PICK f : SwapsTo(s, k - 1, f)
    BY <1>2
  <2> DEFINE g == [n \in 0 .. k |-> IF n = k THEN Swapped(f[k - 1], k) ELSE f[n]]
  <2>2. ASSUME NEW n \in 0 .. k PROVE g[n] = IF n = 0 THEN s ELSE Swapped(g[n - 1], n)
    <3>1. CASE n = 0
      BY <2>1, <3>1 DEF SwapsTo
    <3>2. CASE n \in 1 .. k - 1
      <4>1. n \in 0 .. k - 1 /\ n # 0 /\ n # k /\ n - 1 # k /\ n - 1 \in 0 .. k
        BY <3>2
      <4>2. f[n] = Swapped(f[n - 1], n)
        BY <2>1, <3>2, <4>1 DEF SwapsTo
      <4>. QED
        BY <3>2, <4>1, <4>2
    <3>3. CASE n = k
      <4>1. k - 1 # k /\ k - 1 \in 0 .. k /\ k # 0
        OBVIOUS
      <4>. QED
        BY <3>3, <4>1
    <3>. QED
      BY <3>1, <3>2, <3>3
  <2>3. SwapsTo(s, k, g)
    BY <2>2 DEF SwapsTo
  <2>. QED
    BY <2>3
<1>3. last \in S
  <2>1. last \in 0 .. last
    OBVIOUS
  <2>. HIDE DEF S
  <2>. QED
    BY <1>1, <1>2, <2>1, UpTo
<1>4. PICK f : SwapsTo(s, last, f)
  BY <1>3
<1>. QED
  BY <1>4 DEF SwappedUpTo, SwapsTo

\* The state of the loop of RearrangeNodes; if there is just one forwarder, it is at the end
\* or to be met yet.
LoopOK(a, s) ==
  /\ s.p \in 0 .. Len(a) - 1 /\ \E f : Rearranged(a, s.t, f)
OneForwarder(t) ==
  /\ ~t[1].forwarder
  /\ \A i, j \in 1 .. Len(t) : t[i].forwarder /\ t[j].forwarder => i = j
InItsPlace(s, n, i) ==
  \A x \in 1 .. n : s.t[x].forwarder => x = n \/ (s.p = n - 1 /\ x > i + 1)

LEMMA SwappedOK ==
  ASSUME NEW a, Len(a) \in Nat \ {0}, NEW s, LoopOK(a, s), NEW i \in 1 .. Len(a)
  PROVE  /\ LoopOK(a, Swapped(s, i))
         /\ OneForwarder(s.t) /\ InItsPlace(s, Len(a), i - 1)
              => OneForwarder(Swapped(s, i).t) /\ InItsPlace(Swapped(s, i), Len(a), i)
<1> DEFINE n == Len(a)
           x == i + 1
           y == s.p + 1
           u == Exchanged(s.t, x, y)
<1>1. s.p \in 0 .. n - 1 /\ n \in Nat \ {0}
  BY DEF LoopOK
<1>2. PICK f : Rearranged(a, s.t, f)
  BY DEF LoopOK
<1>3. Len(s.t) = n
  BY <1>2 DEF Rearranged
<1>4. CASE i < s.p /\ s.t[x].forwarder
  <2>1. Swapped(s, i) = [p |-> s.p - 1, t |-> u]
    BY <1>4 DEF Swapped, Exchanged
  <2>2. x \in 2 .. n /\ y \in 2 .. n /\ s.p - 1 \in 0 .. n - 1 /\ x # y /\ x \in 1 .. n /\ y \in 1 .. n
    BY <1>1, <1>4
  <2>. HIDE DEF x, y
  <2>3. /\ \E g : Rearranged(a, u, g)
        /\ \A k \in 1 .. n : u[k] = s.t[IF k = y THEN x ELSE IF k = x THEN y ELSE k]
    BY <1>2, <2>2, SwapOK
  <2>. HIDE DEF n
  <2>. HIDE DEF u
  <2>4. LoopOK(a, Swapped(s, i))
    BY <2>1, <2>2, <2>3 DEF LoopOK, n
  <2>5. ASSUME OneForwarder(s.t), InItsPlace(s, n, i - 1)
        PROVE  OneForwarder(u) /\ InItsPlace(Swapped(s, i), n, i)
    <3>1. x = n \/ s.p = n - 1
      BY <1>4, <2>2, <2>5 DEF InItsPlace
    <3>2. y = n
      BY <1>1, <1>4, <3>1 DEF x, y
    <3>3. \A k \in 1 .. n : s.t[k].forwarder => k = x
      BY <1>3, <1>4, <2>2, <2>5 DEF OneForwarder
    <3>4. \A k \in 1 .. n : u[k].forwarder => k = y
      BY <2>2, <2>3, <3>3
    <3>5. Len(u) = n /\ 1 \in 1 .. n /\ 1 # y
      BY <1>1, <2>2, <2>3 DEF Rearranged, n
    <3>. QED
      BY <2>1, <3>2, <3>4, <3>5 DEF OneForwarder, InItsPlace
  <2>. QED
    BY <2>1, <2>4, <2>5 DEF n
<1>5. CASE ~(i < s.p /\ s.t[x].forwarder)
  <2>1. Swapped(s, i) = s
    BY <1>5 DEF Swapped
  <2>2. ASSUME InItsPlace(s, n, i - 1) PROVE InItsPlace(s, n, i)
    <3>. SUFFICES ASSUME NEW z \in 1 .. n, s.t[z].forwarder, z # n PROVE s.p = n - 1 /\ z > i + 1
      BY DEF InItsPlace
    <3>1. s.p = n - 1 /\ z > i - 1 + 1
      BY <2>2 DEF InItsPlace
    <3>2. z # i + 1
      BY <1>1, <1>5, <3>1
    <3>. QED
      BY <3>1, <3>2
  <2>. QED
    BY <2>1, <2>2
<1>. QED
  BY <1>4, <1>5

LEMMA RearrangeNodesOK ==
  ASSUME NEW a \in Seq(NodeT), a # <<>>
  PROVE  /\ \E f : Rearranged(a, RearrangeNodes(a), f)
         /\ OneForwarder(a) => \A x \in 1 .. Len(a) : RearrangeNodes(a)[x].forwarder => x = Len(a)
<1> DEFINE n == Len(a)
           s == [p |-> n - 1, t |-> a]
           f == SwappedUpTo(s)
           S == {i \in 0 .. n : LoopOK(a, f[i]) /\ (OneForwarder(a) => OneForwarder(f[i].t) /\ InItsPlace(f[i], n, i))}
<1>0. n \in Nat \ {0}
  BY EmptySeq
<1>1. f[0] = s /\ \A i \in 1 .. n : f[i] = Swapped(f[i - 1], i)
  <2>1. Len(s.t) = n
    OBVIOUS
  <2>. HIDE DEF s
  <2>2. SwapsTo(s, n, f)
    BY <1>0, <2>1, SwappedUpToDef
  <2>. HIDE DEF n, f
  <2>. QED
    BY <1>0, <2>2 DEF SwapsTo
<1>. HIDE DEF f
<1>2. 0 \in S
  <2> DEFINE id == [i \in 1 .. n |-> i]
  <2>1. Rearranged(a, a, id)
    BY <1>0 DEF Rearranged, Places, SameNode
  <2>2. LoopOK(a, s)
    BY <1>0, <2>1 DEF LoopOK
  <2>3. OneForwarder(a) => InItsPlace(s, n, 0)
    <3>. SUFFICES ASSUME OneForwarder(a), NEW x \in 1 .. n, a[x].forwarder PROVE x > 1
      BY DEF InItsPlace
    <3>1. x # 1
      BY DEF OneForwarder
    <3>. QED
      BY <3>1
  <2>. QED
    BY <1>0, <1>1, <2>2, <2>3
<1>3. ASSUME NEW i \in 1 .. n, i - 1 \in S PROVE i \in S
  <2>1. LoopOK(a, f[i - 1]) /\ (OneForwarder(a) => OneForwarder(f[i - 1].t) /\ InItsPlace(f[i - 1], n, i - 1)) /\ i \in 0 .. n
    BY <1>0, <1>3
  <2>2. f[i] = Swapped(f[i - 1], i)
    BY <1>1
  <2>. QED
    BY <1>0, <2>1, <2>2, SwappedOK
<1>4. n \in S
  <2>1. n \in 0 .. n
    BY <1>0
  <2>. HIDE DEF S
  <2>. QED
    BY <1>0, <1>2, <1>3, <2>1, UpTo
<1>5. RearrangeNodes(a) = f[n].t
  BY DEF RearrangeNodes, f
<1>6. OneForwarder(a) => \A x \in 1 .. n : f[n].t[x].forwarder => x = n
  BY <1>0, <1>4 DEF InItsPlace
<1>. QED
  BY <1>4, <1>5, <1>6 DEF LoopOK

\* Who comes before entry i among the players.
Before(tbl, i) == {j \in 1 .. Len(tbl) : ~tbl[j].forwarder /\ tbl[j].station < tbl[i].station}
Numbered(tbl) == \A i \in 1 .. Len(tbl) : ~tbl[i].forwarder => tbl[i].player = Cardinality(Before(tbl, i))

LEMMA FirstNumbers ==
  ASSUME NEW n \in Nat, NEW S \in SUBSET (1 .. n)
  PROVE  IsFiniteSet(S) /\ Cardinality(S) \in Nat /\ Cardinality(S) <= n /\ IsFiniteSet(1 .. n)
         /\ Cardinality(1 .. n) = n
<1>1. IsFiniteSet(1 .. n) /\ Cardinality(1 .. n) = IF 1 > n THEN 0 ELSE n - 1 + 1
  BY FS_Interval
<1>2. Cardinality(1 .. n) = n
  BY <1>1
<1>3. IsFiniteSet(S) /\ Cardinality(S) <= Cardinality(1 .. n)
  BY <1>1, FS_Subset
<1>4. Cardinality(S) \in Nat
  BY <1>3, FS_CardinalityType
<1>. QED
  BY <1>1, <1>2, <1>3, <1>4

LEMMA AssignPlayerNumbersOK ==
  ASSUME NEW a \in Seq(NodeT)
  PROVE  /\ AssignPlayerNumbers(a) \in Seq(NodeT) /\ Len(AssignPlayerNumbers(a)) = Len(a)
         /\ \A i \in 1 .. Len(a) : SameNode(AssignPlayerNumbers(a)[i], a[i])
         /\ Numbered(AssignPlayerNumbers(a))
<1> DEFINE n == Len(a)
           b == AssignPlayerNumbers(a)
<1>1. n \in Nat /\ DOMAIN a = 1 .. n /\ \A i \in 1 .. n : a[i] \in NodeT
  BY ElementOfSeq
<1>. HIDE DEF n
<1>2. \A i \in 1 .. n : {j \in 1 .. n : ~a[j].forwarder /\ a[j].station < a[i].station} = Before(a, i)
  BY DEF Before, n
<1>3. b = [i \in 1 .. n |-> IF a[i].forwarder THEN a[i]
                              ELSE [a[i] EXCEPT !.player = Cardinality(Before(a, i))]]
  BY <1>1, <1>2 DEF AssignPlayerNumbers
<1>4. \A i \in 1 .. n : Cardinality(Before(a, i)) \in Nat
  BY <1>1, FirstNumbers DEF Before, n
<1>. HIDE DEF b
<1>5. ASSUME NEW i \in 1 .. n
      PROVE  /\ b[i] \in NodeT /\ SameNode(b[i], a[i])
             /\ ~b[i].forwarder => b[i].player = Cardinality(Before(a, i))
  <2>1. a[i] \in NodeT /\ Cardinality(Before(a, i)) \in Nat
    BY <1>1, <1>4
  <2>2. b[i] = IF a[i].forwarder THEN a[i] ELSE [a[i] EXCEPT !.player = Cardinality(Before(a, i))]
    BY <1>3
  <2>. QED
    BY <2>1, <2>2 DEF NodeT, SameNode
<1>6. b = [i \in 1 .. n |-> b[i]]
  BY <1>3
<1>7. b \in Seq(NodeT) /\ Len(b) = n
  BY <1>1, <1>5, <1>6
<1>8. \A i \in 1 .. n : Before(b, i) = Before(a, i)
  BY <1>5, <1>7 DEF Before, SameNode, n
<1>9. Numbered(b)
  BY <1>5, <1>7, <1>8 DEF Numbered
<1>. QED
  BY <1>5, <1>7, <1>9 DEF b, n

\* The table that a machine launches with.
LEMMA LaunchTable ==
  ASSUME NEW a \in Seq(NodeT), a # <<>>
  PROVE  /\ \E f : Rearranged(a, AssignPlayerNumbers(RearrangeNodes(a)), f)
         /\ Numbered(AssignPlayerNumbers(RearrangeNodes(a)))
         /\ OneForwarder(a) => \A x \in 1 .. Len(a) :
              AssignPlayerNumbers(RearrangeNodes(a))[x].forwarder => x = Len(a)
<1> DEFINE b == RearrangeNodes(a)
           c == AssignPlayerNumbers(b)
<1>1. PICK f : Rearranged(a, b, f)
  BY RearrangeNodesOK
<1>2. b \in Seq(NodeT) /\ Len(b) = Len(a)
  BY <1>1 DEF Rearranged
<1>3. OneForwarder(a) => \A x \in 1 .. Len(a) : b[x].forwarder => x = Len(a)
  BY RearrangeNodesOK
<1>. HIDE DEF b
<1>4. c \in Seq(NodeT) /\ Len(c) = Len(a) /\ Numbered(c) /\ \A i \in 1 .. Len(a) : SameNode(c[i], b[i])
  BY <1>2, AssignPlayerNumbersOK
<1>. HIDE DEF c
<1>5. Rearranged(a, c, f)
  BY <1>1, <1>4 DEF Rearranged, SameNode
<1>6. OneForwarder(a) => \A x \in 1 .. Len(a) : c[x].forwarder => x = Len(a)
  BY <1>3, <1>4 DEF SameNode
<1>. QED
  BY <1>4, <1>5, <1>6 DEF b, c

LEMMA MarkedNumbered ==
  ASSUME NEW a, NEW b, Marked(a, b), Numbered(a)
  PROVE  Numbered(b)
BY DEF Marked, Numbered, SameNode, Before

LEMMA NewNodeFacts ==
  ASSUME NEW h \in Hop, NEW addr \in Seq(Hop)
  PROVE  /\ NewNode(h, addr) \in NodeT /\ NewNode(h, addr).hop = h /\ NewNode(h, addr).addr = addr
         /\ ~NewNode(h, addr).got
BY DEF NewNode, NodeT

LEMMA NewNodeThere ==
  ASSUME NEW h \in Hop
  PROVE  NewNode(h, <<>>).hop = h /\ ~NewNode(h, <<>>).got
<1>1. <<>> \in Seq(Hop)
  BY SeqHop
<1>. QED
  BY <1>1, NewNodeFacts

LEMMA SelfFacts ==
  ASSUME NEW m \in Machine
  PROVE  Self(m) \in NodeT /\ Self(m).hop = NoHop /\ Self(m).addr = <<>> /\ IsTrueOf(Self(m), m)
<1> DEFINE node == NewNode(NoHop, <<>>)
<1>1. node \in NodeT /\ node.hop = NoHop /\ node.addr = <<>>
  BY SeqHop, NewNodeFacts
<1>2. Station[m] \in Nat
  BY StationAssumption
<1>3. Self(m) = [node EXCEPT !.got = TRUE, !.forwarder = m \in Forwarder, !.station = Station[m]]
  BY DEF Self
<1>. HIDE DEF node
<1>5. /\ Self(m) \in NodeT /\ Self(m).hop = node.hop /\ Self(m).addr = node.addr /\ Self(m).got
      /\ Self(m).station = Station[m] /\ Self(m).forwarder = (m \in Forwarder)
  <2> DEFINE fwd == m \in Forwarder
  <2>1. Self(m) = [node EXCEPT !.got = TRUE, !.forwarder = fwd, !.station = Station[m]] /\ fwd \in BOOLEAN
    BY <1>3
  <2>. HIDE DEF fwd
  <2>2. /\ Self(m) \in NodeT /\ Self(m).hop = node.hop /\ Self(m).addr = node.addr /\ Self(m).got
        /\ Self(m).station = Station[m] /\ Self(m).forwarder = fwd
    BY <1>1, <1>2, <2>1 DEF NodeT
  <2>. QED
    BY <2>2 DEF fwd
<1>. QED
  BY <1>1, <1>5 DEF IsTrueOf

LEMMA InitNodesOK ==
  ASSUME NEW m \in Machine
  PROVE  TableOK(m, InitNodes(m)) /\ Closed(m, InitNodes(m))
<1> DEFINE hb == HopsBut[m][0]
           rest == [i \in DOMAIN hb |-> NewNode(hb[i], <<>>)]
           all == <<Self(m)>> \o rest
           t == InitNodes(m)
<1>1. hb \in Seq(Hop) /\ Lists(hb, Hops[m]) /\ Len(hb) \in Nat /\ DOMAIN hb = 1 .. Len(hb)
  <2>1. Lists(hb, {h \in Hops[m] : h[1] # 0})
    <3>1. 0 \in 0 .. Len(Neighbor[m])
      BY HopFacts
    <3>. QED
      BY <3>1, HopsButLists
  <2>2. {h \in Hops[m] : h[1] # 0} = Hops[m]
    BY HopFacts
  <2>. QED
    BY <2>1, <2>2 DEF Lists
<1>2. Self(m) \in NodeT /\ Self(m).hop = NoHop /\ Self(m).addr = <<>> /\ IsTrueOf(Self(m), m)
  BY SelfFacts
<1>3. ASSUME NEW h \in Hops[m]
      PROVE  NewNode(h, <<>>) \in NodeT /\ EntryOK(m, NewNode(h, <<>>))
  <2>1. h \in Hop
    BY HopFacts
  <2>2. NewNode(h, <<>>) \in NodeT /\ NewNode(h, <<>>).hop = h /\ NewNode(h, <<>>).addr = <<>>
        /\ ~NewNode(h, <<>>).got
    BY <2>1, SeqHop, NewNodeFacts
  <2>3. Path(NewNode(h, <<>>)) = <<h>>
    <3>1. <<h>> \in Seq(Hop) /\ <<h>> \o <<>> = <<h>>
      BY <2>1, OneHop, ConcatEmptySeq
    <3>. QED
      BY <2>2, <3>1 DEF Path
  <2>4. Route(m, <<h>>) /\ Len(<<>>) <= MaxHops
    BY OneHop, BoundsAssumption
  <2>. QED
    BY <2>2, <2>3, <2>4 DEF EntryOK
<1>4. \A i \in 1 .. Len(hb) : hb[i] \in Hops[m]
  BY <1>1 DEF Lists
<1>. HIDE DEF hb
<1>5. rest \in Seq(NodeT) /\ Len(rest) = Len(hb) /\ \A i \in 1 .. Len(hb) : rest[i] = NewNode(hb[i], <<>>)
  BY <1>1, <1>3, <1>4
<1>. HIDE DEF rest
<1>6. /\ all \in Seq(NodeT) /\ Len(all) = Len(hb) + 1 /\ all[1] = Self(m)
      /\ \A i \in 2 .. Len(hb) + 1 : i - 1 \in 1 .. Len(hb) /\ all[i] = NewNode(hb[i - 1], <<>>)
  <2>1. <<Self(m)>> \in Seq(NodeT) /\ Len(<<Self(m)>>) = 1 /\ <<Self(m)>>[1] = Self(m)
    BY <1>2
  <2>2. /\ all \in Seq(NodeT) /\ Len(all) = 1 + Len(hb)
        /\ \A i \in 1 .. 1 + Len(hb) : all[i] = IF i <= 1 THEN <<Self(m)>>[i] ELSE rest[i - 1]
    BY <1>5, <2>1, ConcatProperties
  <2>3. \A i \in 2 .. Len(hb) + 1 : i - 1 \in 1 .. Len(hb) /\ i \in 1 .. 1 + Len(hb) /\ ~(i <= 1)
    BY <1>1
  <2>4. 1 \in 1 .. 1 + Len(hb) /\ 1 + Len(hb) = Len(hb) + 1
    BY <1>1
  <2>. HIDE DEF all
  <2>5. all[1] = Self(m) /\ Len(all) = Len(hb) + 1
    BY <2>1, <2>2, <2>4
  <2>6. ASSUME NEW i \in 2 .. Len(hb) + 1 PROVE i - 1 \in 1 .. Len(hb) /\ all[i] = NewNode(hb[i - 1], <<>>)
    <3>1. all[i] = rest[i - 1]
      BY <2>2, <2>3
    <3>. QED
      BY <1>5, <2>3, <3>1
  <2>. QED
    BY <2>2, <2>5, <2>6
<1>7. t = FirstOf(all, MaxNodes) /\ MaxNodes \in Nat \ {0}
  BY BoundsAssumption DEF InitNodes, hb, rest
<1>. HIDE DEF all, t
<1>8. /\ t \in Seq(NodeT) /\ Len(t) = IF Len(all) < MaxNodes THEN Len(all) ELSE MaxNodes
      /\ \A i \in 1 .. Len(t) : i \in 1 .. Len(all) /\ t[i] = all[i]
  BY <1>6, <1>7, FirstOfFacts
<1>9. Len(t) \in 1 .. MaxNodes /\ 1 \in 1 .. Len(t) /\ Len(t) <= Len(hb) + 1
  BY <1>1, <1>6, <1>7, <1>8
<1>10. t[1] = Self(m)
  BY <1>6, <1>8, <1>9
<1>11. ASSUME NEW i \in 2 .. Len(t)
       PROVE  i - 1 \in 1 .. Len(hb) /\ t[i] = NewNode(hb[i - 1], <<>>) /\ hb[i - 1] \in Hops[m]
  <2>1. i \in 2 .. Len(hb) + 1 /\ i \in 1 .. Len(t)
    BY <1>1, <1>9
  <2>. QED
    BY <1>4, <1>6, <1>8, <2>1
<1>12. TableOK(m, t)
  <2>1. \A i \in 2 .. Len(t) : EntryOK(m, t[i])
    BY <1>3, <1>11
  <2>2. ASSUME NEW i \in 1 .. Len(t), NEW j \in 1 .. Len(t), t[i].hop = t[j].hop PROVE i = j
    <3>1. \A k \in 2 .. Len(t) : t[k].hop = hb[k - 1] /\ t[k].hop # NoHop
      <4>. SUFFICES ASSUME NEW k \in 2 .. Len(t) PROVE t[k].hop = hb[k - 1] /\ t[k].hop # NoHop
        OBVIOUS
      <4>1. hb[k - 1] \in Hop /\ hb[k - 1] # NoHop /\ t[k] = NewNode(hb[k - 1], <<>>)
        BY <1>11, HopFacts
      <4>. QED
        BY <4>1, NewNodeThere
    <3>2. t[1].hop = NoHop
      BY <1>2, <1>10
    <3>3. CASE i = 1 \/ j = 1
      <4>1. \A k \in 1 .. Len(t) : k = 1 \/ k \in 2 .. Len(t)
        BY <1>9
      <4>. QED
        BY <2>2, <3>1, <3>2, <3>3, <4>1
    <3>4. CASE i # 1 /\ j # 1
      <4>1. i \in 2 .. Len(t) /\ j \in 2 .. Len(t)
        BY <1>9, <3>4
      <4>2. i - 1 \in 1 .. Len(hb) /\ j - 1 \in 1 .. Len(hb) /\ hb[i - 1] = hb[j - 1]
        BY <1>11, <2>2, <3>1, <4>1
      <4>3. i - 1 = j - 1
        BY <1>1, <4>2 DEF Lists
      <4>. QED
        BY <4>1, <4>3
    <3>. QED
      BY <3>3, <3>4
  <2>. QED
    BY <1>2, <1>8, <1>9, <1>10, <2>1, <2>2 DEF TableOK
<1>13. Closed(m, t)
  <2>1. ASSUME NEW h \in Hops[m] PROVE HasOrFull(t, h, <<>>)
    <3>. SUFFICES ASSUME Len(t) < MaxNodes PROVE Has(t, h, <<>>)
      BY <1>7, <1>9 DEF HasOrFull
    <3>1. Len(t) = Len(hb) + 1
      BY <1>1, <1>6, <1>7, <1>8
    <3>2. PICK k \in 1 .. Len(hb) : hb[k] = h
      BY <1>1 DEF Lists
    <3>3. k + 1 \in 2 .. Len(t) /\ k + 1 - 1 = k /\ k + 1 \in 1 .. Len(t)
      BY <1>1, <3>1
    <3>4. t[k + 1] = NewNode(h, <<>>)
      BY <1>11, <3>2, <3>3
    <3>. QED
      BY <3>3, <3>4 DEF Has, NewNode
  <2>2. \A i \in 2 .. Len(t) : ~t[i].got
    <3>. SUFFICES ASSUME NEW i \in 2 .. Len(t) PROVE ~t[i].got
      OBVIOUS
    <3>1. hb[i - 1] \in Hop /\ t[i] = NewNode(hb[i - 1], <<>>)
      BY <1>11, HopFacts
    <3>. QED
      BY <3>1, NewNodeThere
  <2>. QED
    BY <2>1, <2>2 DEF Closed
<1>. QED
  BY <1>12, <1>13 DEF t

-----------------------------------------------------------------------------
(***************************************************************************)
(* The first invariant: packets on their way and tables are true.          *)
(***************************************************************************)
True ==
  /\ phase \in [Machine -> {"discover", "run", "exited"}]
  /\ ready \in [Machine -> BOOLEAN] /\ due \in [Machine -> BOOLEAN]
  /\ extras \in 0 .. MaxExtras
  /\ BoxOK(inbox)
  /\ nodes = [m \in Machine |-> nodes[m]] /\ \A m \in Machine : TableOK(m, nodes[m])

LEMMA InitTrue == Init => True
<1>. SUFFICES ASSUME Init PROVE True
  OBVIOUS
<1>1. \A m \in Machine : TableOK(m, nodes[m])
  BY InitNodesOK DEF Init
<1>2. BoxOK(inbox)
  BY DEF Init, BoxOK
<1>3. extras \in 0 .. MaxExtras
  BY BoundsAssumption DEF Init
<1>. QED
  BY <1>1, <1>2, <1>3 DEF Init, True

LEMMA TailOK ==
  ASSUME NEW box, BoxOK(box), NEW m \in Machine, NEW h \in Hops[m], box[m][h] # <<>>
  PROVE  /\ BoxOK([box EXCEPT ![m][h] = Tail(@)]) /\ Head(box[m][h]) \in OnTheirWay(m, h)
<1>1. box[m][h] \in Seq(OnTheirWay(m, h))
  BY DEF BoxOK
<1>2. Tail(box[m][h]) \in Seq(OnTheirWay(m, h)) /\ Head(box[m][h]) \in OnTheirWay(m, h)
  BY <1>1, HeadTailProperties
<1>. QED
  BY <1>2 DEF BoxOK

LEMMA EmptiedOK ==
  ASSUME NEW box, BoxOK(box), NEW m \in Machine
  PROVE  BoxOK([box EXCEPT ![m] = [h \in Hops[m] |-> <<>>]])
<1> DEFINE none == [h \in Hops[m] |-> <<>>]
           new == [box EXCEPT ![m] = none]
<1>1. new = [k \in Machine |-> IF k = m THEN none ELSE box[k]]
  BY DEF BoxOK
<1>2. \A k \in Machine : new[k] = [h \in Hops[k] |-> new[k][h]]
  BY <1>1 DEF BoxOK
<1>3. \A k \in Machine : \A h \in Hops[k] : new[k][h] \in Seq(OnTheirWay(k, h))
  <2>. SUFFICES ASSUME NEW k \in Machine, NEW h \in Hops[k] PROVE new[k][h] \in Seq(OnTheirWay(k, h))
    OBVIOUS
  <2>1. <<>> \in Seq(OnTheirWay(k, h))
    OBVIOUS
  <2>2. new[k][h] = IF k = m THEN <<>> ELSE box[k][h]
    BY <1>1
  <2>. QED
    BY <2>1, <2>2 DEF BoxOK
<1>. HIDE DEF new
<1>4. new = [k \in Machine |-> new[k]]
  BY <1>1
<1>5. new = [k \in Machine |-> [h \in Hops[k] |-> new[k][h]]]
  BY <1>2, <1>4
<1>6. BoxOK(new)
  BY <1>3, <1>5 DEF BoxOK
<1>. QED
  BY <1>6 DEF new

\* What happens to a table when a packet is handled.
TableAfter(m, tbl, h, p) ==
  CASE ForUs(p) /\ p.type = "discover" -> Discovered(m, tbl, h, p)
    [] ForUs(p) /\ p.type = "quit"     -> Quitted(tbl, h, p)
    [] OTHER                           -> tbl

LEMMA GetPacketFacts ==
  ASSUME True, NEW m \in Machine, NEW h \in Hops[m], GetPacket(m, h)
  PROVE  /\ BoxOK(inbox')
         /\ \E p \in OnTheirWay(m, h) : nodes' = [nodes EXCEPT ![m] = TableAfter(m, @, h, p)]
<1> DEFINE p == Head(inbox[m][h])
           rest == [inbox EXCEPT ![m][h] = Tail(@)]
           answer == IF ForUs(p) /\ p.type = "discover" THEN Answer(m, nodes[m], h, p) ELSE <<>>
<1>1. BoxOK(rest) /\ p \in OnTheirWay(m, h)
  BY TailOK DEF GetPacket, True
<1>2. inbox' = Delivered(rest, m, GetAndForward(m, h, p) \o answer)
  BY DEF GetPacket
<1>3. nodes' = [nodes EXCEPT ![m] = TableAfter(m, @, h, p)]
  BY DEF GetPacket, TableAfter
<1>. HIDE DEF p
<1>4. answer \in Seq(Sendable(m))
  <2>1. SendDiscover(m, NewNode(h, p.src)) \in Sendable(m)
    <3>1. NewNode(h, p.src).hop = h /\ NewNode(h, p.src).addr = p.src
      BY DEF NewNode
    <3>2. p.src \in Seq(Hop)
      BY <1>1 DEF OnTheirWay, PacketT
    <3>. QED
      BY <3>1, <3>2, SendDiscoverSendable
  <2>. QED
    BY <2>1 DEF Answer
<1>. HIDE DEF answer, rest
<1>5. GetAndForward(m, h, p) \o answer \in Seq(Sendable(m))
  BY <1>1, <1>4, GetAndForwardSendable, ConcatProperties
<1>6. BoxOK(inbox')
  BY <1>1, <1>2, <1>5, DeliveredOK
<1>. QED
  BY <1>1, <1>3, <1>6

LEMMA TableAfterOK ==
  ASSUME NEW m \in Machine, NEW tbl, TableOK(m, tbl), NEW h \in Hops[m], NEW p \in OnTheirWay(m, h)
  PROVE  /\ TableOK(m, TableAfter(m, tbl, h, p))
         /\ Closed(m, tbl) => Closed(m, TableAfter(m, tbl, h, p))
         /\ (\A i \in 1 .. Len(tbl) : tbl[i].got) /\ HasOrFull(tbl, h, p.src) /\ AllKnown(tbl, m, h, p.src)
              => Marked(tbl, TableAfter(m, tbl, h, p))
<1>1. CASE ForUs(p) /\ p.type = "discover"
  BY <1>1, DiscoveredOK DEF TableAfter
<1>2. CASE ForUs(p) /\ p.type = "quit"
  <2>1. TableAfter(m, tbl, h, p) = Quitted(tbl, h, p)
    BY <1>2 DEF TableAfter
  <2>. QED
    BY <2>1, QuittedOK, MarkedOK
<1>3. CASE ~(ForUs(p) /\ p.type = "discover") /\ ~(ForUs(p) /\ p.type = "quit")
  <2>1. TableAfter(m, tbl, h, p) = tbl
    BY <1>3 DEF TableAfter
  <2>2. Marked(tbl, tbl)
    BY DEF Marked, SameNode, TableOK
  <2>. QED
    BY <2>1, <2>2
<1>. QED
  BY <1>1, <1>2, <1>3

LEMMA NextTrue == True /\ [Next]_vars => True'
<1>. SUFFICES ASSUME True, [Next]_vars PROVE True'
  OBVIOUS
<1>. USE DEF True
<1>0. \A m \in Machine : /\ Len(nodes[m]) \in Nat \ {0} /\ nodes[m] \in Seq(NodeT) /\ nodes[m] # <<>>
                         /\ \A i \in 2 .. Len(nodes[m]) : /\ nodes[m][i].hop \in Hops[m]
                                                          /\ nodes[m][i].addr \in Seq(Hop)
  BY TableFacts, EmptySeq, EntryFacts DEF TableOK
<1>1. ASSUME NEW m \in Machine, NEW h \in Hops[m], GetPacket(m, h) PROVE True'
  <2>1. BoxOK(inbox')
    BY <1>1, GetPacketFacts
  <2>2. PICK p \in OnTheirWay(m, h) : nodes' = [nodes EXCEPT ![m] = TableAfter(m, @, h, p)]
    BY <1>1, GetPacketFacts
  <2>3. TableOK(m, TableAfter(m, nodes[m], h, p))
    BY TableAfterOK
  <2>4. UNCHANGED <<phase, ready, due, extras>>
    BY <1>1 DEF GetPacket
  <2>. QED
    BY <2>1, <2>2, <2>3, <2>4
<1>2. ASSUME NEW m \in Machine, SendDiscovers(m) PROVE True'
  <2> DEFINE n == Len(nodes[m])
             packets == [i \in 1 .. n - 1 |-> SendDiscover(m, nodes[m][i + 1])]
  <2>1. \A i \in 1 .. n - 1 : SendDiscover(m, nodes[m][i + 1]) \in Sendable(m)
    <3>. SUFFICES ASSUME NEW i \in 1 .. n - 1 PROVE SendDiscover(m, nodes[m][i + 1]) \in Sendable(m)
      OBVIOUS
    <3>1. i + 1 \in 2 .. n
      BY <1>0
    <3>2. nodes[m][i + 1].hop \in Hops[m] /\ nodes[m][i + 1].addr \in Seq(Hop)
      BY <1>0, <3>1
    <3>. QED
      BY <3>2, SendDiscoverSendable
  <2>2. packets \in Seq(Sendable(m))
    BY <1>0, <2>1
  <2>3. BoxOK(Delivered(inbox, m, packets))
    BY <2>2, DeliveredOK
  <2>. QED
    BY <1>2, <2>3 DEF SendDiscovers
<1>3. ASSUME NEW m \in Machine, CheckReady(m) PROVE True'
  BY <1>3 DEF CheckReady
<1>4. ASSUME NEW m \in Machine, Launch(m) PROVE True'
  <2> DEFINE t == AssignPlayerNumbers(RearrangeNodes(nodes[m]))
  <2>1. TableOK(m, t)
    BY <1>0, LaunchTable, RearrangedOK
  <2>2. nodes' = [nodes EXCEPT ![m] = t] /\ phase' = [phase EXCEPT ![m] = "run"]
        /\ UNCHANGED <<ready, due, inbox, extras>>
    BY <1>4 DEF Launch
  <2>. HIDE DEF t
  <2>. QED
    BY <2>1, <2>2
<1>5. ASSUME NEW m \in Machine, NEW dest \in 0 .. NumPlayers(nodes[m]) - 1, GameSends(m, dest) PROVE True'
  <2> DEFINE node == nodes[m][dest + 1]
             one == <<Packet(node.hop, "data", <<>>, node.addr, m, NoBody)>>
  <2>1. SendBroadcast(m, 0, <<>>, m) \in Seq(Sendable(m))
    BY BroadcastSendable DEF SendBroadcast
  <2>2. ASSUME dest # 0 PROVE one \in Seq(Sendable(m))
    <3> DEFINE S == {i \in 1 .. Len(nodes[m]) : ~nodes[m][i].forwarder}
    <3>1. NumPlayers(nodes[m]) = Cardinality(S) /\ S \in SUBSET (1 .. Len(nodes[m])) /\ Len(nodes[m]) \in Nat
      <4>1. DOMAIN nodes[m] = 1 .. Len(nodes[m])
        BY TableFacts
      <4>. QED
        BY <1>0, <4>1 DEF NumPlayers
    <3>. HIDE DEF S
    <3>2. NumPlayers(nodes[m]) \in Nat /\ NumPlayers(nodes[m]) <= Len(nodes[m])
      BY <3>1, FirstNumbers
    <3>3. dest + 1 \in 2 .. Len(nodes[m])
      BY <2>2, <3>1, <3>2
    <3>4. node.hop \in Hops[m] /\ node.addr \in Seq(Hop)
      BY <1>0, <3>3
    <3>5. node.hop \in Hop
      BY <3>4, HopFacts
    <3>. HIDE DEF node
    <3> DEFINE q == Packet(node.hop, "data", <<>>, node.addr, m, NoBody)
    <3>6. q \in PacketT
      BY <3>4, <3>5, SeqHop, PacketTyped
    <3>7. q.hop = node.hop /\ q.src = <<>> /\ q.origin = m /\ q.type # "discover"
      BY DEF Packet
    <3>. HIDE DEF q
    <3>8. q \in Sendable(m)
      BY <3>4, <3>6, <3>7, SendableFirst
    <3>. QED
      BY <3>8 DEF q
  <2>3. BoxOK(inbox')
    <3>1. CASE dest = 0
      BY <1>5, <2>1, <3>1, DeliveredOK DEF GameSends
    <3>2. CASE dest # 0
      <4>1. inbox' = Delivered(inbox, m, one)
        BY <1>5, <3>2 DEF GameSends
      <4>. QED
        BY <2>2, <3>2, <4>1, DeliveredOK
    <3>. QED
      BY <3>1, <3>2
  <2>. QED
    BY <1>5, <2>3, BoundsAssumption DEF GameSends
<1>6. ASSUME NEW m \in Machine, Quit(m) PROVE True'
  <2>1. SendQuit(m) \in Seq(Sendable(m))
    BY BroadcastSendable DEF SendQuit
  <2>2. BoxOK(inbox')
    BY <1>6, <2>1, EmptiedOK, DeliveredOK DEF Quit
  <2>. QED
    BY <1>6, <2>2 DEF Quit
<1>7. ASSUME NEW m \in Machine, NEW h \in Hops[m], Lose(m, h) PROVE True'
  <2>1. BoxOK([inbox EXCEPT ![m][h] = Tail(@)])
    BY <1>7, TailOK DEF Lose
  <2>2. /\ inbox' = [inbox EXCEPT ![m][h] = Tail(@)] /\ extras' = extras + 1 /\ extras < MaxExtras
        /\ UNCHANGED <<phase, ready, due, nodes>>
    BY <1>7 DEF Lose
  <2>3. BoxOK(inbox') /\ extras' \in 0 .. MaxExtras
    BY <2>1, <2>2, BoundsAssumption
  <2>. QED
    BY <2>2, <2>3
<1>8. CASE Second
  <2>1. due' \in [Machine -> BOOLEAN]
    BY <1>8 DEF Second
  <2>2. UNCHANGED <<phase, ready, nodes, inbox, extras>>
    BY <1>8 DEF Second
  <2>. QED
    BY <2>1, <2>2
<1>9. CASE UNCHANGED vars
  BY <1>9 DEF vars
<1>. QED
  BY <1>1, <1>2, <1>3, <1>4, <1>5, <1>6, <1>7, <1>8, <1>9 DEF Next

LEMMA TrueHolds == Spec => []True
BY InitTrue, NextTrue, PTL DEF Spec

\* Addresses stay within node_addr_t, and tables within MAXNETNODES, whatever networks there
\* are and whatever comes.
THEOREM TypesHold == Spec => []TypeOK
<1>1. True => TypeOK
  <2>. SUFFICES ASSUME True PROVE TypeOK
    OBVIOUS
  <2>1. ASSUME NEW m \in Machine
        PROVE  /\ Len(nodes[m]) \in 1 .. MaxNodes /\ nodes[m][1].hop = NoHop
               /\ \A i \in 2 .. Len(nodes[m]) : nodes[m][i].hop \in Hops[m] /\ Len(nodes[m][i].addr) <= MaxHops
    BY DEF True, TableOK, EntryOK
  <2>2. ASSUME NEW m \in Machine, NEW h \in Hops[m], NEW i \in DOMAIN inbox[m][h]
        PROVE  Len(inbox[m][h][i].src) <= MaxHops
    <3>1. inbox[m][h] \in Seq(OnTheirWay(m, h))
      BY DEF True, BoxOK
    <3>2. inbox[m][h][i] \in OnTheirWay(m, h)
      BY <3>1
    <3>. QED
      BY <3>2 DEF OnTheirWay, OnItsWay
  <2>. QED
    BY <2>1, <2>2 DEF True, TypeOK
<1>. QED
  BY <1>1, TrueHolds, PTL

LEMMA TrueRoutes == True => SourceLeadsBack /\ TableIsTrue
<1>. SUFFICES ASSUME True PROVE SourceLeadsBack /\ TableIsTrue
  OBVIOUS
<1>1. ASSUME NEW m \in Machine, NEW h \in Hops[m], NEW i \in DOMAIN inbox[m][h]
      PROVE  Follow(m, <<h>> \o inbox[m][h][i].src) = inbox[m][h][i].origin
  <2>1. inbox[m][h] \in Seq(OnTheirWay(m, h))
    BY DEF True, BoxOK
  <2>2. inbox[m][h][i] \in OnTheirWay(m, h)
    BY <2>1
  <2>. QED
    BY <2>2 DEF OnTheirWay, OnItsWay
<1>2. ASSUME NEW m \in Machine, NEW i \in 2 .. Len(nodes[m]), nodes[m][i].got
      PROVE  IsTrueOf(nodes[m][i], Follow(m, Path(nodes[m][i])))
  BY <1>2 DEF True, TableOK, EntryOK
<1>. QED
  BY <1>1, <1>2 DEF SourceLeadsBack, TableIsTrue, IsTrueOf

\* On any networks, with loops too: a packet's source leads back to where it is from, and
\* what a table says of the machine at the end of an address is true.
THEOREM RoutesHold == Spec => [](SourceLeadsBack /\ TableIsTrue)
BY TrueHolds, TrueRoutes, PTL

\* No route leads from a machine back to it.
NoLoops ==
  \A m \in Machine, h \in Hop, addr \in Seq(Hop) :
    Len(addr) <= MaxHops /\ Route(m, <<h>> \o addr) => Follow(m, <<h>> \o addr) # m

\* Where there are no loops no machine is told of itself either.
THEOREM RoutesAreTrueHolds ==
  ASSUME NoLoops
  PROVE  Spec => []RoutesAreTrue
<1>1. True => NeverSelf
  <2>. SUFFICES ASSUME True, NEW m \in Machine, NEW i \in 2 .. Len(nodes[m])
                PROVE  Follow(m, Path(nodes[m][i])) # m
    BY DEF NeverSelf
  <2> DEFINE node == nodes[m][i]
  <2>1. EntryOK(m, node)
    BY DEF True, TableOK
  <2>. HIDE DEF node
  <2>2. node.hop \in Hop /\ node.addr \in Seq(Hop) /\ Len(node.addr) <= MaxHops /\ Route(m, <<node.hop>> \o node.addr)
    BY <2>1, EntryFacts DEF EntryOK, Path
  <2>3. Follow(m, <<node.hop>> \o node.addr) # m
    BY <2>2, NoLoops DEF NoLoops
  <2>. QED
    BY <2>3 DEF node, Path
<1>. QED
  BY <1>1, TrueHolds, TrueRoutes, PTL DEF RoutesAreTrue

-----------------------------------------------------------------------------
(***************************************************************************)
(* A settled table has an entry for every address there is, or is full.    *)
(***************************************************************************)
LEMMA SettledKnows ==
  ASSUME NEW m \in Machine, NEW tbl, TableOK(m, tbl), Settled(m, tbl), NEW h \in Hops[m],
         NEW src \in Seq(Hop), Len(src) <= MaxHops, Route(m, <<h>> \o src)
  PROVE  HasOrFull(tbl, h, src)
<1> DEFINE n == Len(src)
           first(j) == SubSeq(src, 1, j)
           T == {j \in 0 .. n : Route(m, <<h>> \o first(n - j))}
           S == {j \in 0 .. n : HasOrFull(tbl, h, first(j))}
<1>1. n \in Nat /\ MaxHops \in Nat /\ h \in Hop
  BY BoundsAssumption, HopFacts
<1>2. ASSUME NEW j \in 0 .. n PROVE first(j) \in Seq(Hop) /\ Len(first(j)) = j
  <2>1. first(j) = [i \in 1 .. j |-> src[i]] /\ \A i \in 1 .. j : i \in 1 .. n
    BY <1>1
  <2>. QED
    BY <1>1, <2>1
<1>3. first(0) = <<>> /\ first(n) = src
  BY <1>1
<1>4. ASSUME NEW j \in 1 .. n
      PROVE  /\ j - 1 \in 0 .. n /\ j \in 0 .. n /\ src[j] \in Hop /\ first(j) = Append(first(j - 1), src[j])
             /\ <<h>> \o first(j) = Append(<<h>> \o first(j - 1), src[j])
             /\ <<h>> \o first(j - 1) \in Seq(Hop) /\ <<h>> \o first(j - 1) # <<>>
  <2>1. j - 1 \in 0 .. n /\ j \in 0 .. n /\ src[j] \in Hop
    BY <1>1
  <2>2. first(j - 1) \in Seq(Hop) /\ Len(first(j - 1)) = j - 1
    BY <1>2, <2>1
  <2>3. first(j) = Append(first(j - 1), src[j])
    BY <1>1, <2>1
  <2>. HIDE DEF first
  <2>4. Append(<<h>> \o first(j - 1), src[j]) = <<h>> \o Append(first(j - 1), src[j])
    BY <1>1, <2>1, <2>2, SeqHop
  <2>5. <<h>> \o first(j - 1) \in Seq(Hop) /\ <<h>> \o first(j - 1) # <<>>
    BY <1>1, <2>2, SeqHop
  <2>. QED
    BY <2>1, <2>3, <2>4, <2>5
<1>. HIDE DEF first, n
<1>5. 0 \in T
  <2>1. n - 0 = n /\ 0 \in 0 .. n
    BY <1>1
  <2>. QED
    BY <1>3, <2>1
<1>6. ASSUME NEW j \in 1 .. n, j - 1 \in T PROVE j \in T
  <2> DEFINE k == n - (j - 1)
  <2>1. k \in 1 .. n /\ k - 1 = n - j /\ j \in 0 .. n
    BY <1>1
  <2>2. Route(m, <<h>> \o first(k))
    BY <1>6
  <2>. HIDE DEF k
  <2>3. Route(m, <<h>> \o first(k - 1))
    <3> DEFINE path == <<h>> \o first(k - 1)
    <3>1. path \in Seq(Hop) /\ path # <<>> /\ src[k] \in Hop /\ Route(m, Append(path, src[k]))
      BY <1>4, <2>1, <2>2
    <3>. HIDE DEF path
    <3>2. Route(m, path)
      BY <3>1, RouteAppend
    <3>. QED
      BY <3>2 DEF path
  <2>. QED
    BY <2>1, <2>3
<1>7. 0 .. n \subseteq T
  <2>. HIDE DEF T
  <2>. QED
    BY <1>1, <1>5, <1>6, UpTo
<1>8. ASSUME NEW j \in 0 .. n PROVE Route(m, <<h>> \o first(j))
  <2>1. n - j \in 0 .. n /\ n - (n - j) = j
    BY <1>1
  <2>2. Route(m, <<h>> \o first(n - (n - j)))
    BY <1>7, <2>1
  <2>. QED
    BY <2>1, <2>2
<1>9. 0 \in S
  <2>1. HasOrFull(tbl, h, <<>>) /\ 0 \in 0 .. n
    BY <1>1 DEF Settled, Closed
  <2>. QED
    BY <1>3, <2>1
<1>10. ASSUME NEW j \in 1 .. n, j - 1 \in S PROVE j \in S
  <2> DEFINE s == first(j - 1)
             g == src[j]
  <2>1. HasOrFull(tbl, h, s) /\ j \in 0 .. n /\ Route(m, <<h>> \o first(j))
    BY <1>4, <1>8, <1>10
  <2>2. Len(s) < MaxHops
    BY <1>1, <1>2, <1>4 DEF n
  <2>3. /\ first(j) = Append(s, g) /\ <<h>> \o first(j) = Append(<<h>> \o s, g)
        /\ <<h>> \o s \in Seq(Hop) /\ <<h>> \o s # <<>> /\ g \in Hop
    BY <1>4
  <2>. HIDE DEF s, g
  <2>4. g \in Onward(m, <<h>> \o s)
    BY <2>1, <2>3, RouteAppend
  <2>5. HasOrFull(tbl, h, Append(s, g))
    <3>1. CASE Len(tbl) >= MaxNodes
      BY <3>1 DEF HasOrFull
    <3>2. CASE Has(tbl, h, s)
      <4>1. PICK i \in 1 .. Len(tbl) : tbl[i].hop = h /\ tbl[i].addr = s
        BY <3>2 DEF Has
      <4>2. i \in 2 .. Len(tbl)
        BY <4>1, TableFacts
      <4>3. AllKnown(tbl, m, h, s)
        BY <4>1, <4>2 DEF Settled, Closed
      <4>. QED
        BY <2>2, <2>4, <4>3 DEF AllKnown
    <3>. QED
      BY <2>1, <3>1, <3>2 DEF HasOrFull
  <2>. QED
    BY <2>1, <2>3, <2>5
<1>11. n \in S
  <2>1. n \in 0 .. n
    BY <1>1
  <2>. HIDE DEF S
  <2>. QED
    BY <1>1, <1>9, <1>10, <2>1, UpTo
<1>. QED
  BY <1>3, <1>11

\* What a machine that has settled reads changes no more than quit flags.
LEMMA SettledAfter ==
  ASSUME NEW m \in Machine, NEW tbl, TableOK(m, tbl), Settled(m, tbl), NEW h \in Hops[m],
         NEW p \in OnTheirWay(m, h)
  PROVE  Marked(tbl, TableAfter(m, tbl, h, p))
<1>1. p.src \in Seq(Hop) /\ Len(p.src) <= MaxHops /\ Route(m, <<h>> \o p.src) /\ h \in Hop
  BY HopFacts DEF OnTheirWay, OnItsWay, PacketT
<1>2. HasOrFull(tbl, h, p.src)
  BY <1>1, SettledKnows
<1>3. AllKnown(tbl, m, h, p.src)
  <2>. SUFFICES ASSUME Len(p.src) < MaxHops, NEW g \in Onward(m, <<h>> \o p.src)
                PROVE  HasOrFull(tbl, h, Append(p.src, g))
    BY DEF AllKnown
  <2> DEFINE path == <<h>> \o p.src
             far == Append(p.src, g)
  <2>1. path \in Seq(Hop) /\ path # <<>>
    BY <1>1, SeqHop
  <2>2. g \in Hop
    BY <1>1, <2>1, RouteFacts, HopFacts DEF Onward
  <2>3. Route(m, Append(path, g))
    <3>1. Route(m, path) /\ g \in Onward(m, path)
      BY <1>1
    <3>. HIDE DEF path
    <3>. QED
      BY <2>1, <2>2, <3>1, RouteAppend
  <2>6. Append(path, g) = <<h>> \o far
    <3>. HIDE DEF path
    <3>1. Append(<<h>> \o p.src, g) = <<h>> \o Append(p.src, g)
      BY <1>1, <2>2, SeqHop
    <3>. QED
      BY <3>1 DEF path
  <2>4. far \in Seq(Hop) /\ Len(far) = Len(p.src) + 1
    BY <1>1, <2>2, AppendProperties
  <2>5. Len(far) <= MaxHops
    BY <1>1, <2>4, BoundsAssumption
  <2>. HIDE DEF far
  <2>. QED
    BY <2>3, <2>4, <2>5, <2>6, SettledKnows DEF far
<1>4. \A i \in 1 .. Len(tbl) : tbl[i].got
  BY DEF Settled
<1>. QED
  BY <1>2, <1>3, <1>4, TableAfterOK

-----------------------------------------------------------------------------
(***************************************************************************)
(* The second invariant: a machine that is ready has settled.  A forwarder *)
(* is at the end of a player's table if there is no other.                 *)
(***************************************************************************)
ForwarderLast(tbl) == \A x \in 1 .. Len(tbl) : tbl[x].forwarder => x = Len(tbl)

Ready ==
  \A m \in Machine :
    /\ Closed(m, nodes[m])
    /\ phase[m] = "run" => ready[m] /\ Numbered(nodes[m])
    /\ ready[m] => Settled(m, nodes[m])
    /\ phase[m] = "run" /\ m \in Players /\ (\A j, k \in Forwarder : j = k) => ForwarderLast(nodes[m])

LEMMA BecomesSettled ==
  ASSUME NEW m \in Machine, NEW tbl, TableOK(m, tbl), Closed(m, tbl), GotAllDiscovers(tbl),
         ~Duplicates(tbl)
  PROVE  Settled(m, tbl)
<1> DEFINE n == Len(tbl)
<1>1. n \in Nat /\ DOMAIN tbl = 1 .. n
  BY TableFacts
<1>2. \A i \in 1 .. n : tbl[i].got
  BY <1>1 DEF GotAllDiscovers
<1>3. ASSUME NEW i \in 1 .. n, NEW j \in 1 .. n, Who(m, tbl[i]) = Who(m, tbl[j]) PROVE i = j
  <2>1. tbl[i].station = tbl[j].station
    <3>1. IsTrueOf(tbl[i], Who(m, tbl[i])) /\ IsTrueOf(tbl[j], Who(m, tbl[j]))
      BY <1>2, TableFacts
    <3>. QED
      BY <1>3, <3>1 DEF IsTrueOf
  <2>2. ~(i < j) /\ ~(j < i)
    BY <1>1, <1>2, <2>1 DEF Duplicates
  <2>. QED
    BY <1>1, <2>2
<1>. QED
  BY <1>2, <1>3 DEF Settled

LEMMA LaunchedFacts ==
  ASSUME NEW m \in Machine, NEW a, TableOK(m, a), Settled(m, a)
  PROVE  /\ Settled(m, AssignPlayerNumbers(RearrangeNodes(a)))
         /\ Numbered(AssignPlayerNumbers(RearrangeNodes(a)))
         /\ m \in Players /\ (\A j, k \in Forwarder : j = k)
              => ForwarderLast(AssignPlayerNumbers(RearrangeNodes(a)))
<1> DEFINE n == Len(a)
           b == AssignPlayerNumbers(RearrangeNodes(a))
<1>1. a \in Seq(NodeT) /\ a # <<>> /\ n \in Nat \ {0} /\ 1 \in 1 .. n
  BY TableFacts, EmptySeq DEF TableOK
<1>2. PICK f : Rearranged(a, b, f)
  BY <1>1, LaunchTable
<1>3. Numbered(b) /\ (OneForwarder(a) => \A x \in 1 .. n : b[x].forwarder => x = n)
  BY <1>1, LaunchTable
<1>. HIDE DEF b
<1>4. Settled(m, b) /\ Len(b) = n
  BY <1>2, RearrangedOK DEF Rearranged
<1>5. ASSUME m \in Players, \A j, k \in Forwarder : j = k PROVE OneForwarder(a)
  <2>1. \A i \in 1 .. n : a[i].forwarder = (Who(m, a[i]) \in Forwarder)
    BY TableFacts DEF Settled, IsTrueOf
  <2>2. Who(m, a[1]) = m
    BY DEF TableOK, Who
  <2>3. ~a[1].forwarder
    BY <1>1, <1>5, <2>1, <2>2 DEF Players
  <2>4. ASSUME NEW i \in 1 .. n, NEW j \in 1 .. n, a[i].forwarder, a[j].forwarder PROVE i = j
    <3>1. Who(m, a[i]) = Who(m, a[j])
      BY <1>5, <2>1, <2>4
    <3>. QED
      BY <3>1 DEF Settled
  <2>. QED
    BY <2>3, <2>4 DEF OneForwarder
<1>6. m \in Players /\ (\A j, k \in Forwarder : j = k) => ForwarderLast(b)
  BY <1>3, <1>4, <1>5 DEF ForwarderLast
<1>. QED
  BY <1>3, <1>4, <1>6 DEF b

LEMMA InitReady == Init => Ready
BY InitNodesOK DEF Init, Ready

LEMMA NextReady == True /\ Ready /\ [Next]_vars => Ready'
<1>. SUFFICES ASSUME True, Ready, [Next]_vars PROVE Ready'
  OBVIOUS
<1>1. ASSUME NEW m \in Machine, NEW h \in Hops[m], GetPacket(m, h) PROVE Ready'
  <2>1. PICK p \in OnTheirWay(m, h) : nodes' = [nodes EXCEPT ![m] = TableAfter(m, @, h, p)]
    BY <1>1, GetPacketFacts
  <2> DEFINE a == nodes[m]
             b == TableAfter(m, a, h, p)
  <2>2. /\ nodes'[m] = b /\ \A k \in Machine : k # m => nodes'[k] = nodes[k]
        /\ UNCHANGED <<phase, ready>>
    <3>1. nodes = [k \in Machine |-> nodes[k]]
      BY DEF True
    <3>2. nodes' = [nodes EXCEPT ![m] = b]
      BY <2>1
    <3>. HIDE DEF b
    <3>. QED
      BY <1>1, <3>1, <3>2 DEF GetPacket
  <2>3. TableOK(m, a) /\ Closed(m, a)
    BY DEF True, Ready
  <2>4. Closed(m, b)
    BY <2>3, TableAfterOK
  <2>5. Settled(m, a) => Settled(m, b) /\ Marked(a, b)
    BY <2>3, SettledAfter, MarkedOK
  <2>. HIDE DEF b
  <2>6. ready[m] => Settled(m, b)
    BY <2>5 DEF Ready
  <2>7. phase[m] = "run" => ready[m] /\ Numbered(b)
    BY <2>5, MarkedNumbered DEF Ready
  <2>8. phase[m] = "run" /\ m \in Players /\ (\A j, k \in Forwarder : j = k) => ForwarderLast(b)
    <3>. SUFFICES ASSUME phase[m] = "run", m \in Players, \A j, k \in Forwarder : j = k
                  PROVE  ForwarderLast(b)
      OBVIOUS
    <3>1. ForwarderLast(a) /\ Marked(a, b)
      BY <2>5 DEF Ready
    <3>. QED
      BY <3>1 DEF ForwarderLast, Marked, SameNode
  <2>9. ASSUME NEW k \in Machine
        PROVE  /\ Closed(k, nodes'[k])
               /\ phase[k] = "run" => ready[k] /\ Numbered(nodes'[k])
               /\ ready[k] => Settled(k, nodes'[k])
               /\ phase[k] = "run" /\ k \in Players /\ (\A i, j \in Forwarder : i = j) => ForwarderLast(nodes'[k])
    <3>1. CASE k = m
      BY <2>2, <2>4, <2>6, <2>7, <2>8, <3>1
    <3>2. CASE k # m
      BY <2>2, <3>2 DEF Ready
    <3>. QED
      BY <3>1, <3>2
  <2>. QED
    BY <2>2, <2>9 DEF Ready
<1>2. ASSUME NEW m \in Machine, SendDiscovers(m) PROVE Ready'
  BY <1>2 DEF SendDiscovers, Ready
<1>3. ASSUME NEW m \in Machine, CheckReady(m) PROVE Ready'
  <2>1. nodes' = nodes
    BY <1>3 DEF CheckReady
  <2>2. CASE Duplicates(nodes[m])
    <3>1. ready' = ready /\ phase' = [phase EXCEPT ![m] = "exited"]
      BY <1>3, <2>2 DEF CheckReady
    <3>2. \A k \in Machine : phase'[k] = "run" => phase[k] = "run"
      BY <3>1 DEF True
    <3>. QED
      BY <2>1, <3>1, <3>2 DEF Ready
  <2>3. CASE ~Duplicates(nodes[m])
    <3>1. phase' = phase /\ ready' = [ready EXCEPT ![m] = TRUE] /\ GotAllDiscovers(nodes[m])
      BY <1>3, <2>3 DEF CheckReady
    <3>2. Settled(m, nodes[m])
      BY <2>3, <3>1, BecomesSettled DEF True, Ready
    <3>3. ASSUME NEW k \in Machine PROVE (ready[k] => ready'[k]) /\ (ready'[k] => Settled(k, nodes[k]))
      BY <3>1, <3>2 DEF True, Ready
    <3>. QED
      BY <2>1, <3>1, <3>3 DEF Ready
  <2>. QED
    BY <2>2, <2>3
<1>4. ASSUME NEW m \in Machine, Launch(m) PROVE Ready'
  <2> DEFINE b == AssignPlayerNumbers(RearrangeNodes(nodes[m]))
  <2>1. ready[m] /\ ready' = ready /\ phase' = [phase EXCEPT ![m] = "run"] /\ nodes' = [nodes EXCEPT ![m] = b]
    BY <1>4 DEF Launch
  <2>2. Settled(m, b) /\ Numbered(b) /\ (m \in Players /\ (\A j, k \in Forwarder : j = k) => ForwarderLast(b))
    BY <2>1, LaunchedFacts DEF True, Ready
  <2>. HIDE DEF b
  <2>3. /\ nodes'[m] = b /\ \A k \in Machine : k # m => nodes'[k] = nodes[k] /\ phase'[k] = phase[k]
    <3>1. nodes = [k \in Machine |-> nodes[k]] /\ phase \in [Machine -> {"discover", "run", "exited"}]
      BY DEF True
    <3>. QED
      BY <2>1, <3>1
  <2>4. Closed(m, b)
    BY <2>2 DEF Settled
  <2>5. ASSUME NEW k \in Machine
        PROVE  /\ Closed(k, nodes'[k])
               /\ phase'[k] = "run" => ready[k] /\ Numbered(nodes'[k])
               /\ ready[k] => Settled(k, nodes'[k])
               /\ phase'[k] = "run" /\ k \in Players /\ (\A i, j \in Forwarder : i = j) => ForwarderLast(nodes'[k])
    <3>1. CASE k = m
      BY <2>1, <2>2, <2>3, <2>4, <3>1
    <3>2. CASE k # m
      BY <2>3, <3>2 DEF Ready
    <3>. QED
      BY <3>1, <3>2
  <2>. QED
    BY <2>1, <2>5 DEF Ready
<1>5. ASSUME NEW m \in Machine, NEW dest \in 0 .. NumPlayers(nodes[m]) - 1, GameSends(m, dest) PROVE Ready'
  BY <1>5 DEF GameSends, Ready
<1>6. ASSUME NEW m \in Machine, Quit(m) PROVE Ready'
  <2>1. phase' = [phase EXCEPT ![m] = "exited"] /\ nodes' = nodes /\ ready' = ready
    BY <1>6 DEF Quit
  <2>2. \A k \in Machine : phase'[k] = "run" => phase[k] = "run"
    BY <2>1 DEF True
  <2>. QED
    BY <2>1, <2>2 DEF Ready
<1>7. ASSUME NEW m \in Machine, NEW h \in Hops[m], Lose(m, h) PROVE Ready'
  BY <1>7 DEF Lose, Ready
<1>8. CASE Second
  BY <1>8 DEF Second, Ready
<1>9. CASE UNCHANGED vars
  BY <1>9 DEF vars, Ready
<1>. QED
  BY <1>1, <1>2, <1>3, <1>4, <1>5, <1>6, <1>7, <1>8, <1>9 DEF Next

LEMMA ReadyHolds == Spec => [](True /\ Ready)
<1>1. Init => True /\ Ready
  BY InitTrue, InitReady
<1>2. True /\ Ready /\ [Next]_vars => (True /\ Ready)'
  BY NextTrue, NextReady
<1>. QED
  BY <1>1, <1>2, PTL DEF Spec

-----------------------------------------------------------------------------
(***************************************************************************)
(* Machines launch with all others, where a table has room for them and    *)
(* everybody can be reached.                                               *)
(***************************************************************************)
\* Every machine is at the end of a route from every other, within the length of an address.
Connected ==
  \A m, k \in Machine : k # m =>
    \E h \in Hops[m], addr \in Seq(Hop) :
      Len(addr) <= MaxHops /\ Route(m, <<h>> \o addr) /\ Follow(m, <<h>> \o addr) = k

LEMMA EveryMachine ==
  ASSUME NEW m \in Machine, NEW tbl, TableOK(m, tbl), Settled(m, tbl),
         IsFiniteSet(Machine), Cardinality(Machine) <= MaxNodes, Connected
  PROVE  /\ [i \in 1 .. Len(tbl) |-> Who(m, tbl[i])] \in Bijection(1 .. Len(tbl), Machine)
         /\ Len(tbl) = Cardinality(Machine)
<1> DEFINE n == Len(tbl)
           who == [i \in 1 .. n |-> Who(m, tbl[i])]
<1>1. n \in Nat \ {0} /\ n <= MaxNodes /\ MaxNodes \in Nat /\ IsFiniteSet(1 .. n) /\ Cardinality(1 .. n) = n
  <2>1. n \in Nat \ {0} /\ n <= MaxNodes /\ MaxNodes \in Nat
    BY TableFacts DEF TableOK
  <2>2. IsFiniteSet(1 .. n) /\ Cardinality(1 .. n) = n
    BY <2>1, FirstNumbers
  <2>. QED
    BY <2>1, <2>2
<1>2. \A i \in 1 .. n : Who(m, tbl[i]) \in Machine
  BY TableFacts
<1>3. \A i, j \in 1 .. n : Who(m, tbl[i]) = Who(m, tbl[j]) => i = j
  BY DEF Settled
<1>. HIDE DEF n
<1>4. who \in Injection(1 .. n, Machine) /\ \A i \in 1 .. n : who[i] = Who(m, tbl[i])
  BY <1>2, <1>3 DEF Injection, IsInjective
<1>5. Cardinality(Machine) \in Nat
  BY FS_CardinalityType
<1>6. who \in Surjection(1 .. n, Machine)
  <2>1. CASE n >= MaxNodes
    <3>1. Cardinality(1 .. n) <= Cardinality(Machine)
      BY <1>4, FS_Injection
    <3>2. Cardinality(1 .. n) = Cardinality(Machine)
      BY <1>1, <1>5, <2>1, <3>1
    <3>. HIDE DEF who
    <3>. QED
      BY <1>4, <3>2, FS_Injection
  <2>2. CASE ~(n >= MaxNodes)
    <3>1. ASSUME NEW k \in Machine PROVE \E i \in 1 .. n : who[i] = k
      <4>1. CASE k = m
        <5>1. 1 \in 1 .. n /\ Who(m, tbl[1]) = m
          BY <1>1 DEF TableOK, Who
        <5>. QED
          BY <1>4, <4>1, <5>1
      <4>2. CASE k # m
        <5>1. PICK h \in Hops[m] : \E addr \in Seq(Hop) :
                Len(addr) <= MaxHops /\ Route(m, <<h>> \o addr) /\ Follow(m, <<h>> \o addr) = k
          BY <4>2 DEF Connected
        <5>2. PICK addr \in Seq(Hop) :
                Len(addr) <= MaxHops /\ Route(m, <<h>> \o addr) /\ Follow(m, <<h>> \o addr) = k
          BY <5>1
        <5>3. HasOrFull(tbl, h, addr)
          BY <5>2, SettledKnows
        <5>4. PICK i \in 1 .. n : tbl[i].hop = h /\ tbl[i].addr = addr
          BY <2>2, <5>3 DEF HasOrFull, Has, n
        <5>5. h # NoHop
          BY HopFacts
        <5>6. Who(m, tbl[i]) = k
          BY <5>2, <5>4, <5>5 DEF Who, Path
        <5>. QED
          BY <1>4, <5>6
      <4>. QED
        BY <4>1, <4>2
    <3>2. who \in [1 .. n -> Machine]
      BY <1>2
    <3>. QED
      BY <3>1, <3>2 DEF Surjection
  <2>. QED
    BY <2>1, <2>2
<1>7. n = Cardinality(Machine)
  <2>1. Cardinality(1 .. n) <= Cardinality(Machine)
    BY <1>4, FS_Injection
  <2>2. Cardinality(Machine) <= Cardinality(1 .. n)
    BY <1>1, <1>6, FS_Surjection
  <2>. QED
    BY <1>1, <1>5, <2>1, <2>2
<1>8. who \in Bijection(1 .. n, Machine)
  BY <1>4, <1>6 DEF Bijection
<1>. QED
  BY <1>7, <1>8 DEF n

\* The same, in the words of the properties.
LEMMA TableIsAll ==
  ASSUME NEW m \in Machine, NEW tbl, TableOK(m, tbl), Settled(m, tbl),
         IsFiniteSet(Machine), Cardinality(Machine) <= MaxNodes, Connected
  PROVE  /\ Who(m, tbl[1]) = m /\ \A i \in 2 .. Len(tbl) : Who(m, tbl[i]) = Follow(m, Path(tbl[i]))
         /\ \A i \in 1 .. Len(tbl) : Who(m, tbl[i]) \in Machine /\ IsTrueOf(tbl[i], Who(m, tbl[i]))
         /\ \A i, j \in 1 .. Len(tbl) : Who(m, tbl[i]) = Who(m, tbl[j]) => i = j
         /\ \A k \in Machine : \E i \in 1 .. Len(tbl) : Who(m, tbl[i]) = k
         /\ Len(tbl) = Cardinality(Machine)
<1>1. Who(m, tbl[1]) = m
  BY DEF TableOK, Who
<1>2. \A i \in 2 .. Len(tbl) : Who(m, tbl[i]) = Follow(m, Path(tbl[i]))
  BY EntryFacts DEF TableOK
<1>3. \A i \in 1 .. Len(tbl) : Who(m, tbl[i]) \in Machine /\ IsTrueOf(tbl[i], Who(m, tbl[i]))
  BY TableFacts DEF Settled
<1>4. \A i, j \in 1 .. Len(tbl) : Who(m, tbl[i]) = Who(m, tbl[j]) => i = j
  BY DEF Settled
<1> DEFINE who == [i \in 1 .. Len(tbl) |-> Who(m, tbl[i])]
<1>5. who \in Bijection(1 .. Len(tbl), Machine) /\ Len(tbl) = Cardinality(Machine)
  BY EveryMachine
<1>6. \A k \in Machine : \E i \in 1 .. Len(tbl) : who[i] = k
  <2>. HIDE DEF who
  <2>. QED
    BY <1>5 DEF Bijection, Surjection
<1>. QED
  BY <1>1, <1>2, <1>3, <1>4, <1>5, <1>6

LEMMA OthersOf ==
  ASSUME NEW m \in Machine, NEW tbl, TableOK(m, tbl), Settled(m, tbl),
         IsFiniteSet(Machine), Cardinality(Machine) <= MaxNodes, Connected
  PROVE  {Follow(m, Path(tbl[i])) : i \in 2 .. Len(tbl)} = Machine \ {m}
<1> DEFINE n == Len(tbl)
<1>1. /\ Who(m, tbl[1]) = m /\ \A i \in 2 .. n : Who(m, tbl[i]) = Follow(m, Path(tbl[i]))
      /\ \A i \in 1 .. n : Who(m, tbl[i]) \in Machine
      /\ \A i, j \in 1 .. n : Who(m, tbl[i]) = Who(m, tbl[j]) => i = j
      /\ \A k \in Machine : \E i \in 1 .. n : Who(m, tbl[i]) = k
  BY TableIsAll
<1>2. n \in Nat \ {0} /\ 1 \in 1 .. n /\ \A i \in 1 .. n : i # 1 <=> i \in 2 .. n
  BY TableFacts
<1>3. \A i \in 2 .. n : i \in 1 .. n /\ i # 1
  BY <1>2
<1>. HIDE DEF n
<1>4. ASSUME NEW i \in 2 .. n PROVE Follow(m, Path(tbl[i])) \in Machine \ {m}
  <2>1. Who(m, tbl[i]) \in Machine /\ Who(m, tbl[i]) # Who(m, tbl[1])
    BY <1>1, <1>2, <1>3
  <2>. QED
    BY <1>1, <2>1
<1>5. ASSUME NEW k \in Machine \ {m} PROVE \E i \in 2 .. n : Follow(m, Path(tbl[i])) = k
  <2>1. PICK i \in 1 .. n : Who(m, tbl[i]) = k
    BY <1>1
  <2>2. i \in 2 .. n
    BY <1>1, <1>2, <2>1
  <2>. QED
    BY <1>1, <2>1, <2>2
<1>. QED
  BY <1>4, <1>5 DEF n

\* Whatever packets are lost and in whatever order machines hear of each other: one that
\* launches has every other machine in its table, once.
THEOREM LaunchesCompleteHolds ==
  ASSUME IsFiniteSet(Machine), Cardinality(Machine) <= MaxNodes, Connected
  PROVE  Spec => []LaunchesComplete
<1>1. True /\ Ready => LaunchesComplete
  <2>. SUFFICES ASSUME True, Ready, NEW m \in Machine, phase[m] = "run"
                PROVE  /\ {Follow(m, Path(nodes[m][i])) : i \in 2 .. Len(nodes[m])} = Machine \ {m}
                       /\ Len(nodes[m]) = Cardinality(Machine)
    BY DEF LaunchesComplete
  <2>1. TableOK(m, nodes[m]) /\ Settled(m, nodes[m])
    BY DEF True, Ready
  <2>. QED
    BY <2>1, OthersOf, TableIsAll
<1>. QED
  BY <1>1, ReadyHolds, PTL

\* All machines in a settled table that is numbered have the number of their rank.
LEMMA NumbersAreRanks ==
  ASSUME NEW m \in Machine, NEW tbl, TableOK(m, tbl), Settled(m, tbl), Numbered(tbl),
         IsFiniteSet(Machine), Cardinality(Machine) <= MaxNodes, Connected,
         NEW i \in 1 .. Len(tbl), Who(m, tbl[i]) \in Players
  PROVE  tbl[i].player = Cardinality({j \in Players : Station[j] < Station[Who(m, tbl[i])]})
<1> DEFINE n == Len(tbl)
           S == Before(tbl, i)
           T == {j \in Players : Station[j] < Station[Who(m, tbl[i])]}
           f == [x \in S |-> Who(m, tbl[x])]
<1>1. /\ \A x \in 1 .. n : Who(m, tbl[x]) \in Machine /\ IsTrueOf(tbl[x], Who(m, tbl[x]))
      /\ \A x, y \in 1 .. n : Who(m, tbl[x]) = Who(m, tbl[y]) => x = y
      /\ \A k \in Machine : \E x \in 1 .. n : Who(m, tbl[x]) = k
  BY TableIsAll
<1>2. n \in Nat /\ S \in SUBSET (1 .. n)
  BY TableFacts DEF Before
<1>. HIDE DEF n
<1>3. \A x \in 1 .. n : (x \in S <=> Who(m, tbl[x]) \in T)
  BY <1>1 DEF Before, IsTrueOf, Players, n
<1>4. ASSUME NEW k \in T PROVE \E x \in S : Who(m, tbl[x]) = k
  <2>1. PICK x \in 1 .. n : Who(m, tbl[x]) = k
    BY <1>1 DEF Players
  <2>. QED
    BY <1>3, <2>1
<1>. HIDE DEF S, T
<1>5. \A x \in S : f[x] \in T
  BY <1>2, <1>3
<1>6. \A x, y \in S : f[x] = f[y] => x = y
  BY <1>1, <1>2
<1>7. \A k \in T : \E x \in S : f[x] = k
  BY <1>4
<1>8. f \in [S -> T]
  BY <1>5
<1>9. DOMAIN f = S
  OBVIOUS
<1>. HIDE DEF f
<1>10. f \in Bijection(S, T)
  BY <1>6, <1>7, <1>8, <1>9 DEF Bijection, Injection, Surjection, IsInjective
<1>11. IsFiniteSet(S)
  BY <1>2, FirstNumbers
<1>12. Cardinality(T) = Cardinality(S)
  BY <1>10, <1>11, FS_Bijection DEF ExistsBijection
<1>13. ~tbl[i].forwarder
  BY <1>1 DEF IsTrueOf, Players, n
<1>14. tbl[i].player = Cardinality(S)
  BY <1>13 DEF Numbered, S
<1>. QED
  BY <1>12, <1>14 DEF T

\* The players that launch agree on the numbers of all.
THEOREM PlayersAgreeHolds ==
  ASSUME IsFiniteSet(Machine), Cardinality(Machine) <= MaxNodes, Connected
  PROVE  Spec => []PlayersAgree
<1>1. True /\ Ready => PlayersAgree
  <2>. SUFFICES ASSUME True, Ready, NEW m \in Players, phase[m] = "run",
                       NEW i \in DOMAIN nodes[m],
                       (IF i = 1 THEN m ELSE Follow(m, Path(nodes[m][i]))) \in Players
                PROVE  nodes[m][i].player =
                         Cardinality({j \in Players : Station[j] <
                           Station[IF i = 1 THEN m ELSE Follow(m, Path(nodes[m][i]))]})
    BY DEF PlayersAgree
  <2> DEFINE tbl == nodes[m]
  <2>1. m \in Machine /\ TableOK(m, tbl) /\ Settled(m, tbl) /\ Numbered(tbl)
    BY DEF True, Ready, Players
  <2>2. i \in 1 .. Len(tbl) /\ (i # 1 <=> i \in 2 .. Len(tbl))
    BY <2>1, TableFacts
  <2>3. (IF i = 1 THEN m ELSE Follow(m, Path(tbl[i]))) = Who(m, tbl[i])
    BY <2>1, <2>2, TableIsAll
  <2>. HIDE DEF tbl
  <2>4. Who(m, tbl[i]) \in Players
    BY <2>3 DEF tbl
  <2>5. tbl[i].player = Cardinality({j \in Players : Station[j] < Station[Who(m, tbl[i])]})
    BY <2>1, <2>2, <2>4, NumbersAreRanks
  <2>. QED
    BY <2>3, <2>5 DEF tbl
<1>. QED
  BY <1>1, ReadyHolds, PTL

\* With one forwarder at most, the node numbers of a game are the other players.
THEOREM NodesArePlayersHolds ==
  ASSUME IsFiniteSet(Machine), Cardinality(Machine) <= MaxNodes, Connected,
         \A j, k \in Forwarder : j = k
  PROVE  Spec => []NodesArePlayers
<1>1. True /\ Ready => NodesArePlayers
  <2>. SUFFICES ASSUME True, Ready, NEW m \in Players, phase[m] = "run"
                PROVE  {Follow(m, Path(nodes[m][i])) : i \in 2 .. NumPlayers(nodes[m])} = Players \ {m}
    BY DEF NodesArePlayers
  <2> DEFINE tbl == nodes[m]
             n == Len(tbl)
             p == NumPlayers(tbl)
             S == {i \in 1 .. n : ~tbl[i].forwarder}
  <2>1. m \in Machine /\ TableOK(m, tbl) /\ Settled(m, tbl) /\ ForwarderLast(tbl)
    BY DEF True, Ready, Players
  <2>. HIDE DEF tbl
  <2>2. /\ Who(m, tbl[1]) = m /\ \A i \in 2 .. n : Who(m, tbl[i]) = Follow(m, Path(tbl[i]))
        /\ \A i \in 1 .. n : Who(m, tbl[i]) \in Machine /\ IsTrueOf(tbl[i], Who(m, tbl[i]))
        /\ \A i, j \in 1 .. n : Who(m, tbl[i]) = Who(m, tbl[j]) => i = j
        /\ \A k \in Machine : \E i \in 1 .. n : Who(m, tbl[i]) = k
    BY <2>1, TableIsAll
  <2>3. n \in Nat \ {0} /\ DOMAIN tbl = 1 .. n /\ \A i \in 1 .. n : i # 1 <=> i \in 2 .. n
    BY <2>1, TableFacts
  <2>4. p = Cardinality(S)
    BY <2>3 DEF NumPlayers
  <2>5. \A i \in 1 .. n : tbl[i].forwarder => i = n
    BY <2>1 DEF ForwarderLast
  <2>. HIDE DEF n
  <2>6. p \in Nat /\ p <= n /\ \A i \in 1 .. n : i \in S <=> i <= p
    <3>1. CASE tbl[n].forwarder
      <4>1. S = 1 .. n - 1
        BY <2>3, <2>5, <3>1
      <4>2. n - 1 \in Nat
        BY <2>3
      <4>. HIDE DEF S
      <4>3. Cardinality(S) = n - 1
        BY <4>1, <4>2, FirstNumbers
      <4>. HIDE DEF p
      <4>. QED
        BY <2>3, <2>4, <4>1, <4>3
    <3>2. CASE ~tbl[n].forwarder
      <4>1. S = 1 .. n
        BY <2>5, <3>2
      <4>. HIDE DEF S
      <4>2. Cardinality(S) = n
        BY <2>3, <4>1, FirstNumbers
      <4>. HIDE DEF p
      <4>. QED
        BY <2>3, <2>4, <4>1, <4>2
    <3>. QED
      BY <3>1, <3>2
  <2>7. \A i \in 1 .. n : i \in S <=> Who(m, tbl[i]) \in Players
    BY <2>2 DEF IsTrueOf, Players
  <2>. HIDE DEF p, S
  <2>8. ASSUME NEW i \in 2 .. p PROVE Follow(m, Path(tbl[i])) \in Players \ {m}
    <3>1. i \in 2 .. n /\ i \in 1 .. n /\ i # 1 /\ 1 \in 1 .. n /\ i <= p
      BY <2>3, <2>6
    <3>2. Who(m, tbl[i]) # Who(m, tbl[1]) /\ i \in S
      BY <2>2, <2>6, <3>1
    <3>. QED
      BY <2>2, <2>7, <3>1, <3>2
  <2>9. ASSUME NEW k \in Players \ {m} PROVE \E i \in 2 .. p : Follow(m, Path(tbl[i])) = k
    <3>1. PICK i \in 1 .. n : Who(m, tbl[i]) = k
      BY <2>2 DEF Players
    <3>2. i \in S /\ i # 1
      BY <2>2, <2>7, <3>1
    <3>3. i \in 2 .. n /\ i \in 2 .. p
      BY <2>3, <2>6, <3>2
    <3>. QED
      BY <2>2, <3>1, <3>3
  <2>. QED
    BY <2>8, <2>9 DEF p, tbl
<1>. QED
  BY <1>1, ReadyHolds, PTL
=============================================================================
