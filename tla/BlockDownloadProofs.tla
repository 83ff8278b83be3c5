------------------------ MODULE BlockDownloadProofs -------------------------
(***************************************************************************)
(* Proofs about BlockDownload, for any peers, any tree of blocks and any   *)
(* limits: the tables of requests agree, no block is taken over.           *)
(***************************************************************************)
EXTENDS BlockDownload, FiniteSetTheorems, SequenceTheorems, WellFoundedInduction, TLAPS

-----------------------------------------------------------------------------
(* Sequences, numbers and sets.                                            *)

\* Erasing one entry of a list closes the gap and keeps the order.
LEMMA RemoveAtSpec ==
  ASSUME NEW S, NEW s \in Seq(S), NEW k \in 1..Len(s)
  PROVE  /\ RemoveAt(s, k) \in Seq(S)
         /\ Len(RemoveAt(s, k)) = Len(s) - 1
         /\ \A i \in 1..(Len(s) - 1) : RemoveAt(s, k)[i] = IF i < k THEN s[i] ELSE s[i + 1]
<1> DEFINE a == SubSeq(s, 1, k - 1)
           b == SubSeq(s, k + 1, Len(s))
<1>1. Len(s) \in Nat /\ k \in Nat /\ 1 <= k /\ k <= Len(s)
  OBVIOUS
<1>2. a \in Seq(S) /\ Len(a) = k - 1 /\ \A i \in 1..(k - 1) : a[i] = s[i]
  BY <1>1
<1>3. b \in Seq(S) /\ Len(b) = Len(s) - k /\ \A i \in 1..(Len(s) - k) : b[i] = s[i + k]
  BY <1>1
<1>4. RemoveAt(s, k) = a \o b
  BY DEF RemoveAt
<1> HIDE DEF a, b
<1>5. a \o b \in Seq(S) /\ Len(a \o b) = Len(s) - 1
  <2>1. a \o b \in Seq(S) /\ Len(a \o b) = Len(a) + Len(b)
    BY <1>2, <1>3, ConcatProperties
  <2>2. QED
    BY <1>1, <1>2, <1>3, <2>1
<1>6. ASSUME NEW i \in 1..(Len(s) - 1)
      PROVE  (a \o b)[i] = IF i < k THEN s[i] ELSE s[i + 1]
  <2>1. CASE i < k
    BY <1>1, <1>2, <1>3, <2>1
  <2>2. CASE k <= i
    <3>1. (a \o b)[i] = b[i - (k - 1)]
      BY <1>1, <1>2, <1>3, <2>2
    <3>2. i - (k - 1) \in 1..(Len(s) - k) /\ i - (k - 1) + k = i + 1
      BY <1>1, <2>2
    <3>3. (a \o b)[i] = s[i + 1]
      BY <1>3, <3>1, <3>2
    <3>4. ~(i < k)
      BY <1>1, <2>2
    <3>5. QED
      BY <3>3, <3>4
  <2>3. i < k \/ k <= i
    BY <1>1
  <2>4. QED
    BY <2>1, <2>2, <2>3
<1>7. QED
  BY <1>4, <1>5, <1>6

\* The smaller and the greater of two numbers.
LEMMA MinMax ==
  ASSUME NEW a \in Int, NEW b \in Int
  PROVE  /\ Min({a, b}) = IF a <= b THEN a ELSE b
         /\ Max({a, b}) = IF a <= b THEN b ELSE a
<1>1. PICK m \in {a, b} : \A y \in {a, b} : m <= y
  <2>1. CASE a <= b
    BY <2>1
  <2>2. CASE b <= a
    BY <2>2
  <2>3. QED
    BY <2>1, <2>2
<1>2. PICK n \in {a, b} : \A y \in {a, b} : n >= y
  <2>1. CASE a <= b
    BY <2>1
  <2>2. CASE b <= a
    BY <2>2
  <2>3. QED
    BY <2>1, <2>2
<1>3. Min({a, b}) \in {a, b} /\ \A y \in {a, b} : Min({a, b}) <= y
  BY <1>1 DEF Min
<1>4. Max({a, b}) \in {a, b} /\ \A y \in {a, b} : Max({a, b}) >= y
  BY <1>2 DEF Max
<1>5. QED
  BY <1>3, <1>4

\* A set of numbers that is not empty has a least one.
LEMMA Least ==
  ASSUME NEW H \in SUBSET Nat, H # {}
  PROVE  \E h \in H : \A y \in H : h <= y
<1>1. PICK h \in H : \A y \in H : ~(<<y, h>> \in OpToRel(<, Nat))
  BY NatLessThanWellFounded, WFMin
<1>2. \A y \in H : ~(y < h)
  BY <1>1 DEF OpToRel
<1>3. QED
  BY <1>2

\* A set that holds 0 and the successor of every number it holds is Nat.
LEMMA SetInduction ==
  ASSUME NEW N \in SUBSET Nat, 0 \in N, \A n \in N : n + 1 \in N
  PROVE  N = Nat
<1> SUFFICES ASSUME Nat \ N # {} PROVE FALSE
  OBVIOUS
<1>1. PICK m \in Nat \ N : \A y \in Nat \ N : m <= y
  BY Least
<1>2. m # 0 /\ m - 1 \in Nat
  OBVIOUS
<1>3. m - 1 \in N
  BY <1>1, <1>2
<1>4. m - 1 + 1 = m
  BY <1>2
<1>5. QED
  BY <1>3, <1>4

-----------------------------------------------------------------------------
(* The tree.                                                               *)

\* The numbers and heights of blocks, as the assumption has them.
LEMMA TreeFacts ==
  /\ Blocks \subseteq Nat /\ 0 \in Blocks /\ Height[0] = 0
  /\ \A b \in Blocks : b \in Nat /\ Height[b] \in Nat
  /\ \A b \in Blocks \ {0} : /\ Parent[b] \in Blocks /\ Parent[b] \in Nat /\ Parent[b] < b
                             /\ Height[b] = Height[Parent[b]] + 1
BY DownloadAssumption

\* A set that holds block 0 and every block whose parent it holds holds all.
LEMMA TreeInduction ==
  ASSUME NEW S \in SUBSET Blocks, 0 \in S,
         \A b \in Blocks \ {0} : Parent[b] \in S => b \in S
  PROVE  S = Blocks
<1> SUFFICES ASSUME Blocks \ S # {} PROVE FALSE
  OBVIOUS
<1>1. PICK b \in Blocks \ S : \A y \in Blocks \ S : b <= y
  BY Least, DownloadAssumption
<1>2. b \in Blocks \ {0} /\ Parent[b] \in Blocks /\ Parent[b] < b /\ b \in Nat /\ Parent[b] \in Nat
  BY DownloadAssumption
<1>3. Parent[b] \in S
  BY <1>1, <1>2
<1>4. QED
  BY <1>2, <1>3

\* There is a number above all blocks: a smallest set of blocks without one
\* would, without one of its blocks, have one.
LEMMA BlocksBounded == \E n \in Nat : \A b \in Blocks : b < n
<1> DEFINE Bounded(T) == \E n \in Nat : \A b \in T : b < n
           U == {T \in SUBSET Blocks : ~Bounded(T)}
           C == {Cardinality(T) : T \in U}
<1> SUFFICES ASSUME Blocks \in U PROVE FALSE
  OBVIOUS
<1>1. \A T \in SUBSET Blocks : IsFiniteSet(T) /\ Cardinality(T) \in Nat
  BY DownloadAssumption, FS_Subset, FS_CardinalityType
<1>2. C \in SUBSET Nat /\ C # {}
  BY <1>1
<1>3. PICK T \in U : \A V \in U : Cardinality(T) <= Cardinality(V)
  <2> HIDE DEF U
  <2>1. PICK c \in C : \A y \in C : c <= y
    <3> HIDE DEF C
    <3> QED BY <1>2, Least
  <2>2. QED
    BY <2>1
<1>4. T # {}
  BY DownloadAssumption
<1>5. PICK x \in T : TRUE
  BY <1>4
<1>6. Cardinality(T \ {x}) = Cardinality(T) - 1
  BY <1>1, FS_RemoveElement
<1>7. Bounded(T \ {x})
  <2>1. T \ {x} \in SUBSET Blocks
    OBVIOUS
  <2>2. T \ {x} \in U => FALSE
    <3> HIDE DEF U
    <3>1. Cardinality(T) \in Nat
      BY <1>1 DEF U
    <3>2. QED
      BY <1>3, <1>6, <3>1
  <2>3. QED
    BY <2>1, <2>2
<1>8. PICK n \in Nat : \A b \in T \ {x} : b < n
  BY <1>7
<1>9. x \in Nat /\ T \subseteq Nat
  BY DownloadAssumption
<1>10. \A b \in T : b < n + x + 1
  BY <1>8, <1>9
<1>11. n + x + 1 \in Nat
  BY <1>9
<1>12. QED
  BY <1>10, <1>11

\* The recursive definition of a chain has a solution: blocks are numbered after
\* their parents.
LEMMA ChainEquation ==
  Chain = [b \in Blocks |-> IF b = 0 THEN {0} ELSE {b} \cup Chain[Parent[b]]]
<1> DEFINE Below(n) == {b \in Blocks : b < n}
           Solves(f, n) == f = [b \in Below(n) |->
                                  IF b = 0 THEN {0} ELSE {b} \cup f[Parent[b]]]
           N == {n \in Nat : \E f : Solves(f, n)}
<1>1. 0 \in N
  <2>1. Below(0) = {}
    <3>1. \A b \in Blocks : ~(b < 0)
      BY TreeFacts
    <3>2. QED
      BY <3>1
  <2>2. Solves([b \in {} |-> {}], 0)
    BY <2>1
  <2>3. QED
    BY <2>2
<1>2. ASSUME NEW n \in N PROVE n + 1 \in N
  <2>1. PICK f : Solves(f, n)
    OBVIOUS
  <2> DEFINE g == [b \in Below(n + 1) |->
                     IF b = n THEN (IF b = 0 THEN {0} ELSE {b} \cup f[Parent[b]]) ELSE f[b]]
  <2>2. \A b \in Below(n + 1) : b # n => b \in Below(n)
    BY TreeFacts
  <2>3. \A b \in Below(n + 1) \ {0} : Parent[b] \in Below(n)
    BY TreeFacts
  <2>4. \A b \in Below(n) : b \in Below(n + 1) /\ b # n
    BY TreeFacts
  <2>5. \A b \in Below(n) : f[b] = IF b = 0 THEN {0} ELSE {b} \cup f[Parent[b]]
    BY <2>1
  <2> HIDE DEF Below
  <2>6. \A b \in Below(n) : g[b] = f[b]
    BY <2>4
  <2>7. ASSUME NEW b \in Below(n + 1)
        PROVE  g[b] = IF b = 0 THEN {0} ELSE {b} \cup g[Parent[b]]
    <3>1. g[b] = IF b = 0 THEN {0} ELSE {b} \cup f[Parent[b]]
      BY <2>2, <2>5
    <3>2. b # 0 => g[Parent[b]] = f[Parent[b]]
      BY <2>3, <2>6
    <3>3. QED
      BY <3>1, <3>2
  <2>8. g = [b \in Below(n + 1) |-> g[b]]
    OBVIOUS
  <2> HIDE DEF g
  <2>9. Solves(g, n + 1)
    BY <2>7, <2>8
  <2>10. QED
    BY <2>9
<1> HIDE DEF N
<1>3. N = Nat
  <2>1. N \in SUBSET Nat
    BY DEF N
  <2>2. QED
    BY <1>1, <1>2, <2>1, SetInduction
<1>4. PICK n \in Nat : \A b \in Blocks : b < n
  BY BlocksBounded
<1>5. Below(n) = Blocks
  BY <1>4
<1>6. PICK f : Solves(f, n)
  BY <1>3 DEF N
<1>7. f = [b \in Blocks |-> IF b = 0 THEN {0} ELSE {b} \cup f[Parent[b]]]
  <2> HIDE DEF Below
  <2> QED BY <1>5, <1>6
<1>8. QED
  BY <1>7 DEF Chain

\* A chain goes down to block 0, is closed under parents, and has one block of
\* every height up to its own.
ChainOK(b) ==
  /\ Chain[b] \subseteq Blocks /\ 0 \in Chain[b] /\ b \in Chain[b]
  /\ \A x \in Chain[b] : Height[x] <= Height[b]
  /\ \A x, y \in Chain[b] : Height[x] = Height[y] => x = y
  /\ \A h \in 0..Height[b] : \E x \in Chain[b] : Height[x] = h

\* Every block has such a chain.
LEMMA ChainFacts == \A b \in Blocks : ChainOK(b)
<1> DEFINE S == {b \in Blocks : ChainOK(b)}
<1>1. 0 \in S
  <2>1. 0 \in Blocks /\ Chain[0] = {0} /\ Height[0] = 0
    BY ChainEquation, DownloadAssumption
  <2>2. QED
    BY <2>1 DEF ChainOK
<1>2. ASSUME NEW b \in Blocks \ {0}, Parent[b] \in S PROVE b \in S
  <2>1. /\ Chain[b] = {b} \cup Chain[Parent[b]] /\ ChainOK(Parent[b])
        /\ Height[b] = Height[Parent[b]] + 1 /\ Height[Parent[b]] \in Nat
        /\ Parent[b] \in Blocks /\ b \in Blocks
    <3>1. Chain[b] = {b} \cup Chain[Parent[b]]
      <4>1. Chain[b] = IF b = 0 THEN {0} ELSE {b} \cup Chain[Parent[b]]
        BY ChainEquation
      <4>2. QED
        BY <4>1
    <3>2. ChainOK(Parent[b]) /\ b \in Blocks
      BY <1>2
    <3>3. QED
      BY <3>1, <3>2, TreeFacts
  <2> DEFINE p == Parent[b]
  <2>2. \A x \in Chain[p] : x \in Blocks /\ Height[x] \in Nat /\ Height[x] <= Height[p]
    BY <2>1, TreeFacts DEF ChainOK
  <2>3. Chain[b] \subseteq Blocks /\ 0 \in Chain[b] /\ b \in Chain[b]
    BY <2>1 DEF ChainOK
  <2>4. \A x \in Chain[b] : Height[x] <= Height[b]
    BY <2>1, <2>2
  <2>5. \A x, y \in Chain[b] : Height[x] = Height[y] => x = y
    BY <2>1, <2>2 DEF ChainOK
  <2>6. ASSUME NEW h \in 0..Height[b] PROVE \E x \in Chain[b] : Height[x] = h
    <3>1. CASE h = Height[b]
      BY <2>3, <3>1
    <3>2. CASE h # Height[b]
      <4>1. h \in 0..Height[p]
        BY <2>1, <3>2
      <4>2. QED
        BY <2>1, <4>1 DEF ChainOK
    <3>3. QED
      BY <3>1, <3>2
  <2>7. QED
    BY <2>3, <2>4, <2>5, <2>6 DEF ChainOK
<1> HIDE DEF S
<1>3. S = Blocks
  <2>1. S \in SUBSET Blocks
    BY DEF S
  <2>2. QED
    BY <1>1, <1>2, <2>1, TreeInduction
<1>4. QED
  BY <1>3 DEF S

\* Part of a chain is finite, and sorted by height it is a sequence of its blocks:
\* the number of lower blocks numbers them without gaps.
LEMMA AscendingFacts ==
  ASSUME NEW b \in Blocks, NEW S \in SUBSET Chain[b]
  PROVE  /\ IsFiniteSet(S) /\ Cardinality(S) \in Nat
         /\ Ascending(S) \in Seq(S) /\ Len(Ascending(S)) = Cardinality(S)
<1> DEFINE Lower(x) == {y \in S : Height[y] < Height[x]}
           n == Cardinality(S)
           rank == [x \in S |-> Cardinality(Lower(x))]
           T == 0..(n - 1)
<1>1. S \subseteq Blocks /\ \A x, y \in S : Height[x] = Height[y] => x = y
  BY ChainFacts DEF ChainOK
<1>2. IsFiniteSet(S) /\ n \in Nat
  BY <1>1, DownloadAssumption, FS_Subset, FS_CardinalityType
<1>3. \A x \in S : Height[x] \in Nat
  BY <1>1, TreeFacts
<1>4. \A x \in S : IsFiniteSet(Lower(x)) /\ Cardinality(Lower(x)) \in Nat
  BY <1>2, FS_Subset, FS_CardinalityType
<1>5. ASSUME NEW x \in S PROVE Cardinality(Lower(x)) \in T
  <2>1. Cardinality(S \ {x}) = n - 1 /\ IsFiniteSet(S \ {x})
    BY <1>2, FS_RemoveElement
  <2>2. Lower(x) \subseteq S \ {x}
    BY <1>3
  <2>3. Cardinality(Lower(x)) <= Cardinality(S \ {x})
    <3> HIDE DEF Lower, n
    <3> QED BY <2>1, <2>2, FS_Subset
  <2>4. QED
    BY <1>2, <1>4, <2>1, <2>3
<1>6. ASSUME NEW x \in S, NEW y \in S, Height[x] < Height[y]
      PROVE  Cardinality(Lower(x)) < Cardinality(Lower(y))
  <2>1. x \notin Lower(x) /\ Lower(x) \cup {x} \subseteq Lower(y)
    BY <1>3, <1>6
  <2>2. Cardinality(Lower(x) \cup {x}) = Cardinality(Lower(x)) + 1
    <3> HIDE DEF Lower
    <3> QED BY <1>4, <2>1, FS_AddElement
  <2>3. Cardinality(Lower(x) \cup {x}) <= Cardinality(Lower(y))
    <3> HIDE DEF Lower
    <3> QED BY <1>4, <2>1, FS_Subset
  <2>4. QED
    BY <1>4, <2>2, <2>3
<1>7. \A x, y \in S : Cardinality(Lower(x)) = Cardinality(Lower(y)) => x = y
  <2> SUFFICES ASSUME NEW x \in S, NEW y \in S, x # y
               PROVE  Cardinality(Lower(x)) # Cardinality(Lower(y))
    OBVIOUS
  <2>1. Height[x] < Height[y] \/ Height[y] < Height[x]
    BY <1>1, <1>3
  <2> HIDE DEF Lower
  <2>2. Cardinality(Lower(x)) \in Nat /\ Cardinality(Lower(y)) \in Nat
    BY <1>4
  <2>3. QED
    BY <1>6, <2>1, <2>2
<1> HIDE DEF Lower, n
<1>8. rank \in Injection(S, T)
  BY <1>5, <1>7 DEF Injection, IsInjective
<1>9. IsFiniteSet(T) /\ Cardinality(T) = n
  BY <1>2, FS_Interval
<1>10. rank \in Surjection(S, T)
  <2> HIDE DEF rank, T
  <2> QED BY <1>2, <1>8, <1>9, FS_Injection DEF n
<1>11. \A k \in T : \E x \in S : Cardinality(Lower(x)) = k
  BY <1>10 DEF Surjection
<1> DEFINE At(i) == CHOOSE x \in S : Cardinality({y \in S : Height[y] < Height[x]}) = i - 1
<1>12. ASSUME NEW i \in 1..n PROVE At(i) \in S
  <2>1. i - 1 \in T
    BY <1>2
  <2>2. \E x \in S : Cardinality({y \in S : Height[y] < Height[x]}) = i - 1
    BY <1>11, <2>1 DEF Lower
  <2>3. QED
    BY <2>2
<1>13. Ascending(S) = [i \in 1..n |-> At(i)]
  BY DEF Ascending, n
<1> HIDE DEF At
<1>14. Ascending(S) \in [1..n -> S]
  BY <1>12, <1>13
<1>15. Ascending(S) \in Seq(S) /\ Len(Ascending(S)) = n
  BY <1>2, <1>14
<1>16. QED
  BY <1>2, <1>15 DEF n

\* A part of a chain that is not empty has a highest block.
LEMMA HighestIn ==
  ASSUME NEW b \in Blocks, NEW S \in SUBSET Chain[b], S # {}
  PROVE  Highest(S) \in S
<1> DEFINE H == {Height[b] - Height[x] : x \in S}
<1>1. \A x \in S : x \in Blocks /\ Height[x] \in Nat /\ Height[b] \in Nat /\ Height[x] <= Height[b]
  BY ChainFacts, TreeFacts DEF ChainOK
<1>2. H \in SUBSET Nat /\ H # {}
  BY <1>1
<1>3. PICK h \in H : \A y \in H : h <= y
  <2> HIDE DEF H
  <2> QED BY <1>2, Least
<1>4. PICK x \in S : h = Height[b] - Height[x]
  OBVIOUS
<1>5. \A y \in S : h <= Height[b] - Height[y]
  BY <1>3
<1>6. \A y \in S : Height[y] <= Height[x]
  BY <1>1, <1>4, <1>5
<1>7. QED
  BY <1>6 DEF Highest

-----------------------------------------------------------------------------
(* The tables of requests, as a condition on one value of dl.              *)

\* The list of a peer holds the blocks B, each once.
ListOK(bs, B) == /\ \A i, j \in DOMAIN bs : bs[i].hash = bs[j].hash => i = j
                 /\ {bs[i].hash : i \in DOMAIN bs} = B

RequestedIn(d, p) == {b \in DOMAIN d.inFlight : d.inFlight[b] = p}
Busy(d) == {p \in DOMAIN d.node : d.node[p].blocks # <<>>}

PeerOK(d, p) == /\ ListOK(d.node[p].blocks, RequestedIn(d, p))
                /\ d.node[p].n = Len(d.node[p].blocks)
                /\ d.node[p].nValid = Len(d.node[p].blocks)
                /\ d.node[p].stalling => d.node[p].blocks # <<>>

Good(d) == /\ IsDownloads(d) /\ IsFiniteSet(DOMAIN d.node)
           /\ \A b \in DOMAIN d.inFlight : d.inFlight[b] \in DOMAIN d.node
           /\ \A p \in DOMAIN d.node : PeerOK(d, p)
           /\ d.nPeers = Cardinality(Busy(d))

\* No block goes from one peer to another.
Kept(d, e) == \A b \in DOMAIN d.inFlight \cap DOMAIN e.inFlight :
                e.inFlight[b] = d.inFlight[b]

\* What the type says of the fields.
LEMMA DownloadsFields ==
  ASSUME NEW d, IsDownloads(d)
  PROVE  /\ d.node \in [DOMAIN d.node -> NodeState] /\ DOMAIN d.node \subseteq Peers
         /\ d.inFlight \in [DOMAIN d.inFlight -> Peers] /\ DOMAIN d.inFlight \subseteq Blocks
         /\ d.nPeers \in Nat
         /\ d = [node |-> d.node, inFlight |-> d.inFlight, nPeers |-> d.nPeers]
BY DEF IsDownloads

\* The converse.
LEMMA DownloadsIntro ==
  ASSUME NEW A \in SUBSET Peers, NEW nd \in [A -> NodeState],
         NEW B \in SUBSET Blocks, NEW fl \in [B -> Peers], NEW np \in Nat
  PROVE  IsDownloads([node |-> nd, inFlight |-> fl, nPeers |-> np])
BY DEF IsDownloads

\* The entry of a block is found at its place.
LEMMA PositionIn ==
  ASSUME NEW bs \in Seq(Request), NEW B, ListOK(bs, B), NEW b \in B
  PROVE  Position(bs, b) \in 1..Len(bs) /\ bs[Position(bs, b)].hash = b
<1>1. \E i \in DOMAIN bs : bs[i].hash = b
  BY DEF ListOK
<1>2. Position(bs, b) \in DOMAIN bs /\ bs[Position(bs, b)].hash = b
  BY <1>1 DEF Position
<1>3. QED
  BY <1>2

\* MarkBlockAsReceived takes one entry off a list.
LEMMA ListErase ==
  ASSUME NEW bs \in Seq(Request), NEW B, ListOK(bs, B), NEW b \in B
  PROVE  /\ RemoveAt(bs, Position(bs, b)) \in Seq(Request)
         /\ Len(RemoveAt(bs, Position(bs, b))) = Len(bs) - 1
         /\ ListOK(RemoveAt(bs, Position(bs, b)), B \ {b})
         /\ Len(bs) \in Nat \ {0}
<1> DEFINE k == Position(bs, b)
           r == RemoveAt(bs, k)
<1>1. k \in 1..Len(bs) /\ bs[k].hash = b
  BY PositionIn
<1> HIDE DEF k
<1>2. /\ r \in Seq(Request) /\ Len(r) = Len(bs) - 1
      /\ \A i \in 1..(Len(bs) - 1) : r[i] = IF i < k THEN bs[i] ELSE bs[i + 1]
  BY <1>1, RemoveAtSpec
<1> HIDE DEF r
<1>3. Len(bs) \in Nat /\ k \in Nat /\ 1 <= k /\ k <= Len(bs)
  BY <1>1
<1>4. DOMAIN bs = 1..Len(bs) /\ DOMAIN r = 1..(Len(bs) - 1)
  BY <1>2, <1>3
<1> DEFINE from(i) == IF i < k THEN i ELSE i + 1
<1>5. \A i \in DOMAIN r : from(i) \in DOMAIN bs /\ from(i) # k /\ r[i] = bs[from(i)]
  BY <1>2, <1>3, <1>4
<1>6. \A i, j \in DOMAIN r : from(i) = from(j) => i = j
  BY <1>3, <1>4
<1>7. \A m \in DOMAIN bs : m # k => \E i \in DOMAIN r : from(i) = m
  <2> SUFFICES ASSUME NEW m \in DOMAIN bs, m # k PROVE \E i \in DOMAIN r : from(i) = m
    OBVIOUS
  <2>1. CASE m < k
    <3>1. m \in DOMAIN r /\ from(m) = m
      BY <1>3, <1>4, <2>1
    <3>2. QED
      BY <3>1
  <2>2. CASE m > k
    <3>1. m - 1 \in DOMAIN r /\ from(m - 1) = m
      BY <1>3, <1>4, <2>2
    <3>2. QED
      BY <3>1
  <2>3. QED
    BY <1>3, <1>4, <2>1, <2>2
<1> HIDE DEF from
<1>8. \A i, j \in DOMAIN bs : bs[i].hash = bs[j].hash => i = j
  BY DEF ListOK
<1>9. {bs[i].hash : i \in DOMAIN bs} = B
  BY DEF ListOK
<1>10. \A i, j \in DOMAIN r : r[i].hash = r[j].hash => i = j
  BY <1>5, <1>6, <1>8
<1>11. k \in DOMAIN bs
  BY <1>3, <1>4
<1>12. {r[i].hash : i \in DOMAIN r} = B \ {b}
  <2>1. ASSUME NEW i \in DOMAIN r PROVE r[i].hash \in B \ {b}
    <3>1. r[i].hash \in B
      BY <1>5, <1>9
    <3>2. r[i].hash # b
      BY <1>1, <1>5, <1>8, <1>11
    <3>3. QED
      BY <3>1, <3>2
  <2>2. ASSUME NEW x \in B \ {b} PROVE \E i \in DOMAIN r : r[i].hash = x
    <3>1. PICK m \in DOMAIN bs : bs[m].hash = x
      BY <1>9
    <3>2. m # k
      BY <1>1, <3>1
    <3>3. PICK i \in DOMAIN r : from(i) = m
      BY <1>7, <3>2
    <3>4. QED
      BY <1>5, <3>1, <3>3
  <2>3. QED
    BY <2>1, <2>2
<1>13. ListOK(r, B \ {b})
  BY <1>10, <1>12 DEF ListOK
<1>14. QED
  BY <1>2, <1>3, <1>13 DEF k, r

\* MarkBlockAsInFlight puts a block at the end of a list it is not on.
LEMMA ListAppend ==
  ASSUME NEW bs \in Seq(Request), NEW B, ListOK(bs, B), NEW q \in Request, q.hash \notin B
  PROVE  /\ Append(bs, q) \in Seq(Request) /\ Len(Append(bs, q)) = Len(bs) + 1
         /\ ListOK(Append(bs, q), B \cup {q.hash}) /\ Append(bs, q) # <<>>
<1> DEFINE a == Append(bs, q)
<1>1. a \in Seq(Request) /\ Len(a) = Len(bs) + 1 /\ Len(bs) \in Nat
  OBVIOUS
<1>2. DOMAIN bs = 1..Len(bs) /\ DOMAIN a = 1..(Len(bs) + 1)
  BY <1>1
<1>3. \A i \in DOMAIN bs : i \in DOMAIN a /\ a[i] = bs[i]
  BY <1>1, <1>2
<1>4. Len(bs) + 1 \in DOMAIN a /\ a[Len(bs) + 1] = q
  BY <1>1, <1>2
<1>5. \A i \in DOMAIN a : i \in DOMAIN bs \/ i = Len(bs) + 1
  BY <1>1, <1>2
<1> HIDE DEF a
<1>6. {bs[i].hash : i \in DOMAIN bs} = B /\ \A i, j \in DOMAIN bs : bs[i].hash = bs[j].hash => i = j
  BY DEF ListOK
<1>7. \A i \in DOMAIN bs : bs[i].hash # q.hash
  BY <1>6
<1>8. \A i, j \in DOMAIN a : a[i].hash = a[j].hash => i = j
  BY <1>3, <1>4, <1>5, <1>6, <1>7
<1>9. {a[i].hash : i \in DOMAIN a} = B \cup {q.hash}
  <2>1. \A i \in DOMAIN a : a[i].hash \in B \cup {q.hash}
    BY <1>3, <1>4, <1>5, <1>6
  <2>2. \A x \in B : \E i \in DOMAIN a : a[i].hash = x
    BY <1>3, <1>6
  <2>3. QED
    BY <1>4, <2>1, <2>2
<1>10. a # <<>>
  BY <1>1
<1>11. QED
  BY <1>1, <1>8, <1>9, <1>10 DEF ListOK, a

-----------------------------------------------------------------------------
(* MarkBlockAsReceived and MarkBlockAsInFlight.                            *)

\* What a peer's state and mapBlocksInFlight are after a block was received.
LEMMA ReceivedShape ==
  ASSUME NEW d, Good(d), NEW b \in DOMAIN d.inFlight
  PROVE  LET p == d.inFlight[b]
             e == MarkBlockAsReceived(d, b)
         IN /\ p \in DOMAIN d.node /\ d.node[p] \in NodeState
            /\ DOMAIN e.node = DOMAIN d.node /\ e.node \in [DOMAIN d.node -> NodeState]
            /\ \A q \in DOMAIN d.node \ {p} : e.node[q] = d.node[q]
            /\ Len(d.node[p].blocks) \in Nat \ {0}
            /\ e.node[p].blocks \in Seq(Request)
            /\ Len(e.node[p].blocks) = Len(d.node[p].blocks) - 1
            /\ ListOK(e.node[p].blocks, RequestedIn(d, p) \ {b})
            /\ e.node[p].n = d.node[p].n - 1 /\ e.node[p].nValid = d.node[p].nValid - 1
            /\ e.node[p].stalling = FALSE
            /\ e.inFlight = [x \in DOMAIN d.inFlight \ {b} |-> d.inFlight[x]]
            /\ e.nPeers = IF d.node[p].nValid = 1 THEN d.nPeers - 1 ELSE d.nPeers
            /\ e = [node |-> e.node, inFlight |-> e.inFlight, nPeers |-> e.nPeers]
<1> DEFINE p == d.inFlight[b]
           e == MarkBlockAsReceived(d, b)
           bs == d.node[p].blocks
           r == RemoveAt(bs, Position(bs, b))
           new == [d.node[p] EXCEPT !.blocks = r, !.n = @ - 1, !.nValid = @ - 1,
                                    !.stalling = FALSE]
<1>1. IsDownloads(d) /\ p \in DOMAIN d.node /\ PeerOK(d, p)
  BY DEF Good
<1>2. d.node \in [DOMAIN d.node -> NodeState] /\ d.node[p] \in NodeState
  BY <1>1, DownloadsFields
<1>3. /\ bs \in Seq(Request) /\ ListOK(bs, RequestedIn(d, p))
      /\ d.node[p].n = Len(bs) /\ d.node[p].nValid = Len(bs)
  BY <1>1, <1>2 DEF PeerOK, NodeState
<1>4. b \in RequestedIn(d, p)
  BY DEF RequestedIn
<1>5. /\ r \in Seq(Request) /\ Len(r) = Len(bs) - 1 /\ Len(bs) \in Nat \ {0}
      /\ ListOK(r, RequestedIn(d, p) \ {b})
  <2> HIDE DEF p, bs
  <2> QED BY <1>3, <1>4, ListErase
<1>6. e = [node |-> [d.node EXCEPT ![p] = new],
           inFlight |-> [x \in DOMAIN d.inFlight \ {b} |-> d.inFlight[x]],
           nPeers |-> IF d.node[p].nValid = 1 THEN d.nPeers - 1 ELSE d.nPeers]
  BY DEF MarkBlockAsReceived, Erased, Without, Restrict
<1> HIDE DEF r
<1>7. /\ new \in NodeState
      /\ new.blocks = r /\ new.n = d.node[p].n - 1 /\ new.nValid = d.node[p].nValid - 1
      /\ new.stalling = FALSE
  <2>1. d.node[p].n - 1 \in Nat /\ d.node[p].nValid - 1 \in Nat
    BY <1>3, <1>5
  <2> HIDE DEF p
  <2>2. QED
    BY <1>2, <1>5, <2>1 DEF NodeState
<1> HIDE DEF new, e
<1>8. /\ DOMAIN e.node = DOMAIN d.node /\ e.node \in [DOMAIN d.node -> NodeState]
      /\ e.node[p] = new /\ \A q \in DOMAIN d.node \ {p} : e.node[q] = d.node[q]
  BY <1>1, <1>2, <1>6, <1>7
<1>9. /\ e.inFlight = [x \in DOMAIN d.inFlight \ {b} |-> d.inFlight[x]]
      /\ e.nPeers = IF d.node[p].nValid = 1 THEN d.nPeers - 1 ELSE d.nPeers
      /\ e = [node |-> e.node, inFlight |-> e.inFlight, nPeers |-> e.nPeers]
  BY <1>6
<1>10. QED
  BY <1>1, <1>2, <1>5, <1>7, <1>8, <1>9 DEF e

\* MarkBlockAsReceived keeps the tables in agreement; the block is in flight no
\* longer, and nothing else changes hands.
LEMMA ReceivedGood ==
  ASSUME NEW d, Good(d), NEW b
  PROVE  LET e == MarkBlockAsReceived(d, b)
         IN /\ Good(e) /\ Kept(d, e) /\ DOMAIN e.node = DOMAIN d.node
            /\ DOMAIN e.inFlight = DOMAIN d.inFlight \ {b}
            /\ \A q \in DOMAIN d.node : Len(e.node[q].blocks) <= Len(d.node[q].blocks)
<1>0. IsDownloads(d) /\ \A q \in DOMAIN d.node : d.node[q] \in NodeState
  BY DownloadsFields DEF Good
<1>1. \A q \in DOMAIN d.node : d.node[q].blocks \in Seq(Request) /\ Len(d.node[q].blocks) \in Nat
  BY <1>0 DEF NodeState
<1>2. CASE b \notin DOMAIN d.inFlight
  <2>1. MarkBlockAsReceived(d, b) = d
    BY <1>2 DEF MarkBlockAsReceived
  <2>2. QED
    BY <1>1, <1>2, <2>1 DEF Kept
<1>3. CASE b \in DOMAIN d.inFlight
  <2> DEFINE p == d.inFlight[b]
             e == MarkBlockAsReceived(d, b)
  <2>1. /\ p \in DOMAIN d.node /\ d.node[p] \in NodeState
        /\ DOMAIN e.node = DOMAIN d.node /\ e.node \in [DOMAIN d.node -> NodeState]
        /\ \A q \in DOMAIN d.node \ {p} : e.node[q] = d.node[q]
        /\ Len(d.node[p].blocks) \in Nat \ {0}
        /\ e.node[p].blocks \in Seq(Request)
        /\ Len(e.node[p].blocks) = Len(d.node[p].blocks) - 1
        /\ ListOK(e.node[p].blocks, RequestedIn(d, p) \ {b})
        /\ e.node[p].n = d.node[p].n - 1 /\ e.node[p].nValid = d.node[p].nValid - 1
        /\ e.node[p].stalling = FALSE
        /\ e.inFlight = [x \in DOMAIN d.inFlight \ {b} |-> d.inFlight[x]]
        /\ e.nPeers = IF d.node[p].nValid = 1 THEN d.nPeers - 1 ELSE d.nPeers
        /\ e = [node |-> e.node, inFlight |-> e.inFlight, nPeers |-> e.nPeers]
    BY <1>3, ReceivedShape
  <2> HIDE DEF e
  <2>2. \A q \in DOMAIN d.node : PeerOK(d, q)
    BY DEF Good
  <2>3. RequestedIn(e, p) = RequestedIn(d, p) \ {b}
    BY <1>3, <2>1 DEF RequestedIn
  <2>4. \A q \in DOMAIN d.node \ {p} : RequestedIn(e, q) = RequestedIn(d, q)
    BY <1>3, <2>1 DEF RequestedIn
  <2>5. ASSUME NEW q \in DOMAIN d.node PROVE PeerOK(e, q)
    <3>1. CASE q = p
      <4>1. d.node[p].n = Len(d.node[p].blocks) /\ d.node[p].nValid = Len(d.node[p].blocks)
        BY <2>1, <2>2 DEF PeerOK
      <4>2. QED
        BY <2>1, <2>3, <3>1, <4>1 DEF PeerOK
    <3>2. CASE q # p
      <4>1. e.node[q] = d.node[q] /\ RequestedIn(e, q) = RequestedIn(d, q)
        BY <2>1, <2>4, <3>2
      <4>2. QED
        BY <2>2, <4>1 DEF PeerOK
    <3>3. QED
      BY <3>1, <3>2
  <2>6. e.nPeers = Cardinality(Busy(e)) /\ e.nPeers \in Nat
    <3>1. IsFiniteSet(Busy(d)) /\ d.nPeers = Cardinality(Busy(d)) /\ Cardinality(Busy(d)) \in Nat
      BY FS_Subset, FS_CardinalityType DEF Good, Busy
    <3>2. p \in Busy(d) /\ d.node[p].nValid = Len(d.node[p].blocks)
      BY <2>1, <2>2 DEF Busy, PeerOK
    <3>3. Cardinality(Busy(d) \ {p}) = Cardinality(Busy(d)) - 1 /\ Cardinality(Busy(d) \ {p}) \in Nat
      BY <3>1, <3>2, FS_RemoveElement, FS_CardinalityType
    <3>4. e.node[p].blocks = <<>> <=> d.node[p].nValid = 1
      <4>1. e.node[p].blocks = <<>> <=> Len(e.node[p].blocks) = 0
        BY <2>1, EmptySeq
      <4>2. QED
        BY <2>1, <3>2, <4>1
    <3>5. CASE d.node[p].nValid = 1
      <4>1. Busy(e) = Busy(d) \ {p}
        BY <2>1, <3>4, <3>5 DEF Busy
      <4>2. QED
        BY <2>1, <3>1, <3>3, <3>5, <4>1
    <3>6. CASE d.node[p].nValid # 1
      <4>1. Busy(e) = Busy(d)
        BY <2>1, <3>2, <3>4, <3>6 DEF Busy
      <4>2. QED
        BY <2>1, <3>1, <3>6, <4>1
    <3>7. QED
      BY <3>5, <3>6
  <2>7. IsDownloads(e)
    <3>1. /\ DOMAIN d.node \in SUBSET Peers /\ DOMAIN d.inFlight \ {b} \in SUBSET Blocks
          /\ e.inFlight \in [DOMAIN d.inFlight \ {b} -> Peers]
      BY <1>0, <2>1, DownloadsFields
    <3>2. IsDownloads([node |-> e.node, inFlight |-> e.inFlight, nPeers |-> e.nPeers])
      BY <2>1, <2>6, <3>1, DownloadsIntro
    <3>3. QED
      BY <2>1, <3>2
  <2>8. \A x \in DOMAIN e.inFlight : e.inFlight[x] \in DOMAIN e.node
    BY <2>1 DEF Good
  <2>9. IsFiniteSet(DOMAIN e.node)
    BY <2>1 DEF Good
  <2>10. Good(e)
    BY <2>1, <2>5, <2>6, <2>7, <2>8, <2>9 DEF Good
  <2>11. Kept(d, e) /\ DOMAIN e.inFlight = DOMAIN d.inFlight \ {b}
    BY <2>1 DEF Kept
  <2>12. \A q \in DOMAIN d.node : Len(e.node[q].blocks) <= Len(d.node[q].blocks)
    BY <1>1, <2>1
  <2>13. QED
    BY <2>1, <2>10, <2>11, <2>12 DEF e
<1>4. QED
  BY <1>2, <1>3

\* What is added when a block that is not in flight is asked from p.
Asks(r, p, b) ==
  [node |-> [r.node EXCEPT ![p].blocks = Append(@, [hash |-> b, partial |-> "none"]),
                           ![p].n = @ + 1, ![p].nValid = @ + 1],
   inFlight |-> [x \in DOMAIN r.inFlight \cup {b} |-> IF x = b THEN p ELSE r.inFlight[x]],
   nPeers |-> IF r.node[p].nValid = 0 THEN r.nPeers + 1 ELSE r.nPeers]

\* Asking for a block that is not in flight keeps the tables in agreement.
LEMMA AsksGood ==
  ASSUME NEW d, Good(d), NEW p \in DOMAIN d.node, NEW b \in Blocks, b \notin DOMAIN d.inFlight
  PROVE  LET e == Asks(d, p, b)
         IN /\ Good(e) /\ DOMAIN e.node = DOMAIN d.node
            /\ DOMAIN e.inFlight = DOMAIN d.inFlight \cup {b} /\ e.inFlight[b] = p
            /\ \A x \in DOMAIN d.inFlight : e.inFlight[x] = d.inFlight[x]
            /\ \A q \in DOMAIN d.node \ {p} : e.node[q] = d.node[q]
            /\ Len(e.node[p].blocks) = Len(d.node[p].blocks) + 1
<1> DEFINE e == Asks(d, p, b)
           item == [hash |-> b, partial |-> "none"]
           bs == d.node[p].blocks
           a == Append(bs, item)
           new == [d.node[p] EXCEPT !.blocks = a, !.n = @ + 1, !.nValid = @ + 1]
<1>1. IsDownloads(d) /\ IsFiniteSet(DOMAIN d.node) /\ \A q \in DOMAIN d.node : PeerOK(d, q)
  BY DEF Good
<1>2. d.node \in [DOMAIN d.node -> NodeState] /\ d.node[p] \in NodeState /\ p \in Peers
  BY <1>1, DownloadsFields
<1>3. /\ bs \in Seq(Request) /\ ListOK(bs, RequestedIn(d, p)) /\ Len(bs) \in Nat
      /\ d.node[p].n = Len(bs) /\ d.node[p].nValid = Len(bs)
  BY <1>1, <1>2 DEF PeerOK, NodeState
<1>4. item \in Request /\ item.hash = b /\ b \notin RequestedIn(d, p)
  BY DEF Request, RequestedIn
<1>5. /\ a \in Seq(Request) /\ Len(a) = Len(bs) + 1 /\ a # <<>>
      /\ ListOK(a, RequestedIn(d, p) \cup {b})
  <2> HIDE DEF bs, item
  <2> QED BY <1>3, <1>4, ListAppend
<1>6. e = [node |-> [d.node EXCEPT ![p] = new],
           inFlight |-> [x \in DOMAIN d.inFlight \cup {b} |->
                           IF x = b THEN p ELSE d.inFlight[x]],
           nPeers |-> IF d.node[p].nValid = 0 THEN d.nPeers + 1 ELSE d.nPeers]
  BY DEF Asks
<1> HIDE DEF a
<1>7. /\ new \in NodeState
      /\ new.blocks = a /\ new.n = d.node[p].n + 1 /\ new.nValid = d.node[p].nValid + 1
  <2>1. d.node[p].n + 1 \in Nat /\ d.node[p].nValid + 1 \in Nat
    BY <1>3
  <2>2. QED
    BY <1>2, <1>5, <2>1 DEF NodeState
<1> HIDE DEF new, e
<1>8. /\ DOMAIN e.node = DOMAIN d.node /\ e.node \in [DOMAIN d.node -> NodeState]
      /\ e.node[p] = new /\ \A q \in DOMAIN d.node \ {p} : e.node[q] = d.node[q]
  BY <1>2, <1>6, <1>7
<1>9. /\ e.inFlight = [x \in DOMAIN d.inFlight \cup {b} |-> IF x = b THEN p ELSE d.inFlight[x]]
      /\ e.nPeers = IF d.node[p].nValid = 0 THEN d.nPeers + 1 ELSE d.nPeers
      /\ e = [node |-> e.node, inFlight |-> e.inFlight, nPeers |-> e.nPeers]
  BY <1>6
<1>10. /\ DOMAIN e.inFlight = DOMAIN d.inFlight \cup {b} /\ e.inFlight[b] = p
       /\ \A x \in DOMAIN d.inFlight : e.inFlight[x] = d.inFlight[x]
  BY <1>9
<1>11. RequestedIn(e, p) = RequestedIn(d, p) \cup {b}
  BY <1>10 DEF RequestedIn
<1>12. \A q \in DOMAIN d.node \ {p} : RequestedIn(e, q) = RequestedIn(d, q)
  BY <1>10 DEF RequestedIn
<1>13. ASSUME NEW q \in DOMAIN d.node PROVE PeerOK(e, q)
  <2>1. CASE q = p
    BY <1>3, <1>5, <1>7, <1>8, <1>11, <2>1 DEF PeerOK
  <2>2. CASE q # p
    <3>1. e.node[q] = d.node[q] /\ RequestedIn(e, q) = RequestedIn(d, q)
      BY <1>8, <1>12, <2>2
    <3>2. QED
      BY <1>1, <3>1 DEF PeerOK
  <2>3. QED
    BY <2>1, <2>2
<1>14. e.nPeers = Cardinality(Busy(e)) /\ e.nPeers \in Nat
  <2>1. IsFiniteSet(Busy(d)) /\ d.nPeers = Cardinality(Busy(d)) /\ Cardinality(Busy(d)) \in Nat
    BY FS_Subset, FS_CardinalityType DEF Good, Busy
  <2>2. Busy(e) = Busy(d) \cup {p}
    BY <1>5, <1>7, <1>8 DEF Busy
  <2>3. p \in Busy(d) <=> d.node[p].nValid # 0
    <3>1. bs = <<>> <=> Len(bs) = 0
      BY <1>3, EmptySeq
    <3>2. QED
      BY <1>3, <3>1 DEF Busy
  <2>4. Cardinality(Busy(e)) = IF p \in Busy(d) THEN Cardinality(Busy(d)) ELSE Cardinality(Busy(d)) + 1
    BY <2>1, <2>2, FS_AddElement
  <2>5. QED
    BY <1>9, <2>1, <2>3, <2>4
<1>15. IsDownloads(e)
  <2>1. /\ DOMAIN d.node \in SUBSET Peers /\ DOMAIN d.inFlight \cup {b} \in SUBSET Blocks
        /\ e.inFlight \in [DOMAIN d.inFlight \cup {b} -> Peers]
    BY <1>1, <1>2, <1>9, DownloadsFields
  <2>2. IsDownloads([node |-> e.node, inFlight |-> e.inFlight, nPeers |-> e.nPeers])
    BY <1>8, <1>14, <2>1, DownloadsIntro
  <2>3. QED
    BY <1>9, <2>2
<1>16. \A x \in DOMAIN e.inFlight : e.inFlight[x] \in DOMAIN e.node
  BY <1>8, <1>10 DEF Good
<1>17. Good(e)
  BY <1>1, <1>8, <1>13, <1>14, <1>15, <1>16 DEF Good
<1>18. QED
  BY <1>5, <1>7, <1>8, <1>10, <1>17 DEF e

\* MarkBlockAsInFlight keeps the tables in agreement, for a block in flight from
\* another peer too: that one loses its entry.
LEMMA InFlightGood ==
  ASSUME NEW d, Good(d), NEW p \in DOMAIN d.node, NEW b \in Blocks
  PROVE  LET e == MarkBlockAsInFlight(d, p, b)
         IN /\ Good(e) /\ DOMAIN e.node = DOMAIN d.node
            /\ DOMAIN e.inFlight = DOMAIN d.inFlight \cup {b} /\ e.inFlight[b] = p
            /\ \A x \in DOMAIN d.inFlight \ {b} : e.inFlight[x] = d.inFlight[x]
            /\ \A q \in DOMAIN d.node \ {p} : Len(e.node[q].blocks) <= Len(d.node[q].blocks)
            /\ Len(e.node[p].blocks) <= Len(d.node[p].blocks) + 1
<1> DEFINE e == MarkBlockAsInFlight(d, p, b)
           r == MarkBlockAsReceived(d, b)
<1>1. \A q \in DOMAIN d.node : Len(d.node[q].blocks) \in Nat
  <2>1. \A q \in DOMAIN d.node : d.node[q] \in NodeState
    BY DownloadsFields DEF Good
  <2>2. QED
    BY <2>1 DEF NodeState
<1>2. CASE b \in DOMAIN d.inFlight /\ d.inFlight[b] = p
  <2>1. e = d
    BY <1>2 DEF MarkBlockAsInFlight
  <2>2. QED
    BY <1>1, <1>2, <2>1
<1>3. CASE ~(b \in DOMAIN d.inFlight /\ d.inFlight[b] = p)
  <2>1. e = Asks(r, p, b)
    BY <1>3 DEF MarkBlockAsInFlight, Asks
  <2>2. /\ Good(r) /\ Kept(d, r) /\ DOMAIN r.node = DOMAIN d.node
        /\ DOMAIN r.inFlight = DOMAIN d.inFlight \ {b}
        /\ \A q \in DOMAIN d.node : Len(r.node[q].blocks) <= Len(d.node[q].blocks)
    BY ReceivedGood
  <2> HIDE DEF e, r
  <2>3. /\ Good(e) /\ DOMAIN e.node = DOMAIN r.node
        /\ DOMAIN e.inFlight = DOMAIN r.inFlight \cup {b} /\ e.inFlight[b] = p
        /\ \A x \in DOMAIN r.inFlight : e.inFlight[x] = r.inFlight[x]
        /\ \A q \in DOMAIN r.node \ {p} : e.node[q] = r.node[q]
        /\ Len(e.node[p].blocks) = Len(r.node[p].blocks) + 1
    BY <2>1, <2>2, AsksGood
  <2>4. \A x \in DOMAIN d.inFlight \ {b} : e.inFlight[x] = d.inFlight[x]
    BY <2>2, <2>3 DEF Kept
  <2>5. \A q \in DOMAIN r.node : Len(r.node[q].blocks) \in Nat
    <3>1. \A q \in DOMAIN r.node : r.node[q] \in NodeState
      BY <2>2, DownloadsFields DEF Good
    <3>2. QED
      BY <3>1 DEF NodeState
  <2>6. Len(e.node[p].blocks) <= Len(d.node[p].blocks) + 1
    <3>1. Len(r.node[p].blocks) <= Len(d.node[p].blocks)
      BY <2>2
    <3>2. QED
      BY <1>1, <2>2, <2>3, <2>5, <3>1
  <2>7. QED
    BY <2>2, <2>3, <2>4, <2>6 DEF e
<1>4. QED
  BY <1>2, <1>3

\* The recursive function in MarkAll has a solution: MarkAll runs through the
\* states that the calls of MarkBlockAsInFlight make one after the other.
LEMMA MarkAllSteps ==
  ASSUME NEW d, NEW p, NEW bs, Len(bs) \in Nat
  PROVE  \E f : /\ f[0] = d /\ MarkAll(d, p, bs) = f[Len(bs)]
                /\ \A i \in 1..Len(bs) : f[i] = MarkBlockAsInFlight(f[i - 1], p, bs[i])
<1> DEFINE Solves(f, n) == f = [i \in 0..n |->
                                  IF i = 0 THEN d ELSE MarkBlockAsInFlight(f[i - 1], p, bs[i])]
           N == {n \in Nat : \E f : Solves(f, n)}
<1>1. 0 \in N
  <2>1. Solves([i \in 0..0 |-> d], 0)
    OBVIOUS
  <2>2. QED
    BY <2>1
<1>2. ASSUME NEW n \in N PROVE n + 1 \in N
  <2>1. PICK f : Solves(f, n)
    OBVIOUS
  <2> DEFINE last == MarkBlockAsInFlight(f[n], p, bs[n + 1])
             g == [i \in 0..(n + 1) |-> IF i = n + 1 THEN last ELSE f[i]]
  <2>2. n \in Nat
    OBVIOUS
  <2>3. \A i \in 0..n : f[i] = IF i = 0 THEN d ELSE MarkBlockAsInFlight(f[i - 1], p, bs[i])
    BY <2>1
  <2>4. \A i \in 0..n : g[i] = f[i]
    BY <2>2
  <2>5. g[n + 1] = last
    BY <2>2
  <2>6. g = [i \in 0..(n + 1) |-> g[i]]
    OBVIOUS
  <2>7. ASSUME NEW i \in 0..(n + 1)
        PROVE  g[i] = IF i = 0 THEN d ELSE MarkBlockAsInFlight(g[i - 1], p, bs[i])
    <3> HIDE DEF g
    <3>1. CASE i = n + 1
      <4>1. g[i - 1] = f[n] /\ i # 0
        BY <2>2, <2>4, <3>1
      <4>2. QED
        BY <2>5, <3>1, <4>1
    <3>2. CASE i # n + 1
      <4>1. i \in 0..n
        BY <2>2, <3>2
      <4>2. i # 0 => i - 1 \in 0..n
        BY <2>2, <4>1
      <4>3. g[i] = f[i] /\ (i # 0 => g[i - 1] = f[i - 1])
        BY <2>4, <4>1, <4>2
      <4>4. QED
        BY <2>3, <4>1, <4>3
    <3>3. QED
      BY <3>1, <3>2
  <2> HIDE DEF g
  <2>8. Solves(g, n + 1)
    BY <2>6, <2>7
  <2>9. n + 1 \in Nat /\ \E h : Solves(h, n + 1)
    <3> HIDE DEF Solves
    <3>1. n + 1 \in Nat
      BY <2>2
    <3>2. QED
      BY <2>8, <3>1
  <2>10. QED
    BY <2>9
<1> HIDE DEF N
<1>3. N = Nat
  <2>1. N \in SUBSET Nat
    BY DEF N
  <2>2. QED
    BY <1>1, <1>2, <2>1, SetInduction
<1>4. \E f : Solves(f, Len(bs))
  BY <1>3 DEF N
<1> DEFINE F == CHOOSE f : Solves(f, Len(bs))
<1>5. Solves(F, Len(bs))
  BY <1>4
<1>6. MarkAll(d, p, bs) = F[Len(bs)]
  BY DEF MarkAll
<1> HIDE DEF F
<1>7. \A i \in 0..Len(bs) : F[i] = IF i = 0 THEN d ELSE MarkBlockAsInFlight(F[i - 1], p, bs[i])
  BY <1>5
<1>8. F[0] = d
  BY <1>7
<1>9. \A i \in 1..Len(bs) : F[i] = MarkBlockAsInFlight(F[i - 1], p, bs[i])
  BY <1>7
<1>10. QED
  BY <1>6, <1>8, <1>9

\* After n calls of MarkBlockAsInFlight for p.
Marks(d, p, n, e, S) ==
  /\ Good(e) /\ DOMAIN e.node = DOMAIN d.node
  /\ DOMAIN d.inFlight \subseteq DOMAIN e.inFlight
  /\ \A x \in DOMAIN d.inFlight \ S : e.inFlight[x] = d.inFlight[x]
  /\ \A q \in DOMAIN d.node \ {p} : Len(e.node[q].blocks) <= Len(d.node[q].blocks)
  /\ Len(e.node[p].blocks) <= Len(d.node[p].blocks) + n

\* Asking p for a sequence of blocks keeps the tables in agreement, takes over no
\* block but those of the sequence, and makes no list but that of p longer.
LEMMA MarkAllGood ==
  ASSUME NEW d, Good(d), NEW p \in DOMAIN d.node, NEW S \in SUBSET Blocks, NEW bs \in Seq(S)
  PROVE  Marks(d, p, Len(bs), MarkAll(d, p, bs), S) /\ (bs = <<>> => MarkAll(d, p, bs) = d)
<1>1. Len(bs) \in Nat /\ \A i \in 1..Len(bs) : bs[i] \in S /\ bs[i] \in Blocks
  OBVIOUS
<1>2. PICK f : /\ f[0] = d /\ MarkAll(d, p, bs) = f[Len(bs)]
               /\ \A i \in 1..Len(bs) : f[i] = MarkBlockAsInFlight(f[i - 1], p, bs[i])
  BY <1>1, MarkAllSteps
<1>3. \A e : Good(e) => \A q \in DOMAIN e.node : Len(e.node[q].blocks) \in Nat
  <2> SUFFICES ASSUME NEW e, Good(e), NEW q \in DOMAIN e.node
               PROVE  Len(e.node[q].blocks) \in Nat
    OBVIOUS
  <2>1. e.node[q] \in NodeState
    BY DownloadsFields DEF Good
  <2>2. QED
    BY <2>1 DEF NodeState
<1> DEFINE N == {n \in Nat : n <= Len(bs) => Marks(d, p, n, f[n], S)}
<1>4. 0 \in N
  <2>1. \A q \in DOMAIN d.node : Len(d.node[q].blocks) \in Nat
    BY <1>3
  <2>2. QED
    BY <1>2, <2>1 DEF Marks
<1>5. ASSUME NEW n \in N PROVE n + 1 \in N
  <2> SUFFICES ASSUME n + 1 <= Len(bs) PROVE Marks(d, p, n + 1, f[n + 1], S)
    OBVIOUS
  <2>1. n \in Nat /\ n <= Len(bs) /\ n + 1 \in 1..Len(bs) /\ n + 1 - 1 = n
    BY <1>1
  <2>2. Marks(d, p, n, f[n], S)
    BY <2>1
  <2>3. f[n + 1] = MarkBlockAsInFlight(f[n], p, bs[n + 1])
    BY <1>2, <2>1
  <2>4. bs[n + 1] \in S /\ bs[n + 1] \in Blocks
    BY <1>1, <2>1
  <2> DEFINE e == f[n]
             g == f[n + 1]
             b == bs[n + 1]
  <2> HIDE DEF e, g, b, N
  <2>5. Good(e) /\ p \in DOMAIN e.node
    BY <2>2 DEF Marks, e
  <2>6. /\ Good(g) /\ DOMAIN g.node = DOMAIN e.node
        /\ DOMAIN g.inFlight = DOMAIN e.inFlight \cup {b} /\ g.inFlight[b] = p
        /\ \A x \in DOMAIN e.inFlight \ {b} : g.inFlight[x] = e.inFlight[x]
        /\ \A q \in DOMAIN e.node \ {p} : Len(g.node[q].blocks) <= Len(e.node[q].blocks)
        /\ Len(g.node[p].blocks) <= Len(e.node[p].blocks) + 1
    BY <2>3, <2>4, <2>5, InFlightGood DEF e, g, b
  <2>7. Marks(d, p, n, e, S)
    BY <2>2 DEF e
  <2>8. \A q \in DOMAIN d.node : /\ Len(d.node[q].blocks) \in Nat
                                 /\ Len(e.node[q].blocks) \in Nat /\ Len(g.node[q].blocks) \in Nat
    BY <1>3, <2>5, <2>6, <2>7 DEF Marks
  <2>9. \A q \in DOMAIN d.node \ {p} : Len(g.node[q].blocks) <= Len(d.node[q].blocks)
    <3> SUFFICES ASSUME NEW q \in DOMAIN d.node \ {p}
                 PROVE  Len(g.node[q].blocks) <= Len(d.node[q].blocks)
      OBVIOUS
    <3>1. /\ Len(g.node[q].blocks) <= Len(e.node[q].blocks)
          /\ Len(e.node[q].blocks) <= Len(d.node[q].blocks)
      BY <2>6, <2>7 DEF Marks
    <3>2. /\ Len(g.node[q].blocks) \in Nat /\ Len(e.node[q].blocks) \in Nat
          /\ Len(d.node[q].blocks) \in Nat
      BY <2>8
    <3>3. \A i, j, k \in Nat : i <= j /\ j <= k => i <= k
      OBVIOUS
    <3>4. QED
      BY <3>1, <3>2, <3>3, Zenon
  <2>10. Len(g.node[p].blocks) <= Len(d.node[p].blocks) + (n + 1)
    <3>1. Len(e.node[p].blocks) <= Len(d.node[p].blocks) + n
      BY <2>7 DEF Marks
    <3>2. /\ Len(g.node[p].blocks) \in Nat /\ Len(e.node[p].blocks) \in Nat
          /\ Len(d.node[p].blocks) \in Nat
      BY <2>8
    <3>3. Len(g.node[p].blocks) <= Len(e.node[p].blocks) + 1
      BY <2>6
    <3>4. \A i, j, k \in Nat : i <= j + 1 /\ j <= k + n => i <= k + (n + 1)
      BY <2>1
    <3>5. QED
      BY <3>1, <3>2, <3>3, <3>4, Zenon
  <2>11. \A x \in DOMAIN d.inFlight \ S : g.inFlight[x] = d.inFlight[x]
    BY <2>4, <2>6, <2>7 DEF Marks, b
  <2>12. DOMAIN g.node = DOMAIN d.node /\ DOMAIN d.inFlight \subseteq DOMAIN g.inFlight
    BY <2>6, <2>7 DEF Marks
  <2>13. Marks(d, p, n + 1, g, S)
    BY <2>6, <2>9, <2>10, <2>11, <2>12 DEF Marks
  <2>14. QED
    BY <2>13 DEF g
<1> HIDE DEF N
<1>6. N = Nat
  <2>1. N \in SUBSET Nat
    BY DEF N
  <2>2. QED
    BY <1>4, <1>5, <2>1, SetInduction
<1>7. Marks(d, p, Len(bs), f[Len(bs)], S)
  BY <1>1, <1>6 DEF N
<1>8. bs = <<>> => MarkAll(d, p, bs) = d
  BY <1>2
<1>9. QED
  BY <1>2, <1>7, <1>8

-----------------------------------------------------------------------------
(* The steps of the handlers on the tables.                                *)

Within(d) == \A p \in DOMAIN d.node : Len(d.node[p].blocks) <= MaxInTransit
Safe(d) == Good(d) /\ Within(d)

\* e has the requests of d, and maybe more.
Extends(d, e) == DOMAIN d.inFlight \subseteq DOMAIN e.inFlight /\ Kept(d, e)

ChainType == [index : SUBSET Blocks, data : SUBSET Blocks, failed : SUBSET Blocks, tip : Blocks]

\* The states of peers have their types, with lists as long as the counters say.
LEMMA NodeFacts ==
  ASSUME NEW d, Good(d), NEW p \in DOMAIN d.node
  PROVE  /\ p \in Peers /\ d.node[p] \in NodeState
         /\ d.node[p].blocks \in Seq(Request) /\ Len(d.node[p].blocks) \in Nat
         /\ d.node[p].n = Len(d.node[p].blocks) /\ d.node[p].n \in Nat
<1>1. d.node[p] \in NodeState /\ p \in Peers /\ PeerOK(d, p)
  BY DownloadsFields DEF Good
<1>2. d.node[p].blocks \in Seq(Request)
  BY <1>1 DEF NodeState
<1>3. QED
  BY <1>1, <1>2 DEF PeerOK

\* The state of one peer may change in everything but its requests.
SameRequests(old, new) ==
  /\ new \in NodeState
  /\ Len(new.blocks) = Len(old.blocks)
  /\ \A i \in DOMAIN new.blocks : new.blocks[i].hash = old.blocks[i].hash
  /\ new.n = old.n /\ new.nValid = old.nValid
  /\ new.stalling => old.stalling \/ old.blocks # <<>>

WithNode(d, p, st) == [d EXCEPT !.node[p] = st]

\* Such a change keeps the tables in agreement.
LEMMA NodeUpdate ==
  ASSUME NEW d, Safe(d), NEW p \in DOMAIN d.node, NEW st, SameRequests(d.node[p], st)
  PROVE  LET e == WithNode(d, p, st)
         IN /\ Safe(e) /\ Extends(d, e) /\ DOMAIN e.node = DOMAIN d.node
            /\ e.inFlight = d.inFlight /\ e.node[p] = st
<1> DEFINE old == d.node[p]
           e == WithNode(d, p, st)
<1>1. IsDownloads(d) /\ Good(d) /\ \A q \in DOMAIN d.node : PeerOK(d, q)
  BY DEF Safe, Good
<1>2. /\ d.node \in [DOMAIN d.node -> NodeState] /\ DOMAIN d.node \in SUBSET Peers
      /\ d.inFlight \in [DOMAIN d.inFlight -> Peers] /\ DOMAIN d.inFlight \in SUBSET Blocks
      /\ d.nPeers \in Nat
      /\ d = [node |-> d.node, inFlight |-> d.inFlight, nPeers |-> d.nPeers]
  BY <1>1, DownloadsFields
<1>3. e = [node |-> [d.node EXCEPT ![p] = st], inFlight |-> d.inFlight, nPeers |-> d.nPeers]
  BY <1>2 DEF WithNode
<1>4. st \in NodeState
  BY DEF SameRequests
<1> HIDE DEF e
<1>5. /\ e.node \in [DOMAIN d.node -> NodeState] /\ DOMAIN e.node = DOMAIN d.node
      /\ e.node[p] = st /\ \A q \in DOMAIN d.node \ {p} : e.node[q] = d.node[q]
      /\ e.inFlight = d.inFlight /\ e.nPeers = d.nPeers
      /\ e = [node |-> e.node, inFlight |-> e.inFlight, nPeers |-> e.nPeers]
  BY <1>2, <1>3, <1>4
<1>6. IsDownloads(e)
  BY <1>2, <1>5, DownloadsIntro
<1>7. old.blocks \in Seq(Request) /\ st.blocks \in Seq(Request)
  BY <1>2, <1>4 DEF NodeState
<1>8. DOMAIN old.blocks = DOMAIN st.blocks /\ (st.blocks = <<>> <=> old.blocks = <<>>)
  <2>1. Len(st.blocks) = Len(old.blocks)
    BY DEF SameRequests
  <2> HIDE DEF old
  <2>2. /\ st.blocks = <<>> <=> Len(st.blocks) = 0
        /\ old.blocks = <<>> <=> Len(old.blocks) = 0
    BY <1>7, EmptySeq
  <2>3. DOMAIN old.blocks = 1..Len(old.blocks) /\ DOMAIN st.blocks = 1..Len(st.blocks)
    BY <1>7, LenProperties
  <2>4. QED
    BY <2>1, <2>2, <2>3
<1>9. \A q \in DOMAIN d.node : RequestedIn(e, q) = RequestedIn(d, q)
  BY <1>5 DEF RequestedIn
<1>10. ASSUME NEW q \in DOMAIN d.node PROVE PeerOK(e, q)
  <2>1. CASE q = p
    <3>1. PeerOK(d, p)
      BY <1>1
    <3>2. \A i \in DOMAIN old.blocks : st.blocks[i].hash = old.blocks[i].hash
      BY <1>8 DEF SameRequests
    <3>3. ListOK(old.blocks, RequestedIn(d, p))
      BY <3>1 DEF PeerOK
    <3>4. ListOK(st.blocks, RequestedIn(d, p))
      <4> HIDE DEF old
      <4>1. {st.blocks[i].hash : i \in DOMAIN st.blocks} = {old.blocks[i].hash : i \in DOMAIN old.blocks}
        BY <1>8, <3>2
      <4>2. QED
        BY <1>8, <3>2, <3>3, <4>1 DEF ListOK
    <3>5. st.n = Len(st.blocks) /\ st.nValid = Len(st.blocks)
      BY <3>1 DEF PeerOK, SameRequests
    <3>6. st.stalling => st.blocks # <<>>
      BY <1>8, <3>1 DEF PeerOK, SameRequests
    <3>7. QED
      BY <1>5, <1>9, <2>1, <3>4, <3>5, <3>6 DEF PeerOK
  <2>2. CASE q # p
    <3>1. e.node[q] = d.node[q] /\ RequestedIn(e, q) = RequestedIn(d, q)
      BY <1>5, <1>9, <2>2
    <3>2. QED
      BY <1>1, <3>1 DEF PeerOK
  <2>3. QED
    BY <2>1, <2>2
<1>11. Busy(e) = Busy(d)
  BY <1>5, <1>8 DEF Busy
<1>12. Good(e)
  BY <1>1, <1>5, <1>6, <1>10, <1>11 DEF Good
<1>13. Within(e)
  <2>1. Len(st.blocks) = Len(old.blocks)
    BY DEF SameRequests
  <2>2. QED
    BY <1>5, <2>1 DEF Within, Safe
<1>14. Extends(d, e)
  BY <1>5 DEF Extends, Kept
<1>15. QED
  BY <1>5, <1>12, <1>13, <1>14 DEF Safe, e

\* The same for a received block.
LEMMA ReceivedSafe ==
  ASSUME NEW d, Safe(d), NEW b
  PROVE  LET e == MarkBlockAsReceived(d, b)
         IN Safe(e) /\ Kept(d, e) /\ DOMAIN e.node = DOMAIN d.node
<1> DEFINE e == MarkBlockAsReceived(d, b)
<1>1. /\ Good(e) /\ Kept(d, e) /\ DOMAIN e.node = DOMAIN d.node
      /\ \A q \in DOMAIN d.node : Len(e.node[q].blocks) <= Len(d.node[q].blocks)
  BY ReceivedGood DEF Safe
<1> HIDE DEF e
<1>2. ASSUME NEW q \in DOMAIN d.node PROVE Len(e.node[q].blocks) <= MaxInTransit
  <2>1. Len(e.node[q].blocks) \in Nat /\ Len(d.node[q].blocks) \in Nat /\ MaxInTransit \in Nat
    BY <1>1, NodeFacts, DownloadAssumption DEF Safe
  <2>2. Len(e.node[q].blocks) <= Len(d.node[q].blocks) /\ Len(d.node[q].blocks) <= MaxInTransit
    BY <1>1 DEF Safe, Within
  <2>3. \A i, j, k \in Nat : i <= j /\ j <= k => i <= k
    OBVIOUS
  <2>4. QED
    BY <2>1, <2>2, <2>3, Zenon
<1>3. QED
  BY <1>1, <1>2 DEF Safe, Within, e

\* The same for blocks that nobody was asked for, if p has room for them.
LEMMA MarkAllSafe ==
  ASSUME NEW d, Safe(d), NEW p \in DOMAIN d.node,
         NEW S \in SUBSET (Blocks \ DOMAIN d.inFlight), NEW bs \in Seq(S),
         Len(bs) <= MaxInTransit - Len(d.node[p].blocks)
  PROVE  LET e == MarkAll(d, p, bs)
         IN Safe(e) /\ Extends(d, e) /\ DOMAIN e.node = DOMAIN d.node
<1> DEFINE e == MarkAll(d, p, bs)
<1>1. Marks(d, p, Len(bs), e, S)
  BY MarkAllGood DEF Safe
<1> HIDE DEF e
<1>2. Good(e) /\ DOMAIN e.node = DOMAIN d.node
  BY <1>1 DEF Marks
<1>3. Extends(d, e)
  <2>1. \A x \in DOMAIN d.inFlight : x \notin S
    OBVIOUS
  <2>2. QED
    BY <1>1, <2>1 DEF Marks, Extends, Kept
<1>4. ASSUME NEW q \in DOMAIN d.node PROVE Len(e.node[q].blocks) <= MaxInTransit
  <2>1. Len(e.node[q].blocks) \in Nat /\ Len(d.node[q].blocks) \in Nat /\ MaxInTransit \in Nat
    BY <1>2, NodeFacts, DownloadAssumption DEF Safe
  <2>2. CASE q # p
    <3>1. Len(e.node[q].blocks) <= Len(d.node[q].blocks) /\ Len(d.node[q].blocks) <= MaxInTransit
      BY <1>1, <2>2 DEF Safe, Within, Marks
    <3>2. \A i, j, k \in Nat : i <= j /\ j <= k => i <= k
      OBVIOUS
    <3>3. QED
      BY <2>1, <3>1, <3>2, Zenon
  <2>3. CASE q = p
    <3>1. Len(e.node[p].blocks) <= Len(d.node[p].blocks) + Len(bs)
      BY <1>1 DEF Marks
    <3>2. Len(bs) \in Nat
      OBVIOUS
    <3>3. \A i, j, k, m \in Nat : i <= j + m /\ m <= k - j => i <= k
      OBVIOUS
    <3>4. QED
      BY <2>1, <2>3, <3>1, <3>2, <3>3, Zenon
  <2>4. QED
    BY <2>2, <2>3
<1>5. QED
  BY <1>2, <1>3, <1>4 DEF Safe, Within, e

\* The same for one block of a compact block: asked from p before, or by nobody
\* and p has room.
LEMMA InFlightSafe ==
  ASSUME NEW d, Safe(d), NEW p \in DOMAIN d.node, NEW b \in Blocks,
         IF b \in DOMAIN d.inFlight THEN d.inFlight[b] = p ELSE d.node[p].n < MaxInTransit
  PROVE  LET e == MarkBlockAsInFlight(d, p, b)
         IN /\ Safe(e) /\ Extends(d, e) /\ DOMAIN e.node = DOMAIN d.node
            /\ b \in DOMAIN e.inFlight /\ e.inFlight[b] = p
<1> DEFINE e == MarkBlockAsInFlight(d, p, b)
<1>1. CASE b \in DOMAIN d.inFlight
  <2>1. e = d
    BY <1>1 DEF MarkBlockAsInFlight
  <2>2. QED
    BY <1>1, <2>1 DEF Extends, Kept
<1>2. CASE b \notin DOMAIN d.inFlight
  <2>1. /\ Good(e) /\ DOMAIN e.node = DOMAIN d.node
        /\ DOMAIN e.inFlight = DOMAIN d.inFlight \cup {b} /\ e.inFlight[b] = p
        /\ \A x \in DOMAIN d.inFlight \ {b} : e.inFlight[x] = d.inFlight[x]
        /\ \A q \in DOMAIN d.node \ {p} : Len(e.node[q].blocks) <= Len(d.node[q].blocks)
        /\ Len(e.node[p].blocks) <= Len(d.node[p].blocks) + 1
    BY InFlightGood DEF Safe
  <2> HIDE DEF e
  <2>2. Extends(d, e)
    BY <1>2, <2>1 DEF Extends, Kept
  <2>3. ASSUME NEW q \in DOMAIN d.node PROVE Len(e.node[q].blocks) <= MaxInTransit
    <3>1. Len(e.node[q].blocks) \in Nat /\ Len(d.node[q].blocks) \in Nat /\ MaxInTransit \in Nat
      BY <2>1, NodeFacts, DownloadAssumption DEF Safe
    <3>2. CASE q # p
      <4>1. Len(e.node[q].blocks) <= Len(d.node[q].blocks) /\ Len(d.node[q].blocks) <= MaxInTransit
        BY <2>1, <3>2 DEF Safe, Within
      <4>2. \A i, j, k \in Nat : i <= j /\ j <= k => i <= k
        OBVIOUS
      <4>3. QED
        BY <3>1, <4>1, <4>2, Zenon
    <3>3. CASE q = p
      <4>1. Len(d.node[p].blocks) < MaxInTransit
        BY <1>2, NodeFacts DEF Safe
      <4>2. \A i, j, k \in Nat : i <= j + 1 /\ j < k => i <= k
        OBVIOUS
      <4>3. QED
        BY <2>1, <3>1, <3>3, <4>1, <4>2, Zenon
    <3>4. QED
      BY <3>2, <3>3
  <2>4. QED
    BY <2>1, <2>2, <2>3 DEF Safe, Within, e
<1>3. QED
  BY <1>1, <1>2

\* The better of two known blocks is one.
LEMMA BetterType ==
  ASSUME NEW old \in Blocks \cup {None}, NEW b \in Blocks
  PROVE  Better(old, b) \in Blocks
<1>1. old # None => old \in Blocks
  OBVIOUS
<1>2. QED
  BY <1>1 DEF Better

\* What a peer has announced does not touch its requests.
LEMMA AvailabilityFacts ==
  ASSUME NEW st \in NodeState, NEW index \in SUBSET Blocks
  PROVE  LET new == ProcessBlockAvailability(st, index)
         IN /\ new \in NodeState /\ new.blocks = st.blocks /\ new.n = st.n
            /\ new.nValid = st.nValid /\ new.stalling = st.stalling
<1>1. CASE st.unknown # None /\ st.unknown \in index
  <2>1. st.best \in Blocks \cup {None} /\ st.unknown \in Blocks
    BY <1>1 DEF NodeState
  <2>2. Better(st.best, st.unknown) \in Blocks
    BY <2>1, BetterType
  <2>3. ProcessBlockAvailability(st, index) =
          [st EXCEPT !.best = Better(@, st.unknown), !.unknown = None]
    BY <1>1 DEF ProcessBlockAvailability
  <2>4. QED
    BY <2>2, <2>3 DEF NodeState
<1>2. CASE ~(st.unknown # None /\ st.unknown \in index)
  BY <1>2 DEF ProcessBlockAvailability
<1>3. QED
  BY <1>1, <1>2

\* A state with the same lists and counters has the same requests.
LEMMA SameLists ==
  ASSUME NEW old \in NodeState, NEW new \in NodeState, new.blocks = old.blocks, new.n = old.n,
         new.nValid = old.nValid, new.stalling => old.stalling \/ old.blocks # <<>>
  PROVE  SameRequests(old, new)
BY DEF SameRequests

\* An announcement keeps the tables.
LEMMA UpdateSafe ==
  ASSUME NEW d, Safe(d), NEW p \in DOMAIN d.node, NEW b \in Blocks, NEW index \in SUBSET Blocks
  PROVE  LET e == UpdateBlockAvailability(d, p, b, index)
         IN /\ Safe(e) /\ Extends(d, e) /\ DOMAIN e.node = DOMAIN d.node
            /\ e.inFlight = d.inFlight
<1> DEFINE old == d.node[p]
           st == ProcessBlockAvailability(old, index)
           new == IF b \in index THEN [st EXCEPT !.best = Better(@, b)]
                  ELSE [st EXCEPT !.unknown = b]
<1>1. old \in NodeState
  BY NodeFacts DEF Safe
<1> HIDE DEF old
<1>2. /\ st \in NodeState /\ st.blocks = old.blocks /\ st.n = old.n
      /\ st.nValid = old.nValid /\ st.stalling = old.stalling
  BY <1>1, AvailabilityFacts
<1> HIDE DEF st
<1>3. /\ new \in NodeState /\ new.blocks = st.blocks /\ new.n = st.n
      /\ new.nValid = st.nValid /\ new.stalling = st.stalling
  <2>1. st.best \in Blocks \cup {None}
    BY <1>2 DEF NodeState
  <2>2. Better(st.best, b) \in Blocks
    BY <2>1, BetterType
  <2>3. QED
    BY <1>2, <2>2 DEF NodeState
<1> HIDE DEF new
<1>4. SameRequests(old, new)
  BY <1>1, <1>2, <1>3, SameLists
<1> DEFINE e == UpdateBlockAvailability(d, p, b, index)
<1>5. e = WithNode(d, p, new)
  BY DEF UpdateBlockAvailability, WithNode, new, st, old
<1> HIDE DEF e
<1>6. SameRequests(d.node[p], new)
  BY <1>4 DEF old
<1>7. /\ Safe(e) /\ Extends(d, e) /\ DOMAIN e.node = DOMAIN d.node
      /\ e.inFlight = d.inFlight
  BY <1>5, <1>6, NodeUpdate
<1>8. QED
  BY <1>7 DEF e

\* So does the mark for disconnection.
LEMMA DisconnectSafe ==
  ASSUME NEW d, Safe(d), NEW p \in DOMAIN d.node
  PROVE  LET e == [d EXCEPT !.node[p].disconnect = TRUE]
         IN /\ Safe(e) /\ Extends(d, e) /\ DOMAIN e.node = DOMAIN d.node
            /\ e.inFlight = d.inFlight
<1> DEFINE old == d.node[p]
           new == [old EXCEPT !.disconnect = TRUE]
<1>1. old \in NodeState
  BY NodeFacts DEF Safe
<1> HIDE DEF old
<1>2. /\ new \in NodeState /\ new.blocks = old.blocks /\ new.n = old.n
      /\ new.nValid = old.nValid /\ new.stalling = old.stalling
  BY <1>1 DEF NodeState
<1> HIDE DEF new
<1>3. SameRequests(old, new)
  BY <1>1, <1>2, SameLists
<1> DEFINE e == [d EXCEPT !.node[p].disconnect = TRUE]
<1>4. e = WithNode(d, p, new)
  BY DEF WithNode, new, old
<1> HIDE DEF e
<1>5. SameRequests(d.node[p], new)
  BY <1>3 DEF old
<1>6. /\ Safe(e) /\ Extends(d, e) /\ DOMAIN e.node = DOMAIN d.node
      /\ e.inFlight = d.inFlight
  BY <1>4, <1>5, NodeUpdate
<1>7. QED
  BY <1>6 DEF e

\* So does the start of the stalling timer of a peer that owes a block.
LEMMA StallingSafe ==
  ASSUME NEW d, Safe(d), NEW p \in DOMAIN d.node, d.node[p].blocks # <<>>
  PROVE  LET e == [d EXCEPT !.node[p].stalling = TRUE]
         IN Safe(e) /\ Extends(d, e) /\ DOMAIN e.node = DOMAIN d.node
<1> DEFINE old == d.node[p]
           new == [old EXCEPT !.stalling = TRUE]
<1>1. old \in NodeState /\ old.blocks # <<>>
  BY NodeFacts DEF Safe
<1> HIDE DEF old
<1>2. /\ new \in NodeState /\ new.blocks = old.blocks /\ new.n = old.n
      /\ new.nValid = old.nValid
  BY <1>1 DEF NodeState
<1> HIDE DEF new
<1>3. SameRequests(old, new)
  BY <1>1, <1>2, SameLists
<1> DEFINE e == [d EXCEPT !.node[p].stalling = TRUE]
<1>4. e = WithNode(d, p, new)
  BY DEF WithNode, new, old
<1> HIDE DEF e
<1>5. SameRequests(d.node[p], new)
  BY <1>3 DEF old
<1>6. /\ Safe(e) /\ Extends(d, e) /\ DOMAIN e.node = DOMAIN d.node
  BY <1>4, <1>5, NodeUpdate
<1>7. QED
  BY <1>6 DEF e

\* So does the state of a compact block on the list.
LEMMA PartialSafe ==
  ASSUME NEW d, Safe(d), NEW p \in DOMAIN d.node, NEW b, NEW v \in {"none", "waiting", "collided", "filled"}
  PROVE  LET e == SetPartial(d, p, b, v)
         IN Safe(e) /\ Extends(d, e) /\ DOMAIN e.node = DOMAIN d.node
<1> DEFINE old == d.node[p]
           bs == old.blocks
           nbs == [i \in DOMAIN bs |-> IF bs[i].hash = b THEN [bs[i] EXCEPT !.partial = v] ELSE bs[i]]
           new == [old EXCEPT !.blocks = nbs]
<1>1. old \in NodeState /\ bs \in Seq(Request)
  BY NodeFacts DEF Safe
<1> DEFINE e == SetPartial(d, p, b, v)
<1>2. e = WithNode(d, p, new)
  BY DEF SetPartial, WithNode
<1> HIDE DEF e
<1> HIDE DEF bs, old
<1>3. DOMAIN bs = 1..Len(bs) /\ Len(bs) \in Nat /\ \A i \in DOMAIN bs : bs[i] \in Request
  BY <1>1, LenProperties
<1>4. \A i \in DOMAIN bs : nbs[i] \in Request /\ nbs[i].hash = bs[i].hash
  BY <1>3 DEF Request
<1>5. nbs \in [1..Len(bs) -> Request]
  <2>1. nbs = [i \in 1..Len(bs) |-> nbs[i]]
    BY <1>3
  <2> HIDE DEF nbs
  <2>2. QED
    BY <1>3, <1>4, <2>1
<1> HIDE DEF nbs
<1>6. nbs \in Seq(Request) /\ Len(nbs) = Len(bs) /\ DOMAIN nbs = DOMAIN bs
  BY <1>3, <1>5
<1>7. /\ new \in NodeState /\ new.blocks = nbs /\ new.n = old.n
      /\ new.nValid = old.nValid /\ new.stalling = old.stalling
  BY <1>1, <1>6 DEF NodeState
<1> HIDE DEF new
<1>8. SameRequests(old, new)
  BY <1>4, <1>6, <1>7 DEF SameRequests, bs
<1>9. SameRequests(d.node[p], new)
  BY <1>8 DEF old
<1>10. /\ Safe(e) /\ Extends(d, e) /\ DOMAIN e.node = DOMAIN d.node
  BY <1>2, <1>9, NodeUpdate
<1>11. QED
  BY <1>10 DEF e

-----------------------------------------------------------------------------
(* The chain keeps its type.                                               *)

\* Accepting a header marks and adds only blocks.
LEMMA HeaderType ==
  ASSUME NEW c \in ChainType, NEW b \in Blocks
  PROVE  AcceptBlockHeader(c, b) \in ChainType
<1>1. CASE Acceptable(c, b)
  BY <1>1 DEF AcceptBlockHeader, ChainType
<1>2. CASE ~Acceptable(c, b) /\ (b \in c.index \/ Parent[b] \notin c.index)
  BY <1>2 DEF AcceptBlockHeader
<1>3. CASE ~Acceptable(c, b) /\ ~(b \in c.index \/ Parent[b] \notin c.index)
  <2>1. Parent[b] \in Blocks
    BY <1>3 DEF ChainType
  <2>2. Chain[Parent[b]] \subseteq Blocks
    BY <2>1, ChainFacts DEF ChainOK
  <2> DEFINE f == {x \in Chain[Parent[b]] : Chain[x] \cap c.failed # {}}
  <2>3. AcceptBlockHeader(c, b) = [c EXCEPT !.failed = @ \cup f]
    BY <1>3 DEF AcceptBlockHeader
  <2>4. f \subseteq Blocks
    BY <2>2
  <2> HIDE DEF f
  <2>5. QED
    BY <2>3, <2>4 DEF ChainType
<1>4. QED
  BY <1>1, <1>2, <1>3

\* So does the activation of the best chain.
LEMMA ActivateType ==
  ASSUME NEW c \in ChainType, NEW r \in ActivateBestChain(c)
  PROVE  r \in ChainType
<1> DEFINE linked == {b \in Blocks : Chain[b] \subseteq c.data}
           valid == {b \in linked : Chain[b] \cap Bad = {}}
           old == Height[c.tip]
           top == Max({Height[b] : b \in valid} \cup {old})
           tips == IF top > old THEN {b \in valid : Height[b] = top} ELSE {c.tip}
           Tried(h) == {x \in Blocks : /\ Chain[x] \cap Bad # {}
                                       /\ \E y \in linked : x \in Chain[y] /\ Height[y] > h}
<1> DEFINE fs == {Tried(top), Tried(Max({top - 1, old}))}
<1>0. ActivateBestChain(c) = {Activated(c, t, f) : t \in tips, f \in fs}
  BY DEF ActivateBestChain
<1>1. PICK t \in tips, f \in fs : r = Activated(c, t, f)
  <2> HIDE DEF tips, fs
  <2> QED BY <1>0
<1>2. \A h : Tried(h) \subseteq Blocks
  OBVIOUS
<1>3. f \subseteq Blocks
  <2> HIDE DEF Tried, top, old
  <2> QED BY <1>2
<1>4. t \in Blocks
  <2>1. c.tip \in Blocks
    BY DEF ChainType
  <2>2. valid \subseteq Blocks
    OBVIOUS
  <2> HIDE DEF valid, top, old
  <2>3. QED
    BY <2>1, <2>2
<1>5. QED
  <2> HIDE DEF Tried, tips, top, old
  <2> QED BY <1>1, <1>3, <1>4 DEF ChainType, Activated

\* So does a whole block.
LEMMA NewBlockType ==
  ASSUME NEW c \in ChainType, NEW b \in Blocks, NEW forced, NEW r \in ProcessNewBlock(c, b, forced)
  PROVE  r \in ChainType
<1> DEFINE a == AcceptBlockHeader(c, b)
           e == [a EXCEPT !.data = @ \cup {b}]
<1>1. a \in ChainType
  BY HeaderType
<1>2. r \in {a} \cup ActivateBestChain(a) \cup ActivateBestChain(e)
  BY DEF ProcessNewBlock
<1> HIDE DEF a
<1>3. e \in ChainType
  BY <1>1 DEF ChainType
<1> HIDE DEF e
<1>4. QED
  BY <1>1, <1>2, <1>3, ActivateType

-----------------------------------------------------------------------------
(* What is asked for.                                                      *)

\* The first blocks of a sequence, as many as there are but at most count.
LEMMA FirstBlocks ==
  ASSUME NEW S, NEW s \in Seq(S), NEW count \in Nat
  PROVE  LET t == SubSeq(s, 1, Min({count, Len(s)}))
         IN t \in Seq(S) /\ Len(t) <= count /\ (s = <<>> => t = <<>>)
<1> DEFINE m == Min({count, Len(s)})
           t == SubSeq(s, 1, m)
<1>1. Len(s) \in Nat
  OBVIOUS
<1>2. m \in Nat /\ m <= count /\ m <= Len(s)
  BY <1>1, MinMax
<1> HIDE DEF m
<1>3. t \in Seq(S) /\ Len(t) = m
  BY <1>1, <1>2
<1>4. s = <<>> => m = 0
  BY <1>1, <1>2
<1>5. t = <<>> <=> Len(t) = 0
  <2> HIDE DEF t
  <2> QED BY <1>3, EmptySeq
<1>6. QED
  BY <1>2, <1>3, <1>4, <1>5 DEF m

\* A peer that a block was asked from has an entry.
LEMMA OwesBlocks ==
  ASSUME NEW d, Safe(d), NEW b \in DOMAIN d.inFlight
  PROVE  d.inFlight[b] \in DOMAIN d.node /\ d.node[d.inFlight[b]].blocks # <<>>
<1> DEFINE q == d.inFlight[b]
<1>1. q \in DOMAIN d.node /\ PeerOK(d, q)
  BY DEF Safe, Good
<1>2. b \in RequestedIn(d, q)
  BY DEF RequestedIn
<1>3. ListOK(d.node[q].blocks, RequestedIn(d, q))
  BY <1>1 DEF PeerOK
<1>4. \E i \in DOMAIN d.node[q].blocks : d.node[q].blocks[i].hash = b
  BY <1>2, <1>3 DEF ListOK
<1>5. DOMAIN d.node[q].blocks # {}
  BY <1>4
<1>6. d.node[q].blocks # <<>>
  BY <1>5
<1>7. QED
  BY <1>1, <1>6

\* FindNextBlocksToDownload changes nothing but what it knows of the peer's chain,
\* names blocks that nobody was asked for, no more than it may, and a staller
\* only if it names none; the staller owes a block.
LEMMA FindNextFacts ==
  ASSUME NEW d, Safe(d), NEW p \in DOMAIN d.node, NEW c \in ChainType, NEW count \in Nat
  PROVE  LET f == FindNextBlocksToDownload(d, c, p, count)
         IN /\ SameRequests(d.node[p], f.st)
            /\ f.fetch \in Seq(Blocks \ DOMAIN d.inFlight) /\ Len(f.fetch) <= count
            /\ f.staller # None => /\ f.staller \in DOMAIN d.node
                                   /\ d.node[f.staller].blocks # <<>>
                                   /\ f.fetch = <<>>
<1> DEFINE f == FindNextBlocksToDownload(d, c, p, count)
           st == ProcessBlockAvailability(d.node[p], c.index)
           active == Chain[c.tip]
           guess == IF st.common # None THEN st.common
                    ELSE CHOOSE b \in active : Height[b] = Min({Height[st.best], Height[c.tip]})
           common == LastCommonAncestor(guess, st.best)
           end == Height[common] + Window
           path == {b \in Chain[st.best] : /\ Height[b] > Height[common] /\ Height[b] <= end + 1
                                           /\ Chain[b] \cap c.failed \subseteq Chain[common]}
           missing == Missing(d, c, path)
           fetch == Ascending({b \in missing : Height[b] <= end})
           linked == {b \in path : b \in active \/ Chain[b] \subseteq c.data}
           asked == path \cap DOMAIN d.inFlight
           waitingfor == IF asked = {} THEN None ELSE d.inFlight[Head(Ascending(asked))]
           nothing == [st |-> st, fetch |-> <<>>, staller |-> None]
           next == IF linked = {} THEN common ELSE Highest(linked)
           first == SubSeq(fetch, 1, Min({count, Len(fetch)}))
           staller == IF fetch = <<>> /\ missing # {} /\ waitingfor # p THEN waitingfor ELSE None
<1>1. /\ d.node[p] \in NodeState /\ c.index \in SUBSET Blocks /\ c.tip \in Blocks
  BY NodeFacts DEF Safe, ChainType
<1>2. /\ st \in NodeState /\ st.blocks = d.node[p].blocks /\ st.n = d.node[p].n
      /\ st.nValid = d.node[p].nValid /\ st.stalling = d.node[p].stalling
  BY <1>1, AvailabilityFacts
<1>3. f = IF st.best = None THEN nothing
          ELSE IF Height[st.best] < Height[c.tip] THEN nothing
          ELSE IF common = st.best THEN [nothing EXCEPT !.st.common = common]
          ELSE [st |-> [st EXCEPT !.common = next], fetch |-> first, staller |-> staller]
  BY DEF FindNextBlocksToDownload
<1> HIDE DEF st, f
<1>4. SameRequests(d.node[p], st)
  BY <1>1, <1>2, SameLists
<1>5. ASSUME NEW x \in Blocks PROVE SameRequests(d.node[p], [st EXCEPT !.common = x])
  <2> DEFINE new == [st EXCEPT !.common = x]
  <2>1. /\ new \in NodeState /\ new.blocks = st.blocks /\ new.n = st.n
        /\ new.nValid = st.nValid /\ new.stalling = st.stalling
    BY <1>2 DEF NodeState
  <2> HIDE DEF new
  <2>2. SameRequests(d.node[p], new)
    BY <1>1, <1>2, <2>1, SameLists
  <2>3. QED
    BY <2>2 DEF new
<1>6. <<>> \in Seq(Blocks \ DOMAIN d.inFlight) /\ Len(<<>>) = 0
  OBVIOUS
<1>7. CASE st.best = None \/ Height[st.best] < Height[c.tip]
  <2>1. f = nothing
    BY <1>3, <1>7
  <2>2. f.st = st /\ f.fetch = <<>> /\ f.staller = None
    BY <2>1
  <2>3. QED
    BY <1>4, <1>6, <2>2 DEF f
<1>8. CASE st.best # None /\ ~(Height[st.best] < Height[c.tip])
  <2>1. st.best \in Blocks
    BY <1>2, <1>8 DEF NodeState
  <2>2. ChainOK(st.best) /\ ChainOK(c.tip)
    BY <1>1, <2>1, ChainFacts
  <2>3. guess \in Blocks
    <3>1. CASE st.common # None
      BY <1>2, <3>1 DEF NodeState
    <3>2. CASE st.common = None
      <4>1. Height[st.best] \in Nat /\ Height[c.tip] \in Nat
        BY <1>1, <2>1, TreeFacts
      <4>2. Min({Height[st.best], Height[c.tip]}) \in 0..Height[c.tip]
        BY <4>1, MinMax
      <4>3. \E b \in active : Height[b] = Min({Height[st.best], Height[c.tip]})
        BY <2>2, <4>2 DEF ChainOK
      <4>4. guess \in active
        BY <3>2, <4>3
      <4>5. QED
        BY <2>2, <4>4 DEF ChainOK
    <3>3. QED
      BY <3>1, <3>2
  <2> HIDE DEF guess
  <2>4. common \in Blocks
    <3>1. 0 \in Chain[guess] \cap Chain[st.best]
      BY <2>2, <2>3, ChainFacts DEF ChainOK
    <3>2. common \in Chain[guess] \cap Chain[st.best]
      BY <2>1, <3>1, HighestIn DEF LastCommonAncestor
    <3>3. QED
      BY <2>2, <3>2 DEF ChainOK
  <2> HIDE DEF common
  <2>5. CASE common = st.best
    <3>1. f = [nothing EXCEPT !.st.common = common]
      BY <1>3, <1>8, <2>5
    <3>2. f.st = [st EXCEPT !.common = common] /\ f.fetch = <<>> /\ f.staller = None
      BY <3>1
    <3>3. QED
      BY <1>5, <1>6, <2>4, <3>2 DEF f
  <2>6. CASE common # st.best
    <3> HIDE DEF end
    <3>1. path \subseteq Chain[st.best] /\ Chain[st.best] \subseteq Blocks
      BY <2>2 DEF ChainOK
    <3> HIDE DEF path
    <3>2. next \in Blocks
      <4>1. linked \in SUBSET Chain[st.best]
        BY <3>1
      <4> HIDE DEF linked
      <4>2. linked # {} => Highest(linked) \in linked
        BY <2>1, <4>1, HighestIn
      <4>3. QED
        BY <2>4, <3>1, <4>1, <4>2
    <3>3. missing \subseteq path \ DOMAIN d.inFlight
      BY DEF Missing
    <3> HIDE DEF missing, next
    <3>4. fetch \in Seq(Blocks \ DOMAIN d.inFlight)
      <4> DEFINE S == {b \in missing : Height[b] <= end}
      <4>1. S \in SUBSET Chain[st.best] /\ S \subseteq Blocks \ DOMAIN d.inFlight
        BY <3>1, <3>3
      <4> HIDE DEF S
      <4>2. Ascending(S) \in Seq(S)
        BY <2>1, <4>1, AscendingFacts
      <4>3. Ascending(S) \in Seq(Blocks \ DOMAIN d.inFlight)
        BY <4>1, <4>2
      <4>4. QED
        BY <4>3 DEF S
    <3> HIDE DEF fetch
    <3>5. /\ first \in Seq(Blocks \ DOMAIN d.inFlight) /\ Len(first) <= count
          /\ fetch = <<>> => first = <<>>
      BY <3>4, FirstBlocks
    <3>6. waitingfor # None => /\ waitingfor \in DOMAIN d.node
                               /\ d.node[waitingfor].blocks # <<>>
      <4> SUFFICES ASSUME waitingfor # None
                   PROVE  waitingfor \in DOMAIN d.node /\ d.node[waitingfor].blocks # <<>>
        OBVIOUS
      <4>1. asked # {} /\ asked \in SUBSET Chain[st.best] /\ asked \subseteq DOMAIN d.inFlight
        BY <3>1
      <4>2. waitingfor = d.inFlight[Head(Ascending(asked))]
        BY <4>1
      <4> HIDE DEF asked, waitingfor
      <4>3. /\ IsFiniteSet(asked) /\ Cardinality(asked) \in Nat
            /\ Ascending(asked) \in Seq(asked) /\ Len(Ascending(asked)) = Cardinality(asked)
        BY <2>1, <4>1, AscendingFacts
      <4>4. Cardinality(asked) # 0
        BY <4>1, <4>3, FS_EmptySet
      <4>5. Head(Ascending(asked)) \in asked
        BY <4>3, <4>4
      <4>6. QED
        BY <4>1, <4>2, <4>5, OwesBlocks
    <3> HIDE DEF waitingfor, first
    <3>7. f = [st |-> [st EXCEPT !.common = next], fetch |-> first, staller |-> staller]
      BY <1>3, <1>8, <2>6 DEF first
    <3>8. f.st = [st EXCEPT !.common = next] /\ f.fetch = first /\ f.staller = staller
      BY <3>7
    <3>9. staller # None => fetch = <<>> /\ staller = waitingfor
      OBVIOUS
    <3> HIDE DEF staller
    <3>10. f.staller # None => /\ f.staller \in DOMAIN d.node
                               /\ d.node[f.staller].blocks # <<>>
                               /\ f.fetch = <<>>
      BY <3>5, <3>6, <3>8, <3>9
    <3>11. SameRequests(d.node[p], f.st)
      BY <1>5, <3>2, <3>8
    <3>12. QED
      BY <3>5, <3>8, <3>10, <3>11 DEF f
  <2>7. QED
    BY <2>5, <2>6
<1>9. QED
  BY <1>7, <1>8

\* The direct fetch asks for blocks that nobody was asked for, as many as p has
\* room for.
LEMMA DirectFetchSafe ==
  ASSUME NEW d, Safe(d), NEW p \in DOMAIN d.node, NEW c \in ChainType, NEW b \in Blocks
  PROVE  LET e == DirectFetch(d, c, p, b)
         IN Safe(e) /\ Extends(d, e) /\ DOMAIN e.node = DOMAIN d.node
<1> DEFINE e == DirectFetch(d, c, p, b)
           path == Chain[b] \ Chain[c.tip]
           needed == Missing(d, c, path)
           room == MaxInTransit - d.node[p].n
           seq == Ascending(needed)
           bs == SubSeq(seq, 1, Max({0, Min({room, Len(seq)})}))
<1>1. e = d \/ e = MarkAll(d, p, bs)
  BY DEF DirectFetch
<1>2. needed \in SUBSET Chain[b] /\ needed \in SUBSET (Blocks \ DOMAIN d.inFlight)
  BY ChainFacts DEF Missing, ChainOK
<1> HIDE DEF needed
<1>3. seq \in Seq(needed) /\ Len(seq) \in Nat
  BY <1>2, AscendingFacts
<1>4. room \in Nat /\ room = MaxInTransit - Len(d.node[p].blocks)
  <2>1. Len(d.node[p].blocks) \in Nat /\ MaxInTransit \in Nat /\ d.node[p].n = Len(d.node[p].blocks)
    BY NodeFacts, DownloadAssumption DEF Safe
  <2>2. Len(d.node[p].blocks) <= MaxInTransit
    BY DEF Safe, Within
  <2>3. QED
    BY <2>1, <2>2
<1> HIDE DEF room, seq
<1>5. Max({0, Min({room, Len(seq)})}) = Min({room, Len(seq)})
  <2> DEFINE m == Min({room, Len(seq)})
  <2>1. m \in Nat
    BY <1>3, <1>4, MinMax
  <2> HIDE DEF m
  <2>2. Max({0, m}) = m
    BY <2>1, MinMax
  <2>3. QED
    BY <2>2 DEF m
<1>6. bs \in Seq(needed) /\ Len(bs) <= room
  <2>1. bs = SubSeq(seq, 1, Min({room, Len(seq)}))
    BY <1>5
  <2> HIDE DEF bs
  <2>2. QED
    BY <1>3, <1>4, <2>1, FirstBlocks
<1> HIDE DEF bs
<1>7. CASE e = d
  BY <1>7 DEF Extends, Kept
<1>8. CASE e = MarkAll(d, p, bs)
  <2>1. Len(bs) <= MaxInTransit - Len(d.node[p].blocks)
    BY <1>4, <1>6
  <2> HIDE DEF e
  <2>2. Safe(e) /\ Extends(d, e) /\ DOMAIN e.node = DOMAIN d.node
    BY <1>2, <1>6, <1>8, <2>1, MarkAllSafe
  <2>3. QED
    BY <2>2 DEF e
<1>9. QED
  BY <1>1, <1>7, <1>8

\* Two steps that take over nothing: the first one drops no request.
LEMMA KeptAfter ==
  ASSUME NEW d, NEW m, NEW e, Extends(d, m), Kept(m, e)
  PROVE  Kept(d, e)
BY DEF Extends, Kept

\* Requests that are kept twice are kept.
LEMMA ExtendsTwice ==
  ASSUME NEW d, NEW m, NEW e, Extends(d, m), Extends(m, e)
  PROVE  Extends(d, e)
BY DEF Extends, Kept

\* A headers message keeps the tables and the type of the chain.
LEMMA HeadersSafe ==
  ASSUME NEW d, Safe(d), NEW p \in DOMAIN d.node, NEW c \in ChainType,
         NEW first \in Blocks, NEW last \in Blocks, NEW punish
  PROVE  LET r == ProcessHeadersMessage(d, c, p, first, last, punish)
         IN /\ Safe(r.d) /\ Extends(d, r.d) /\ DOMAIN r.d.node = DOMAIN d.node
            /\ r.c \in ChainType
<1> DEFINE r == ProcessHeadersMessage(d, c, p, first, last, punish)
           hs == {b \in Chain[last] : Height[b] >= Height[first]}
           refused == {b \in hs : Marked(c, b)}
           known == [c EXCEPT !.index = @ \cup {b \in hs : \A x \in refused : Height[b] < Height[x]}]
           u == UpdateBlockAvailability(d, p, last, known.index)
           v == UpdateBlockAvailability(d, p, last, c.index)
           x == Ascending(refused)[1]
           w == [d EXCEPT !.node[p].disconnect = TRUE]
<1>1. hs \in SUBSET Blocks /\ refused \in SUBSET Chain[last]
  BY ChainFacts DEF ChainOK
<1>2. \/ r = [d |-> v, c |-> c]
      \/ refused # {} /\ r = [d |-> IF punish /\ x \in known.index THEN w ELSE d,
                              c |-> AcceptBlockHeader(known, x)]
      \/ r = [d |-> DirectFetch(u, known, p, last), c |-> known]
  BY DEF ProcessHeadersMessage
<1>3. known \in ChainType
  <2> DEFINE new == {b \in hs : \A y \in refused : Height[b] < Height[y]}
  <2>1. new \subseteq Blocks
    BY <1>1
  <2>2. known = [c EXCEPT !.index = @ \cup new]
    OBVIOUS
  <2> HIDE DEF new, known
  <2>3. QED
    BY <2>1, <2>2 DEF ChainType
<1> HIDE DEF r, hs, known
<1>4. c.index \in SUBSET Blocks /\ known.index \in SUBSET Blocks
  BY <1>3 DEF ChainType
<1>5. CASE r = [d |-> v, c |-> c]
  <2>1. Safe(v) /\ Extends(d, v) /\ DOMAIN v.node = DOMAIN d.node
    BY <1>4, UpdateSafe
  <2> HIDE DEF v
  <2>2. r.d = v /\ r.c = c
    BY <1>5
  <2>3. QED
    BY <2>1, <2>2 DEF r
<1>6. CASE refused # {} /\ r = [d |-> IF punish /\ x \in known.index THEN w ELSE d,
                                c |-> AcceptBlockHeader(known, x)]
  <2>1. Safe(w) /\ Extends(d, w) /\ DOMAIN w.node = DOMAIN d.node
    BY DisconnectSafe
  <2>2. x \in Blocks
    <3> HIDE DEF refused
    <3>1. /\ IsFiniteSet(refused) /\ Cardinality(refused) \in Nat
          /\ Ascending(refused) \in Seq(refused) /\ Len(Ascending(refused)) = Cardinality(refused)
      BY <1>1, AscendingFacts
    <3>2. Cardinality(refused) # 0
      BY <1>6, <3>1, FS_EmptySet
    <3>3. x \in refused
      BY <3>1, <3>2
    <3>4. QED
      BY <1>1, <3>3, ChainFacts DEF ChainOK
  <2> HIDE DEF w, x
  <2>3. AcceptBlockHeader(known, x) \in ChainType
    BY <1>3, <2>2, HeaderType
  <2>4. (r.d = w \/ r.d = d) /\ r.c = AcceptBlockHeader(known, x)
    BY <1>6
  <2>5. Extends(d, d)
    BY DEF Extends, Kept
  <2>6. QED
    BY <2>1, <2>3, <2>4, <2>5 DEF r
<1>7. CASE r = [d |-> DirectFetch(u, known, p, last), c |-> known]
  <2>1. Safe(u) /\ Extends(d, u) /\ DOMAIN u.node = DOMAIN d.node
    BY <1>4, UpdateSafe
  <2> HIDE DEF u
  <2> DEFINE e == DirectFetch(u, known, p, last)
  <2>2. Safe(e) /\ Extends(u, e) /\ DOMAIN e.node = DOMAIN u.node
    BY <1>3, <2>1, DirectFetchSafe
  <2> HIDE DEF e
  <2>3. Extends(d, e)
    BY <2>1, <2>2, ExtendsTwice
  <2>4. r.d = e /\ r.c = known
    BY <1>7 DEF e
  <2>5. QED
    BY <1>3, <2>1, <2>2, <2>3, <2>4 DEF r
<1>8. QED
  BY <1>2, <1>5, <1>6, <1>7

-----------------------------------------------------------------------------
(* Every action.                                                           *)

\* The inductive invariant.
IInv == TypeOK /\ Safe(dl)

\* What every step does.
StepOK == /\ Safe(dl') /\ Kept(dl, dl')
          /\ used' \in [DOMAIN used' -> Kind] /\ DOMAIN used' \subseteq Peers
          /\ DOMAIN dl'.node \subseteq DOMAIN used' /\ sync' \subseteq DOMAIN dl'.node
          /\ up' \in BOOLEAN
          /\ chain' \in ChainType

\* A step that works on the peers that are there.
LEMMA PeersStep ==
  ASSUME IInv, Safe(dl'), Kept(dl, dl'), DOMAIN dl'.node = Live, UNCHANGED used,
         sync' \subseteq Live, up' \in BOOLEAN, chain' \in ChainType
  PROVE  StepOK
BY DEF IInv, TypeOK, StepOK, Live

\* The same for a step that leaves the headers sync alone.
LEMMA HandlerStep ==
  ASSUME IInv, Safe(dl'), Kept(dl, dl'), DOMAIN dl'.node = Live,
         UNCHANGED <<used, sync, up>>, chain' \in ChainType
  PROVE  StepOK
<1>1. sync' \subseteq Live /\ up' \in BOOLEAN
  BY DEF IInv, TypeOK
<1>2. QED
  BY <1>1, PeersStep

\* What the invariant says of a peer that is there.
LEMMA LiveFacts ==
  ASSUME IInv
  PROVE  /\ Safe(dl) /\ chain \in ChainType /\ Live = DOMAIN dl.node /\ Extends(dl, dl)
         /\ chain.index \in SUBSET Blocks /\ Kept(dl, dl)
         /\ used \in [DOMAIN used -> Kind] /\ DOMAIN used \subseteq Peers
         /\ Live \subseteq DOMAIN used /\ sync \subseteq Live /\ up \in BOOLEAN
BY DEF IInv, TypeOK, ChainType, Live, Extends, Kept

\* Only a peer that is there starts the headers sync.
LEMMA SyncStartedLive ==
  ASSUME sync \subseteq Live, NEW p \in Live
  PROVE  SyncStarted(p) \subseteq Live
BY DEF SyncStarted

\* InitializeNode adds a peer without requests.
LEMMA InitializeStep ==
  ASSUME IInv, NEW p \in Peers, NEW kind \in Kinds[p], InitializeNode(p, kind)
  PROVE  StepOK
<1> DEFINE nd == [q \in Live \cup {p} |-> IF q = p THEN Fresh ELSE dl.node[q]]
<1>1. /\ Safe(dl) /\ Good(dl) /\ IsDownloads(dl) /\ Live = DOMAIN dl.node
      /\ chain \in ChainType /\ p \notin DOMAIN used /\ p \notin Live
      /\ used \in [DOMAIN used -> Kind] /\ DOMAIN used \subseteq Peers
      /\ Live \subseteq DOMAIN used /\ sync \subseteq Live /\ up \in BOOLEAN
  BY LiveFacts DEF InitializeNode, Safe, Good
<1>2. /\ dl.node \in [DOMAIN dl.node -> NodeState]
      /\ dl.inFlight \in [DOMAIN dl.inFlight -> Peers] /\ DOMAIN dl.inFlight \in SUBSET Blocks
      /\ dl.nPeers \in Nat
      /\ dl = [node |-> dl.node, inFlight |-> dl.inFlight, nPeers |-> dl.nPeers]
  BY <1>1, DownloadsFields
<1>3. dl' = [node |-> nd, inFlight |-> dl.inFlight, nPeers |-> dl.nPeers]
  BY <1>2 DEF InitializeNode
<1>4. /\ Fresh \in NodeState /\ Fresh.blocks = <<>> /\ Fresh.n = 0 /\ Fresh.nValid = 0
      /\ Fresh.stalling = FALSE
  BY DEF Fresh, NodeState
<1>5. nd \in [Live \cup {p} -> NodeState]
  BY <1>1, <1>2, <1>4
<1>6. nd[p] = Fresh /\ \A q \in Live : q # p /\ nd[q] = dl.node[q]
  BY <1>1
<1> HIDE DEF nd
<1> DEFINE e == dl'
<1>7. e.node = nd /\ e.inFlight = dl.inFlight /\ e.nPeers = dl.nPeers
  BY <1>3
<1>8. IsDownloads(e)
  BY <1>1, <1>2, <1>3, <1>5, DownloadsIntro
<1> HIDE DEF e
<1>9. DOMAIN e.node = Live \cup {p} /\ IsFiniteSet(Live \cup {p})
  BY <1>1, <1>5, <1>7, FS_AddElement DEF Good
<1>10. \A b \in DOMAIN e.inFlight : e.inFlight[b] \in Live
  BY <1>1, <1>7 DEF Good
<1>11. \A q \in Live : RequestedIn(e, q) = RequestedIn(dl, q)
  BY <1>7 DEF RequestedIn
<1>12. RequestedIn(e, p) = {}
  BY <1>1, <1>10 DEF RequestedIn
<1>13. \A q \in Live : PeerOK(e, q)
  <2>1. \A q \in Live : e.node[q] = dl.node[q] /\ PeerOK(dl, q)
    BY <1>1, <1>6, <1>7 DEF Good
  <2>2. QED
    BY <1>11, <2>1 DEF PeerOK
<1>14. PeerOK(e, p)
  <2>1. e.node[p] = Fresh
    BY <1>6, <1>7
  <2>2. ListOK(<<>>, {})
    BY DEF ListOK
  <2>3. Len(<<>>) = 0
    OBVIOUS
  <2>4. QED
    BY <1>4, <1>12, <2>1, <2>2, <2>3 DEF PeerOK
<1>15. Busy(e) = Busy(dl)
  BY <1>1, <1>4, <1>6, <1>7, <1>9 DEF Busy
<1>16. Good(e)
  BY <1>1, <1>7, <1>8, <1>9, <1>10, <1>13, <1>14, <1>15 DEF Good
<1>17. Within(e)
  <2>1. \A q \in Live : Len(e.node[q].blocks) <= MaxInTransit
    BY <1>1, <1>6, <1>7 DEF Safe, Within
  <2>2. Len(e.node[p].blocks) = 0 /\ 0 <= MaxInTransit
    BY <1>4, <1>6, <1>7, DownloadAssumption
  <2>3. QED
    BY <1>9, <2>1, <2>2 DEF Within
<1>18. Kept(dl, e)
  BY <1>7 DEF Kept
<1>19. /\ used' = [q \in DOMAIN used \cup {p} |-> IF q = p THEN kind ELSE used[q]]
       /\ chain' = chain /\ sync' = sync /\ up' = up
  BY DEF InitializeNode
<1>20. DOMAIN used' = DOMAIN used \cup {p} /\ used' \in [DOMAIN used' -> Kind]
  <2>1. kind \in Kind
    BY DownloadAssumption
  <2>2. QED
    BY <1>1, <1>19, <2>1
<1>21. QED
  BY <1>1, <1>9, <1>16, <1>17, <1>18, <1>19, <1>20 DEF StepOK, Safe, e

\* A peer that closes, or keeps us waiting, is marked for disconnection.
LEMMA DisconnectStep ==
  ASSUME IInv, NEW p \in Peers,
         Close(p) \/ DisconnectStalling(p) \/ DisconnectTimeout(p)
           \/ (HeadersTimeout(p) /\ Disconnects(p))
  PROVE  StepOK
<1>1. /\ Safe(dl) /\ chain \in ChainType /\ Live = DOMAIN dl.node
      /\ sync \subseteq Live /\ up \in BOOLEAN
  BY LiveFacts
<1>2. /\ Listens(p) /\ dl' = [dl EXCEPT !.node[p].disconnect = TRUE]
      /\ UNCHANGED <<chain, used, up>>
      /\ sync' = sync \/ sync' = SyncStarted(p) \/ sync' = {}
  BY Zenon DEF Close, DisconnectStalling, DisconnectTimeout, HeadersTimeout, Disconnects
<1>3. p \in DOMAIN dl.node /\ sync' \subseteq Live
  BY <1>1, <1>2, SyncStartedLive DEF Listens
<1>4. Safe(dl') /\ Extends(dl, dl') /\ DOMAIN dl'.node = DOMAIN dl.node
  BY <1>1, <1>2, <1>3, DisconnectSafe
<1>5. QED
  BY <1>1, <1>2, <1>3, <1>4, PeersStep DEF Extends

\* An inv only says what the peer has.
LEMMA InvStep ==
  ASSUME IInv, NEW p \in Peers, NEW b \in Blocks, Inv(p, b)
  PROVE  StepOK
<1>1. Safe(dl) /\ chain \in ChainType /\ Live = DOMAIN dl.node /\ chain.index \in SUBSET Blocks
  BY LiveFacts
<1>2. /\ p \in DOMAIN dl.node /\ dl' = UpdateBlockAvailability(dl, p, b, chain.index)
      /\ UNCHANGED <<chain, used, sync, up>>
  BY <1>1 DEF Inv, Listens
<1>3. Safe(dl') /\ Extends(dl, dl') /\ DOMAIN dl'.node = DOMAIN dl.node
  BY <1>1, <1>2, UpdateSafe
<1>4. QED
  BY <1>1, <1>2, <1>3, HandlerStep DEF Extends

\* Headers may ask for blocks at once.
LEMMA HeadersStep ==
  ASSUME IInv, NEW p \in Peers, NEW first \in Blocks, NEW last \in Blocks,
         Headers(p, first, last)
  PROVE  StepOK
<1> DEFINE r == ProcessHeadersMessage(dl, chain, p, first, last, used[p].conn = "outbound")
<1>1. Safe(dl) /\ chain \in ChainType /\ Live = DOMAIN dl.node
  BY LiveFacts
<1>2. p \in DOMAIN dl.node /\ dl' = r.d /\ chain' = r.c /\ UNCHANGED <<used, sync, up>>
  BY <1>1 DEF Headers, Listens
<1>3. Safe(r.d) /\ Extends(dl, r.d) /\ DOMAIN r.d.node = DOMAIN dl.node /\ r.c \in ChainType
  BY <1>1, <1>2, HeadersSafe
<1> HIDE DEF r
<1>4. QED
  BY <1>1, <1>2, <1>3, HandlerStep DEF Extends

\* A block ends its request, whoever it was asked from.
LEMMA BlockStep ==
  ASSUME IInv, NEW p \in Peers, NEW b \in Blocks, Block(p, b)
  PROVE  StepOK
<1>1. Safe(dl) /\ chain \in ChainType /\ Live = DOMAIN dl.node
  BY LiveFacts
<1>2. /\ dl' = MarkBlockAsReceived(dl, b) /\ UNCHANGED <<used, sync, up>>
      /\ chain' \in ProcessNewBlock(chain, b, b \in DOMAIN dl.inFlight)
  BY DEF Block
<1>3. Safe(dl') /\ Kept(dl, dl') /\ DOMAIN dl'.node = DOMAIN dl.node
  BY <1>1, <1>2, ReceivedSafe
<1>4. chain' \in ChainType
  BY <1>1, <1>2, NewBlockType
<1>5. QED
  BY <1>1, <1>2, <1>3, <1>4, HandlerStep

\* A compact block that is in flight from p is filled or not.
LEMMA FillSafe ==
  ASSUME NEW d, Safe(d), NEW p \in DOMAIN d.node, NEW c \in ChainType, NEW b \in Blocks,
         Fill(d, c, p, b)
  PROVE  Safe(dl') /\ Kept(d, dl') /\ DOMAIN dl'.node = DOMAIN d.node /\ chain' \in ChainType
<1>1. CASE dl' = MarkBlockAsReceived(d, b) /\ chain' \in ProcessNewBlock(c, b, TRUE)
  <2>1. Safe(dl') /\ Kept(d, dl') /\ DOMAIN dl'.node = DOMAIN d.node
    BY <1>1, ReceivedSafe
  <2>2. chain' \in ChainType
    BY <1>1, NewBlockType
  <2>3. QED
    BY <2>1, <2>2
<1>2. CASE dl' = SetPartial(d, p, b, "filled") /\ chain' = c
  <2>1. Safe(dl') /\ Extends(d, dl') /\ DOMAIN dl'.node = DOMAIN d.node
    BY <1>2, PartialSafe
  <2>2. QED
    BY <1>2, <2>1 DEF Extends
<1>3. QED
  BY <1>1, <1>2 DEF Fill

\* An invalid one is no longer in flight.
LEMMA RefuseSafe ==
  ASSUME NEW d, Safe(d), NEW p \in DOMAIN d.node, NEW c \in ChainType, NEW b \in Blocks,
         Refuse(d, c, p, b)
  PROVE  Safe(dl') /\ Kept(d, dl') /\ DOMAIN dl'.node = DOMAIN d.node /\ chain' \in ChainType
<1> DEFINE r == MarkBlockAsReceived(d, b)
<1>1. (dl' = r \/ dl' = [r EXCEPT !.node[p].disconnect = TRUE]) /\ chain' = c
  BY DEF Refuse
<1>2. Safe(r) /\ Kept(d, r) /\ DOMAIN r.node = DOMAIN d.node
  BY ReceivedSafe
<1> HIDE DEF r
<1>3. Safe(dl') /\ dl'.inFlight = r.inFlight /\ DOMAIN dl'.node = DOMAIN r.node
  <2>1. CASE dl' = r
    BY <1>2, <2>1
  <2>2. CASE dl' = [r EXCEPT !.node[p].disconnect = TRUE]
    BY <1>2, <2>2, DisconnectSafe
  <2>3. QED
    BY <1>1, <2>1, <2>2
<1>4. Kept(d, dl')
  BY <1>2, <1>3 DEF Kept
<1>5. QED
  BY <1>1, <1>2, <1>3, <1>4

\* A blocktxn does one of the two.
LEMMA BlockTxnStep ==
  ASSUME IInv, NEW p \in Peers, NEW b \in Blocks, BlockTxn(p, b)
  PROVE  StepOK
<1>1. Safe(dl) /\ chain \in ChainType /\ Live = DOMAIN dl.node
  BY LiveFacts
<1>2. /\ p \in DOMAIN dl.node /\ UNCHANGED <<used, sync, up>>
      /\ Fill(dl, chain, p, b) \/ Refuse(dl, chain, p, b)
  BY <1>1 DEF BlockTxn, Listens
<1>3. Safe(dl') /\ Kept(dl, dl') /\ DOMAIN dl'.node = DOMAIN dl.node /\ chain' \in ChainType
  BY <1>1, <1>2, FillSafe, RefuseSafe
<1>4. QED
  BY <1>1, <1>2, <1>3, HandlerStep

\* A failed assertion ends the process and changes nothing else.
LEMMA AgainStep ==
  ASSUME IInv, NEW p \in Peers, NEW b \in Blocks, BlockTxnAgain(p, b)
  PROVE  StepOK
<1>1. UNCHANGED <<dl, chain, used, sync>> /\ up' = FALSE
  BY DEF BlockTxnAgain
<1>2. dl' = dl /\ Safe(dl) /\ Kept(dl, dl) /\ chain \in ChainType /\ sync \subseteq Live
  BY <1>1, LiveFacts
<1>3. QED
  BY <1>1, <1>2, PeersStep DEF Live

\* SendMessages asks p for the blocks it found and starts the timer of the peer that
\* holds up the window.
LEMMA AskSafe ==
  ASSUME IInv, NEW p \in DOMAIN dl.node, dl.node[p].n < MaxInTransit, AskForBlocks(p)
  PROVE  Safe(dl') /\ Kept(dl, dl') /\ DOMAIN dl'.node = DOMAIN dl.node
<1> DEFINE f == FindNextBlocksToDownload(dl, chain, p, MaxInTransit - dl.node[p].n)
           w == WithNode(dl, p, f.st)
           d == MarkAll(w, p, f.fetch)
<1>1. Safe(dl) /\ Good(dl) /\ chain \in ChainType /\ Live = DOMAIN dl.node
  BY LiveFacts DEF Safe
<1>2. p \in DOMAIN dl.node /\ dl.node[p].n < MaxInTransit
  OBVIOUS
<1>3. \/ dl' = dl
      \/ dl' = IF d.node[p].n = 0 /\ f.staller # None
               THEN [d EXCEPT !.node[f.staller].stalling = TRUE] ELSE d
  BY Zenon DEF AskForBlocks, WithNode
<1>4. /\ dl.node[p].n \in Nat /\ MaxInTransit - dl.node[p].n \in Nat
      /\ dl.node[p].n = Len(dl.node[p].blocks)
  BY <1>1, <1>2, NodeFacts, DownloadAssumption
<1>5. /\ SameRequests(dl.node[p], f.st)
      /\ f.fetch \in Seq(Blocks \ DOMAIN dl.inFlight)
      /\ Len(f.fetch) <= MaxInTransit - dl.node[p].n
      /\ f.staller # None => /\ f.staller \in DOMAIN dl.node
                             /\ dl.node[f.staller].blocks # <<>>
                             /\ f.fetch = <<>>
  BY <1>1, <1>2, <1>4, FindNextFacts
<1> HIDE DEF f
<1>6. /\ Safe(w) /\ Extends(dl, w) /\ DOMAIN w.node = DOMAIN dl.node
      /\ w.inFlight = dl.inFlight /\ w.node[p] = f.st
  BY <1>1, <1>2, <1>5, NodeUpdate
<1>7. Len(w.node[p].blocks) = dl.node[p].n
  BY <1>4, <1>5, <1>6 DEF SameRequests
<1>8. f.staller # None => w.node[f.staller].blocks # <<>>
  <2>1. ASSUME f.staller # None PROVE PeerOK(w, f.staller) /\ RequestedIn(w, f.staller) # {}
    <3>1. PeerOK(dl, f.staller) /\ PeerOK(w, f.staller)
      BY <1>1, <1>5, <1>6, <2>1 DEF Safe, Good
    <3>2. dl.node[f.staller].blocks \in Seq(Request)
      BY <1>1, <1>5, <2>1, NodeFacts
    <3>3. 1 \in DOMAIN dl.node[f.staller].blocks
      BY <1>5, <2>1, <3>2, EmptySeq, LenProperties
    <3>4. RequestedIn(dl, f.staller) # {}
      <4>1. ListOK(dl.node[f.staller].blocks, RequestedIn(dl, f.staller))
        BY <3>1 DEF PeerOK
      <4>2. dl.node[f.staller].blocks[1].hash \in RequestedIn(dl, f.staller)
        BY <3>3, <4>1 DEF ListOK
      <4>3. QED
        BY <4>2
    <3>5. QED
      BY <1>6, <3>1, <3>4 DEF RequestedIn
  <2>2. QED
    BY <2>1 DEF PeerOK, ListOK
<1> HIDE DEF w
<1>9. Safe(d) /\ Extends(w, d) /\ DOMAIN d.node = DOMAIN w.node
  <2>1. Blocks \ DOMAIN dl.inFlight \in SUBSET (Blocks \ DOMAIN w.inFlight)
    BY <1>6
  <2>2. Len(f.fetch) <= MaxInTransit - Len(w.node[p].blocks)
    BY <1>5, <1>7
  <2>3. QED
    BY <1>2, <1>5, <1>6, <2>1, <2>2, MarkAllSafe
<1>10. f.staller # None => d = w
  BY <1>2, <1>5, <1>6, MarkAllGood DEF Safe
<1> HIDE DEF d
<1>11. Extends(dl, d)
  BY <1>6, <1>9, ExtendsTwice
<1>12. Safe(dl') /\ Kept(dl, dl') /\ DOMAIN dl'.node = DOMAIN dl.node
  <2>1. CASE dl' = d
    BY <1>6, <1>9, <1>11, <2>1 DEF Extends
  <2>2. CASE f.staller # None /\ dl' = [d EXCEPT !.node[f.staller].stalling = TRUE]
    <3>1. f.staller \in DOMAIN d.node /\ d.node[f.staller].blocks # <<>>
      BY <1>5, <1>6, <1>8, <1>9, <1>10, <2>2
    <3>2. Safe(dl') /\ Extends(d, dl') /\ DOMAIN dl'.node = DOMAIN d.node
      BY <1>9, <2>2, <3>1, StallingSafe
    <3>3. QED
      BY <1>6, <1>9, <1>11, <3>2, KeptAfter DEF Extends
  <2>3. CASE dl' = dl
    BY <1>1, <2>3 DEF Kept
  <2>4. QED
    BY <1>3, <2>1, <2>2, <2>3, Zenon
<1>13. QED
  BY <1>12

\* It asks for nothing when p may not be asked.
LEMMA AskStep ==
  ASSUME IInv, NEW p \in DOMAIN dl.node, AskForBlocks(p)
  PROVE  Safe(dl') /\ Kept(dl, dl') /\ DOMAIN dl'.node = DOMAIN dl.node
<1>1. CASE dl.node[p].n < MaxInTransit
  BY <1>1, AskSafe
<1>2. CASE ~(dl.node[p].n < MaxInTransit)
  <2>1. dl' = dl
    BY <1>2, Zenon DEF AskForBlocks
  <2>2. QED
    BY <2>1, LiveFacts
<1>3. QED
  BY <1>1, <1>2

\* So does SendMessages when it also starts the headers sync, or gives it up.
LEMMA RequestStep ==
  ASSUME IInv, NEW p \in Peers, RequestBlocks(p) \/ (HeadersTimeout(p) /\ AskForBlocks(p))
  PROVE  StepOK
<1>1. /\ chain \in ChainType /\ Live = DOMAIN dl.node /\ sync \subseteq Live /\ up \in BOOLEAN
  BY LiveFacts
<1>2. /\ Listens(p) /\ AskForBlocks(p) /\ UNCHANGED <<chain, used, up>>
      /\ sync' = sync \/ sync' = SyncStarted(p) \/ sync' = {}
  BY Zenon DEF RequestBlocks, HeadersTimeout
<1>3. p \in Live /\ sync' \subseteq Live
  BY <1>1, <1>2, SyncStartedLive DEF Listens
<1>4. Safe(dl') /\ Kept(dl, dl') /\ DOMAIN dl'.node = Live
  BY <1>1, <1>2, <1>3, AskStep
<1>5. QED
  BY <1>1, <1>2, <1>3, <1>4, PeersStep

\* FinalizeNode takes the peer and everything asked from it out of the tables.
LEMMA FinalizeStep ==
  ASSUME IInv, NEW p \in Peers, FinalizeNode(p)
  PROVE  StepOK
<1> DEFINE mine == {dl.node[p].blocks[i].hash : i \in DOMAIN dl.node[p].blocks}
           rest == DOMAIN dl.node \ {p}
           left == DOMAIN dl.inFlight \ mine
           nd == [q \in rest |-> dl.node[q]]
           fl == [b \in left |-> dl.inFlight[b]]
           np == IF dl.node[p].nValid # 0 THEN dl.nPeers - 1 ELSE dl.nPeers
           e == dl'
<1>1. /\ Safe(dl) /\ Good(dl) /\ IsDownloads(dl) /\ Live = DOMAIN dl.node
      /\ chain \in ChainType /\ used \in [DOMAIN used -> Kind] /\ DOMAIN used \subseteq Peers
      /\ Live \subseteq DOMAIN used /\ sync \subseteq Live /\ up \in BOOLEAN
  BY LiveFacts DEF Safe, Good
<1>2. p \in DOMAIN dl.node /\ sync' = sync \ {p} /\ UNCHANGED <<chain, used, up>>
  BY <1>1 DEF FinalizeNode
<1>3. e = [node |-> nd, inFlight |-> fl, nPeers |-> np]
  BY DEF FinalizeNode, Finalized, Restrict
<1>4. mine = RequestedIn(dl, p)
  BY <1>1, <1>2 DEF Good, PeerOK, ListOK
<1>5. /\ dl.node \in [DOMAIN dl.node -> NodeState] /\ DOMAIN dl.node \subseteq Peers
      /\ dl.inFlight \in [DOMAIN dl.inFlight -> Peers] /\ DOMAIN dl.inFlight \subseteq Blocks
      /\ dl.nPeers \in Nat
  BY <1>1, DownloadsFields
<1> HIDE DEF mine
<1>6. /\ nd \in [rest -> NodeState] /\ rest \in SUBSET Peers /\ DOMAIN nd = rest
      /\ \A q \in rest : nd[q] = dl.node[q] /\ q # p /\ q \in DOMAIN dl.node
  BY <1>5
<1>7. /\ fl \in [left -> Peers] /\ left \in SUBSET Blocks /\ DOMAIN fl = left
      /\ \A b \in left : fl[b] = dl.inFlight[b]
  BY <1>5
<1>8. /\ IsFiniteSet(DOMAIN dl.node) /\ IsFiniteSet(rest)
      /\ dl.nPeers = Cardinality(Busy(dl))
  BY <1>1, FS_RemoveElement DEF Good
<1>9. IsFiniteSet(Busy(dl)) /\ Cardinality(Busy(dl)) \in Nat
  <2>1. Busy(dl) \subseteq DOMAIN dl.node
    BY DEF Busy
  <2>2. QED
    BY <1>8, <2>1, FS_Subset, FS_CardinalityType
<1>10. dl.node[p].nValid # 0 <=> p \in Busy(dl)
  <2>1. dl.node[p].blocks \in Seq(Request) /\ dl.node[p].nValid = Len(dl.node[p].blocks)
    BY <1>1, <1>2, NodeFacts DEF Good, PeerOK
  <2>2. Len(dl.node[p].blocks) # 0 <=> dl.node[p].blocks # <<>>
    BY <2>1, EmptySeq
  <2>3. QED
    BY <1>2, <2>1, <2>2 DEF Busy
<1> HIDE DEF nd, fl
<1>11. e.node = nd /\ e.inFlight = fl /\ e.nPeers = np
  BY <1>3
<1>12. np \in Nat /\ np = Cardinality(Busy(e))
  <2>1. Busy(e) = Busy(dl) \ {p}
    <3>1. Busy(e) = {q \in rest : nd[q].blocks # <<>>}
      BY <1>6, <1>11 DEF Busy
    <3>2. QED
      BY <1>6, <3>1 DEF Busy
  <2>2. CASE p \in Busy(dl)
    <3>1. Cardinality(Busy(dl) \ {p}) = Cardinality(Busy(dl)) - 1
      BY <1>9, <2>2, FS_RemoveElement
    <3>2. np = Cardinality(Busy(e))
      BY <1>8, <1>10, <2>1, <2>2, <3>1
    <3>3. Cardinality(Busy(dl) \ {p}) \in Nat
      BY <1>9, FS_RemoveElement, FS_CardinalityType
    <3>4. QED
      BY <2>1, <3>2, <3>3
  <2>3. CASE p \notin Busy(dl)
    <3>1. Busy(dl) \ {p} = Busy(dl)
      BY <2>3
    <3>2. QED
      BY <1>5, <1>8, <1>10, <2>1, <2>3, <3>1
  <2>4. QED
    BY <2>2, <2>3
<1> HIDE DEF np
<1>13. IsDownloads(e)
  BY <1>3, <1>6, <1>7, <1>12, DownloadsIntro
<1> HIDE DEF e
<1>14. DOMAIN e.node = rest /\ DOMAIN e.inFlight = left
  BY <1>6, <1>7, <1>11
<1>15. \A b \in left : dl.inFlight[b] \in rest
  BY <1>1, <1>4 DEF Good, RequestedIn
<1>16. ASSUME NEW q \in rest PROVE PeerOK(e, q)
  <2>1. RequestedIn(e, q) = RequestedIn(dl, q)
    BY <1>4, <1>6, <1>7, <1>11 DEF RequestedIn
  <2>2. e.node[q] = dl.node[q] /\ PeerOK(dl, q)
    BY <1>1, <1>6, <1>11 DEF Good
  <2>3. QED
    BY <2>1, <2>2 DEF PeerOK
<1>17. Good(e)
  BY <1>7, <1>8, <1>11, <1>12, <1>13, <1>14, <1>15, <1>16 DEF Good
<1>18. Within(e)
  BY <1>1, <1>6, <1>11, <1>14 DEF Safe, Within
<1>19. Kept(dl, e)
  BY <1>7, <1>11, <1>14 DEF Kept
<1>20. sync' \subseteq DOMAIN e.node
  BY <1>1, <1>2, <1>14
<1>21. QED
  BY <1>1, <1>2, <1>14, <1>17, <1>18, <1>19, <1>20 DEF StepOK, Safe, e

\* A compact block is refused, announced, asked for, filled or received.
LEMMA CmpctStep ==
  ASSUME IInv, NEW p \in Peers, NEW b \in Blocks, CmpctBlock(p, b)
  PROVE  StepOK
<1> DEFINE c == AcceptBlockHeader(chain, b)
           d == UpdateBlockAvailability(dl, p, b, c.index)
           m == MarkBlockAsInFlight(d, p, b)
           room == b \notin DOMAIN d.inFlight /\ d.node[p].n < MaxInTransit
           mine == b \in DOMAIN d.inFlight /\ d.inFlight[b] = p
           h == ProcessHeadersMessage(d, c, p, b, b, FALSE)
<1>1. Safe(dl) /\ chain \in ChainType /\ Live = DOMAIN dl.node /\ Kept(dl, dl)
  BY LiveFacts
<1>2. p \in DOMAIN dl.node /\ UNCHANGED <<used, sync, up>>
  <2>1. Listens(p) /\ UNCHANGED <<used, sync, up>>
    BY Zenon DEF CmpctBlock
  <2>2. QED
    BY <1>1, <2>1 DEF Listens
<1>3. \/ chain' = c /\ dl' = dl
      \/ dl' = d /\ chain' = c
      \/ dl' = h.d /\ chain' = h.c
      \/ /\ room \/ mine
         /\ \/ dl' = SetPartial(m, p, b, "waiting") /\ chain' = c
            \/ dl' = SetPartial(m, p, b, "collided") /\ chain' = c
            \/ Refuse(m, c, p, b)
            \/ Fill(m, c, p, b)
      \/ \E r \in ProcessNewBlock(c, b, TRUE) :
           /\ chain' = r
           /\ dl' = IF b \in r.data \ r.failed THEN MarkBlockAsReceived(d, b) ELSE d
  BY Zenon DEF CmpctBlock
<1>4. c \in ChainType
  BY <1>1, HeaderType
<1>5. c.index \in SUBSET Blocks
  <2> HIDE DEF c
  <2> QED BY <1>4 DEF ChainType
<1> HIDE DEF c
<1>6. Safe(d) /\ Extends(dl, d) /\ DOMAIN d.node = DOMAIN dl.node
  BY <1>1, <1>2, <1>5, UpdateSafe
<1> HIDE DEF d
<1>7. CASE chain' = c /\ dl' = dl
  BY <1>1, <1>2, <1>4, <1>7, HandlerStep
<1>8. CASE dl' = d /\ chain' = c
  BY <1>1, <1>2, <1>4, <1>6, <1>8, HandlerStep DEF Extends
<1>9. CASE dl' = h.d /\ chain' = h.c
  <2>1. Safe(h.d) /\ Extends(d, h.d) /\ DOMAIN h.d.node = DOMAIN d.node /\ h.c \in ChainType
    BY <1>2, <1>4, <1>6, HeadersSafe
  <2> HIDE DEF h
  <2>2. Kept(dl, dl')
    BY <1>6, <1>9, <2>1, KeptAfter DEF Extends
  <2>3. QED
    BY <1>1, <1>2, <1>6, <1>9, <2>1, <2>2, HandlerStep
<1>10. CASE /\ room \/ mine
            /\ \/ dl' = SetPartial(m, p, b, "waiting") /\ chain' = c
               \/ dl' = SetPartial(m, p, b, "collided") /\ chain' = c
               \/ Refuse(m, c, p, b)
               \/ Fill(m, c, p, b)
  <2>1. Safe(m) /\ Extends(d, m) /\ DOMAIN m.node = DOMAIN d.node
    BY <1>2, <1>6, <1>10, InFlightSafe
  <2> HIDE DEF m
  <2>2. p \in DOMAIN m.node /\ Extends(dl, m)
    BY <1>2, <1>6, <2>1, ExtendsTwice
  <2>3. Safe(dl') /\ Kept(m, dl') /\ DOMAIN dl'.node = DOMAIN m.node /\ chain' \in ChainType
    <3>1. CASE dl' = SetPartial(m, p, b, "waiting") /\ chain' = c
      BY <1>4, <2>1, <2>2, <3>1, PartialSafe DEF Extends
    <3>2. CASE dl' = SetPartial(m, p, b, "collided") /\ chain' = c
      BY <1>4, <2>1, <2>2, <3>2, PartialSafe DEF Extends
    <3>3. CASE Refuse(m, c, p, b)
      BY <1>4, <2>1, <2>2, <3>3, RefuseSafe
    <3>4. CASE Fill(m, c, p, b)
      BY <1>4, <2>1, <2>2, <3>4, FillSafe
    <3>5. QED
      BY <1>10, <3>1, <3>2, <3>3, <3>4
  <2>4. Kept(dl, dl')
    BY <2>2, <2>3, KeptAfter
  <2>5. QED
    BY <1>1, <1>2, <1>6, <2>1, <2>3, <2>4, HandlerStep
<1>11. CASE \E r \in ProcessNewBlock(c, b, TRUE) :
              /\ chain' = r
              /\ dl' = IF b \in r.data \ r.failed THEN MarkBlockAsReceived(d, b) ELSE d
  <2>1. dl' = MarkBlockAsReceived(d, b) \/ dl' = d
    BY <1>11
  <2>2. chain' \in ChainType
    BY <1>4, <1>11, NewBlockType
  <2>3. Safe(dl') /\ Kept(d, dl') /\ DOMAIN dl'.node = DOMAIN d.node
    <3>1. CASE dl' = MarkBlockAsReceived(d, b)
      BY <1>6, <3>1, ReceivedSafe
    <3>2. CASE dl' = d
      BY <1>6, <3>2 DEF Kept
    <3>3. QED
      BY <2>1, <3>1, <3>2
  <2>4. Kept(dl, dl')
    BY <1>6, <2>3, KeptAfter
  <2>5. QED
    BY <1>1, <1>2, <1>6, <2>2, <2>3, <2>4, HandlerStep
<1>12. QED
  BY <1>3, <1>7, <1>8, <1>9, <1>10, <1>11

-----------------------------------------------------------------------------
(* The theorems.                                                           *)

\* The empty tables agree.
LEMMA InitIInv == Init => IInv
<1> SUFFICES ASSUME Init PROVE IInv
  OBVIOUS
<1>1. /\ dl = [node |-> <<>>, inFlight |-> <<>>, nPeers |-> 0]
      /\ used = <<>> /\ sync = {} /\ up = TRUE
      /\ chain = [index |-> {0}, data |-> {0}, failed |-> {}, tip |-> 0]
  BY DEF Init
<1>2. /\ dl.node = <<>> /\ dl.inFlight = <<>> /\ dl.nPeers = 0
      /\ DOMAIN dl.node = {} /\ DOMAIN dl.inFlight = {}
  BY <1>1
<1>3. IsDownloads(dl)
  <2>1. <<>> \in [{} -> NodeState] /\ <<>> \in [{} -> Peers]
    OBVIOUS
  <2>2. QED
    BY <1>1, <2>1, DownloadsIntro
<1>4. Busy(dl) = {} /\ IsFiniteSet({}) /\ Cardinality({}) = 0
  BY <1>2, FS_EmptySet DEF Busy
<1>5. Safe(dl)
  BY <1>2, <1>3, <1>4 DEF Safe, Good, Within
<1>6. chain \in ChainType
  BY <1>1, DownloadAssumption DEF ChainType
<1>7. TypeOK
  <2>1. DOMAIN used = {} /\ used \in [{} -> Kind]
    BY <1>1
  <2>2. QED
    BY <1>1, <1>2, <1>3, <1>6, <2>1 DEF TypeOK, Live, ChainType
<1>8. QED
  BY <1>5, <1>7 DEF IInv

\* Every step keeps the tables in agreement and moves no request.
LEMMA NextStep ==
  ASSUME IInv, [Next]_vars
  PROVE  IInv' /\ Kept(dl, dl')
<1>1. CASE UNCHANGED vars
  <2>1. dl' = dl /\ chain' = chain /\ used' = used /\ sync' = sync /\ up' = up
    BY <1>1 DEF vars
  <2>2. QED
    BY <2>1 DEF IInv, TypeOK, Live, Kept
<1>2. CASE Next
  <2>1. StepOK
    <3>1. PICK p \in Peers :
            \/ \E kind \in Kinds[p] : InitializeNode(p, kind)
            \/ Close(p) \/ FinalizeNode(p)
            \/ DisconnectStalling(p) \/ DisconnectTimeout(p) \/ HeadersTimeout(p)
            \/ RequestBlocks(p)
            \/ \E b \in Blocks : \/ Inv(p, b) \/ Block(p, b) \/ CmpctBlock(p, b)
                                 \/ BlockTxn(p, b) \/ BlockTxnAgain(p, b)
            \/ \E first, last \in Blocks : Headers(p, first, last)
      BY <1>2 DEF Next
    <3>2. HeadersTimeout(p) => Disconnects(p) \/ AskForBlocks(p)
      BY Zenon DEF HeadersTimeout
    <3>3. QED
      BY <3>1, <3>2, InitializeStep, DisconnectStep, FinalizeStep, RequestStep, InvStep,
         BlockStep, BlockTxnStep, AgainStep, CmpctStep, HeadersStep
  <2>2. IsDownloads(dl')
    BY <2>1 DEF StepOK, Safe, Good
  <2>3. TypeOK'
    BY <2>1, <2>2 DEF StepOK, TypeOK, Live, ChainType
  <2>4. QED
    BY <2>1, <2>3 DEF IInv, StepOK
<1>3. QED
  BY <1>1, <1>2

\* The tables of one value of dl, read as the properties of the model state them.
LEMMA SafeMeans ==
  ASSUME Safe(dl)
  PROVE  FlightTablesAgree /\ StallerHasBlocks
<1>1. /\ \A b \in DOMAIN dl.inFlight : dl.inFlight[b] \in DOMAIN dl.node
      /\ \A p \in DOMAIN dl.node : PeerOK(dl, p)
      /\ dl.nPeers = Cardinality(Busy(dl))
  BY DEF Safe, Good
<1>2. StallerHasBlocks
  BY <1>1 DEF StallerHasBlocks, PeerOK, Live
<1>3. \A p \in DOMAIN dl.node : RequestedIn(dl, p) = Requested(p)
  BY DEF RequestedIn, Requested
<1>4. FlightTablesAgree
  BY <1>1, <1>3 DEF FlightTablesAgree, PeerOK, ListOK, Live, Busy
<1>5. QED
  BY <1>2, <1>4

\* The inductive invariant: the variables have their types and the tables of
\* requests agree, in every reachable state.
THEOREM Invariance == Spec => []IInv
<1>1. Init => IInv
  BY InitIInv
<1>2. IInv /\ [Next]_vars => IInv'
  BY NextStep
<1>3. QED
  BY <1>1, <1>2, PTL DEF Spec

\* mapNodeState, mapBlocksInFlight and the chain hold what they are declared to.
THEOREM TypeCorrect == Spec => []TypeOK
<1>1. IInv => TypeOK
  BY DEF IInv
<1>2. QED
  BY <1>1, Invariance, PTL

\* mapBlocksInFlight, the lists and counters of the peers and
\* nPeersWithValidatedDownloads say the same after every message, request,
\* disconnection and FinalizeNode, for any number of peers and any tree of blocks.
THEOREM TablesAgree == Spec => []FlightTablesAgree
<1>1. IInv => FlightTablesAgree
  BY SafeMeans DEF IInv
<1>2. QED
  BY <1>1, Invariance, PTL

\* A peer whose stalling timer runs owes a block: SendMessages starts the timer only
\* of a peer in mapBlocksInFlight, and MarkBlockAsReceived stops it.
THEOREM StallersOwe == Spec => []StallerHasBlocks
<1>1. IInv => StallerHasBlocks
  BY SafeMeans DEF IInv
<1>2. QED
  BY <1>1, Invariance, PTL

\* MAX_BLOCKS_IN_TRANSIT_PER_PEER holds over all the ways a block is asked for: the
\* window of SendMessages, the direct fetch after headers, and compact blocks.
THEOREM TransitBounded == Spec => []Within(dl)
<1>1. IInv => Within(dl)
  BY DEF IInv, Safe
<1>2. QED
  BY <1>1, Invariance, PTL

\* No step asks a second peer for a block that is in flight.
THEOREM NothingTakenOver == Spec => NoTakeover
<1>1. IInv /\ [Next]_vars =>
        [\A b \in DOMAIN dl.inFlight \cap DOMAIN dl'.inFlight :
           dl'.inFlight[b] = dl.inFlight[b]]_vars
  BY NextStep DEF Kept
<1>2. QED
  BY <1>1, Invariance, PTL DEF Spec, NoTakeover
=============================================================================
