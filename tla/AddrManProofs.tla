--------------------------- MODULE AddrManProofs ----------------------------
(***************************************************************************)
(* Proofs about AddrMan, for any addresses, sources and hash functions and *)
(* any limits: Check_ passes, pending collisions have a rival, and         *)
(* peers.dat restores the tables.                                          *)
(***************************************************************************)
EXTENDS AddrMan, FiniteSetTheorems, SequenceTheorems, WellFoundedInduction, TLAPS

-----------------------------------------------------------------------------
(* The inductive invariant, as conditions on the parts of one state.       *)

InfoType == [addr : Addrs, src : Sources, ref : Nat, inTried : BOOLEAN, pos : Nat,
             tested : {"never", "answered", "trying", "failed", "stale"}]
PlacesOf(new, id) == {s \in NewSlots : new[s] = id}
Tried(info) == {id \in DOMAIN info : info[id].inTried}
Untried(info) == DOMAIN info \ Tried(info)

Typed(m) ==
  /\ m = [info |-> m.info, addr |-> m.addr, random |-> m.random, new |-> m.new,
          tried |-> m.tried, nNew |-> m.nNew, nTried |-> m.nTried, nId |-> m.nId, coll |-> m.coll]
  /\ m.info \in [DOMAIN m.info -> InfoType] /\ IsFiniteSet(DOMAIN m.info)
  /\ m.addr \in [DOMAIN m.addr -> Nat] /\ DOMAIN m.addr \subseteq Addrs
  /\ m.random \in Seq(Nat) /\ m.nId \in Nat /\ m.nNew \in Int /\ m.nTried \in Int
  /\ m.new \in [NewSlots -> Nat \cup {-1}] /\ m.tried \in [TriedSlots -> Nat \cup {-1}]
  /\ DOMAIN m.info \subseteq 0..(m.nId - 1) /\ m.coll \subseteq 0..(m.nId - 1)

\* vRandom and nRandomPos are inverse to each other.
OrderOK(info, random) ==
  /\ \A id \in DOMAIN info : info[id].pos \in DOMAIN random /\ random[info[id].pos] = id
  /\ \A i \in DOMAIN random : random[i] \in DOMAIN info /\ info[random[i]].pos = i

\* mapAddr names every entry, and the source of an entry has announced it.
NamesOK(info, addr) ==
  /\ \A id \in DOMAIN info : /\ info[id].addr \in DOMAIN addr /\ addr[info[id].addr] = id
                             /\ <<info[id].addr, info[id].src>> \in DOMAIN NewBucket
  /\ \A a \in DOMAIN addr : addr[a] \in DOMAIN info /\ info[addr[a]].addr = a

\* References count places.  The entries L are on their way from one table to the
\* other, or to be placed or deleted, and have none.
PlacesOK(info, new, L) ==
  /\ L \subseteq DOMAIN info
  /\ \A id \in DOMAIN info :
       /\ info[id].ref = Cardinality(PlacesOf(new, id))
       /\ (info[id].inTried \/ id \in L) => info[id].ref = 0
       /\ id \in L => ~info[id].inTried
       /\ (~info[id].inTried /\ id \notin L) => info[id].ref \in 1..MaxRefs
  /\ \A s \in NewSlots : new[s] # -1 =>
       new[s] \in DOMAIN info /\ NewSlot(info[new[s]].addr, s[1]) = s

\* The tried table and the tried entries.
TriedOK(info, tried) ==
  /\ \A id \in DOMAIN info : info[id].inTried =>
       info[id].tested # "never" /\ tried[TriedSlot[info[id].addr]] = id
  /\ \A s \in TriedSlots : tried[s] # -1 =>
       /\ tried[s] \in DOMAIN info /\ info[tried[s]].inTried
       /\ TriedSlot[info[tried[s]].addr] = s

Shape(m, L) == /\ Typed(m) /\ OrderOK(m.info, m.random) /\ NamesOK(m.info, m.addr)
               /\ PlacesOK(m.info, m.new, L) /\ TriedOK(m.info, m.tried)

\* The counters; i entries that are not tried and j that are were not counted.
CountsOK(m, i, j) ==
  m.nNew + i = Cardinality(Untried(m.info)) /\ m.nTried + j = Cardinality(Tried(m.info))

\* CollisionsPending of one state.
Pending(m) == \A id \in m.coll \cap DOMAIN m.info :
                ~m.info[id].inTried /\ m.tried[TriedSlot[m.info[id].addr]] \notin {-1, id}

Sound(m) == Shape(m, {}) /\ CountsOK(m, 0, 0) /\ Pending(m)

IInv == Sound(am)

\* Two versions of an entry, but for its position in vRandom.
Same(x, y) == /\ x.addr = y.addr /\ x.src = y.src /\ x.ref = y.ref
              /\ x.inTried = y.inTried /\ x.tested = y.tested

-----------------------------------------------------------------------------
(* Sets and sequences.                                                     *)

\* A set of numbers that is not empty has a least one.
LEMMA Least ==
  ASSUME NEW H \in SUBSET Nat, H # {}
  PROVE  \E h \in H : \A y \in H : h <= y
<1>1. PICK h \in H : \A y \in H : ~(<<y, h>> \in OpToRel(<, Nat))
  BY NatLessThanWellFounded, WFMin
<1>2. \A y \in H : ~(y < h)
  BY <1>1 DEF OpToRel
<1>3. QED
  BY <1>2

\* A set that holds 0 and the successor of every number it holds is Nat.
LEMMA SetInduction ==
  ASSUME NEW N \in SUBSET Nat, 0 \in N, \A n \in N : n + 1 \in N
  PROVE  N = Nat
<1> SUFFICES ASSUME Nat \ N # {} PROVE FALSE
  OBVIOUS
<1>1. PICK m \in Nat \ N : \A y \in Nat \ N : m <= y
  BY Least
<1>2. m # 0 /\ m - 1 \in Nat
  OBVIOUS
<1>3. m - 1 \in N
  BY <1>1, <1>2
<1>4. m - 1 + 1 = m
  BY <1>2
<1>5. QED
  BY <1>3, <1>4

\* A function on an initial interval is a sequence.
LEMMA FunctionIsSeq ==
  ASSUME NEW S, NEW n \in Nat, NEW f \in [1..n -> S]
  PROVE  f \in Seq(S) /\ Len(f) = n
<1>1. f \in Seq(S)
  OBVIOUS
<1>2. QED
  BY <1>1

\* The places of an address in vvNew.
LEMMA SlotFacts ==
  /\ \A a \in Addrs, b \in Buckets : NewSlot(a, b) \in NewSlots /\ NewSlot(a, b)[1] = b
  /\ \A s \in NewSlots : s[1] \in Buckets
  /\ IsFiniteSet(NewSlots)
  /\ \A new, id : IsFiniteSet(PlacesOf(new, id)) /\ Cardinality(PlacesOf(new, id)) \in Nat
<1>1. \A a \in Addrs, b \in Buckets : NewSlot(a, b) \in NewSlots /\ NewSlot(a, b)[1] = b
  BY DEF NewSlots, NewSlot
<1>2. ASSUME NEW s \in NewSlots PROVE s[1] \in Buckets
  <2>1. PICK a \in Addrs, b \in Buckets : s = NewSlot(a, b)
    BY DEF NewSlots
  <2>2. QED
    BY <1>1, <2>1
<1>3. IsFiniteSet(NewSlots)
  <2> DEFINE f == [x \in Addrs \X Buckets |-> NewSlot(x[1], x[2])]
  <2>1. IsFiniteSet(Addrs \X Buckets)
    BY AddrManAssumption, FS_Product
  <2>2. \A x \in Addrs \X Buckets : f[x] \in NewSlots
    BY DEF NewSlots
  <2>3. ASSUME NEW s \in NewSlots PROVE \E x \in Addrs \X Buckets : f[x] = s
    <3>1. PICK a \in Addrs, b \in Buckets : s = NewSlot(a, b)
      BY DEF NewSlots
    <3>2. <<a, b>> \in Addrs \X Buckets /\ f[<<a, b>>] = s
      BY <3>1
    <3>3. QED
      BY <3>2
  <2>4. f \in [Addrs \X Buckets -> NewSlots]
    <3>1. f = [x \in Addrs \X Buckets |-> f[x]]
      OBVIOUS
    <3> HIDE DEF f
    <3>2. QED
      BY <2>2, <3>1
  <2> HIDE DEF f
  <2>5. f \in Surjection(Addrs \X Buckets, NewSlots)
    BY <2>3, <2>4 DEF Surjection
  <2>6. QED
    BY <2>1, <2>5, FS_Surjection
<1>4. ASSUME NEW new, NEW id
      PROVE  IsFiniteSet(PlacesOf(new, id)) /\ Cardinality(PlacesOf(new, id)) \in Nat
  <2>1. PlacesOf(new, id) \in SUBSET NewSlots
    BY DEF PlacesOf
  <2>2. QED
    BY <1>3, <2>1, FS_Subset, FS_CardinalityType
<1>5. QED
  BY <1>1, <1>2, <1>3, <1>4

-----------------------------------------------------------------------------
(* The random order.                                                       *)

\* What only looks at the other fields does not see positions change.
LEMMA SamePositions ==
  ASSUME NEW f, NEW g, DOMAIN g = DOMAIN f, \A id \in DOMAIN f : Same(g[id], f[id])
  PROVE  /\ \A addr : NamesOK(f, addr) => NamesOK(g, addr)
         /\ \A new, L : PlacesOK(f, new, L) => PlacesOK(g, new, L)
         /\ \A tried : TriedOK(f, tried) => TriedOK(g, tried)
         /\ Tried(g) = Tried(f) /\ Untried(g) = Untried(f)
<1>1. \A addr : NamesOK(f, addr) => NamesOK(g, addr)
  BY DEF NamesOK, Same
<1>2. \A new, L : PlacesOK(f, new, L) => PlacesOK(g, new, L)
  BY DEF PlacesOK, Same
<1>3. \A tried : TriedOK(f, tried) => TriedOK(g, tried)
  BY DEF TriedOK, Same
<1>4. Tried(g) = Tried(f)
  BY DEF Tried, Same
<1>5. QED
  BY <1>1, <1>2, <1>3, <1>4 DEF Untried

\* e is m but for the order of vRandom.
Reordered(m, e) ==
  /\ DOMAIN e.info = DOMAIN m.info /\ \A x \in DOMAIN m.info : Same(e.info[x], m.info[x])
  /\ e.addr = m.addr /\ e.new = m.new /\ e.tried = m.tried /\ e.coll = m.coll
  /\ e.nNew = m.nNew /\ e.nTried = m.nTried /\ e.nId = m.nId /\ Len(e.random) = Len(m.random)

\* SwapRandom exchanges two positions.
LEMMA SwapShape ==
  ASSUME NEW m, NEW L, Shape(m, L), NEW i \in 1..Len(m.random), NEW j \in 1..Len(m.random)
  PROVE  LET e == SwapRandom(m, i, j)
         IN Shape(e, L) /\ Reordered(m, e) /\ e.random[j] = m.random[i]
<1> DEFINE e == SwapRandom(m, i, j)
           x == m.random[i]
           y == m.random[j]
<1>1. Typed(m) /\ OrderOK(m.info, m.random)
  BY DEF Shape
<1>2. /\ m.random \in Seq(Nat) /\ DOMAIN m.random = 1..Len(m.random) /\ Len(m.random) \in Nat
      /\ m.info \in [DOMAIN m.info -> InfoType]
  BY <1>1 DEF Typed
<1>3. CASE i = j
  <2>1. e = m
    BY <1>3 DEF SwapRandom
  <2>2. QED
    BY <1>3, <2>1 DEF Reordered, Same
<1>4. CASE i # j
  <2> DEFINE info == [m.info EXCEPT ![x].pos = j, ![y].pos = i]
             random == [m.random EXCEPT ![i] = y, ![j] = x]
  <2>1. e = [m EXCEPT !.info = info, !.random = random]
    BY <1>4, ZenonT(30) DEF SwapRandom
  <2>2. /\ e.info = info /\ e.random = random /\ e.addr = m.addr /\ e.new = m.new
        /\ e.tried = m.tried /\ e.nNew = m.nNew /\ e.nTried = m.nTried /\ e.nId = m.nId
        /\ e.coll = m.coll
        /\ e = [info |-> e.info, addr |-> e.addr, random |-> e.random, new |-> e.new,
                tried |-> e.tried, nNew |-> e.nNew, nTried |-> e.nTried, nId |-> e.nId,
                coll |-> e.coll]
    <3> HIDE DEF info, random, e
    <3> QED BY <1>1, <2>1 DEF Typed
  <2>3. /\ x \in DOMAIN m.info /\ y \in DOMAIN m.info /\ m.info[x].pos = i /\ m.info[y].pos = j
        /\ x # y
    <3> HIDE DEF e, info, random
    <3>1. i \in DOMAIN m.random /\ j \in DOMAIN m.random
      BY <1>2
    <3>2. \A k \in DOMAIN m.random : m.random[k] \in DOMAIN m.info /\ m.info[m.random[k]].pos = k
      BY <1>1 DEF OrderOK
    <3>3. x \in DOMAIN m.info /\ y \in DOMAIN m.info /\ m.info[x].pos = i /\ m.info[y].pos = j
      BY <3>1, <3>2
    <3>4. QED
      BY <1>4, <3>3
  <2> HIDE DEF e, x, y
  <2>4. /\ DOMAIN info = DOMAIN m.info
        /\ info[x] = [m.info[x] EXCEPT !.pos = j] /\ info[y] = [m.info[y] EXCEPT !.pos = i]
        /\ \A z \in DOMAIN m.info \ {x, y} : info[z] = m.info[z]
    BY <1>2, <2>3
  <2>5. x \in Nat /\ y \in Nat /\ i \in Nat /\ j \in Nat
    BY <1>2 DEF x, y
  <2>6. /\ random \in Seq(Nat) /\ Len(random) = Len(m.random)
        /\ DOMAIN random = 1..Len(m.random) /\ random[i] = y /\ random[j] = x
        /\ \A k \in DOMAIN m.random \ {i, j} : random[k] = m.random[k]
    <3>1. random \in [1..Len(m.random) -> Nat]
      <4>1. m.random \in [1..Len(m.random) -> Nat]
        BY <1>2
      <4>2. QED
        BY <2>5, <4>1
    <3>2. random \in Seq(Nat) /\ Len(random) = Len(m.random)
      <4> HIDE DEF random
      <4> QED BY <1>2, <3>1, FunctionIsSeq
    <3>3. QED
      BY <1>2, <1>4, <2>5, <3>1, <3>2
  <2>7. info = [z \in DOMAIN m.info |-> info[z]]
    OBVIOUS
  <2> HIDE DEF info, random
  <2>8. m.info[x] \in InfoType /\ m.info[y] \in InfoType
    BY <1>2, <2>3
  <2>9. /\ info[x] \in InfoType /\ info[x].pos = j /\ Same(info[x], m.info[x])
        /\ info[y] \in InfoType /\ info[y].pos = i /\ Same(info[y], m.info[y])
    BY <2>4, <2>5, <2>8 DEF InfoType, Same
  <2>10. \A z \in DOMAIN m.info : info[z] \in InfoType /\ Same(info[z], m.info[z])
    <3>1. \A z \in DOMAIN m.info \ {x, y} : Same(info[z], m.info[z])
      BY <2>4 DEF Same
    <3>2. QED
      BY <1>2, <2>4, <2>9, <3>1
  <2>11. info \in [DOMAIN m.info -> InfoType]
    BY <2>7, <2>10
  <2>12. Typed(e)
    BY <1>1, <2>2, <2>6, <2>11, <2>4 DEF Typed
  <2>13. OrderOK(info, random)
    <3>1. ASSUME NEW z \in DOMAIN info
          PROVE  info[z].pos \in DOMAIN random /\ random[info[z].pos] = z
      <4>1. CASE z = x
        BY <1>2, <2>6, <2>9, <4>1
      <4>2. CASE z = y
        BY <1>2, <2>6, <2>9, <4>2
      <4>3. CASE z \notin {x, y}
        <5>1. info[z] = m.info[z] /\ z \in DOMAIN m.info
          BY <2>4, <4>3
        <5>2. m.info[z].pos \in DOMAIN m.random /\ m.random[m.info[z].pos] = z
          BY <1>1, <5>1 DEF OrderOK
        <5>3. m.info[z].pos \notin {i, j}
          BY <4>3, <5>2 DEF x, y
        <5>4. QED
          BY <1>2, <2>6, <5>1, <5>2, <5>3
      <4>4. QED
        BY <4>1, <4>2, <4>3
    <3>2. ASSUME NEW k \in DOMAIN random
          PROVE  random[k] \in DOMAIN info /\ info[random[k]].pos = k
      <4>1. CASE k = i
        BY <2>3, <2>4, <2>6, <2>9, <4>1
      <4>2. CASE k = j
        BY <2>3, <2>4, <2>6, <2>9, <4>2
      <4>3. CASE k \notin {i, j}
        <5>1. random[k] = m.random[k] /\ k \in DOMAIN m.random
          BY <1>2, <2>6, <4>3
        <5>2. m.random[k] \in DOMAIN m.info /\ m.info[m.random[k]].pos = k
          BY <1>1, <5>1 DEF OrderOK
        <5>3. m.random[k] \notin {x, y}
          BY <2>3, <4>3, <5>2
        <5>4. QED
          BY <2>4, <5>1, <5>2, <5>3
      <4>4. QED
        BY <4>1, <4>2, <4>3
    <3>3. QED
      BY <3>1, <3>2 DEF OrderOK
  <2>14. NamesOK(info, m.addr) /\ PlacesOK(info, m.new, L) /\ TriedOK(info, m.tried)
    BY <2>4, <2>10, SamePositions DEF Shape
  <2>15. Shape(e, L)
    BY <2>2, <2>12, <2>13, <2>14 DEF Shape
  <2>16. Reordered(m, e)
    BY <2>2, <2>4, <2>6, <2>10 DEF Reordered
  <2>17. QED
    BY <2>2, <2>6, <2>15, <2>16 DEF e, x
<1>5. QED
  BY <1>3, <1>4

\* A reordered state counts and waits as before.
LEMMA ReorderedKeeps ==
  ASSUME NEW m, NEW e, Reordered(m, e)
  PROVE  /\ \A i, j : CountsOK(m, i, j) => CountsOK(e, i, j)
         /\ Pending(m) => Pending(e)
<1>1. Tried(e.info) = Tried(m.info) /\ Untried(e.info) = Untried(m.info)
  BY SamePositions DEF Reordered
<1>2. QED
  BY <1>1 DEF Reordered, CountsOK, Pending, Same

-----------------------------------------------------------------------------
(* Entries and places, one at a time.                                      *)

\* Names and the random order look at three fields.
LEMMA SameNames ==
  ASSUME NEW f, NEW g, DOMAIN g = DOMAIN f,
         \A x \in DOMAIN f : g[x].addr = f[x].addr /\ g[x].src = f[x].src /\ g[x].pos = f[x].pos
  PROVE  /\ \A addr : NamesOK(f, addr) => NamesOK(g, addr)
         /\ \A random : OrderOK(f, random) => OrderOK(g, random)
<1>1. \A addr : NamesOK(f, addr) => NamesOK(g, addr)
  BY DEF NamesOK
<1>2. \A random : OrderOK(f, random) => OrderOK(g, random)
  BY DEF OrderOK
<1>3. QED
  BY <1>1, <1>2

\* An entry without references has no place.
LEMMA NoPlace ==
  ASSUME NEW new, NEW id, Cardinality(PlacesOf(new, id)) = 0
  PROVE  \A s \in NewSlots : new[s] # id
<1>1. PlacesOf(new, id) = {}
  BY SlotFacts, FS_EmptySet
<1>2. QED
  BY <1>1 DEF PlacesOf

\* A free place is taken.
LEMMA PlaceTaken ==
  ASSUME NEW new \in [NewSlots -> Nat \cup {-1}], NEW slot \in NewSlots, new[slot] = -1,
         NEW id \in Nat
  PROVE  LET n == [new EXCEPT ![slot] = id]
         IN /\ n \in [NewSlots -> Nat \cup {-1}]
            /\ Cardinality(PlacesOf(n, id)) = Cardinality(PlacesOf(new, id)) + 1
            /\ \A z \in Nat \ {id} : PlacesOf(n, z) = PlacesOf(new, z)
<1> DEFINE n == [new EXCEPT ![slot] = id]
<1>1. n \in [NewSlots -> Nat \cup {-1}] /\ n[slot] = id /\ \A s \in NewSlots \ {slot} : n[s] = new[s]
  OBVIOUS
<1> HIDE DEF n
<1>2. slot \notin PlacesOf(new, id)
  BY DEF PlacesOf
<1>3. PlacesOf(n, id) = PlacesOf(new, id) \cup {slot}
  BY <1>1 DEF PlacesOf
<1>4. Cardinality(PlacesOf(n, id)) = Cardinality(PlacesOf(new, id)) + 1
  BY <1>2, <1>3, SlotFacts, FS_AddElement
<1>5. \A z \in Nat \ {id} : PlacesOf(n, z) = PlacesOf(new, z)
  BY <1>1 DEF PlacesOf
<1>6. QED
  BY <1>1, <1>4, <1>5 DEF n

\* A place is given up.
LEMMA PlaceFreed ==
  ASSUME NEW new \in [NewSlots -> Nat \cup {-1}], NEW slot \in NewSlots, new[slot] # -1
  PROVE  LET n == [new EXCEPT ![slot] = -1]
             id == new[slot]
         IN /\ n \in [NewSlots -> Nat \cup {-1}]
            /\ Cardinality(PlacesOf(n, id)) = Cardinality(PlacesOf(new, id)) - 1
            /\ \A z \in Nat \ {id} : PlacesOf(n, z) = PlacesOf(new, z)
<1> DEFINE n == [new EXCEPT ![slot] = -1]
           id == new[slot]
<1>1. n \in [NewSlots -> Nat \cup {-1}] /\ n[slot] = -1 /\ \A s \in NewSlots \ {slot} : n[s] = new[s]
  OBVIOUS
<1> HIDE DEF n
<1>2. slot \in PlacesOf(new, id)
  BY DEF PlacesOf
<1>3. PlacesOf(n, id) = PlacesOf(new, id) \ {slot}
  BY <1>1 DEF PlacesOf
<1>4. Cardinality(PlacesOf(n, id)) = Cardinality(PlacesOf(new, id)) - 1
  <2>1. IsFiniteSet(PlacesOf(new, id))
    BY SlotFacts
  <2> PICK P : P = PlacesOf(new, id)
    OBVIOUS
  <2>2. Cardinality(P \ {slot}) = Cardinality(P) - 1
    BY <1>2, <2>1, FS_RemoveElement
  <2>3. QED
    BY <1>3, <2>2
<1>5. \A z \in Nat \ {id} : PlacesOf(n, z) = PlacesOf(new, z)
  BY <1>1 DEF PlacesOf
<1>6. QED
  BY <1>1, <1>4, <1>5 DEF n

\* Entries are finitely many.
LEMMA FiniteEntries ==
  ASSUME NEW m, Typed(m)
  PROVE  /\ IsFiniteSet(Tried(m.info)) /\ IsFiniteSet(Untried(m.info))
         /\ Cardinality(Tried(m.info)) \in Nat /\ Cardinality(Untried(m.info)) \in Nat
         /\ m.nNew \in Int /\ m.nTried \in Int
<1>1. IsFiniteSet(DOMAIN m.info) /\ m.nNew \in Int /\ m.nTried \in Int
  BY DEF Typed
<1>2. Tried(m.info) \in SUBSET DOMAIN m.info /\ Untried(m.info) \in SUBSET DOMAIN m.info
  BY DEF Tried, Untried
<1>3. QED
  BY <1>1, <1>2, FS_Subset, FS_CardinalityType

\* e is m with one more entry.
Created(m, e, a, s) ==
  /\ m.nId \notin DOMAIN m.info /\ DOMAIN e.info = DOMAIN m.info \cup {m.nId}
  /\ e.info[m.nId] = Info(a, s, Len(m.random) + 1)
  /\ \A x \in DOMAIN m.info : e.info[x] = m.info[x]
  /\ e.new = m.new /\ e.tried = m.tried /\ e.nNew = m.nNew /\ e.nTried = m.nTried
  /\ e.nId = m.nId + 1 /\ e.coll = m.coll

\* Create makes an entry that has no place yet and is not counted.
LEMMA CreateShape ==
  ASSUME NEW m, NEW L, Shape(m, L), NEW a, NEW s, a \notin DOMAIN m.addr,
         <<a, s>> \in DOMAIN NewBucket
  PROVE  /\ Shape(Create(m, a, s), L \cup {m.nId}) /\ Created(m, Create(m, a, s), a, s)
         /\ \A i, j \in Int : CountsOK(m, i, j) => CountsOK(Create(m, a, s), i + 1, j)
<1> DEFINE e == Create(m, a, s)
           id == m.nId
           k == Len(m.random) + 1
           info == Put(m.info, id, Info(a, s, k))
           addr == Put(m.addr, a, id)
           random == Append(m.random, id)
<1>1. Typed(m) /\ OrderOK(m.info, m.random) /\ NamesOK(m.info, m.addr) /\ PlacesOK(m.info, m.new, L)
      /\ TriedOK(m.info, m.tried)
  BY DEF Shape
<1>2. /\ m.random \in Seq(Nat) /\ DOMAIN m.random = 1..Len(m.random) /\ Len(m.random) \in Nat
      /\ m.info \in [DOMAIN m.info -> InfoType] /\ id \in Nat /\ id \notin DOMAIN m.info
      /\ DOMAIN m.info \subseteq Nat /\ k \in Nat /\ a \in Addrs /\ s \in Sources
  BY <1>1, AddrManAssumption DEF Typed
<1>3. e = [m EXCEPT !.info = info, !.addr = addr, !.random = random, !.nId = id + 1]
  BY DEF Create
<1>4. /\ e.info = info /\ e.random = random /\ e.addr = addr /\ e.new = m.new
      /\ e.tried = m.tried /\ e.nNew = m.nNew /\ e.nTried = m.nTried /\ e.nId = m.nId + 1
      /\ e.coll = m.coll
      /\ e = [info |-> e.info, addr |-> e.addr, random |-> e.random, new |-> e.new,
              tried |-> e.tried, nNew |-> e.nNew, nTried |-> e.nTried, nId |-> e.nId,
              coll |-> e.coll]
  <2> HIDE DEF info, random, addr, e
  <2> QED BY <1>1, <1>3 DEF Typed
<1>5. /\ DOMAIN info = DOMAIN m.info \cup {id} /\ info[id] = Info(a, s, k)
      /\ \A x \in DOMAIN m.info : info[x] = m.info[x]
      /\ info = [x \in DOMAIN m.info \cup {id} |-> info[x]]
  BY <1>2 DEF Put
<1>6. /\ DOMAIN addr = DOMAIN m.addr \cup {a} /\ addr[a] = id
      /\ \A x \in DOMAIN m.addr : addr[x] = m.addr[x]
      /\ addr = [x \in DOMAIN m.addr \cup {a} |-> addr[x]]
  BY DEF Put
<1>7. /\ random \in Seq(Nat) /\ DOMAIN random = 1..k /\ random[k] = id
      /\ \A i \in 1..Len(m.random) : random[i] = m.random[i]
  BY <1>2, AppendProperties
<1> HIDE DEF e, info, random, addr
<1>8. info[id] \in InfoType
  BY <1>2, <1>5 DEF Info, InfoType
<1>9. Typed(e)
  <2>1. info \in [DOMAIN info -> InfoType]
    BY <1>2, <1>5, <1>8
  <2>2. addr \in [DOMAIN addr -> Nat] /\ DOMAIN addr \subseteq Addrs
    BY <1>1, <1>2, <1>6 DEF Typed
  <2>3. IsFiniteSet(DOMAIN info)
    <3>1. IsFiniteSet(DOMAIN m.info)
      BY <1>1 DEF Typed
    <3>2. IsFiniteSet(DOMAIN m.info \cup {id})
      BY <3>1, FS_AddElement
    <3>3. QED
      BY <1>5, <3>2
  <2>4. DOMAIN info \subseteq 0..(id + 1 - 1) /\ m.coll \subseteq 0..(id + 1 - 1)
    BY <1>1, <1>2, <1>5 DEF Typed
  <2>5. QED
    BY <1>1, <1>2, <1>4, <1>7, <2>1, <2>2, <2>3, <2>4, SMTT(30) DEF Typed
<1>10. OrderOK(info, random)
  <2>1. info[id].pos = k
    BY <1>5 DEF Info
  <2>2. k \in DOMAIN random /\ DOMAIN m.random \subseteq DOMAIN random
    BY <1>2, <1>7
  <2>3. ASSUME NEW x \in DOMAIN info PROVE info[x].pos \in DOMAIN random /\ random[info[x].pos] = x
    <3>1. CASE x = id
      BY <1>7, <2>1, <2>2, <3>1
    <3>2. CASE x \in DOMAIN m.info
      <4>1. m.info[x].pos \in DOMAIN m.random /\ m.random[m.info[x].pos] = x
        BY <1>1, <3>2 DEF OrderOK
      <4>2. info[x] = m.info[x]
        BY <1>5, <3>2
      <4>3. random[m.info[x].pos] = m.random[m.info[x].pos]
        BY <1>2, <1>7, <4>1
      <4>4. QED
        BY <2>2, <4>1, <4>2, <4>3, Zenon
    <3>3. QED
      BY <1>5, <3>1, <3>2
  <2>4. ASSUME NEW i \in DOMAIN random PROVE random[i] \in DOMAIN info /\ info[random[i]].pos = i
    <3>1. CASE i = k
      BY <1>5, <1>7, <2>1, <3>1
    <3>2. CASE i # k
      <4>1. i \in DOMAIN m.random /\ random[i] = m.random[i]
        <5>1. \A n \in Nat : \A h \in 1..(n + 1) : h # n + 1 => h \in 1..n
          OBVIOUS
        <5>2. i \in 1..(Len(m.random) + 1)
          BY <1>7
        <5>3. QED
          BY <1>2, <1>7, <3>2, <5>1, <5>2
      <4>2. m.random[i] \in DOMAIN m.info /\ m.info[m.random[i]].pos = i
        BY <1>1, <4>1 DEF OrderOK
      <4>3. info[m.random[i]] = m.info[m.random[i]] /\ m.random[i] \in DOMAIN info
        BY <1>5, <4>2
      <4>4. QED
        BY <4>1, <4>2, <4>3
    <3>3. QED
      BY <3>1, <3>2
  <2>5. QED
    BY <2>3, <2>4 DEF OrderOK
<1>11. NamesOK(info, addr)
  <2>1. info[id].addr = a /\ info[id].src = s
    BY <1>5 DEF Info
  <2>2. ASSUME NEW x \in DOMAIN info
        PROVE  /\ info[x].addr \in DOMAIN addr /\ addr[info[x].addr] = x
               /\ <<info[x].addr, info[x].src>> \in DOMAIN NewBucket
    <3>1. CASE x = id
      BY <1>6, <2>1, <3>1
    <3>2. CASE x \in DOMAIN m.info
      <4>1. /\ m.info[x].addr \in DOMAIN m.addr /\ m.addr[m.info[x].addr] = x
            /\ <<m.info[x].addr, m.info[x].src>> \in DOMAIN NewBucket
        BY <1>1, <3>2 DEF NamesOK
      <4>2. info[x] = m.info[x]
        BY <1>5, <3>2
      <4>3. QED
        BY <1>6, <4>1, <4>2
    <3>3. QED
      BY <1>5, <3>1, <3>2
  <2>3. ASSUME NEW x \in DOMAIN addr PROVE addr[x] \in DOMAIN info /\ info[addr[x]].addr = x
    <3>1. CASE x = a
      BY <1>5, <1>6, <2>1, <3>1
    <3>2. CASE x \in DOMAIN m.addr
      <4>1. m.addr[x] \in DOMAIN m.info /\ m.info[m.addr[x]].addr = x
        BY <1>1, <3>2 DEF NamesOK
      <4>2. addr[x] = m.addr[x] /\ info[m.addr[x]] = m.info[m.addr[x]]
        BY <1>5, <1>6, <3>2, <4>1
      <4>3. QED
        BY <1>5, <4>1, <4>2
    <3>3. QED
      BY <1>6, <3>1, <3>2
  <2>4. QED
    BY <2>2, <2>3 DEF NamesOK
<1>12. PlacesOK(info, m.new, L \cup {id})
  <2>1. info[id].ref = 0 /\ ~info[id].inTried
    BY <1>5 DEF Info
  <2>2. PlacesOf(m.new, id) = {}
    BY <1>1, <1>2 DEF PlacesOK, PlacesOf
  <2>3. Cardinality(PlacesOf(m.new, id)) = 0
    BY <2>2, FS_EmptySet
  <2>4. QED
    BY <1>1, <1>2, <1>5, <2>1, <2>3 DEF PlacesOK
<1>13. TriedOK(info, m.tried)
  <2>1. ~info[id].inTried
    BY <1>5 DEF Info
  <2>2. \A x \in DOMAIN info : info[x].inTried => x \in DOMAIN m.info /\ info[x] = m.info[x]
    BY <1>5, <2>1
  <2>3. \A x \in DOMAIN m.info : x \in DOMAIN info /\ info[x] = m.info[x]
    BY <1>5
  <2>4. QED
    BY <1>1, <2>2, <2>3 DEF TriedOK
<1>14. ASSUME NEW i \in Int, NEW j \in Int, CountsOK(m, i, j) PROVE CountsOK(e, i + 1, j)
  <2>1. ~info[id].inTried
    BY <1>5 DEF Info
  <2>2. Tried(info) = Tried(m.info) /\ Untried(info) = Untried(m.info) \cup {id}
    BY <1>2, <1>5, <2>1 DEF Tried, Untried
  <2>3. Cardinality(Untried(info)) = Cardinality(Untried(m.info)) + 1
    <3>1. id \notin Untried(m.info)
      BY <1>2 DEF Untried
    <3>2. QED
      BY <1>1, <2>2, <3>1, FiniteEntries, FS_AddElement
  <2>4. QED
    BY <1>1, <1>4, <1>14, <2>2, <2>3, FiniteEntries DEF CountsOK
<1>15. Shape(e, L \cup {id})
  BY <1>4, <1>9, <1>10, <1>11, <1>12, <1>13 DEF Shape
<1>16. Created(m, e, a, s)
  BY <1>2, <1>4, <1>5 DEF Created
<1>17. QED
  BY <1>14, <1>15, <1>16 DEF e

-----------------------------------------------------------------------------
(* Delete and ClearNew.                                                    *)

\* A sequence without its last element.
LEMMA FrontFacts ==
  ASSUME NEW s \in Seq(Nat), Len(s) # 0
  PROVE  /\ Front(s) \in Seq(Nat) /\ DOMAIN Front(s) = 1..(Len(s) - 1)
         /\ \A i \in 1..(Len(s) - 1) : Front(s)[i] = s[i]
<1> DEFINE n == Len(s) - 1
<1>1. Len(s) \in Nat /\ n \in Nat
  OBVIOUS
<1>2. \A i \in 1..n : s[i] \in Nat
  OBVIOUS
<1>3. Front(s) = SubSeq(s, 1, n)
  BY DEF Front
<1>4. SubSeq(s, 1, n) \in Seq(Nat) /\ Len(SubSeq(s, 1, n)) = n
      /\ \A i \in 1..n : SubSeq(s, 1, n)[i] = s[i]
  <2>1. \A i \in 1..n : i \in 1..Len(s) /\ 1 + i - 1 = i
    BY <1>1
  <2>2. n - 1 + 1 = n /\ ~(n < 0)
    BY <1>1
  <2>3. QED
    BY <1>1, <1>2, <2>1, <2>2, SubSeqProperties, SMTT(30)
<1>5. QED
  BY <1>1, <1>3, <1>4

\* What an operation that ends with Delete leaves of the other entries.
Without(m, e, id) ==
  /\ DOMAIN e.info = DOMAIN m.info \ {id}
  /\ \A x \in DOMAIN m.info \ {id} : Same(e.info[x], m.info[x])
  /\ e.new = m.new /\ e.tried = m.tried /\ e.coll = m.coll /\ e.nId = m.nId

\* Delete takes an entry that has no place out of every index, and out of the count.
LEMMA DeleteShape ==
  ASSUME NEW m, NEW L, Shape(m, L), NEW id \in L
  PROVE  /\ Shape(Delete(m, id), L \ {id}) /\ Without(m, Delete(m, id), id)
         /\ \A i, j \in Int : CountsOK(m, i, j) => CountsOK(Delete(m, id), i, j)
<1> DEFINE k == m.info[id].pos
           n == Len(m.random)
           r == SwapRandom(m, k, n)
           e == Delete(m, id)
           a == m.info[id].addr
           info == Drop(r.info, id)
           addr == Drop(r.addr, a)
           random == Front(r.random)
<1>1. Typed(m) /\ OrderOK(m.info, m.random) /\ PlacesOK(m.info, m.new, L)
  BY DEF Shape
<1>2. id \in DOMAIN m.info /\ ~m.info[id].inTried /\ m.info[id].ref = 0
  BY <1>1 DEF PlacesOK
<1>3. n \in Nat /\ k \in 1..n /\ n \in 1..n /\ m.random[k] = id
  <2>1. DOMAIN m.random = 1..n /\ n \in Nat
    BY <1>1 DEF Typed
  <2>2. k \in DOMAIN m.random /\ m.random[k] = id
    BY <1>1, <1>2 DEF OrderOK
  <2>3. QED
    BY <2>1, <2>2
<1>4. Shape(r, L) /\ Reordered(m, r) /\ r.random[n] = id
  <2>1. k \in 1..Len(m.random) /\ Len(m.random) \in 1..Len(m.random) /\ m.random[k] = id
    BY <1>3
  <2> HIDE DEF k
  <2>2. LET q == SwapRandom(m, k, Len(m.random))
        IN Shape(q, L) /\ Reordered(m, q) /\ q.random[Len(m.random)] = m.random[k]
    BY <2>1, SwapShape
  <2>3. QED
    BY <2>1, <2>2
<1>5. e = [r EXCEPT !.random = random, !.addr = addr, !.info = info, !.nNew = @ - 1]
  BY DEF Delete
<1> HIDE DEF r
<1>6. /\ Typed(r) /\ OrderOK(r.info, r.random) /\ NamesOK(r.info, r.addr)
      /\ PlacesOK(r.info, r.new, L) /\ TriedOK(r.info, r.tried)
  BY <1>4 DEF Shape
<1>7. /\ e.info = info /\ e.random = random /\ e.addr = addr /\ e.new = r.new
      /\ e.tried = r.tried /\ e.nNew = r.nNew - 1 /\ e.nTried = r.nTried /\ e.nId = r.nId
      /\ e.coll = r.coll
      /\ e = [info |-> e.info, addr |-> e.addr, random |-> e.random, new |-> e.new,
              tried |-> e.tried, nNew |-> e.nNew, nTried |-> e.nTried, nId |-> e.nId,
              coll |-> e.coll]
  <2> HIDE DEF info, random, addr, e
  <2> QED BY <1>5, <1>6 DEF Typed
<1>8. /\ DOMAIN info = DOMAIN r.info \ {id} /\ \A x \in DOMAIN info : info[x] = r.info[x]
      /\ info = [x \in DOMAIN info |-> info[x]]
  BY DEF Drop, Restrict
<1>9. /\ DOMAIN addr = DOMAIN r.addr \ {a} /\ \A x \in DOMAIN addr : addr[x] = r.addr[x]
      /\ addr = [x \in DOMAIN addr |-> addr[x]]
  BY DEF Drop, Restrict
<1>10. Len(r.random) = n /\ r.random \in Seq(Nat) /\ DOMAIN r.random = 1..n
  BY <1>4, <1>6 DEF Reordered, Typed
<1>11. /\ random \in Seq(Nat) /\ DOMAIN random = 1..(n - 1)
       /\ \A i \in 1..(n - 1) : random[i] = r.random[i]
  <2> HIDE DEF n
  <2>1. Len(r.random) # 0
    BY <1>3, <1>10
  <2>2. QED
    BY <1>10, <2>1, FrontFacts
<1>12. /\ id \in DOMAIN r.info /\ r.info[id].addr = a /\ ~r.info[id].inTried /\ r.info[id].ref = 0
       /\ DOMAIN r.info = DOMAIN m.info
  BY <1>2, <1>4 DEF Reordered, Same
<1>13. r.info[id].pos = n
  BY <1>3, <1>4, <1>6, <1>10 DEF OrderOK
<1> HIDE DEF info, random, addr, e, n, k, a
<1>14. Typed(e)
  <2>1. info \in [DOMAIN info -> InfoType]
    BY <1>6, <1>8 DEF Typed
  <2>2. addr \in [DOMAIN addr -> Nat] /\ DOMAIN addr \subseteq Addrs
    BY <1>6, <1>9 DEF Typed
  <2>3. IsFiniteSet(DOMAIN info)
    <3>1. IsFiniteSet(DOMAIN r.info)
      BY <1>6 DEF Typed
    <3>2. QED
      BY <1>8, <3>1, FS_RemoveElement
  <2>4. DOMAIN info \subseteq 0..(r.nId - 1) /\ r.nNew - 1 \in Int
    BY <1>6, <1>8 DEF Typed
  <2>5. QED
    BY <1>6, <1>7, <1>11, <2>1, <2>2, <2>3, <2>4 DEF Typed
<1>15. OrderOK(info, random)
  <2>1. ASSUME NEW x \in DOMAIN info PROVE info[x].pos \in DOMAIN random /\ random[info[x].pos] = x
    <3>1. info[x] = r.info[x] /\ x \in DOMAIN r.info /\ x # id
      BY <1>8
    <3>2. r.info[x].pos \in 1..n /\ r.random[r.info[x].pos] = x
      BY <1>6, <1>10, <3>1 DEF OrderOK
    <3>3. r.info[x].pos # n
      BY <1>4, <3>1, <3>2
    <3>4. r.info[x].pos \in 1..(n - 1)
      BY <1>3, <3>2, <3>3
    <3>5. QED
      BY <1>11, <3>1, <3>2, <3>4
  <2>2. ASSUME NEW i \in DOMAIN random PROVE random[i] \in DOMAIN info /\ info[random[i]].pos = i
    <3>1. i \in 1..(n - 1) /\ i # n /\ i \in DOMAIN r.random /\ random[i] = r.random[i]
      <4>1. i \in 1..(n - 1) /\ random[i] = r.random[i]
        BY <1>11
      <4>2. i # n /\ i \in 1..n
        BY <1>3, <4>1
      <4>3. QED
        BY <1>10, <4>1, <4>2
    <3>2. r.random[i] \in DOMAIN r.info /\ r.info[r.random[i]].pos = i
      BY <1>6, <3>1 DEF OrderOK
    <3>3. r.random[i] # id
      BY <1>13, <3>1, <3>2
    <3>4. QED
      BY <1>8, <3>1, <3>2, <3>3
  <2>3. QED
    BY <2>1, <2>2 DEF OrderOK
<1>16. NamesOK(info, addr)
  <2>1. ASSUME NEW x \in DOMAIN info
        PROVE  /\ info[x].addr \in DOMAIN addr /\ addr[info[x].addr] = x
               /\ <<info[x].addr, info[x].src>> \in DOMAIN NewBucket
    <3>1. info[x] = r.info[x] /\ x \in DOMAIN r.info /\ x # id
      BY <1>8
    <3>2. r.info[x].addr # a
      BY <1>6, <1>12, <3>1 DEF NamesOK
    <3>3. QED
      BY <1>6, <1>9, <3>1, <3>2 DEF NamesOK
  <2>2. ASSUME NEW x \in DOMAIN addr PROVE addr[x] \in DOMAIN info /\ info[addr[x]].addr = x
    <3>1. addr[x] = r.addr[x] /\ x \in DOMAIN r.addr /\ x # a
      BY <1>9
    <3>2. r.addr[x] \in DOMAIN r.info /\ r.info[r.addr[x]].addr = x
      BY <1>6, <3>1 DEF NamesOK
    <3>3. r.addr[x] # id
      BY <1>12, <3>1, <3>2
    <3>4. QED
      BY <1>8, <3>1, <3>2, <3>3
  <2>3. QED
    BY <2>1, <2>2 DEF NamesOK
<1>17. PlacesOK(info, r.new, L \ {id})
  <2>1. \A s \in NewSlots : r.new[s] # id
    BY <1>6, <1>12, NoPlace DEF PlacesOK
  <2>2. QED
    BY <1>6, <1>8, <2>1 DEF PlacesOK
<1>18. TriedOK(info, r.tried)
  <2>1. \A s \in TriedSlots : r.tried[s] # -1 => r.tried[s] \in DOMAIN info
    BY <1>6, <1>8, <1>12 DEF TriedOK
  <2>2. QED
    BY <1>6, <1>8, <2>1 DEF TriedOK
<1>19. Shape(e, L \ {id})
  BY <1>7, <1>14, <1>15, <1>16, <1>17, <1>18 DEF Shape
<1>20. Without(m, e, id)
  BY <1>4, <1>7, <1>8, <1>12 DEF Without, Reordered
<1>21. ASSUME NEW i \in Int, NEW j \in Int, CountsOK(m, i, j) PROVE CountsOK(e, i, j)
  <2>1. CountsOK(r, i, j)
    BY <1>4, <1>21, ReorderedKeeps
  <2>2. Tried(info) = Tried(r.info) /\ Untried(info) = Untried(r.info) \ {id}
    BY <1>8, <1>12 DEF Tried, Untried
  <2>3. id \in Untried(r.info)
    BY <1>12 DEF Tried, Untried
  <2>4. Cardinality(Untried(info)) = Cardinality(Untried(r.info)) - 1
    <3>1. IsFiniteSet(Untried(r.info))
      BY <1>6, FiniteEntries
    <3> PICK U : U = Untried(r.info)
      OBVIOUS
    <3>2. Cardinality(U \ {id}) = Cardinality(U) - 1
      BY <2>3, <3>1, FS_RemoveElement
    <3>3. QED
      BY <2>2, <3>2
  <2>5. QED
    BY <1>6, <1>7, <2>1, <2>2, <2>4, FiniteEntries DEF CountsOK
<1>22. QED
  BY <1>19, <1>20, <1>21 DEF e

\* g is f but for three fields of the entry id.
Update(f, g, id, ref, inTried, tested) ==
  /\ g \in [DOMAIN f -> InfoType] /\ \A x \in DOMAIN f \ {id} : g[x] = f[x]
  /\ g[id].addr = f[id].addr /\ g[id].src = f[id].src /\ g[id].pos = f[id].pos
  /\ g[id].ref = ref /\ g[id].inTried = inTried /\ g[id].tested = tested

\* e has the entries, the names and the random order of m.
Altered(m, e) ==
  /\ e = [info |-> e.info, addr |-> e.addr, random |-> e.random, new |-> e.new,
          tried |-> e.tried, nNew |-> e.nNew, nTried |-> e.nTried, nId |-> e.nId, coll |-> e.coll]
  /\ e.addr = m.addr /\ e.random = m.random /\ e.nId = m.nId

\* Setting a field of an entry.
LEMMA SetField ==
  ASSUME NEW f, f \in [DOMAIN f -> InfoType], NEW id \in DOMAIN f
  PROVE  /\ \A v \in Nat : Update(f, [f EXCEPT ![id].ref = v], id, v, f[id].inTried, f[id].tested)
         /\ \A v \in BOOLEAN :
              Update(f, [f EXCEPT ![id].inTried = v], id, f[id].ref, v, f[id].tested)
         /\ \A v \in {"never", "answered", "trying", "failed", "stale"} :
              Update(f, [f EXCEPT ![id].tested = v], id, f[id].ref, f[id].inTried, v)
<1>1. f[id] \in InfoType
  OBVIOUS
<1>2. \A y \in InfoType : [f EXCEPT ![id] = y] \in [DOMAIN f -> InfoType]
                          /\ [f EXCEPT ![id] = y][id] = y
                          /\ \A x \in DOMAIN f \ {id} : [f EXCEPT ![id] = y][x] = f[x]
  OBVIOUS
<1>3. ASSUME NEW v \in Nat
      PROVE  Update(f, [f EXCEPT ![id].ref = v], id, v, f[id].inTried, f[id].tested)
  <2> DEFINE y == [f[id] EXCEPT !.ref = v]
             g == [f EXCEPT ![id] = y]
  <2>1. y \in InfoType /\ y.addr = f[id].addr /\ y.src = f[id].src /\ y.pos = f[id].pos
        /\ y.ref = v /\ y.inTried = f[id].inTried /\ y.tested = f[id].tested
    BY <1>1 DEF InfoType
  <2>2. [f EXCEPT ![id].ref = v] = g
    OBVIOUS
  <2> HIDE DEF y
  <2>3. g \in [DOMAIN f -> InfoType] /\ g[id] = y /\ \A x \in DOMAIN f \ {id} : g[x] = f[x]
    BY <1>2, <2>1
  <2> HIDE DEF g
  <2>4. Update(f, g, id, v, f[id].inTried, f[id].tested)
    BY <2>1, <2>3 DEF Update
  <2>5. QED
    BY <2>2, <2>4
<1>4. ASSUME NEW v \in BOOLEAN
      PROVE  Update(f, [f EXCEPT ![id].inTried = v], id, f[id].ref, v, f[id].tested)
  <2> DEFINE y == [f[id] EXCEPT !.inTried = v]
             g == [f EXCEPT ![id] = y]
  <2>1. y \in InfoType /\ y.addr = f[id].addr /\ y.src = f[id].src /\ y.pos = f[id].pos
        /\ y.ref = f[id].ref /\ y.inTried = v /\ y.tested = f[id].tested
    BY <1>1 DEF InfoType
  <2>2. [f EXCEPT ![id].inTried = v] = g
    OBVIOUS
  <2> HIDE DEF y
  <2>3. g \in [DOMAIN f -> InfoType] /\ g[id] = y /\ \A x \in DOMAIN f \ {id} : g[x] = f[x]
    BY <1>2, <2>1
  <2> HIDE DEF g
  <2>4. Update(f, g, id, f[id].ref, v, f[id].tested)
    BY <2>1, <2>3 DEF Update
  <2>5. QED
    BY <2>2, <2>4
<1>5. ASSUME NEW v \in {"never", "answered", "trying", "failed", "stale"}
      PROVE  Update(f, [f EXCEPT ![id].tested = v], id, f[id].ref, f[id].inTried, v)
  <2> DEFINE y == [f[id] EXCEPT !.tested = v]
             g == [f EXCEPT ![id] = y]
  <2>1. y \in InfoType /\ y.addr = f[id].addr /\ y.src = f[id].src /\ y.pos = f[id].pos
        /\ y.ref = f[id].ref /\ y.inTried = f[id].inTried /\ y.tested = v
    BY <1>1 DEF InfoType
  <2>2. [f EXCEPT ![id].tested = v] = g
    OBVIOUS
  <2> HIDE DEF y
  <2>3. g \in [DOMAIN f -> InfoType] /\ g[id] = y /\ \A x \in DOMAIN f \ {id} : g[x] = f[x]
    BY <1>2, <2>1
  <2> HIDE DEF g
  <2>4. Update(f, g, id, f[id].ref, f[id].inTried, v)
    BY <2>1, <2>3 DEF Update
  <2>5. QED
    BY <2>2, <2>4
<1>6. QED
  BY <1>3, <1>4, <1>5

\* What an update of one entry has to show.
LEMMA AlteredShape ==
  ASSUME NEW m, NEW L, Shape(m, L), NEW e, Altered(m, e), NEW id \in DOMAIN m.info,
         NEW ref, NEW inTried, NEW tested, Update(m.info, e.info, id, ref, inTried, tested),
         e.new \in [NewSlots -> Nat \cup {-1}], e.tried \in [TriedSlots -> Nat \cup {-1}],
         e.nNew \in Int, e.nTried \in Int, e.coll \subseteq 0..(m.nId - 1),
         NEW K, PlacesOK(e.info, e.new, K), TriedOK(e.info, e.tried)
  PROVE  Shape(e, K)
<1>1. DOMAIN e.info = DOMAIN m.info /\ e.info \in [DOMAIN e.info -> InfoType]
  BY DEF Update
<1>2. \A x \in DOMAIN m.info : /\ e.info[x].addr = m.info[x].addr /\ e.info[x].src = m.info[x].src
                               /\ e.info[x].pos = m.info[x].pos
  BY DEF Update
<1>3. NamesOK(e.info, e.addr) /\ OrderOK(e.info, e.random)
  BY <1>1, <1>2, SameNames DEF Shape, Altered
<1>4. Typed(e)
  BY <1>1 DEF Shape, Altered, Typed
<1>5. QED
  BY <1>3, <1>4 DEF Shape

\* How an update moves the entry between the tried ones and the others.
LEMMA UpdateCounts ==
  ASSUME NEW f, f \in [DOMAIN f -> InfoType], IsFiniteSet(DOMAIN f), NEW id \in DOMAIN f, NEW g,
         NEW ref, NEW inTried \in BOOLEAN, NEW tested, Update(f, g, id, ref, inTried, tested)
  PROVE  /\ inTried = f[id].inTried => Tried(g) = Tried(f) /\ Untried(g) = Untried(f)
         /\ (inTried /\ ~f[id].inTried) =>
              /\ Cardinality(Tried(g)) = Cardinality(Tried(f)) + 1
              /\ Cardinality(Untried(g)) = Cardinality(Untried(f)) - 1
         /\ (~inTried /\ f[id].inTried) =>
              /\ Cardinality(Tried(g)) = Cardinality(Tried(f)) - 1
              /\ Cardinality(Untried(g)) = Cardinality(Untried(f)) + 1
<1>1. /\ DOMAIN g = DOMAIN f /\ g[id].inTried = inTried
      /\ \A x \in DOMAIN f \ {id} : g[x].inTried = f[x].inTried
  BY DEF Update
<1>2. IsFiniteSet(Tried(f)) /\ IsFiniteSet(Untried(f))
  <2>1. Tried(f) \in SUBSET DOMAIN f /\ Untried(f) \in SUBSET DOMAIN f
    BY DEF Tried, Untried
  <2>2. QED
    BY <2>1, FS_Subset
<1>3. ASSUME inTried = f[id].inTried PROVE Tried(g) = Tried(f) /\ Untried(g) = Untried(f)
  BY <1>1, <1>3 DEF Tried, Untried
<1>4. ASSUME inTried, ~f[id].inTried
      PROVE  /\ Cardinality(Tried(g)) = Cardinality(Tried(f)) + 1
             /\ Cardinality(Untried(g)) = Cardinality(Untried(f)) - 1
  <2>1. Tried(g) = Tried(f) \cup {id} /\ id \notin Tried(f)
    BY <1>1, <1>4 DEF Tried
  <2>2. Untried(g) = Untried(f) \ {id} /\ id \in Untried(f)
    BY <1>1, <1>4, <2>1 DEF Tried, Untried
  <2> PICK T, U : T = Tried(f) /\ U = Untried(f)
    OBVIOUS
  <2>3. Cardinality(T \cup {id}) = Cardinality(T) + 1
    BY <1>2, <2>1, FS_AddElement
  <2>4. Cardinality(U \ {id}) = Cardinality(U) - 1
    BY <1>2, <2>2, FS_RemoveElement
  <2>5. QED
    BY <2>1, <2>2, <2>3, <2>4
<1>5. ASSUME ~inTried, f[id].inTried
      PROVE  /\ Cardinality(Tried(g)) = Cardinality(Tried(f)) - 1
             /\ Cardinality(Untried(g)) = Cardinality(Untried(f)) + 1
  <2>1. Tried(g) = Tried(f) \ {id} /\ id \in Tried(f)
    BY <1>1, <1>5 DEF Tried
  <2>2. Untried(g) = Untried(f) \cup {id} /\ id \notin Untried(f)
    BY <1>1, <1>5, <2>1 DEF Tried, Untried
  <2> PICK T, U : T = Tried(f) /\ U = Untried(f)
    OBVIOUS
  <2>3. Cardinality(T \ {id}) = Cardinality(T) - 1
    BY <1>2, <2>1, FS_RemoveElement
  <2>4. Cardinality(U \cup {id}) = Cardinality(U) + 1
    BY <1>2, <2>2, FS_AddElement
  <2>5. QED
    BY <2>1, <2>2, <2>3, <2>4
<1>6. QED
  BY <1>3, <1>4, <1>5

\* An entry gets one more place, or gives one up.
Listed(m, id, slot) == [m EXCEPT !.info[id].ref = @ + 1, !.new[slot] = id]
Unplaced(m, slot) == [m EXCEPT !.info[m.new[slot]].ref = @ - 1, !.new[slot] = -1]

\* The rest of the state, when an entry got or lost places.
Relisted(m, e, id) ==
  /\ Altered(m, e) /\ DOMAIN e.info = DOMAIN m.info /\ e.tried = m.tried /\ e.coll = m.coll
  /\ e.nNew = m.nNew /\ e.nTried = m.nTried
  /\ Update(m.info, e.info, id, e.info[id].ref, m.info[id].inTried, m.info[id].tested)

\* A relisted state counts as before.
LEMMA RelistedCounts ==
  ASSUME NEW m, NEW e, Typed(m), NEW id \in DOMAIN m.info, Relisted(m, e, id)
  PROVE  \A i, j : CountsOK(m, i, j) => CountsOK(e, i, j)
<1>1. m.info \in [DOMAIN m.info -> InfoType] /\ IsFiniteSet(DOMAIN m.info)
  BY DEF Typed
<1>2. m.info[id].inTried \in BOOLEAN
  BY <1>1 DEF InfoType
<1>3. Tried(e.info) = Tried(m.info) /\ Untried(e.info) = Untried(m.info)
  BY <1>1, <1>2, UpdateCounts DEF Relisted
<1>4. QED
  BY <1>3 DEF CountsOK, Relisted

\* An entry may take a free place of its own while it has fewer than MaxRefs.
LEMMA ListedShape ==
  ASSUME NEW m, NEW L, Shape(m, L), NEW id \in DOMAIN m.info, NEW slot \in NewSlots,
         m.new[slot] = -1, NewSlot(m.info[id].addr, slot[1]) = slot,
         ~m.info[id].inTried, m.info[id].ref < MaxRefs
  PROVE  /\ Shape(Listed(m, id, slot), L \ {id}) /\ Relisted(m, Listed(m, id, slot), id)
         /\ Listed(m, id, slot).new = [m.new EXCEPT ![slot] = id]
         /\ Listed(m, id, slot).info[id].ref = m.info[id].ref + 1
<1> DEFINE e == Listed(m, id, slot)
           g == [m.info EXCEPT ![id].ref = m.info[id].ref + 1]
           n == [m.new EXCEPT ![slot] = id]
<1>1. Typed(m) /\ PlacesOK(m.info, m.new, L) /\ TriedOK(m.info, m.tried)
  BY DEF Shape
<1>2. /\ m.info \in [DOMAIN m.info -> InfoType] /\ m.new \in [NewSlots -> Nat \cup {-1}]
      /\ m.tried \in [TriedSlots -> Nat \cup {-1}] /\ id \in Nat /\ DOMAIN m.info \subseteq Nat
      /\ m.nNew \in Int /\ m.nTried \in Int /\ m.coll \subseteq 0..(m.nId - 1)
  BY <1>1 DEF Typed
<1>3. m.info[id].ref \in Nat
  BY <1>2 DEF InfoType
<1>4. Update(m.info, g, id, m.info[id].ref + 1, m.info[id].inTried, m.info[id].tested)
  <2>1. PICK v \in Nat : v = m.info[id].ref + 1
    BY <1>3
  <2>2. Update(m.info, [m.info EXCEPT ![id].ref = v], id, v, m.info[id].inTried, m.info[id].tested)
    BY <1>2, SetField
  <2>3. QED
    BY <2>1, <2>2
<1>5. /\ n \in [NewSlots -> Nat \cup {-1}] /\ \A z \in Nat \ {id} : PlacesOf(n, z) = PlacesOf(m.new, z)
      /\ Cardinality(PlacesOf(n, id)) = Cardinality(PlacesOf(m.new, id)) + 1
  BY <1>2, PlaceTaken
<1>6. n[slot] = id /\ \A s \in NewSlots \ {slot} : n[s] = m.new[s]
  BY <1>2
<1>7. e = [m EXCEPT !.info = g, !.new = n]
  BY DEF Listed
<1> HIDE DEF e, g, n
<1>8. Altered(m, e) /\ e.info = g /\ e.new = n /\ e.tried = m.tried /\ e.coll = m.coll
      /\ e.nNew = m.nNew /\ e.nTried = m.nTried
  BY <1>1, <1>7 DEF Altered, Typed
<1>9. DOMAIN g = DOMAIN m.info /\ (\A x \in DOMAIN m.info \ {id} : g[x] = m.info[x])
      /\ g[id].addr = m.info[id].addr /\ g[id].ref = m.info[id].ref + 1
      /\ g[id].inTried = m.info[id].inTried /\ g[id].tested = m.info[id].tested
  BY <1>4 DEF Update
<1>10. PlacesOK(g, n, L \ {id})
  <2>1. ASSUME NEW x \in DOMAIN g
        PROVE  /\ g[x].ref = Cardinality(PlacesOf(n, x))
               /\ (g[x].inTried \/ x \in L \ {id}) => g[x].ref = 0
               /\ x \in L \ {id} => ~g[x].inTried
               /\ (~g[x].inTried /\ x \notin L \ {id}) => g[x].ref \in 1..MaxRefs
    <3>1. CASE x = id
      <4>1. m.info[id].ref + 1 \in 1..MaxRefs
        BY <1>3, AddrManAssumption
      <4>2. m.info[id].ref = Cardinality(PlacesOf(m.new, id))
        BY <1>1 DEF PlacesOK
      <4>3. QED
        BY <1>5, <1>9, <3>1, <4>1, <4>2
    <3>2. CASE x # id
      <4>1. x \in Nat /\ x \in DOMAIN m.info /\ g[x] = m.info[x] /\ PlacesOf(n, x) = PlacesOf(m.new, x)
        BY <1>2, <1>5, <1>9, <3>2
      <4>2. QED
        BY <1>1, <3>2, <4>1 DEF PlacesOK
    <3>3. QED
      BY <3>1, <3>2
  <2>2. ASSUME NEW s \in NewSlots, n[s] # -1
        PROVE  n[s] \in DOMAIN g /\ NewSlot(g[n[s]].addr, s[1]) = s
    <3>1. CASE s = slot
      BY <1>6, <1>9, <3>1
    <3>2. CASE s # slot
      <4>1. n[s] = m.new[s]
        BY <1>6, <3>2
      <4>2. m.new[s] \in DOMAIN m.info /\ NewSlot(m.info[m.new[s]].addr, s[1]) = s
        BY <1>1, <2>2, <4>1 DEF PlacesOK
      <4>3. g[m.new[s]].addr = m.info[m.new[s]].addr
        BY <1>9, <4>2
      <4>4. QED
        BY <1>9, <4>1, <4>2, <4>3
    <3>3. QED
      BY <3>1, <3>2
  <2>3. L \ {id} \subseteq DOMAIN g
    BY <1>1, <1>9 DEF PlacesOK
  <2>4. QED
    BY <2>1, <2>2, <2>3 DEF PlacesOK
<1>11. TriedOK(g, m.tried)
  BY <1>1, <1>9 DEF TriedOK
<1>12. Shape(e, L \ {id})
  BY <1>2, <1>4, <1>5, <1>8, <1>10, <1>11, AlteredShape
<1>13. Relisted(m, e, id)
  BY <1>4, <1>8, <1>9 DEF Relisted
<1>14. QED
  BY <1>8, <1>9, <1>12, <1>13 DEF e, n

\* An entry that gives up its last place is left without one.
LEMMA UnplacedShape ==
  ASSUME NEW m, NEW L, Shape(m, L), NEW slot \in NewSlots, m.new[slot] # -1
  PROVE  LET id == m.new[slot]
             e == Unplaced(m, slot)
         IN /\ id \in DOMAIN m.info /\ ~m.info[id].inTried /\ id \notin L
            /\ e.info[id].ref = 0 => Shape(e, L \cup {id})
            /\ e.info[id].ref # 0 => Shape(e, L)
            /\ Relisted(m, e, id) /\ e.new = [m.new EXCEPT ![slot] = -1]
<1> DEFINE id == m.new[slot]
           e == Unplaced(m, slot)
           g == [m.info EXCEPT ![id].ref = m.info[id].ref - 1]
           n == [m.new EXCEPT ![slot] = -1]
<1>1. Typed(m) /\ PlacesOK(m.info, m.new, L) /\ TriedOK(m.info, m.tried)
  BY DEF Shape
<1>2. /\ m.info \in [DOMAIN m.info -> InfoType] /\ m.new \in [NewSlots -> Nat \cup {-1}]
      /\ m.tried \in [TriedSlots -> Nat \cup {-1}] /\ id \in Nat /\ DOMAIN m.info \subseteq Nat
      /\ m.nNew \in Int /\ m.nTried \in Int /\ m.coll \subseteq 0..(m.nId - 1)
  BY <1>1 DEF Typed
<1>3. id \in DOMAIN m.info
  BY <1>1 DEF PlacesOK
<1>4. m.info[id].ref \in Nat /\ m.info[id].ref = Cardinality(PlacesOf(m.new, id))
  BY <1>1, <1>2, <1>3 DEF InfoType, PlacesOK
<1>5. m.info[id].ref # 0 /\ id \notin L /\ ~m.info[id].inTried /\ m.info[id].ref \in 1..MaxRefs
  <2>1. m.info[id].ref # 0
    BY <1>4, NoPlace
  <2>2. QED
    BY <1>1, <1>3, <2>1 DEF PlacesOK
<1>6. Update(m.info, g, id, m.info[id].ref - 1, m.info[id].inTried, m.info[id].tested)
  <2>1. PICK v \in Nat : v = m.info[id].ref - 1
    BY <1>4, <1>5
  <2> HIDE DEF id
  <2>2. Update(m.info, [m.info EXCEPT ![id].ref = v], id, v, m.info[id].inTried, m.info[id].tested)
    BY <1>2, <1>3, SetField
  <2>3. QED
    BY <2>1, <2>2
<1>7. /\ n \in [NewSlots -> Nat \cup {-1}] /\ \A z \in Nat \ {id} : PlacesOf(n, z) = PlacesOf(m.new, z)
      /\ Cardinality(PlacesOf(n, id)) = Cardinality(PlacesOf(m.new, id)) - 1
  BY <1>2, PlaceFreed
<1>8. n[slot] = -1 /\ \A s \in NewSlots \ {slot} : n[s] = m.new[s]
  BY <1>2
<1>9. e = [m EXCEPT !.info = g, !.new = n]
  BY DEF Unplaced
<1> HIDE DEF e, g, n, id
<1>10. Altered(m, e) /\ e.info = g /\ e.new = n /\ e.tried = m.tried /\ e.coll = m.coll
       /\ e.nNew = m.nNew /\ e.nTried = m.nTried
  BY <1>1, <1>9 DEF Altered, Typed
<1>11. DOMAIN g = DOMAIN m.info /\ (\A x \in DOMAIN m.info \ {id} : g[x] = m.info[x])
       /\ g[id].addr = m.info[id].addr /\ g[id].ref = m.info[id].ref - 1
       /\ g[id].inTried = m.info[id].inTried /\ g[id].tested = m.info[id].tested
  BY <1>6 DEF Update
<1>12. ASSUME NEW K, (g[id].ref = 0 /\ K = L \cup {id}) \/ (g[id].ref # 0 /\ K = L)
       PROVE  Shape(e, K)
  <2>1. ASSUME NEW x \in DOMAIN g
        PROVE  /\ g[x].ref = Cardinality(PlacesOf(n, x))
               /\ (g[x].inTried \/ x \in K) => g[x].ref = 0
               /\ x \in K => ~g[x].inTried
               /\ (~g[x].inTried /\ x \notin K) => g[x].ref \in 1..MaxRefs
    <3>1. CASE x = id
      <4>1. g[id].ref # 0 => g[id].ref \in 1..MaxRefs
        BY <1>4, <1>5, <1>11, AddrManAssumption
      <4>2. g[id].ref = Cardinality(PlacesOf(n, id)) /\ ~g[id].inTried
        BY <1>4, <1>5, <1>7, <1>11
      <4>3. QED
        BY <1>5, <1>12, <3>1, <4>1, <4>2
    <3>2. CASE x # id
      <4>1. x \in Nat /\ x \in DOMAIN m.info /\ g[x] = m.info[x] /\ PlacesOf(n, x) = PlacesOf(m.new, x)
        BY <1>2, <1>7, <1>11, <3>2
      <4>2. x \in K <=> x \in L
        BY <1>12, <3>2
      <4>3. QED
        BY <1>1, <4>1, <4>2 DEF PlacesOK
    <3>3. QED
      BY <3>1, <3>2
  <2>2. ASSUME NEW s \in NewSlots, n[s] # -1
        PROVE  n[s] \in DOMAIN g /\ NewSlot(g[n[s]].addr, s[1]) = s
    <3>1. n[s] = m.new[s]
      BY <1>8, <2>2
    <3>2. m.new[s] \in DOMAIN m.info /\ NewSlot(m.info[m.new[s]].addr, s[1]) = s
      BY <1>1, <2>2, <3>1 DEF PlacesOK
    <3>3. g[m.new[s]].addr = m.info[m.new[s]].addr
      BY <1>11, <3>2
    <3>4. QED
      BY <1>11, <3>1, <3>2, <3>3
  <2>3. K \subseteq DOMAIN g
    BY <1>1, <1>3, <1>11, <1>12 DEF PlacesOK
  <2>4. PlacesOK(g, n, K)
    BY <2>1, <2>2, <2>3 DEF PlacesOK
  <2>5. TriedOK(g, m.tried)
    BY <1>1, <1>11 DEF TriedOK
  <2>6. QED
    BY <1>2, <1>3, <1>6, <1>7, <1>10, <2>4, <2>5, AlteredShape
<1>13. Relisted(m, e, id)
  BY <1>6, <1>10, <1>11 DEF Relisted
<1>14. QED
  BY <1>3, <1>5, <1>10, <1>12, <1>13 DEF e, n, id

\* What ClearNew leaves: every entry but the one that was in the place, which may have
\* lost a reference or have gone.
Cleared(m, e, slot) ==
  /\ e.new = [m.new EXCEPT ![slot] = -1] /\ e.tried = m.tried /\ e.coll = m.coll
  /\ e.nId = m.nId /\ DOMAIN e.info \subseteq DOMAIN m.info
  /\ DOMAIN m.info \ {m.new[slot]} \subseteq DOMAIN e.info
  /\ \A x \in DOMAIN e.info :
       /\ e.info[x].addr = m.info[x].addr /\ e.info[x].src = m.info[x].src
       /\ e.info[x].inTried = m.info[x].inTried /\ e.info[x].tested = m.info[x].tested
       /\ x # m.new[slot] => e.info[x].ref = m.info[x].ref
  /\ m.new[slot] = -1 \/ m.info[m.new[slot]].inTried = FALSE

\* ClearNew frees the place; an entry that had no other goes.
LEMMA ClearNewShape ==
  ASSUME NEW m, NEW L, Shape(m, L), NEW slot \in NewSlots
  PROVE  /\ Shape(ClearNew(m, slot), L) /\ Cleared(m, ClearNew(m, slot), slot)
         /\ \A i, j \in Int : CountsOK(m, i, j) => CountsOK(ClearNew(m, slot), i, j)
<1> DEFINE id == m.new[slot]
           r == Unplaced(m, slot)
           e == ClearNew(m, slot)
<1>1. Typed(m) /\ m.new \in [NewSlots -> Nat \cup {-1}] /\ -1 \notin DOMAIN m.info
  BY DEF Shape, Typed
<1>2. CASE id = -1
  <2>1. e = m
    BY <1>2 DEF ClearNew
  <2>2. m.new = [m.new EXCEPT ![slot] = -1]
    BY <1>1, <1>2
  <2>3. Cleared(m, m, slot)
    BY <1>2, <2>2 DEF Cleared
  <2>4. QED
    BY <2>1, <2>3
<1>3. CASE id # -1
  <2>1. /\ id \in DOMAIN m.info /\ ~m.info[id].inTried /\ id \notin L
        /\ r.info[id].ref = 0 => Shape(r, L \cup {id})
        /\ r.info[id].ref # 0 => Shape(r, L)
        /\ Relisted(m, r, id) /\ r.new = [m.new EXCEPT ![slot] = -1]
    BY <1>3, UnplacedShape
  <2>2. e = IF r.info[id].ref = 0 THEN Delete(r, id) ELSE r
    BY <1>3 DEF ClearNew, Unplaced
  <2> HIDE DEF r, e, id
  <2>3. \A i, j : CountsOK(m, i, j) => CountsOK(r, i, j)
    BY <1>1, <2>1, RelistedCounts
  <2>4. /\ DOMAIN r.info = DOMAIN m.info /\ r.tried = m.tried /\ r.coll = m.coll /\ r.nId = m.nId
        /\ \A x \in DOMAIN m.info :
             /\ r.info[x].addr = m.info[x].addr /\ r.info[x].src = m.info[x].src
             /\ r.info[x].inTried = m.info[x].inTried /\ r.info[x].tested = m.info[x].tested
             /\ x # id => r.info[x].ref = m.info[x].ref
    BY <2>1 DEF Relisted, Altered, Update
  <2>5. m.info[id].inTried = FALSE
    <3>1. m.info[id].inTried \in BOOLEAN
      BY <1>1, <2>1 DEF Typed, InfoType
    <3>2. QED
      BY <2>1, <3>1
  <2>6. CASE r.info[id].ref # 0
    <3>1. Cleared(m, r, slot)
      BY <2>1, <2>4, <2>5 DEF Cleared, id
    <3>2. QED
      BY <2>1, <2>2, <2>3, <2>6, <3>1 DEF e
  <2>7. CASE r.info[id].ref = 0
    <3> DEFINE d == Delete(r, id)
    <3>1. Shape(r, L \cup {id}) /\ id \in L \cup {id} /\ (L \cup {id}) \ {id} = L
      BY <2>1, <2>7
    <3>2. /\ Shape(d, L) /\ Without(r, d, id)
          /\ \A i, j \in Int : CountsOK(r, i, j) => CountsOK(d, i, j)
      BY <3>1, DeleteShape
    <3> HIDE DEF d
    <3>3. Cleared(m, d, slot)
      BY <2>1, <2>4, <2>5, <3>2 DEF Cleared, Without, Same, id
    <3>4. e = d
      BY <2>2, <2>7 DEF d
    <3>5. QED
      BY <2>3, <3>2, <3>3, <3>4 DEF e
  <2>8. QED
    BY <2>6, <2>7
<1>4. QED
  BY <1>2, <1>3

-----------------------------------------------------------------------------
(* MakeTried.                                                              *)

\* Changing nNew.
LEMMA Recounted ==
  ASSUME NEW m, NEW L, Shape(m, L), NEW v \in Int, NEW e, e = [m EXCEPT !.nNew = v]
  PROVE  /\ Shape(e, L) /\ e.info = m.info /\ e.addr = m.addr /\ e.random = m.random
         /\ e.new = m.new /\ e.tried = m.tried /\ e.nNew = v /\ e.nTried = m.nTried
         /\ e.nId = m.nId /\ e.coll = m.coll
<1>1. Typed(m)
  BY DEF Shape
<1>2. /\ e.info = m.info /\ e.addr = m.addr /\ e.random = m.random
      /\ e.new = m.new /\ e.tried = m.tried /\ e.nNew = v /\ e.nTried = m.nTried
      /\ e.nId = m.nId /\ e.coll = m.coll
      /\ e = [info |-> e.info, addr |-> e.addr, random |-> e.random, new |-> e.new,
              tried |-> e.tried, nNew |-> e.nNew, nTried |-> e.nTried, nId |-> e.nId,
              coll |-> e.coll]
  BY <1>1 DEF Typed
<1>3. Typed(e)
  BY <1>1, <1>2 DEF Typed
<1>4. QED
  BY <1>2, <1>3 DEF Shape

\* MakeTried looks for an entry in one bucket after the other, and finds all its places:
\* the entry is left with none, and is not counted any more.
LEMMA UnlistedShape ==
  ASSUME NEW m, NEW L, Shape(m, L), NEW id \in DOMAIN m.info, ~m.info[id].inTried
  PROVE  LET e == Unlisted(m, id)
         IN /\ Shape(e, L \cup {id}) /\ Altered(m, e) /\ e.tried = m.tried /\ e.coll = m.coll
            /\ Update(m.info, e.info, id, 0, m.info[id].inTried, m.info[id].tested)
            /\ \A i, j \in Int : CountsOK(m, i, j) => CountsOK(e, i + 1, j)
<1> DEFINE e == Unlisted(m, id)
           a == m.info[id].addr
           mine == {s \in {NewSlot(a, b) : b \in Buckets} : m.new[s] = id}
           n == [s \in NewSlots |-> IF s \in PlacesOf(m.new, id) THEN -1 ELSE m.new[s]]
           g == [m.info EXCEPT ![id].ref = 0]
<1>1. Typed(m) /\ PlacesOK(m.info, m.new, L) /\ TriedOK(m.info, m.tried)
  BY DEF Shape
<1>2. /\ m.info \in [DOMAIN m.info -> InfoType] /\ m.new \in [NewSlots -> Nat \cup {-1}]
      /\ m.tried \in [TriedSlots -> Nat \cup {-1}] /\ id \in Nat /\ DOMAIN m.info \subseteq Nat
      /\ m.nNew \in Int /\ m.nTried \in Int /\ m.coll \subseteq 0..(m.nId - 1)
  BY <1>1 DEF Typed
<1>3. a \in Addrs /\ m.info[id].ref \in Nat
  BY <1>2 DEF InfoType
<1>4. mine = PlacesOf(m.new, id)
  <2>1. ASSUME NEW s \in mine PROVE s \in PlacesOf(m.new, id)
    BY <1>3, SlotFacts DEF PlacesOf
  <2>2. ASSUME NEW s \in PlacesOf(m.new, id) PROVE s \in mine
    <3>1. s \in NewSlots /\ m.new[s] = id /\ s[1] \in Buckets
      BY SlotFacts DEF PlacesOf
    <3>2. NewSlot(a, s[1]) = s
      BY <1>1, <1>2, <3>1 DEF PlacesOK
    <3>3. QED
      BY <3>1, <3>2
  <2>3. QED
    BY <2>1, <2>2
<1>5. m.info[id].ref - Cardinality(mine) = 0
  <2>1. m.info[id].ref = Cardinality(PlacesOf(m.new, id))
    BY <1>1 DEF PlacesOK
  <2> HIDE DEF mine
  <2>2. QED
    BY <1>3, <1>4, <2>1
<1>6. e = [m EXCEPT !.new = n, !.info = g, !.nNew = m.nNew - 1]
  <2>1. e = [m EXCEPT !.new = [s \in NewSlots |-> IF s \in mine THEN -1 ELSE @[s]],
                      !.info[id].ref = @ - Cardinality(mine), !.nNew = @ - 1]
    BY DEF Unlisted
  <2>2. [m.info EXCEPT ![id].ref = m.info[id].ref - Cardinality(mine)] = g
    BY <1>5
  <2>3. [s \in NewSlots |-> IF s \in mine THEN -1 ELSE m.new[s]] = n
    BY <1>4
  <2> HIDE DEF mine
  <2>4. QED
    BY <2>1, <2>2, <2>3
<1>7. Update(m.info, g, id, 0, m.info[id].inTried, m.info[id].tested)
  BY <1>2, SetField
<1>8. n \in [NewSlots -> Nat \cup {-1}]
  BY <1>2
<1>9. \A s \in NewSlots : n[s] # id /\ (m.new[s] # id => n[s] = m.new[s])
                          /\ (m.new[s] = id => n[s] = -1)
  BY <1>2 DEF PlacesOf
<1> HIDE DEF e, g, n, mine, a
<1>10. Altered(m, e) /\ e.info = g /\ e.new = n /\ e.tried = m.tried /\ e.coll = m.coll
       /\ e.nNew = m.nNew - 1 /\ e.nTried = m.nTried
  BY <1>1, <1>6 DEF Altered, Typed
<1>11. DOMAIN g = DOMAIN m.info /\ (\A x \in DOMAIN m.info \ {id} : g[x] = m.info[x])
       /\ g[id].addr = m.info[id].addr /\ g[id].ref = 0
       /\ g[id].inTried = m.info[id].inTried /\ g[id].tested = m.info[id].tested
  BY <1>7 DEF Update
<1>12. PlacesOf(n, id) = {} /\ \A x \in Nat \ {id} : PlacesOf(n, x) = PlacesOf(m.new, x)
  BY <1>9 DEF PlacesOf
<1>13. Cardinality(PlacesOf(n, id)) = 0
  BY <1>12, FS_EmptySet
<1>14. PlacesOK(g, n, L \cup {id})
  <2>1. ASSUME NEW x \in DOMAIN g
        PROVE  /\ g[x].ref = Cardinality(PlacesOf(n, x))
               /\ (g[x].inTried \/ x \in L \cup {id}) => g[x].ref = 0
               /\ x \in L \cup {id} => ~g[x].inTried
               /\ (~g[x].inTried /\ x \notin L \cup {id}) => g[x].ref \in 1..MaxRefs
    <3>1. CASE x = id
      BY <1>11, <1>13, <3>1
    <3>2. CASE x # id
      <4>1. x \in Nat /\ x \in DOMAIN m.info /\ g[x] = m.info[x] /\ PlacesOf(n, x) = PlacesOf(m.new, x)
        BY <1>2, <1>11, <1>12, <3>2
      <4>2. QED
        BY <1>1, <3>2, <4>1 DEF PlacesOK
    <3>3. QED
      BY <3>1, <3>2
  <2>2. ASSUME NEW s \in NewSlots, n[s] # -1
        PROVE  n[s] \in DOMAIN g /\ NewSlot(g[n[s]].addr, s[1]) = s
    <3>1. n[s] = m.new[s] /\ n[s] # id
      BY <1>9, <2>2
    <3>2. m.new[s] \in DOMAIN m.info /\ NewSlot(m.info[m.new[s]].addr, s[1]) = s
      BY <1>1, <2>2, <3>1 DEF PlacesOK
    <3>3. QED
      BY <1>11, <3>1, <3>2
  <2>3. L \cup {id} \subseteq DOMAIN g
    BY <1>1, <1>11 DEF PlacesOK
  <2>4. QED
    BY <2>1, <2>2, <2>3 DEF PlacesOK
<1>15. TriedOK(g, m.tried)
  BY <1>1, <1>11 DEF TriedOK
<1>16. Shape(e, L \cup {id})
  <2>1. m.nNew - 1 \in Int
    BY <1>2
  <2>2. QED
    BY <1>2, <1>7, <1>8, <1>10, <1>14, <1>15, <2>1, AlteredShape
<1>17. ASSUME NEW i \in Int, NEW j \in Int, CountsOK(m, i, j) PROVE CountsOK(e, i + 1, j)
  <2>1. m.info[id].inTried \in BOOLEAN /\ IsFiniteSet(DOMAIN m.info)
    BY <1>1, <1>2 DEF InfoType, Typed
  <2>2. Tried(g) = Tried(m.info) /\ Untried(g) = Untried(m.info)
    BY <1>2, <1>7, <2>1, UpdateCounts
  <2>3. QED
    BY <1>2, <1>10, <1>17, <2>2 DEF CountsOK
<1>18. QED
  BY <1>7, <1>10, <1>16, <1>17 DEF e

\* The tried entry of a slot leaves the table: the first half of the eviction.
Untrying(m, slot) == [m EXCEPT !.info[m.tried[slot]].inTried = FALSE, !.tried[slot] = -1,
                               !.nTried = @ - 1]

\* The entry then has no place in any table.
LEMMA UntryingShape ==
  ASSUME NEW m, NEW L, Shape(m, L), NEW slot \in TriedSlots, m.tried[slot] # -1
  PROVE  LET old == m.tried[slot]
             e == Untrying(m, slot)
         IN /\ old \in DOMAIN m.info /\ m.info[old].inTried /\ old \notin L
            /\ Shape(e, L \cup {old}) /\ Altered(m, e)
            /\ Update(m.info, e.info, old, 0, FALSE, m.info[old].tested)
            /\ e.new = m.new /\ e.coll = m.coll /\ e.tried = [m.tried EXCEPT ![slot] = -1]
            /\ \A i, j \in Int : CountsOK(m, i, j) => CountsOK(e, i + 1, j)
<1> DEFINE old == m.tried[slot]
           e == Untrying(m, slot)
           g == [m.info EXCEPT ![old].inTried = FALSE]
           t == [m.tried EXCEPT ![slot] = -1]
<1>1. Typed(m) /\ PlacesOK(m.info, m.new, L) /\ TriedOK(m.info, m.tried)
  BY DEF Shape
<1>2. /\ m.info \in [DOMAIN m.info -> InfoType] /\ m.new \in [NewSlots -> Nat \cup {-1}]
      /\ m.tried \in [TriedSlots -> Nat \cup {-1}] /\ DOMAIN m.info \subseteq Nat
      /\ m.nNew \in Int /\ m.nTried \in Int /\ m.coll \subseteq 0..(m.nId - 1)
      /\ IsFiniteSet(DOMAIN m.info)
  BY <1>1 DEF Typed
<1>3. old \in DOMAIN m.info /\ m.info[old].inTried /\ TriedSlot[m.info[old].addr] = slot
  BY <1>1 DEF TriedOK
<1>4. old \notin L /\ m.info[old].ref = 0
  BY <1>1, <1>3 DEF PlacesOK
<1>5. e = [m EXCEPT !.info = g, !.tried = t, !.nTried = m.nTried - 1]
  BY DEF Untrying
<1>6. t \in [TriedSlots -> Nat \cup {-1}] /\ t[slot] = -1 /\ \A s \in TriedSlots \ {slot} : t[s] = m.tried[s]
  BY <1>2
<1> HIDE DEF e, t, old
<1>7. Update(m.info, g, old, 0, FALSE, m.info[old].tested)
  BY <1>2, <1>3, <1>4, SetField
<1> HIDE DEF g
<1>8. Altered(m, e) /\ e.info = g /\ e.new = m.new /\ e.tried = t /\ e.coll = m.coll
      /\ e.nNew = m.nNew /\ e.nTried = m.nTried - 1
  BY <1>1, <1>5 DEF Altered, Typed
<1>9. DOMAIN g = DOMAIN m.info /\ (\A x \in DOMAIN m.info \ {old} : g[x] = m.info[x])
      /\ g[old].addr = m.info[old].addr /\ g[old].ref = 0
      /\ ~g[old].inTried /\ g[old].tested = m.info[old].tested
  BY <1>7 DEF Update
<1>10. PlacesOK(g, m.new, L \cup {old})
  <2>1. ASSUME NEW x \in DOMAIN g
        PROVE  /\ g[x].ref = Cardinality(PlacesOf(m.new, x))
               /\ (g[x].inTried \/ x \in L \cup {old}) => g[x].ref = 0
               /\ x \in L \cup {old} => ~g[x].inTried
               /\ (~g[x].inTried /\ x \notin L \cup {old}) => g[x].ref \in 1..MaxRefs
    <3>1. CASE x = old
      <4>1. Cardinality(PlacesOf(m.new, old)) = 0
        BY <1>1, <1>3, <1>4 DEF PlacesOK
      <4>2. QED
        BY <1>9, <3>1, <4>1
    <3>2. CASE x # old
      <4>1. x \in DOMAIN m.info /\ g[x] = m.info[x]
        BY <1>9, <3>2
      <4>2. QED
        BY <1>1, <3>2, <4>1 DEF PlacesOK
    <3>3. QED
      BY <3>1, <3>2
  <2>2. ASSUME NEW s \in NewSlots, m.new[s] # -1
        PROVE  m.new[s] \in DOMAIN g /\ NewSlot(g[m.new[s]].addr, s[1]) = s
    <3>1. m.new[s] \in DOMAIN m.info /\ NewSlot(m.info[m.new[s]].addr, s[1]) = s
      BY <1>1, <2>2 DEF PlacesOK
    <3>2. QED
      BY <1>9, <3>1
  <2>3. L \cup {old} \subseteq DOMAIN g
    BY <1>1, <1>3, <1>9 DEF PlacesOK
  <2>4. QED
    BY <2>1, <2>2, <2>3 DEF PlacesOK
<1>11. TriedOK(g, t)
  <2>1. ASSUME NEW x \in DOMAIN g, g[x].inTried
        PROVE  g[x].tested # "never" /\ t[TriedSlot[g[x].addr]] = x
    <3>1. x # old /\ g[x] = m.info[x] /\ x \in DOMAIN m.info
      BY <1>9, <2>1
    <3>2. m.info[x].tested # "never" /\ m.tried[TriedSlot[m.info[x].addr]] = x
      BY <1>1, <2>1, <3>1 DEF TriedOK
    <3>3. TriedSlot[m.info[x].addr] # slot
      BY <3>1, <3>2 DEF old
    <3>4. m.info[x].addr \in Addrs
      BY <1>2, <3>1 DEF InfoType
    <3>5. TriedSlot[m.info[x].addr] \in TriedSlots
      BY <3>4 DEF TriedSlots
    <3>6. QED
      BY <1>6, <3>1, <3>2, <3>3, <3>5
  <2>2. ASSUME NEW s \in TriedSlots, t[s] # -1
        PROVE  t[s] \in DOMAIN g /\ g[t[s]].inTried /\ TriedSlot[g[t[s]].addr] = s
    <3>1. s # slot /\ t[s] = m.tried[s]
      BY <1>6, <2>2
    <3>2. m.tried[s] \in DOMAIN m.info /\ m.info[m.tried[s]].inTried /\ TriedSlot[m.info[m.tried[s]].addr] = s
      BY <1>1, <2>2, <3>1 DEF TriedOK
    <3>3. m.tried[s] # old
      BY <1>3, <3>1, <3>2
    <3>4. QED
      BY <1>9, <3>1, <3>2, <3>3
  <2>3. QED
    BY <2>1, <2>2 DEF TriedOK
<1>12. Shape(e, L \cup {old})
  <2>1. m.nTried - 1 \in Int
    BY <1>2
  <2>2. QED
    BY <1>2, <1>3, <1>6, <1>7, <1>8, <1>10, <1>11, <2>1, AlteredShape
<1>13. ASSUME NEW i \in Int, NEW j \in Int, CountsOK(m, i, j) PROVE CountsOK(e, i + 1, j)
  <2>1. /\ Cardinality(Tried(g)) = Cardinality(Tried(m.info)) - 1
        /\ Cardinality(Untried(g)) = Cardinality(Untried(m.info)) + 1
    BY <1>2, <1>3, <1>7, UpdateCounts
  <2>2. QED
    BY <1>1, <1>2, <1>8, <1>13, <2>1, FiniteEntries DEF CountsOK
<1>14. QED
  BY <1>3, <1>4, <1>7, <1>8, <1>12, <1>13 DEF e, t, old

\* What an eviction leaves of the state.
Evicting(m, e, slot) ==
  /\ e.tried = [m.tried EXCEPT ![slot] = -1] /\ e.coll = m.coll /\ e.nId = m.nId
  /\ DOMAIN e.info \subseteq DOMAIN m.info
  /\ \A x \in DOMAIN e.info :
       /\ e.info[x].addr = m.info[x].addr /\ e.info[x].tested = m.info[x].tested
       /\ e.info[x].inTried => m.info[x].inTried

\* The evicted entry goes to the place of its source in the new table.
LEMMA EvictedShape ==
  ASSUME NEW m, NEW L, Shape(m, L), NEW slot \in TriedSlots
  PROVE  LET e == Evicted(m, slot)
         IN /\ Shape(e, L) /\ Evicting(m, e, slot)
            /\ \A i, j \in Int : CountsOK(m, i, j) => CountsOK(e, i, j)
<1> DEFINE old == m.tried[slot]
           a == m.info[old].addr
           to == NewSlot(a, NewBucket[<<a, m.info[old].src>>])
           r == Untrying(m, slot)
           c == ClearNew(r, to)
           l == Listed(c, old, to)
           e == Evicted(m, slot)
<1>1. Typed(m) /\ m.tried \in [TriedSlots -> Nat \cup {-1}] /\ DOMAIN m.info \subseteq Nat
  BY DEF Shape, Typed
<1>2. CASE old = -1
  <2>1. e = m
    BY <1>2 DEF Evicted
  <2>2. m.tried = [m.tried EXCEPT ![slot] = -1]
    BY <1>1, <1>2
  <2>3. Evicting(m, m, slot)
    BY <2>2 DEF Evicting
  <2>4. QED
    BY <2>1, <2>3
<1>3. CASE old # -1
  <2>1. /\ old \in DOMAIN m.info /\ m.info[old].inTried /\ old \notin L
        /\ Shape(r, L \cup {old}) /\ Altered(m, r)
        /\ Update(m.info, r.info, old, 0, FALSE, m.info[old].tested)
        /\ r.new = m.new /\ r.coll = m.coll /\ r.tried = [m.tried EXCEPT ![slot] = -1]
        /\ \A i, j \in Int : CountsOK(m, i, j) => CountsOK(r, i + 1, j)
    BY <1>3, UntryingShape
  <2>2. a \in Addrs /\ NewBucket[<<a, m.info[old].src>>] \in Buckets
    <3>1. m.info \in [DOMAIN m.info -> InfoType] /\ NamesOK(m.info, m.addr)
      BY <1>1 DEF Shape, Typed
    <3>2. a \in Addrs
      BY <2>1, <3>1 DEF InfoType
    <3>3. <<a, m.info[old].src>> \in DOMAIN NewBucket
      BY <2>1, <3>1 DEF NamesOK
    <3>4. QED
      BY <3>2, <3>3 DEF Buckets
  <2>3. to \in NewSlots /\ NewSlot(a, to[1]) = to
    BY <2>2, SlotFacts
  <2>4. e = [c EXCEPT !.info[old].ref = 1, !.new[to] = old, !.nNew = @ + 1]
    BY <1>3 DEF Evicted, Untrying
  <2> HIDE DEF e, c, r, to, a, old
  <2>5. /\ Shape(c, L \cup {old}) /\ Cleared(r, c, to)
        /\ \A i, j \in Int : CountsOK(r, i, j) => CountsOK(c, i, j)
    BY <2>1, <2>3, ClearNewShape DEF c
  <2>6. Typed(c) /\ PlacesOK(c.info, c.new, L \cup {old})
    BY <2>5 DEF Shape
  <2>7. old \in DOMAIN c.info /\ ~c.info[old].inTried /\ c.info[old].ref = 0
    BY <2>6 DEF PlacesOK
  <2>8. c.info[old].addr = a /\ DOMAIN r.info = DOMAIN m.info
    BY <2>1, <2>5, <2>7 DEF Cleared, Update, a
  <2>9. c.new[to] = -1
    <3>1. r.new \in [NewSlots -> Nat \cup {-1}]
      BY <2>1 DEF Shape, Typed
    <3>2. QED
      BY <2>3, <2>5, <3>1 DEF Cleared
  <2>10. c.info[old].ref < MaxRefs
    BY <2>7, AddrManAssumption
  <2>11. /\ Shape(l, (L \cup {old}) \ {old}) /\ Relisted(c, l, old)
    BY <2>3, <2>5, <2>7, <2>8, <2>9, <2>10, ListedShape
  <2>12. (L \cup {old}) \ {old} = L
    BY <2>1
  <2>13. \A i, j : CountsOK(c, i, j) => CountsOK(l, i, j)
    BY <2>6, <2>7, <2>11, RelistedCounts
  <2>14. e = [l EXCEPT !.nNew = l.nNew + 1]
    <3>1. l = [c EXCEPT !.info[old].ref = c.info[old].ref + 1, !.new[to] = old]
      BY DEF Listed
    <3>2. c.info[old].ref + 1 = 1
      BY <2>7
    <3>3. l = [c EXCEPT !.info[old].ref = 1, !.new[to] = old]
      BY <3>1, <3>2
    <3>4. QED
      BY <2>4, <2>6, <3>3 DEF Typed
  <2> HIDE DEF l
  <2>15. l.nNew \in Int /\ l.nNew + 1 \in Int /\ l.nTried \in Int
    BY <2>11 DEF Shape, Typed
  <2>16. /\ Shape(e, L) /\ e.info = l.info /\ e.addr = l.addr /\ e.random = l.random
         /\ e.new = l.new /\ e.tried = l.tried /\ e.nNew = l.nNew + 1 /\ e.nTried = l.nTried
         /\ e.nId = l.nId /\ e.coll = l.coll
    BY <2>11, <2>12, <2>14, <2>15, Recounted
  <2>17. Evicting(m, e, slot)
    <3>1. e.tried = [m.tried EXCEPT ![slot] = -1] /\ e.coll = m.coll /\ e.nId = m.nId
      BY <2>1, <2>5, <2>11, <2>16 DEF Relisted, Altered, Cleared
    <3>2. DOMAIN e.info = DOMAIN c.info /\ DOMAIN c.info \subseteq DOMAIN m.info
      BY <2>5, <2>8, <2>11, <2>16 DEF Relisted, Cleared
    <3>3. ASSUME NEW x \in DOMAIN e.info
          PROVE  /\ e.info[x].addr = m.info[x].addr /\ e.info[x].tested = m.info[x].tested
                 /\ e.info[x].inTried => m.info[x].inTried
      <4>1. /\ e.info[x].addr = c.info[x].addr /\ e.info[x].tested = c.info[x].tested
            /\ e.info[x].inTried = c.info[x].inTried
        BY <2>11, <2>16, <3>2 DEF Relisted, Update
      <4>2. /\ c.info[x].addr = r.info[x].addr /\ c.info[x].tested = r.info[x].tested
            /\ c.info[x].inTried = r.info[x].inTried
        BY <2>5, <3>2 DEF Cleared
      <4>3. /\ r.info[x].addr = m.info[x].addr /\ r.info[x].tested = m.info[x].tested
            /\ r.info[x].inTried => m.info[x].inTried
        BY <2>1, <3>2 DEF Update
      <4>4. QED
        BY <4>1, <4>2, <4>3
    <3>4. QED
      BY <3>1, <3>2, <3>3 DEF Evicting
  <2>18. ASSUME NEW i \in Int, NEW j \in Int, CountsOK(m, i, j) PROVE CountsOK(e, i, j)
    <3>1. i + 1 \in Int /\ CountsOK(r, i + 1, j)
      BY <2>1, <2>18
    <3>2. CountsOK(l, i + 1, j)
      BY <2>5, <2>13, <3>1
    <3>3. QED
      BY <2>15, <2>16, <3>2 DEF CountsOK
  <2>19. QED
    BY <2>16, <2>17, <2>18 DEF e
<1>4. QED
  BY <1>2, <1>3

\* An entry without a place takes a free slot of the tried table.
Trying(v, id, w) == [v EXCEPT !.info[id].inTried = TRUE, !.tried[TriedSlot[v.info[id].addr]] = id,
                              !.nTried = w]

\* What changes with it.
Tries(v, e, id) ==
  /\ Update(v.info, e.info, id, 0, TRUE, v.info[id].tested) /\ Altered(v, e) /\ e.new = v.new
  /\ e.tried = [v.tried EXCEPT ![TriedSlot[v.info[id].addr]] = id] /\ e.coll = v.coll
  /\ e.nNew = v.nNew

\* The tables still agree.
LEMMA TryingShape ==
  ASSUME NEW v, NEW K, Shape(v, K), NEW id \in K, v.info[id].tested # "never",
         v.tried[TriedSlot[v.info[id].addr]] = -1, NEW w \in Int
  PROVE  /\ Shape(Trying(v, id, w), K \ {id}) /\ Tries(v, Trying(v, id, w), id)
         /\ Trying(v, id, w).nTried = w
<1> DEFINE slot == TriedSlot[v.info[id].addr]
           e == Trying(v, id, w)
           g == [v.info EXCEPT ![id].inTried = TRUE]
           t == [v.tried EXCEPT ![slot] = id]
<1>1. Typed(v) /\ PlacesOK(v.info, v.new, K) /\ TriedOK(v.info, v.tried)
  BY DEF Shape
<1>2. /\ v.info \in [DOMAIN v.info -> InfoType] /\ v.new \in [NewSlots -> Nat \cup {-1}]
      /\ v.tried \in [TriedSlots -> Nat \cup {-1}] /\ DOMAIN v.info \subseteq Nat
      /\ v.nNew \in Int /\ v.coll \subseteq 0..(v.nId - 1)
  BY <1>1 DEF Typed
<1>3. id \in DOMAIN v.info /\ v.info[id].ref = 0 /\ ~v.info[id].inTried /\ id \in Nat
  BY <1>1, <1>2 DEF PlacesOK
<1>4. slot \in TriedSlots
  BY <1>2, <1>3 DEF InfoType, TriedSlots
<1>5. e = [v EXCEPT !.info = g, !.tried = t, !.nTried = w]
  BY DEF Trying
<1>6. Update(v.info, g, id, 0, TRUE, v.info[id].tested)
  BY <1>2, <1>3, SetField
<1> HIDE DEF slot
<1>7. /\ t \in [TriedSlots -> Nat \cup {-1}] /\ t[slot] = id /\ v.tried[slot] = -1
      /\ \A s \in TriedSlots \ {slot} : t[s] = v.tried[s]
  <2>1. v.tried[slot] = -1
    BY DEF slot
  <2>2. QED
    BY <1>2, <1>3, <1>4, <2>1
<1> HIDE DEF g, t, e
<1>8. Altered(v, e) /\ e.info = g /\ e.new = v.new /\ e.tried = t /\ e.coll = v.coll
      /\ e.nNew = v.nNew /\ e.nTried = w
  BY <1>1, <1>5 DEF Altered, Typed
<1>9. /\ DOMAIN g = DOMAIN v.info /\ (\A x \in DOMAIN v.info \ {id} : g[x] = v.info[x])
      /\ g[id].addr = v.info[id].addr /\ g[id].ref = 0
      /\ g[id].inTried /\ g[id].tested = v.info[id].tested
  BY <1>6 DEF Update
<1>10. PlacesOK(g, v.new, K \ {id})
  <2>1. ASSUME NEW x \in DOMAIN g
        PROVE  /\ g[x].ref = Cardinality(PlacesOf(v.new, x))
               /\ (g[x].inTried \/ x \in K \ {id}) => g[x].ref = 0
               /\ x \in K \ {id} => ~g[x].inTried
               /\ (~g[x].inTried /\ x \notin K \ {id}) => g[x].ref \in 1..MaxRefs
    <3>1. CASE x = id
      <4>1. Cardinality(PlacesOf(v.new, id)) = 0
        BY <1>1, <1>3 DEF PlacesOK
      <4>2. QED
        BY <1>9, <3>1, <4>1
    <3>2. CASE x # id
      <4>1. x \in DOMAIN v.info /\ g[x] = v.info[x]
        BY <1>9, <3>2
      <4>2. QED
        BY <1>1, <3>2, <4>1 DEF PlacesOK
    <3>3. QED
      BY <3>1, <3>2
  <2>2. ASSUME NEW s \in NewSlots, v.new[s] # -1
        PROVE  v.new[s] \in DOMAIN g /\ NewSlot(g[v.new[s]].addr, s[1]) = s
    <3>1. v.new[s] \in DOMAIN v.info /\ NewSlot(v.info[v.new[s]].addr, s[1]) = s
      BY <1>1, <2>2 DEF PlacesOK
    <3>2. QED
      BY <1>9, <3>1
  <2>3. K \ {id} \subseteq DOMAIN g
    BY <1>1, <1>9 DEF PlacesOK
  <2>4. QED
    BY <2>1, <2>2, <2>3 DEF PlacesOK
<1>11. TriedOK(g, t)
  <2>1. ASSUME NEW x \in DOMAIN g, g[x].inTried
        PROVE  g[x].tested # "never" /\ t[TriedSlot[g[x].addr]] = x
    <3>1. CASE x = id
      BY <1>7, <1>9, <3>1 DEF slot
    <3>2. CASE x # id
      <4>1. g[x] = v.info[x] /\ x \in DOMAIN v.info
        BY <1>9, <3>2
      <4>2. v.info[x].tested # "never" /\ v.tried[TriedSlot[v.info[x].addr]] = x
        BY <1>1, <2>1, <4>1 DEF TriedOK
      <4>3. v.info[x].addr \in Addrs /\ x # -1
        BY <1>2, <4>1 DEF InfoType
      <4>4. TriedSlot[v.info[x].addr] \in TriedSlots \ {slot}
        BY <1>7, <4>2, <4>3 DEF TriedSlots
      <4>5. QED
        BY <1>7, <4>1, <4>2, <4>4
    <3>3. QED
      BY <3>1, <3>2
  <2>2. ASSUME NEW s \in TriedSlots, t[s] # -1
        PROVE  t[s] \in DOMAIN g /\ g[t[s]].inTried /\ TriedSlot[g[t[s]].addr] = s
    <3>1. CASE s = slot
      <4>1. TriedSlot[g[id].addr] = slot
        BY <1>9 DEF slot
      <4>2. QED
        BY <1>3, <1>7, <1>9, <3>1, <4>1
    <3>2. CASE s # slot
      <4>1. t[s] = v.tried[s]
        BY <1>7, <3>2
      <4>2. v.tried[s] \in DOMAIN v.info /\ v.info[v.tried[s]].inTried /\ TriedSlot[v.info[v.tried[s]].addr] = s
        BY <1>1, <2>2, <4>1 DEF TriedOK
      <4>3. g[v.tried[s]] = v.info[v.tried[s]]
        BY <1>3, <1>9, <4>2
      <4>4. QED
        BY <1>9, <4>1, <4>2, <4>3
    <3>3. QED
      BY <3>1, <3>2
  <2>3. QED
    BY <2>1, <2>2 DEF TriedOK
<1>12. Shape(e, K \ {id})
  BY <1>2, <1>3, <1>6, <1>7, <1>8, <1>10, <1>11, AlteredShape
<1>13. Tries(v, e, id)
  BY <1>6, <1>8 DEF Tries, t, slot
<1>14. QED
  BY <1>8, <1>12, <1>13 DEF e

\* MakeTried moves an entry that has answered to the tried table.
LEMMA MakeTriedSound ==
  ASSUME NEW m, Sound(m), NEW id \in DOMAIN m.info, ~m.info[id].inTried,
         m.info[id].tested # "never", id \notin m.coll
  PROVE  Sound(MakeTried(m, id))
<1> DEFINE slot == TriedSlot[m.info[id].addr]
           u == Unlisted(m, id)
           v == Evicted(u, slot)
           e == MakeTried(m, id)
           g == [v.info EXCEPT ![id].inTried = TRUE]
           t == [v.tried EXCEPT ![slot] = id]
<1>1. Shape(m, {}) /\ CountsOK(m, 0, 0) /\ Pending(m) /\ Typed(m) /\ TriedOK(m.info, m.tried)
  BY DEF Sound, Shape
<1>2. m.info \in [DOMAIN m.info -> InfoType] /\ m.tried \in [TriedSlots -> Nat \cup {-1}]
      /\ id \in Nat
  BY <1>1 DEF Typed
<1>3. slot \in TriedSlots
  BY <1>2 DEF InfoType, TriedSlots
<1>4. e = [v EXCEPT !.info = g, !.tried = t, !.nTried = v.nTried + 1]
  BY DEF MakeTried
<1>5. /\ Shape(u, {id}) /\ u.tried = m.tried /\ u.coll = m.coll /\ u.nId = m.nId
      /\ Update(m.info, u.info, id, 0, m.info[id].inTried, m.info[id].tested) /\ CountsOK(u, 1, 0)
  <2>1. LET w == Unlisted(m, id)
        IN /\ Shape(w, {} \cup {id}) /\ Altered(m, w) /\ w.tried = m.tried /\ w.coll = m.coll
           /\ Update(m.info, w.info, id, 0, m.info[id].inTried, m.info[id].tested)
           /\ \A i, j \in Int : CountsOK(m, i, j) => CountsOK(w, i + 1, j)
    BY <1>1, UnlistedShape
  <2> HIDE DEF u
  <2>2. /\ Shape(u, {} \cup {id}) /\ Altered(m, u) /\ u.tried = m.tried /\ u.coll = m.coll
        /\ Update(m.info, u.info, id, 0, m.info[id].inTried, m.info[id].tested)
        /\ \A i, j \in Int : CountsOK(m, i, j) => CountsOK(u, i + 1, j)
    BY <2>1 DEF u
  <2>3. {} \cup {id} = {id} /\ 0 + 1 = 1
    OBVIOUS
  <2>4. CountsOK(u, 0 + 1, 0)
    BY <1>1, <2>2
  <2>5. QED
    BY <2>2, <2>3, <2>4 DEF Altered
<1> HIDE DEF u, slot
<1>6. Shape(v, {id}) /\ Evicting(u, v, slot) /\ CountsOK(v, 1, 0)
  BY <1>3, <1>5, EvictedShape
<1> HIDE DEF v, e
<1>7. Typed(v) /\ PlacesOK(v.info, v.new, {id}) /\ TriedOK(v.info, v.tried)
  BY <1>6 DEF Shape
<1>8. /\ v.info \in [DOMAIN v.info -> InfoType] /\ v.new \in [NewSlots -> Nat \cup {-1}]
      /\ v.tried \in [TriedSlots -> Nat \cup {-1}] /\ IsFiniteSet(DOMAIN v.info)
      /\ v.nNew \in Int /\ v.nTried \in Int /\ v.coll \subseteq 0..(v.nId - 1)
  BY <1>7 DEF Typed
<1>9. id \in DOMAIN v.info /\ v.info[id].ref = 0 /\ ~v.info[id].inTried
  BY <1>7 DEF PlacesOK
<1>10. /\ DOMAIN v.info \subseteq DOMAIN m.info /\ v.tried = [m.tried EXCEPT ![slot] = -1]
       /\ v.coll = m.coll
       /\ \A x \in DOMAIN v.info : /\ v.info[x].addr = m.info[x].addr
                                   /\ v.info[x].tested = m.info[x].tested
                                   /\ v.info[x].inTried => m.info[x].inTried
  BY <1>5, <1>6 DEF Evicting, Update
<1>11. TriedSlot[v.info[id].addr] = slot /\ v.info[id].tested # "never"
  BY <1>9, <1>10 DEF slot
<1>12. v.tried[slot] = -1 /\ \A s \in TriedSlots \ {slot} : v.tried[s] = m.tried[s]
  BY <1>2, <1>3, <1>10
<1>13. e = Trying(v, id, v.nTried + 1) /\ v.nTried + 1 \in Int /\ {id} \ {id} = {}
  BY <1>4, <1>8, <1>11 DEF Trying
<1>14. Shape(e, {}) /\ Tries(v, e, id) /\ e.nTried = v.nTried + 1
  <2>1. PICK w \in Int : w = v.nTried + 1
    BY <1>13
  <2>2. v.tried[TriedSlot[v.info[id].addr]] = -1
    BY <1>11, <1>12
  <2>3. /\ Shape(Trying(v, id, w), {id} \ {id}) /\ Tries(v, Trying(v, id, w), id)
        /\ Trying(v, id, w).nTried = w
    BY <1>6, <1>11, <2>2, TryingShape
  <2>4. QED
    BY <1>13, <2>1, <2>3
<1> HIDE DEF g, t
<1>15. /\ Update(v.info, e.info, id, 0, TRUE, v.info[id].tested) /\ e.coll = v.coll
       /\ e.nNew = v.nNew /\ e.tried = [v.tried EXCEPT ![slot] = id]
  BY <1>11, <1>14 DEF Tries
<1>16. e.tried[slot] = id /\ \A s \in TriedSlots \ {slot} : e.tried[s] = m.tried[s]
  BY <1>3, <1>8, <1>12, <1>15
<1>17. DOMAIN e.info = DOMAIN v.info /\ (\A x \in DOMAIN v.info \ {id} : e.info[x] = v.info[x])
  BY <1>15 DEF Update
<1>18. CountsOK(e, 0, 0)
  <2>1. /\ Cardinality(Tried(e.info)) = Cardinality(Tried(v.info)) + 1
        /\ Cardinality(Untried(e.info)) = Cardinality(Untried(v.info)) - 1
    <3>1. PICK h : h = e.info
      OBVIOUS
    <3>2. Update(v.info, h, id, 0, TRUE, v.info[id].tested)
      BY <1>15, <3>1
    <3>3. /\ Cardinality(Tried(h)) = Cardinality(Tried(v.info)) + 1
          /\ Cardinality(Untried(h)) = Cardinality(Untried(v.info)) - 1
      BY <1>8, <1>9, <3>2, UpdateCounts
    <3>4. QED
      BY <3>1, <3>3
  <2>2. QED
    BY <1>6, <1>7, <1>8, <1>14, <1>15, <2>1, FiniteEntries DEF CountsOK
<1>19. Pending(e)
  <2> SUFFICES ASSUME NEW x \in e.coll \cap DOMAIN e.info
               PROVE  ~e.info[x].inTried /\ e.tried[TriedSlot[e.info[x].addr]] \notin {-1, x}
    BY DEF Pending
  <2>1. x \in m.coll \cap DOMAIN m.info /\ x # id /\ x \in DOMAIN v.info /\ e.info[x] = v.info[x]
    BY <1>10, <1>15, <1>17
  <2>2. ~m.info[x].inTried /\ m.tried[TriedSlot[m.info[x].addr]] \notin {-1, x}
    BY <1>1, <2>1 DEF Pending
  <2>3. e.info[x].addr = m.info[x].addr /\ ~e.info[x].inTried
    BY <1>10, <2>1, <2>2
  <2>4. TriedSlot[m.info[x].addr] \in TriedSlots
    BY <1>2, <2>1 DEF InfoType, TriedSlots
  <2>5. e.tried[TriedSlot[m.info[x].addr]] \notin {-1, x}
    BY <1>2, <1>16, <2>1, <2>2, <2>4
  <2>6. QED
    BY <2>3, <2>5
<1>20. QED
  BY <1>14, <1>18, <1>19 DEF Sound, e

\* A new result of a test.
Tested(m, id, v) == [m EXCEPT !.info[id].tested = v]

\* The tables do not depend on it.
LEMMA TestedShape ==
  ASSUME NEW m, NEW L, Shape(m, L), NEW id \in DOMAIN m.info,
         NEW v \in {"never", "answered", "trying", "failed", "stale"},
         m.info[id].inTried => v # "never"
  PROVE  LET e == Tested(m, id, v)
         IN /\ Shape(e, L) /\ Update(m.info, e.info, id, m.info[id].ref, m.info[id].inTried, v)
            /\ Altered(m, e) /\ e.new = m.new /\ e.tried = m.tried /\ e.coll = m.coll
            /\ e.nNew = m.nNew /\ e.nTried = m.nTried
<1> DEFINE g == [m.info EXCEPT ![id].tested = v]
           e == Tested(m, id, v)
<1>1. Typed(m) /\ TriedOK(m.info, m.tried) /\ PlacesOK(m.info, m.new, L)
  BY DEF Shape
<1>2. /\ m.info \in [DOMAIN m.info -> InfoType] /\ m.new \in [NewSlots -> Nat \cup {-1}]
      /\ m.tried \in [TriedSlots -> Nat \cup {-1}]
      /\ m.nNew \in Int /\ m.nTried \in Int /\ m.coll \subseteq 0..(m.nId - 1)
  BY <1>1 DEF Typed
<1>3. Update(m.info, g, id, m.info[id].ref, m.info[id].inTried, v)
  BY <1>2, SetField
<1>4. e = [m EXCEPT !.info = g]
  BY DEF Tested
<1> HIDE DEF e, g
<1>5. Altered(m, e) /\ e.info = g /\ e.new = m.new /\ e.tried = m.tried /\ e.coll = m.coll
      /\ e.nNew = m.nNew /\ e.nTried = m.nTried
  BY <1>1, <1>4 DEF Altered, Typed
<1>6. DOMAIN g = DOMAIN m.info /\ (\A x \in DOMAIN m.info \ {id} : g[x] = m.info[x])
      /\ g[id].tested = v
  BY <1>3 DEF Update
<1>7. \A x \in DOMAIN m.info : g[x].addr = m.info[x].addr /\ g[x].ref = m.info[x].ref
                               /\ g[x].inTried = m.info[x].inTried
  BY <1>3 DEF Update
<1>8. PlacesOK(g, m.new, L)
  BY <1>1, <1>6, <1>7 DEF PlacesOK
<1>9. TriedOK(g, m.tried)
  BY <1>1, <1>6, <1>7 DEF TriedOK
<1>10. Shape(e, L)
  BY <1>1, <1>2, <1>3, <1>5, <1>8, <1>9, AlteredShape
<1>11. QED
  BY <1>3, <1>5, <1>10 DEF e

\* It changes no count and no wait.
LEMMA TestedSound ==
  ASSUME NEW m, Sound(m), NEW id \in DOMAIN m.info,
         NEW v \in {"never", "answered", "trying", "failed", "stale"},
         m.info[id].inTried => v # "never"
  PROVE  LET e == Tested(m, id, v)
         IN /\ Sound(e) /\ Update(m.info, e.info, id, m.info[id].ref, m.info[id].inTried, v)
            /\ Altered(m, e) /\ e.new = m.new /\ e.tried = m.tried /\ e.coll = m.coll
<1> DEFINE e == Tested(m, id, v)
<1>1. Shape(m, {}) /\ CountsOK(m, 0, 0) /\ Pending(m) /\ m.info \in [DOMAIN m.info -> InfoType]
      /\ IsFiniteSet(DOMAIN m.info)
  BY DEF Sound, Shape, Typed
<1>2. /\ Shape(e, {}) /\ Update(m.info, e.info, id, m.info[id].ref, m.info[id].inTried, v)
      /\ Altered(m, e) /\ e.new = m.new /\ e.tried = m.tried /\ e.coll = m.coll
      /\ e.nNew = m.nNew /\ e.nTried = m.nTried
  BY <1>1, TestedShape
<1> HIDE DEF e
<1>3. CountsOK(e, 0, 0)
  <2>1. m.info[id].inTried \in BOOLEAN
    BY <1>1 DEF InfoType
  <2>2. Tried(e.info) = Tried(m.info) /\ Untried(e.info) = Untried(m.info)
    BY <1>1, <1>2, <2>1, UpdateCounts
  <2>3. QED
    BY <1>1, <1>2, <2>2 DEF CountsOK
<1>4. Pending(e)
  <2>1. DOMAIN e.info = DOMAIN m.info
        /\ \A x \in DOMAIN m.info : e.info[x].addr = m.info[x].addr /\ e.info[x].inTried = m.info[x].inTried
    BY <1>2 DEF Update
  <2>2. QED
    BY <1>1, <1>2, <2>1 DEF Pending
<1>5. QED
  BY <1>2, <1>3, <1>4 DEF Sound, e

-----------------------------------------------------------------------------
(* The operations, but for ResolveCollisions, GetAddr and Restart.         *)

\* Changing m_tried_collisions.
Waiting(m, C) == [m EXCEPT !.coll = C]

\* It touches nothing else.
LEMMA CollShape ==
  ASSUME NEW m, NEW L, Shape(m, L), NEW C \in SUBSET (0..(m.nId - 1)), NEW e,
         e = Waiting(m, C)
  PROVE  /\ Shape(e, L) /\ e.info = m.info /\ e.addr = m.addr /\ e.random = m.random
         /\ e.new = m.new /\ e.tried = m.tried /\ e.nNew = m.nNew /\ e.nTried = m.nTried
         /\ e.nId = m.nId /\ e.coll = C /\ \A i, j : CountsOK(m, i, j) => CountsOK(e, i, j)
<1>1. Typed(m)
  BY DEF Shape
<1>2. /\ e.info = m.info /\ e.addr = m.addr /\ e.random = m.random
      /\ e.new = m.new /\ e.tried = m.tried /\ e.nNew = m.nNew /\ e.nTried = m.nTried
      /\ e.nId = m.nId /\ e.coll = C
      /\ e = [info |-> e.info, addr |-> e.addr, random |-> e.random, new |-> e.new,
              tried |-> e.tried, nNew |-> e.nNew, nTried |-> e.nTried, nId |-> e.nId,
              coll |-> e.coll]
  BY <1>1 DEF Typed, Waiting
<1>3. Typed(e)
  BY <1>1, <1>2 DEF Typed
<1>4. QED
  BY <1>2, <1>3 DEF Shape, CountsOK

\* Fewer entries, fewer waiting ones and the same tried table.
LEMMA PendingKeeps ==
  ASSUME NEW m, Pending(m), NEW e, e.coll \subseteq m.coll, e.tried = m.tried,
         \A x \in DOMAIN e.info \cap e.coll :
            /\ x \in DOMAIN m.info /\ e.info[x].addr = m.info[x].addr
            /\ e.info[x].inTried = m.info[x].inTried
  PROVE  Pending(e)
BY DEF Pending

\* An address that waits no longer.
LEMMA DoneSound ==
  ASSUME NEW m, Sound(m), NEW id, NEW e, e = Waiting(m, m.coll \ {id})
  PROVE  Sound(e) /\ e.info = m.info /\ e.addr = m.addr /\ e.coll = m.coll \ {id}
<1>1. PICK C : C = m.coll \ {id}
  OBVIOUS
<1>2. C \in SUBSET (0..(m.nId - 1)) /\ Shape(m, {}) /\ e = Waiting(m, C)
  BY <1>1 DEF Sound, Shape, Typed
<1>3. /\ Shape(e, {}) /\ e.info = m.info /\ e.tried = m.tried /\ e.addr = m.addr
      /\ e.coll = C /\ CountsOK(e, 0, 0)
  BY <1>2, CollShape DEF Sound
<1>4. Pending(e)
  BY <1>1, <1>3, PendingKeeps DEF Sound
<1>5. QED
  BY <1>1, <1>3, <1>4 DEF Sound

\* Good_ moves the address to the tried table, or lets it wait for the place.
LEMMA GoodSound ==
  ASSUME NEW m, Sound(m), NEW a, NEW flag \in BOOLEAN,
         (~flag /\ a \in DOMAIN m.addr) => m.addr[a] \notin m.coll
  PROVE  Sound(Good_(m, a, flag))
<1> DEFINE id == m.addr[a]
           g == [m EXCEPT !.info[id].tested = "answered"]
           listed == \E b \in Buckets : m.new[NewSlot(a, b)] = id
           w == [g EXCEPT !.coll = @ \cup {id}]
           e == Good_(m, a, flag)
<1>1. /\ Typed(m) /\ Pending(m) /\ TriedOK(m.info, m.tried) /\ NamesOK(m.info, m.addr)
  BY DEF Sound, Shape
<1>2. CASE a \notin DOMAIN m.addr
  BY <1>2 DEF Good_
<1>3. CASE a \in DOMAIN m.addr
  <2>1. id \in DOMAIN m.info /\ m.info[id].addr = a /\ id \in 0..(m.nId - 1) /\ a \in Addrs
        /\ TriedSlot[a] \in TriedSlots
    BY <1>1, <1>3 DEF NamesOK, Typed, TriedSlots
  <2>2. /\ e = g
        \/ /\ ~m.info[id].inTried /\ (~flag \/ m.tried[TriedSlot[a]] = -1) /\ e = MakeTried(g, id)
        \/ /\ ~m.info[id].inTried /\ m.tried[TriedSlot[a]] # -1 /\ e = w
    <3> HIDE DEF g, w
    <3> QED BY <1>3, Zenon DEF Good_, g, w
  <2> HIDE DEF id, e
  <2>3. /\ Sound(g) /\ Update(m.info, g.info, id, m.info[id].ref, m.info[id].inTried, "answered")
        /\ Altered(m, g) /\ g.new = m.new /\ g.tried = m.tried /\ g.coll = m.coll
    <3>1. g = Tested(m, id, "answered")
      BY DEF Tested
    <3> HIDE DEF g
    <3>2. QED
      BY <2>1, <3>1, TestedSound
  <2> HIDE DEF g
  <2>4. /\ DOMAIN g.info = DOMAIN m.info /\ g.info[id].inTried = m.info[id].inTried
        /\ g.info[id].tested = "answered" /\ g.info[id].addr = a
    BY <2>1, <2>3 DEF Update
  <2>5. CASE ~m.info[id].inTried /\ (~flag \/ m.tried[TriedSlot[a]] = -1) /\ e = MakeTried(g, id)
    <3>1. id \notin m.coll
      BY <1>1, <1>3, <2>1, <2>5 DEF Pending, id
    <3>2. QED
      BY <2>1, <2>3, <2>4, <2>5, <3>1, MakeTriedSound DEF e
  <2>6. CASE ~m.info[id].inTried /\ m.tried[TriedSlot[a]] # -1 /\ e = w
    <3> DEFINE C == g.coll \cup {id}
    <3>1. w = Waiting(g, C) /\ C \in SUBSET (0..(g.nId - 1))
      BY <1>1, <2>1, <2>3 DEF Typed, Altered, Waiting
    <3> HIDE DEF C, w
    <3>2. /\ Shape(w, {}) /\ w.info = g.info /\ w.tried = g.tried /\ w.coll = C /\ CountsOK(w, 0, 0)
      BY <2>3, <3>1, CollShape DEF Sound
    <3>3. m.tried[TriedSlot[a]] # id
      BY <1>1, <2>1, <2>6 DEF TriedOK
    <3>4. Pending(w)
      BY <2>3, <2>4, <2>6, <3>2, <3>3 DEF Sound, Pending, C
    <3>5. QED
      BY <2>6, <3>2, <3>4 DEF Sound, e
  <2>7. QED
    BY <2>2, <2>3, <2>5, <2>6 DEF e
<1>4. QED
  BY <1>2, <1>3

\* A step of ResolveCollisions.
LEMMA ResolveSound ==
  ASSUME NEW m, Sound(m), NEW id
  PROVE  Sound(Resolve(m, id))
<1> DEFINE a == m.info[id].addr
           done == [m EXCEPT !.coll = @ \ {id}]
           e == Resolve(m, id)
<1>1. e = m \/ e = done \/ (id \in DOMAIN m.info /\ e = Good_(done, a, FALSE))
  <2> HIDE DEF done
  <2> QED BY Zenon DEF Resolve, done
<1> HIDE DEF e
<1>2. Sound(done) /\ done.info = m.info /\ done.addr = m.addr /\ done.coll = m.coll \ {id}
  <2>1. done = Waiting(m, m.coll \ {id})
    BY DEF Waiting
  <2> HIDE DEF done
  <2>2. QED
    BY <2>1, DoneSound
<1> HIDE DEF done
<1>3. CASE id \in DOMAIN m.info /\ e = Good_(done, a, FALSE)
  <2>1. m.addr[a] = id
    BY <1>3 DEF Sound, Shape, NamesOK
  <2> HIDE DEF a
  <2>2. Sound(Good_(done, a, FALSE))
    BY <1>2, <2>1, GoodSound
  <2>3. QED
    BY <1>3, <2>2 DEF e
<1>4. QED
  BY <1>1, <1>2, <1>3 DEF e

\* An address gets a place, or stays, or goes again.
LEMMA PlacedSound ==
  ASSUME NEW m, NEW L, Shape(m, L), CountsOK(m, 0, 0), Pending(m), NEW id \in DOMAIN m.info,
         L \subseteq {id}, ~m.info[id].inTried, m.info[id].ref < MaxRefs, NEW s,
         <<m.info[id].addr, s>> \in DOMAIN NewBucket, NEW terrible
  PROVE  Sound(Placed(m, id, s, terrible))
<1> DEFINE a == m.info[id].addr
           slot == NewSlot(a, NewBucket[<<a, s>>])
           old == m.new[slot]
           yields == old = -1 \/ terrible \/ (m.info[old].ref > 1 /\ m.info[id].ref = 0)
           c == ClearNew(m, slot)
           l == Listed(c, id, slot)
           e == Placed(m, id, s, terrible)
<1>1. Typed(m) /\ PlacesOK(m.info, m.new, L) /\ m.info \in [DOMAIN m.info -> InfoType]
      /\ m.new \in [NewSlots -> Nat \cup {-1}]
  BY DEF Shape, Typed
<1>2. slot \in NewSlots /\ NewSlot(a, slot[1]) = slot
  <2>1. a \in Addrs /\ NewBucket[<<a, s>>] \in Buckets
    BY <1>1 DEF InfoType, Buckets
  <2>2. QED
    BY <2>1, SlotFacts
<1>3. \/ old = id /\ e = m
      \/ old # id /\ yields /\ e = [c EXCEPT !.info[id].ref = @ + 1, !.new[slot] = id]
      \/ old # id /\ m.info[id].ref = 0 /\ e = Delete(m, id)
      \/ m.info[id].ref # 0 /\ e = m
  <2> HIDE DEF c
  <2> QED BY Zenon DEF Placed, c
<1>4. id \in L => m.info[id].ref = 0 /\ old # id
  <2>1. id \in L => m.info[id].ref = 0 /\ Cardinality(PlacesOf(m.new, id)) = 0
    BY <1>1 DEF PlacesOK
  <2>2. QED
    BY <1>2, <2>1, NoPlace
<1> HIDE DEF e, slot, yields
<1>5. CASE (old = id \/ m.info[id].ref # 0) /\ e = m
  <2>1. L = {}
    BY <1>4, <1>5
  <2>2. QED
    BY <1>5, <2>1 DEF Sound, e
<1>6. CASE old # id /\ yields /\ e = [c EXCEPT !.info[id].ref = @ + 1, !.new[slot] = id]
  <2>1. Shape(c, L) /\ Cleared(m, c, slot) /\ CountsOK(c, 0, 0)
    BY <1>2, ClearNewShape
  <2> HIDE DEF c, a
  <2>2. /\ id \in DOMAIN c.info /\ c.info[id].addr = a /\ ~c.info[id].inTried
        /\ c.info[id].ref < MaxRefs
    BY <1>6, <2>1 DEF Cleared, a
  <2>3. c.new[slot] = -1 /\ Typed(c)
    BY <1>1, <1>2, <2>1 DEF Cleared, Shape
  <2>4. Shape(l, L \ {id}) /\ Relisted(c, l, id)
    BY <1>2, <2>1, <2>2, <2>3, ListedShape
  <2>5. L \ {id} = {} /\ e = l
    BY <1>6 DEF Listed
  <2> HIDE DEF l
  <2>6. CountsOK(l, 0, 0)
    BY <2>1, <2>2, <2>3, <2>4, RelistedCounts
  <2>7. Pending(l)
    <3>1. DOMAIN l.info = DOMAIN c.info /\ l.coll = c.coll /\ l.tried = c.tried
          /\ \A x \in DOMAIN l.info : l.info[x].addr = c.info[x].addr
                                      /\ l.info[x].inTried = c.info[x].inTried
      BY <2>4 DEF Relisted, Update
    <3>2. Pending(c)
      BY <2>1, PendingKeeps DEF Cleared
    <3>3. QED
      BY <3>1, <3>2, PendingKeeps
  <2>8. QED
    BY <2>4, <2>5, <2>6, <2>7 DEF Sound, e
<1>7. CASE old # id /\ m.info[id].ref = 0 /\ e = Delete(m, id)
  <2>1. id \in L /\ L \ {id} = {}
    <3>1. id \notin L => m.info[id].ref \in 1..MaxRefs
      BY <1>1 DEF PlacesOK
    <3>2. QED
      BY <1>7, <3>1
  <2>2. Shape(Delete(m, id), {}) /\ Without(m, Delete(m, id), id) /\ CountsOK(Delete(m, id), 0, 0)
    BY <2>1, DeleteShape
  <2>3. Pending(Delete(m, id))
    BY <2>2, PendingKeeps DEF Without, Same
  <2>4. QED
    BY <1>7, <2>2, <2>3 DEF Sound, e
<1>8. QED
  BY <1>3, <1>5, <1>6, <1>7

\* An announcement.
LEMMA AddSound ==
  ASSUME Sound(am), NEW a, NEW s, <<a, s>> \in DOMAIN NewBucket, Add(a, s)
  PROVE  Sound(am')
<1>1. /\ Shape(am, {}) /\ CountsOK(am, 0, 0) /\ Pending(am) /\ Typed(am)
      /\ NamesOK(am.info, am.addr)
  BY DEF Sound, Shape
<1>2. CASE a \in DOMAIN am.addr
  <2> DEFINE id == am.addr[a]
  <2>1. PICK terrible \in BOOLEAN : /\ ~am.info[id].inTried /\ am.info[id].ref < MaxRefs
                                    /\ am' = Placed(am, id, s, terrible)
    BY <1>2 DEF Add
  <2>2. id \in DOMAIN am.info /\ am.info[id].addr = a
    BY <1>1, <1>2 DEF NamesOK
  <2> HIDE DEF id
  <2>3. <<am.info[id].addr, s>> \in DOMAIN NewBucket
    BY <2>2
  <2>4. Sound(Placed(am, id, s, terrible))
    <3>1. {} \subseteq {id}
      OBVIOUS
    <3>2. QED
      BY <1>1, <2>1, <2>2, <2>3, <3>1, PlacedSound
  <2>5. QED
    BY <2>1, <2>4
<1>3. CASE a \notin DOMAIN am.addr
  <2> DEFINE c == Create(am, a, s)
             id == am.nId
             d == [c EXCEPT !.nNew = @ + 1]
  <2>1. PICK terrible \in BOOLEAN : am' = Placed(d, id, s, terrible)
    BY <1>3 DEF Add
  <2>2. /\ Shape(c, {} \cup {id})
        /\ \A i, j \in Int : CountsOK(am, i, j) => CountsOK(c, i + 1, j)
        /\ id \notin DOMAIN am.info /\ DOMAIN c.info = DOMAIN am.info \cup {id}
        /\ c.info[id] = Info(a, s, Len(am.random) + 1)
        /\ \A x \in DOMAIN am.info : c.info[x] = am.info[x]
        /\ c.tried = am.tried /\ c.nNew = am.nNew /\ c.coll = am.coll
    <3>1. /\ Shape(Create(am, a, s), {} \cup {am.nId}) /\ Created(am, Create(am, a, s), a, s)
          /\ \A i, j \in Int : CountsOK(am, i, j) => CountsOK(Create(am, a, s), i + 1, j)
      BY <1>1, <1>3, CreateShape
    <3>2. QED
      BY <3>1 DEF Created
  <2> HIDE DEF c, id
  <2>3. c.nNew \in Int /\ c.nNew + 1 \in Int /\ c.nTried \in Int
    BY <2>2 DEF Shape, Typed
  <2>4. {} \cup {id} = {id} /\ d = [c EXCEPT !.nNew = c.nNew + 1]
    OBVIOUS
  <2> HIDE DEF d
  <2>5. /\ Shape(d, {id}) /\ d.info = c.info /\ d.tried = c.tried /\ d.nNew = c.nNew + 1
        /\ d.nTried = c.nTried /\ d.coll = c.coll
    <3>1. Shape(c, {id})
      BY <2>2, <2>4
    <3>2. QED
      BY <2>3, <2>4, <3>1, Recounted
  <2>6. CountsOK(d, 0, 0)
    <3>1. CountsOK(c, 0 + 1, 0)
      BY <1>1, <2>2
    <3>2. QED
      BY <2>3, <2>5, <3>1 DEF CountsOK
  <2>7. Pending(d)
    <3>1. id \notin am.coll
      BY <1>1 DEF Typed, id
    <3>2. QED
      BY <1>1, <2>2, <2>5, <3>1, PendingKeeps
  <2>8. /\ id \in DOMAIN d.info /\ d.info[id].addr = a /\ ~d.info[id].inTried
        /\ d.info[id].ref = 0
    BY <2>2, <2>5 DEF Info
  <2>9. d.info[id].ref < MaxRefs /\ <<d.info[id].addr, s>> \in DOMAIN NewBucket /\ {id} \subseteq {id}
    BY <2>8, AddrManAssumption
  <2>10. Sound(Placed(d, id, s, terrible))
    BY <2>5, <2>6, <2>7, <2>8, <2>9, PlacedSound
  <2>11. QED
    BY <2>1, <2>10
<1>4. QED
  BY <1>2, <1>3

\* A try.
LEMMA AttemptSound ==
  ASSUME Sound(am), NEW a, Attempt(a)
  PROVE  Sound(am')
<1> DEFINE id == am.addr[a]
           old == am.info[id].tested
           v == IF old \in {"never", "answered"} THEN old ELSE "trying"
<1>1. a \in DOMAIN am.addr /\ am' = [am EXCEPT !.info[id].tested = v]
  BY DEF Attempt
<1>2. /\ NamesOK(am.info, am.addr) /\ TriedOK(am.info, am.tried)
      /\ am.info \in [DOMAIN am.info -> InfoType]
  BY DEF Sound, Shape, Typed
<1>3. id \in DOMAIN am.info
  BY <1>1, <1>2 DEF NamesOK
<1>4. old \in {"never", "answered", "trying", "failed", "stale"}
  BY <1>2, <1>3 DEF InfoType
<1>5. am.info[id].inTried => old # "never"
  BY <1>2, <1>3 DEF TriedOK
<1>6. /\ v \in {"never", "answered", "trying", "failed", "stale"}
      /\ am.info[id].inTried => v # "never"
  <2> HIDE DEF id, old
  <2> QED BY <1>4, <1>5
<1> HIDE DEF v, id
<1>7. Sound(Tested(am, id, v))
  BY <1>3, <1>6, TestedSound
<1>8. QED
  BY <1>1, <1>7 DEF Tested

\* Time goes by: no tried entry becomes one that never answered.
LEMMA AgedSound ==
  ASSUME Sound(am), NEW f,
         \A t \in {"never", "answered", "trying", "failed", "stale"} :
           f[t] \in {"never", "answered", "trying", "failed", "stale"} /\ (t # "never" => f[t] # "never"),
         Aged(f)
  PROVE  Sound(am')
<1> DEFINE g == [id \in DOMAIN am.info |-> [am.info[id] EXCEPT !.tested = f[@]]]
           e == am'
<1>1. /\ Shape(am, {}) /\ CountsOK(am, 0, 0) /\ Pending(am) /\ Typed(am) /\ TriedOK(am.info, am.tried)
      /\ PlacesOK(am.info, am.new, {}) /\ NamesOK(am.info, am.addr) /\ OrderOK(am.info, am.random)
  BY DEF Sound, Shape
<1>2. am.info \in [DOMAIN am.info -> InfoType]
  BY <1>1 DEF Typed
<1>3. e = [am EXCEPT !.info = g]
  BY DEF Aged
<1>4. DOMAIN g = DOMAIN am.info /\ g = [x \in DOMAIN am.info |-> g[x]]
  OBVIOUS
<1>5. ASSUME NEW x \in DOMAIN am.info
      PROVE  /\ g[x] \in InfoType /\ g[x].addr = am.info[x].addr /\ g[x].src = am.info[x].src
             /\ g[x].pos = am.info[x].pos /\ g[x].ref = am.info[x].ref
             /\ g[x].inTried = am.info[x].inTried
             /\ am.info[x].tested # "never" => g[x].tested # "never"
  <2>1. am.info[x] \in InfoType /\ g[x] = [am.info[x] EXCEPT !.tested = f[am.info[x].tested]]
    BY <1>2
  <2> HIDE DEF g
  <2>2. am.info[x].tested \in {"never", "answered", "trying", "failed", "stale"}
    BY <2>1 DEF InfoType
  <2>3. PICK v \in {"never", "answered", "trying", "failed", "stale"} :
          v = f[am.info[x].tested] /\ (am.info[x].tested # "never" => v # "never")
    BY <2>2
  <2>4. g[x] = [am.info[x] EXCEPT !.tested = v]
    BY <2>1, <2>3
  <2>5. QED
    BY <2>1, <2>3, <2>4 DEF InfoType
<1> HIDE DEF g, e
<1>6. /\ e.info = g /\ e.addr = am.addr /\ e.random = am.random
      /\ e.new = am.new /\ e.tried = am.tried /\ e.nNew = am.nNew /\ e.nTried = am.nTried
      /\ e.nId = am.nId /\ e.coll = am.coll
      /\ e = [info |-> e.info, addr |-> e.addr, random |-> e.random, new |-> e.new,
              tried |-> e.tried, nNew |-> e.nNew, nTried |-> e.nTried, nId |-> e.nId,
              coll |-> e.coll]
  BY <1>1, <1>3 DEF Typed
<1>7. g \in [DOMAIN am.info -> InfoType]
  BY <1>4, <1>5
<1>8. Typed(e)
  BY <1>1, <1>6, <1>7 DEF Typed
<1>9. NamesOK(g, am.addr) /\ OrderOK(g, am.random)
  BY <1>1, <1>4, <1>5, SameNames
<1>10. PlacesOK(g, am.new, {})
  BY <1>1, <1>4, <1>5 DEF PlacesOK
<1>11. TriedOK(g, am.tried)
  <2>1. \A x \in DOMAIN g : g[x].inTried =>
          g[x].tested # "never" /\ am.tried[TriedSlot[g[x].addr]] = x
    BY <1>1, <1>4, <1>5 DEF TriedOK
  <2>2. ASSUME NEW s \in TriedSlots, am.tried[s] # -1
        PROVE  /\ am.tried[s] \in DOMAIN g /\ g[am.tried[s]].inTried
               /\ TriedSlot[g[am.tried[s]].addr] = s
    <3>1. /\ am.tried[s] \in DOMAIN am.info /\ am.info[am.tried[s]].inTried
          /\ TriedSlot[am.info[am.tried[s]].addr] = s
      BY <1>1, <2>2 DEF TriedOK
    <3>2. QED
      BY <1>4, <1>5, <3>1
  <2>3. QED
    BY <2>1, <2>2 DEF TriedOK
<1>12. CountsOK(e, 0, 0)
  <2>1. Tried(g) = Tried(am.info)
    BY <1>4, <1>5 DEF Tried
  <2>2. Untried(g) = Untried(am.info)
    BY <1>4, <2>1 DEF Untried
  <2>3. QED
    BY <1>1, <1>6, <2>1, <2>2 DEF CountsOK
<1>13. Pending(e)
  BY <1>1, <1>4, <1>5, <1>6 DEF Pending
<1>14. QED
  BY <1>6, <1>8, <1>9, <1>10, <1>11, <1>12, <1>13 DEF Sound, Shape, e

\* The two steps of time.
LEMMA TimeSound ==
  ASSUME Sound(am), Minute \/ Hours
  PROVE  Sound(am')
<1>1. CASE Minute
  <2> DEFINE f == [never |-> "never", answered |-> "answered", trying |-> "failed",
                   failed |-> "failed", stale |-> "stale"]
  <2>1. \A t \in {"never", "answered", "trying", "failed", "stale"} :
          f[t] \in {"never", "answered", "trying", "failed", "stale"} /\ (t # "never" => f[t] # "never")
    OBVIOUS
  <2>2. Aged(f)
    BY <1>1 DEF Minute
  <2> HIDE DEF f
  <2>3. QED
    BY <2>1, <2>2, AgedSound
<1>2. CASE Hours
  <2> DEFINE f == [never |-> "never", answered |-> "stale", trying |-> "stale",
                   failed |-> "stale", stale |-> "stale"]
  <2>1. \A t \in {"never", "answered", "trying", "failed", "stale"} :
          f[t] \in {"never", "answered", "trying", "failed", "stale"} /\ (t # "never" => f[t] # "never")
    OBVIOUS
  <2>2. Aged(f)
    BY <1>2 DEF Hours
  <2> HIDE DEF f
  <2>3. QED
    BY <2>1, <2>2, AgedSound
<1>3. QED
  BY <1>1, <1>2

\* SelectTriedCollision_ finds a rival.
LEMMA SelectSound ==
  ASSUME Sound(am), SelectTriedCollision
  PROVE  Sound(am')
<1>1. PICK id \in am.coll :
        \/ id \notin DOMAIN am.info /\ am' = [am EXCEPT !.coll = @ \ {id}]
        \/ id \in DOMAIN am.info /\ am.tried[TriedSlot[am.info[id].addr]] = -1
        \/ am' = am
  BY Zenon DEF SelectTriedCollision
<1>2. CASE am' = [am EXCEPT !.coll = @ \ {id}]
  <2>1. am' = Waiting(am, am.coll \ {id})
    BY <1>2 DEF Waiting
  <2>2. QED
    BY <2>1, DoneSound
<1>3. ~(id \in DOMAIN am.info /\ am.tried[TriedSlot[am.info[id].addr]] = -1)
  BY DEF Sound, Pending
<1>4. QED
  BY <1>1, <1>2, <1>3

-----------------------------------------------------------------------------
(* Operations in turn.                                                     *)

\* The operations that are applied in turn, by name; the last one is that of GetAddr.
StepOf(k, m, x) ==
  IF k[1] = "Resolve" THEN Resolve(m, x)
  ELSE IF k[1] = "Read" THEN Read(m, x)
  ELSE IF k[1] = "ReadTried" THEN ReadTried(m, x)
  ELSE IF k[1] = "ReadPlace" THEN ReadPlace(m, x)
  ELSE IF k[1] = "Delete" THEN Delete(m, x)
  ELSE SwapRandom(m, x, k[2][x])

\* f is a solution of the recursive function in InTurn.
IsRun(k, m, s, f) == f = [i \in 0..Len(s) |-> IF i = 0 THEN m ELSE StepOf(k, f[i - 1], s[i])]

\* There is one.
LEMMA StepsExist ==
  ASSUME NEW k, NEW m, NEW s, Len(s) \in Nat
  PROVE  \E f : IsRun(k, m, s, f)
<1> DEFINE Solves(f, n) == f = [i \in 0..n |-> IF i = 0 THEN m ELSE StepOf(k, f[i - 1], s[i])]
           N == {n \in Nat : \E f : Solves(f, n)}
<1>1. 0 \in N
  <2>1. Solves([i \in 0..0 |-> m], 0)
    OBVIOUS
  <2>2. QED
    BY <2>1
<1>2. ASSUME NEW n \in N PROVE n + 1 \in N
  <2>1. PICK f : Solves(f, n)
    OBVIOUS
  <2> DEFINE last == StepOf(k, f[n], s[n + 1])
             g == [i \in 0..(n + 1) |-> IF i = n + 1 THEN last ELSE f[i]]
  <2>2. n \in Nat
    OBVIOUS
  <2>3. \A i \in 0..n : f[i] = IF i = 0 THEN m ELSE StepOf(k, f[i - 1], s[i])
    BY <2>1
  <2>4. \A i \in 0..n : g[i] = f[i]
    BY <2>2
  <2>5. g[n + 1] = last
    BY <2>2
  <2>6. g = [i \in 0..(n + 1) |-> g[i]]
    OBVIOUS
  <2>7. ASSUME NEW i \in 0..(n + 1)
        PROVE  g[i] = IF i = 0 THEN m ELSE StepOf(k, g[i - 1], s[i])
    <3> HIDE DEF g
    <3>1. CASE i = n + 1
      <4>1. g[i - 1] = f[n] /\ i # 0
        BY <2>2, <2>4, <3>1
      <4>2. QED
        BY <2>5, <3>1, <4>1
    <3>2. CASE i # n + 1
      <4>1. i \in 0..n
        BY <2>2, <3>2
      <4>2. i # 0 => i - 1 \in 0..n
        BY <2>2, <4>1
      <4>3. g[i] = f[i] /\ (i # 0 => g[i - 1] = f[i - 1])
        BY <2>4, <4>1, <4>2
      <4>4. QED
        BY <2>3, <4>1, <4>3
    <3>3. QED
      BY <3>1, <3>2
  <2> HIDE DEF g
  <2>8. Solves(g, n + 1)
    BY <2>6, <2>7
  <2>9. n + 1 \in Nat /\ \E h : Solves(h, n + 1)
    <3> HIDE DEF Solves
    <3>1. n + 1 \in Nat
      BY <2>2
    <3>2. QED
      BY <2>8, <3>1
  <2>10. QED
    BY <2>9
<1> HIDE DEF N
<1>3. N = Nat
  <2>1. N \in SUBSET Nat
    BY DEF N
  <2>2. QED
    BY <1>1, <1>2, <2>1, SetInduction
<1>4. QED
  BY <1>3 DEF N, IsRun

\* f holds the states that the steps of ResolveCollisions make one after the other.
ResolveRun(m, s, f) == /\ f[0] = m /\ InTurn(Resolve, m, s) = f[Len(s)]
                       /\ \A i \in 1..Len(s) : f[i] = Resolve(f[i - 1], s[i])

\* They exist.
LEMMA ResolveSteps ==
  ASSUME NEW m, NEW s, Len(s) \in Nat
  PROVE  \E f : ResolveRun(m, s, f)
<1> DEFINE Solves(f) == f = [i \in 0..Len(s) |-> IF i = 0 THEN m ELSE Resolve(f[i - 1], s[i])]
           F == CHOOSE f : Solves(f)
<1>1. \E f : Solves(f)
  <2>1. PICK k : k = <<"Resolve", 0>>
    OBVIOUS
  <2>2. \A e, x : StepOf(k, e, x) = Resolve(e, x)
    BY <2>1 DEF StepOf
  <2>3. PICK f : IsRun(k, m, s, f)
    BY StepsExist
  <2>4. QED
    BY <2>2, <2>3 DEF IsRun
<1>2. Solves(F)
  BY <1>1
<1>3. InTurn(Resolve, m, s) = F[Len(s)]
  BY DEF InTurn
<1> HIDE DEF F
<1>4. \A i \in 0..Len(s) : F[i] = IF i = 0 THEN m ELSE Resolve(F[i - 1], s[i])
  BY <1>2
<1>5. F[0] = m
  BY <1>4
<1>6. \A i \in 1..Len(s) : F[i] = Resolve(F[i - 1], s[i])
  BY <1>4
<1>7. ResolveRun(m, s, F)
  BY <1>3, <1>5, <1>6 DEF ResolveRun
<1>8. QED
  BY <1>7

\* Those of reading the entries of the new table.
ReadRun(m, s, f) == /\ f[0] = m /\ InTurn(Read, m, s) = f[Len(s)]
                    /\ \A i \in 1..Len(s) : f[i] = Read(f[i - 1], s[i])

\* They exist.
LEMMA ReadSteps ==
  ASSUME NEW m, NEW s, Len(s) \in Nat
  PROVE  \E f : ReadRun(m, s, f)
<1> DEFINE Solves(f) == f = [i \in 0..Len(s) |-> IF i = 0 THEN m ELSE Read(f[i - 1], s[i])]
           F == CHOOSE f : Solves(f)
<1>1. \E f : Solves(f)
  <2>1. PICK k : k = <<"Read", 0>>
    OBVIOUS
  <2>2. \A e, x : StepOf(k, e, x) = Read(e, x)
    BY <2>1 DEF StepOf
  <2>3. PICK f : IsRun(k, m, s, f)
    BY StepsExist
  <2>4. QED
    BY <2>2, <2>3 DEF IsRun
<1>2. Solves(F)
  BY <1>1
<1>3. InTurn(Read, m, s) = F[Len(s)]
  BY DEF InTurn
<1> HIDE DEF F
<1>4. \A i \in 0..Len(s) : F[i] = IF i = 0 THEN m ELSE Read(F[i - 1], s[i])
  BY <1>2
<1>5. F[0] = m
  BY <1>4
<1>6. \A i \in 1..Len(s) : F[i] = Read(F[i - 1], s[i])
  BY <1>4
<1>7. ReadRun(m, s, F)
  BY <1>3, <1>5, <1>6 DEF ReadRun
<1>8. QED
  BY <1>7

\* Those of reading the entries of the tried table.
ReadTriedRun(m, s, f) == /\ f[0] = m /\ InTurn(ReadTried, m, s) = f[Len(s)]
                         /\ \A i \in 1..Len(s) : f[i] = ReadTried(f[i - 1], s[i])

\* They exist.
LEMMA ReadTriedSteps ==
  ASSUME NEW m, NEW s, Len(s) \in Nat
  PROVE  \E f : ReadTriedRun(m, s, f)
<1> DEFINE Solves(f) == f = [i \in 0..Len(s) |-> IF i = 0 THEN m ELSE ReadTried(f[i - 1], s[i])]
           F == CHOOSE f : Solves(f)
<1>1. \E f : Solves(f)
  <2>1. PICK k : k = <<"ReadTried", 0>>
    OBVIOUS
  <2>2. \A e, x : StepOf(k, e, x) = ReadTried(e, x)
    BY <2>1 DEF StepOf
  <2>3. PICK f : IsRun(k, m, s, f)
    BY StepsExist
  <2>4. QED
    BY <2>2, <2>3 DEF IsRun
<1>2. Solves(F)
  BY <1>1
<1>3. InTurn(ReadTried, m, s) = F[Len(s)]
  BY DEF InTurn
<1> HIDE DEF F
<1>4. \A i \in 0..Len(s) : F[i] = IF i = 0 THEN m ELSE ReadTried(F[i - 1], s[i])
  BY <1>2
<1>5. F[0] = m
  BY <1>4
<1>6. \A i \in 1..Len(s) : F[i] = ReadTried(F[i - 1], s[i])
  BY <1>4
<1>7. ReadTriedRun(m, s, F)
  BY <1>3, <1>5, <1>6 DEF ReadTriedRun
<1>8. QED
  BY <1>7

\* Those of reading the buckets.
ReadPlaceRun(m, s, f) == /\ f[0] = m /\ InTurn(ReadPlace, m, s) = f[Len(s)]
                         /\ \A i \in 1..Len(s) : f[i] = ReadPlace(f[i - 1], s[i])

\* They exist.
LEMMA ReadPlaceSteps ==
  ASSUME NEW m, NEW s, Len(s) \in Nat
  PROVE  \E f : ReadPlaceRun(m, s, f)
<1> DEFINE Solves(f) == f = [i \in 0..Len(s) |-> IF i = 0 THEN m ELSE ReadPlace(f[i - 1], s[i])]
           F == CHOOSE f : Solves(f)
<1>1. \E f : Solves(f)
  <2>1. PICK k : k = <<"ReadPlace", 0>>
    OBVIOUS
  <2>2. \A e, x : StepOf(k, e, x) = ReadPlace(e, x)
    BY <2>1 DEF StepOf
  <2>3. PICK f : IsRun(k, m, s, f)
    BY StepsExist
  <2>4. QED
    BY <2>2, <2>3 DEF IsRun
<1>2. Solves(F)
  BY <1>1
<1>3. InTurn(ReadPlace, m, s) = F[Len(s)]
  BY DEF InTurn
<1> HIDE DEF F
<1>4. \A i \in 0..Len(s) : F[i] = IF i = 0 THEN m ELSE ReadPlace(F[i - 1], s[i])
  BY <1>2
<1>5. F[0] = m
  BY <1>4
<1>6. \A i \in 1..Len(s) : F[i] = ReadPlace(F[i - 1], s[i])
  BY <1>4
<1>7. ReadPlaceRun(m, s, F)
  BY <1>3, <1>5, <1>6 DEF ReadPlaceRun
<1>8. QED
  BY <1>7

\* Those of deleting entries that lost all their places.
DeleteRun(m, s, f) == /\ f[0] = m /\ InTurn(Delete, m, s) = f[Len(s)]
                      /\ \A i \in 1..Len(s) : f[i] = Delete(f[i - 1], s[i])

\* They exist.
LEMMA DeleteSteps ==
  ASSUME NEW m, NEW s, Len(s) \in Nat
  PROVE  \E f : DeleteRun(m, s, f)
<1> DEFINE Solves(f) == f = [i \in 0..Len(s) |-> IF i = 0 THEN m ELSE Delete(f[i - 1], s[i])]
           F == CHOOSE f : Solves(f)
<1>1. \E f : Solves(f)
  <2>1. PICK k : k = <<"Delete", 0>>
    OBVIOUS
  <2>2. \A e, x : StepOf(k, e, x) = Delete(e, x)
    BY <2>1 DEF StepOf
  <2>3. PICK f : IsRun(k, m, s, f)
    BY StepsExist
  <2>4. QED
    BY <2>2, <2>3 DEF IsRun
<1>2. Solves(F)
  BY <1>1
<1>3. InTurn(Delete, m, s) = F[Len(s)]
  BY DEF InTurn
<1> HIDE DEF F
<1>4. \A i \in 0..Len(s) : F[i] = IF i = 0 THEN m ELSE Delete(F[i - 1], s[i])
  BY <1>2
<1>5. F[0] = m
  BY <1>4
<1>6. \A i \in 1..Len(s) : F[i] = Delete(F[i - 1], s[i])
  BY <1>4
<1>7. DeleteRun(m, s, F)
  BY <1>3, <1>5, <1>6 DEF DeleteRun
<1>8. QED
  BY <1>7

\* Those of GetAddr.
SwapRun(m, r, h, f) == /\ f[0] = m /\ Shuffled(m, r, h) = f[h]
                       /\ \A i \in 1..h : f[i] = SwapRandom(f[i - 1], i, r[i])

\* They exist.
LEMMA SwapSteps ==
  ASSUME NEW m, NEW r, NEW h \in Nat
  PROVE  \E f : SwapRun(m, r, h, f)
<1> DEFINE s == [n \in 1..h |-> n]
           Solves(f) == f = [i \in 0..Len(s) |-> IF i = 0 THEN m ELSE SwapRandom(f[i - 1], s[i], r[s[i]])]
           F == CHOOSE f : Solves(f)
<1>1. \E f : Solves(f)
  <2>1. PICK k : k = <<"Swap", r>>
    OBVIOUS
  <2>2. \A e, x : StepOf(k, e, x) = SwapRandom(e, x, r[x])
    BY <2>1 DEF StepOf
  <2>3. Len(s) \in Nat
    OBVIOUS
  <2> HIDE DEF s
  <2>4. PICK f : IsRun(k, m, s, f)
    BY <2>3, StepsExist
  <2>5. QED
    BY <2>2, <2>4 DEF IsRun
<1>2. Solves(F)
  BY <1>1
<1>3. Shuffled(m, r, h) = F[Len(s)]
  BY DEF InTurn, Shuffled
<1>4. s \in [1..h -> Nat] /\ \A i \in 1..h : s[i] = i
  OBVIOUS
<1> HIDE DEF F, s
<1>5. Len(s) = h
  BY <1>4, FunctionIsSeq
<1>6. \A i \in 0..Len(s) : F[i] = IF i = 0 THEN m ELSE SwapRandom(F[i - 1], s[i], r[s[i]])
  BY <1>2
<1>7. F[0] = m
  BY <1>5, <1>6
<1>8. \A i \in 1..h : F[i] = SwapRandom(F[i - 1], i, r[i])
  BY <1>4, <1>5, <1>6
<1>9. SwapRun(m, r, h, F)
  BY <1>3, <1>5, <1>7, <1>8 DEF SwapRun
<1>10. QED
  BY <1>9

\* How many numbers of a set are lower.
Rank(S, x) == Cardinality({y \in S : y < x})

\* InOrder lists each number of a finite set once, at its rank.
LEMMA InOrderFacts ==
  ASSUME NEW S \in SUBSET Nat, IsFiniteSet(S)
  PROVE  /\ Cardinality(S) \in Nat /\ InOrder(S) \in Seq(S) /\ Len(InOrder(S)) = Cardinality(S)
         /\ \A i \in 1..Cardinality(S) : InOrder(S)[i] \in S /\ Rank(S, InOrder(S)[i]) = i - 1
         /\ \A x \in S : /\ Rank(S, x) \in 0..(Cardinality(S) - 1)
                         /\ InOrder(S)[Rank(S, x) + 1] = x
<1> DEFINE Lower(x) == {y \in S : y < x}
           n == Cardinality(S)
           rank == [x \in S |-> Cardinality(Lower(x))]
           T == 0..(n - 1)
<1>1. n \in Nat
  BY FS_CardinalityType
<1>2. \A x \in S : IsFiniteSet(Lower(x)) /\ Cardinality(Lower(x)) \in Nat
  BY FS_Subset, FS_CardinalityType
<1>3. ASSUME NEW x \in S PROVE Cardinality(Lower(x)) \in T
  <2>1. Cardinality(S \ {x}) = n - 1 /\ IsFiniteSet(S \ {x})
    BY FS_RemoveElement
  <2>2. Lower(x) \subseteq S \ {x}
    OBVIOUS
  <2>3. Cardinality(Lower(x)) <= Cardinality(S \ {x})
    <3> HIDE DEF Lower, n
    <3> QED BY <2>1, <2>2, FS_Subset
  <2>4. QED
    BY <1>1, <1>2, <2>1, <2>3
<1>4. ASSUME NEW x \in S, NEW y \in S, x < y
      PROVE  Cardinality(Lower(x)) < Cardinality(Lower(y))
  <2>1. x \notin Lower(x) /\ Lower(x) \cup {x} \subseteq Lower(y)
    <3>1. x \in Nat /\ y \in Nat /\ \A z \in S : z \in Nat
      OBVIOUS
    <3>2. ~(x < x) /\ \A z \in S : z < x => z < y
      BY <1>4, <3>1
    <3>3. QED
      BY <1>4, <3>2
  <2>2. Cardinality(Lower(x) \cup {x}) = Cardinality(Lower(x)) + 1
    <3> HIDE DEF Lower
    <3> QED BY <1>2, <2>1, FS_AddElement
  <2>3. Cardinality(Lower(x) \cup {x}) <= Cardinality(Lower(y))
    <3> HIDE DEF Lower
    <3> QED BY <1>2, <2>1, FS_Subset
  <2>4. QED
    BY <1>2, <2>2, <2>3
<1>5. \A x, y \in S : Cardinality(Lower(x)) = Cardinality(Lower(y)) => x = y
  <2> SUFFICES ASSUME NEW x \in S, NEW y \in S, x # y
               PROVE  Cardinality(Lower(x)) # Cardinality(Lower(y))
    OBVIOUS
  <2>1. x < y \/ y < x
    OBVIOUS
  <2> HIDE DEF Lower
  <2>2. Cardinality(Lower(x)) \in Nat /\ Cardinality(Lower(y)) \in Nat
    BY <1>2
  <2>3. QED
    BY <1>4, <2>1, <2>2
<1> HIDE DEF Lower, n
<1>6. rank \in Injection(S, T)
  BY <1>3, <1>5 DEF Injection, IsInjective
<1>7. IsFiniteSet(T) /\ Cardinality(T) = n
  BY <1>1, FS_Interval
<1>8. rank \in Surjection(S, T)
  <2> HIDE DEF rank, T
  <2> QED BY <1>6, <1>7, FS_Injection DEF n
<1>9. \A k \in T : \E x \in S : Cardinality(Lower(x)) = k
  BY <1>8 DEF Surjection
<1> DEFINE At(i) == CHOOSE x \in S : Cardinality({y \in S : y < x}) = i - 1
<1>10. ASSUME NEW i \in 1..n PROVE At(i) \in S /\ Rank(S, At(i)) = i - 1
  <2>1. i - 1 \in T
    BY <1>1
  <2>2. \E x \in S : Cardinality({y \in S : y < x}) = i - 1
    BY <1>9, <2>1 DEF Lower
  <2>3. At(i) \in S /\ Cardinality({y \in S : y < At(i)}) = i - 1
    BY <2>2
  <2>4. QED
    BY <2>3 DEF Rank
<1>11. InOrder(S) = [i \in 1..n |-> At(i)]
  BY DEF InOrder, n
<1> HIDE DEF At
<1>12. InOrder(S) \in [1..n -> S]
  BY <1>10, <1>11
<1>13. InOrder(S) \in Seq(S) /\ Len(InOrder(S)) = n
  <2> HIDE DEF T, rank
  <2> QED BY <1>1, <1>12, FunctionIsSeq
<1>14. \A i \in 1..n : InOrder(S)[i] \in S /\ Rank(S, InOrder(S)[i]) = i - 1
  BY <1>10, <1>11
<1>15. ASSUME NEW x \in S PROVE Rank(S, x) \in 0..(n - 1) /\ InOrder(S)[Rank(S, x) + 1] = x
  <2>1. \A y \in S : Rank(S, y) = Cardinality(Lower(y))
    BY DEF Rank, Lower
  <2>2. Rank(S, x) \in 0..(n - 1)
    BY <1>3, <2>1
  <2>3. Rank(S, x) + 1 \in 1..n /\ Rank(S, x) + 1 - 1 = Rank(S, x)
    BY <1>1, <2>2
  <2>4. InOrder(S)[Rank(S, x) + 1] \in S /\ Rank(S, InOrder(S)[Rank(S, x) + 1]) = Rank(S, x)
    <3>1. PICK i \in 1..n : i = Rank(S, x) + 1
      BY <2>3
    <3>2. InOrder(S)[i] \in S /\ Rank(S, InOrder(S)[i]) = i - 1
      BY <1>14
    <3>3. i - 1 = Rank(S, x)
      BY <2>2, <3>1
    <3>4. InOrder(S)[i] \in S /\ Rank(S, InOrder(S)[i]) = Rank(S, x)
      BY <3>2, <3>3
    <3>5. QED
      BY <3>1, <3>4, Zenon
  <2>5. QED
    BY <1>5, <2>1, <2>2, <2>4
<1>16. QED
  BY <1>1, <1>13, <1>14, <1>15 DEF n

\* Collisions are resolved one after the other, each in the state the last one left.
LEMMA ResolveCollisionsSound ==
  ASSUME Sound(am), ResolveCollisions
  PROVE  Sound(am')
<1> DEFINE s == InOrder(am.coll)
<1>1. Len(s) \in Nat
  <2>1. am.coll \subseteq 0..(am.nId - 1) /\ am.nId \in Nat
    BY DEF Sound, Shape, Typed
  <2>2. am.coll \in SUBSET Nat /\ IsFiniteSet(am.coll)
    <3>1. IsFiniteSet(0..(am.nId - 1))
      <4>1. am.nId - 1 \in Int /\ 0 \in Int
        BY <2>1
      <4>2. QED
        BY <4>1, FS_Interval
    <3>2. QED
      BY <2>1, <3>1, FS_Subset
  <2>3. QED
    BY <2>2, InOrderFacts
<1>2. am' = InTurn(Resolve, am, s)
  BY DEF ResolveCollisions
<1> HIDE DEF s
<1>3. PICK f : /\ f[0] = am /\ am' = f[Len(s)]
               /\ \A i \in 1..Len(s) : f[i] = Resolve(f[i - 1], s[i])
  <2>1. PICK f : ResolveRun(am, s, f)
    BY <1>1, ResolveSteps
  <2>2. QED
    BY <1>2, <2>1, Zenon DEF ResolveRun
<1> DEFINE N == {n \in Nat : n <= Len(s) => Sound(f[n])}
<1>4. 0 \in N
  BY <1>3
<1>5. ASSUME NEW n \in N PROVE n + 1 \in N
  <2> SUFFICES ASSUME n + 1 <= Len(s) PROVE Sound(f[n + 1])
    OBVIOUS
  <2>1. n \in Nat /\ n <= Len(s) /\ n + 1 \in 1..Len(s) /\ n + 1 - 1 = n
    BY <1>1
  <2>2. f[n + 1] = Resolve(f[n], s[n + 1])
    BY <1>3, <2>1
  <2>3. Sound(f[n])
    BY <2>1
  <2>4. Sound(Resolve(f[n], s[n + 1]))
    BY <2>3, ResolveSound
  <2>5. QED
    BY <2>2, <2>4
<1>6. N = Nat
  <2>1. N \in SUBSET Nat
    OBVIOUS
  <2> HIDE DEF N
  <2>2. QED
    BY <1>4, <1>5, <2>1, SetInduction
<1>7. Sound(f[Len(s)])
  BY <1>1, <1>6
<1>8. QED
  BY <1>3, <1>7

\* GetAddr only changes the random order.
LEMMA GetAddrSound ==
  ASSUME Sound(am), GetAddr
  PROVE  Sound(am')
<1> DEFINE len == Len(am.random)
<1>1. PICK k \in 1..len : \E r \in [1..k -> 1..len] : am' = Shuffled(am, r, k)
  BY DEF GetAddr
<1> PICK r \in [1..k -> 1..len] : am' = Shuffled(am, r, k)
  BY <1>1
<1>2. len \in Nat
  BY DEF Sound, Shape, Typed
<1>3. k \in Nat /\ \A i \in 1..k : i \in 1..len /\ r[i] \in 1..len
  BY <1>2
<1> HIDE DEF len
<1>4. PICK f : /\ f[0] = am /\ Shuffled(am, r, k) = f[k]
               /\ \A i \in 1..k : f[i] = SwapRandom(f[i - 1], i, r[i])
  <2>1. PICK f : SwapRun(am, r, k, f)
    BY <1>3, SwapSteps
  <2>2. QED
    BY <2>1, Zenon DEF SwapRun
<1> DEFINE SameLength(e) == Sound(e) /\ Len(e.random) = len
           N == {n \in Nat : n <= k => SameLength(f[n])}
<1>8. 0 \in N
  BY <1>4 DEF len
<1>9. ASSUME NEW n \in N PROVE n + 1 \in N
  <2> SUFFICES ASSUME n + 1 <= k PROVE SameLength(f[n + 1])
    OBVIOUS
  <2>1. n \in Nat /\ n <= k /\ n + 1 \in 1..k /\ n + 1 - 1 = n
    BY <1>3
  <2>2. SameLength(f[n])
    BY <2>1
  <2> DEFINE e == f[n]
             i == n + 1
             j == r[n + 1]
  <2>3. f[n + 1] = SwapRandom(e, i, j)
    BY <1>4, <2>1
  <2>4. i \in 1..Len(e.random) /\ j \in 1..Len(e.random) /\ Shape(e, {})
    BY <1>3, <2>1, <2>2 DEF Sound
  <2> HIDE DEF e, i, j
  <2>5. Shape(SwapRandom(e, i, j), {}) /\ Reordered(e, SwapRandom(e, i, j))
    BY <2>4, SwapShape
  <2>6. CountsOK(SwapRandom(e, i, j), 0, 0) /\ Pending(SwapRandom(e, i, j))
    BY <2>2, <2>5, ReorderedKeeps DEF Sound, e
  <2>7. QED
    BY <2>2, <2>3, <2>5, <2>6 DEF Sound, Reordered, e
<1>10. N = Nat
  <2>1. N \in SUBSET Nat
    OBVIOUS
  <2> HIDE DEF N
  <2>2. QED
    BY <1>8, <1>9, <2>1, SetInduction
<1>11. SameLength(f[k])
  BY <1>3, <1>10
<1>12. QED
  BY <1>1, <1>4, <1>11

-----------------------------------------------------------------------------
(* peers.dat.                                                              *)

\* The state before the first entry is read, and the initial state.
Blank(i, j) == [info |-> <<>>, addr |-> <<>>, random |-> <<>>,
                new |-> [s \in NewSlots |-> -1], tried |-> [s \in TriedSlots |-> -1],
                nNew |-> i, nTried |-> j, nId |-> 0, coll |-> {}]

\* It has no entry.
LEMMA EmptyShape ==
  ASSUME NEW i \in Int, NEW j \in Int, NEW e, e = Blank(i, j)
  PROVE  /\ Shape(e, {}) /\ DOMAIN e.info = {} /\ e.nId = 0 /\ e.nNew = i /\ e.nTried = j
         /\ e.coll = {} /\ e.new = [s \in NewSlots |-> -1] /\ e.tried = [s \in TriedSlots |-> -1]
<1>1. /\ e.info = <<>> /\ e.addr = <<>> /\ e.random = <<>> /\ e.nId = 0 /\ e.nNew = i
      /\ e.nTried = j /\ e.coll = {} /\ e.new = [s \in NewSlots |-> -1]
      /\ e.tried = [s \in TriedSlots |-> -1]
      /\ e = [info |-> e.info, addr |-> e.addr, random |-> e.random, new |-> e.new,
              tried |-> e.tried, nNew |-> e.nNew, nTried |-> e.nTried, nId |-> e.nId,
              coll |-> e.coll]
  BY DEF Blank
<1>2. DOMAIN e.info = {} /\ DOMAIN e.addr = {} /\ DOMAIN e.random = {} /\ e.random \in Seq(Nat)
  <2>1. DOMAIN <<>> = {} /\ <<>> \in Seq(Nat)
    OBVIOUS
  <2>2. QED
    BY <1>1, <2>1, Zenon
<1>3. e.info \in [{} -> InfoType] /\ e.addr \in [{} -> Nat]
  <2>1. \A S : <<>> \in [{} -> S]
    <3> SUFFICES ASSUME NEW S PROVE <<>> \in [{} -> S]
      OBVIOUS
    <3>1. <<>> = [x \in {} |-> 0]
      OBVIOUS
    <3>2. QED
      BY <3>1
  <2>2. QED
    BY <1>1, <2>1, Zenon
<1>4. e.new \in [NewSlots -> Nat \cup {-1}] /\ e.tried \in [TriedSlots -> Nat \cup {-1}]
  BY <1>1
<1>5. IsFiniteSet({})
  BY FS_EmptySet
<1>6. Typed(e)
  <2>1. e.info \in [DOMAIN e.info -> InfoType] /\ IsFiniteSet(DOMAIN e.info)
        /\ e.addr \in [DOMAIN e.addr -> Nat] /\ DOMAIN e.addr \subseteq Addrs
        /\ DOMAIN e.info \subseteq 0..(e.nId - 1)
    BY <1>2, <1>3, <1>5
  <2>2. QED
    BY <1>1, <1>2, <1>4, <2>1 DEF Typed
<1>7. OrderOK(e.info, e.random) /\ NamesOK(e.info, e.addr)
  BY <1>2 DEF OrderOK, NamesOK
<1>8. PlacesOK(e.info, e.new, {}) /\ TriedOK(e.info, e.tried)
  BY <1>1, <1>2 DEF PlacesOK, TriedOK
<1>9. QED
  BY <1>1, <1>2, <1>6, <1>7, <1>8 DEF Shape

\* The initial state is sound.
LEMMA InitSound ==
  ASSUME Init
  PROVE  Sound(am)
<1>1. am = Blank(0, 0)
  BY Zenon DEF Init, Empty, Blank
<1>2. /\ Shape(am, {}) /\ DOMAIN am.info = {} /\ am.nNew = 0 /\ am.nTried = 0 /\ am.coll = {}
  <2>1. 0 \in Int
    OBVIOUS
  <2>2. QED
    BY <1>1, <2>1, EmptyShape
<1>3. Tried(am.info) = {} /\ Untried(am.info) = {}
  BY <1>2 DEF Tried, Untried
<1>4. Cardinality({}) = 0
  BY FS_EmptySet
<1>5. QED
  BY <1>2, <1>3, <1>4 DEF Sound, CountsOK, Pending

\* The entries that are written: those of the new table and the tried ones, each once.
LEMMA WrittenIds ==
  ASSUME NEW m, Sound(m)
  PROVE  /\ NewIds(m) = Untried(m.info) /\ TriedIds(m) = Tried(m.info)
         /\ NewIds(m) \in SUBSET Nat /\ IsFiniteSet(NewIds(m))
         /\ TriedIds(m) \in SUBSET Nat /\ IsFiniteSet(TriedIds(m))
         /\ m.nNew = Cardinality(NewIds(m)) /\ m.nTried = Cardinality(TriedIds(m))
         /\ m.nNew \in Nat /\ m.nTried \in Nat
<1>1. Typed(m) /\ PlacesOK(m.info, m.new, {}) /\ CountsOK(m, 0, 0)
  BY DEF Sound, Shape
<1>2. NewIds(m) = Untried(m.info)
  BY <1>1 DEF NewIds, Untried, Tried, PlacesOK
<1>3. TriedIds(m) = Tried(m.info)
  BY DEF TriedIds, Tried
<1>4. DOMAIN m.info \subseteq Nat
  BY <1>1 DEF Typed
<1>5. Tried(m.info) \in SUBSET Nat /\ Untried(m.info) \in SUBSET Nat
  BY <1>4 DEF Tried, Untried
<1>6. /\ IsFiniteSet(Tried(m.info)) /\ IsFiniteSet(Untried(m.info))
      /\ Cardinality(Tried(m.info)) \in Nat /\ Cardinality(Untried(m.info)) \in Nat
      /\ m.nNew \in Int /\ m.nTried \in Int
  BY <1>1, FiniteEntries
<1>7. m.nNew = Cardinality(Untried(m.info)) /\ m.nTried = Cardinality(Tried(m.info))
  BY <1>1, <1>6 DEF CountsOK
<1>8. QED
  BY <1>2, <1>3, <1>5, <1>6, <1>7

\* What the file says of the entries S.
Written(m, S) ==
  /\ Len(Saved(m, InOrder(S))) = Cardinality(S)
  /\ \A i \in 1..Cardinality(S) :
       LET id == InOrder(S)[i]
           x == Saved(m, InOrder(S))[i]
       IN /\ id \in S /\ x.addr = m.info[id].addr /\ <<x.addr, x.src>> \in DOMAIN NewBucket
          /\ x.tested \in {"never", "answered", "stale"}
          /\ m.info[id].tested # "never" => x.tested # "never"

\* An entry is written with its address and source.
LEMMA SavedFacts ==
  ASSUME NEW m, Sound(m), NEW S, S \in SUBSET DOMAIN m.info, S \in SUBSET Nat, IsFiniteSet(S)
  PROVE  Written(m, S)
<1> DEFINE ids == InOrder(S)
           n == Cardinality(S)
           file == Saved(m, ids)
           At(i) == [addr |-> m.info[ids[i]].addr, src |-> m.info[ids[i]].src,
                     tested |-> IF m.info[ids[i]].tested \in {"never", "answered"}
                                THEN m.info[ids[i]].tested ELSE "stale"]
<1>1. n \in Nat /\ ids \in Seq(S) /\ Len(ids) = n /\ \A i \in 1..n : ids[i] \in S
  BY InOrderFacts
<1>2. DOMAIN ids = 1..n
  <2> HIDE DEF ids, n
  <2> QED BY <1>1
<1>3. file = [i \in DOMAIN ids |-> At(i)]
  BY DEF Saved
<1>4. file = [i \in 1..n |-> At(i)]
  <2> HIDE DEF ids, n, file, At
  <2> QED BY <1>2, <1>3
<1>5. Len(file) = n
  <2>1. PICK T : T = {At(i) : i \in 1..n}
    OBVIOUS
  <2> HIDE DEF file, At, n
  <2>2. file \in [1..n -> T]
    BY <1>4, <2>1
  <2>3. QED
    BY <1>1, <2>2, FunctionIsSeq
<1>6. ASSUME NEW i \in 1..n
      PROVE  /\ file[i].addr = m.info[ids[i]].addr
             /\ <<file[i].addr, file[i].src>> \in DOMAIN NewBucket
             /\ file[i].tested \in {"never", "answered", "stale"}
             /\ m.info[ids[i]].tested # "never" => file[i].tested # "never"
  <2>1. file[i] = At(i)
    BY <1>4
  <2> HIDE DEF ids, file, n
  <2>2. file[i].addr = m.info[ids[i]].addr /\ file[i].src = m.info[ids[i]].src
        /\ file[i].tested = IF m.info[ids[i]].tested \in {"never", "answered"}
                            THEN m.info[ids[i]].tested ELSE "stale"
    BY <2>1
  <2>3. <<m.info[ids[i]].addr, m.info[ids[i]].src>> \in DOMAIN NewBucket
    BY <1>1 DEF Sound, Shape, NamesOK
  <2>4. QED
    BY <2>2, <2>3
<1>7. QED
  BY <1>1, <1>5, <1>6 DEF Written

\* What reading an entry adds.
Reads(e, d, x) ==
  /\ e.nId \notin DOMAIN e.info /\ DOMAIN d.info = DOMAIN e.info \cup {e.nId}
  /\ d.info[e.nId].addr = x.addr /\ d.info[e.nId].tested = x.tested
  /\ \A k \in DOMAIN e.info : d.info[k] = e.info[k]
  /\ d.new = e.new /\ d.tried = e.tried /\ d.nNew = e.nNew /\ d.nTried = e.nTried
  /\ d.nId = e.nId + 1 /\ d.coll = e.coll

\* An entry is read.
LEMMA ReadShape ==
  ASSUME NEW e, NEW L, Shape(e, L), NEW x, x.addr \notin DOMAIN e.addr,
         <<x.addr, x.src>> \in DOMAIN NewBucket, x.tested \in {"never", "answered", "stale"}
  PROVE  Shape(Read(e, x), L \cup {e.nId}) /\ Reads(e, Read(e, x), x)
<1> DEFINE c == Create(e, x.addr, x.src)
           id == e.nId
           v == x.tested
           d == Tested(c, id, v)
<1>1. Shape(c, L \cup {id}) /\ Created(e, c, x.addr, x.src)
  BY CreateShape
<1>2. Read(e, x) = d
  BY DEF Read, Tested
<1> HIDE DEF c, id, v
<1>3. /\ id \notin DOMAIN e.info /\ DOMAIN c.info = DOMAIN e.info \cup {id}
      /\ c.info[id].addr = x.addr /\ c.info[id].inTried = FALSE
      /\ \A k \in DOMAIN e.info : c.info[k] = e.info[k]
      /\ c.new = e.new /\ c.tried = e.tried /\ c.nNew = e.nNew /\ c.nTried = e.nTried
      /\ c.nId = e.nId + 1 /\ c.coll = e.coll
  BY <1>1 DEF Created, Info, id
<1>4. v \in {"never", "answered", "trying", "failed", "stale"} /\ id \in DOMAIN c.info
      /\ (c.info[id].inTried => v # "never")
  BY <1>3 DEF v
<1>5. /\ Shape(d, L \cup {id}) /\ Update(c.info, d.info, id, c.info[id].ref, c.info[id].inTried, v)
      /\ Altered(c, d) /\ d.new = c.new /\ d.tried = c.tried /\ d.coll = c.coll
      /\ d.nNew = c.nNew /\ d.nTried = c.nTried
  BY <1>1, <1>4, TestedShape
<1> HIDE DEF d
<1>6. Reads(e, d, x)
  BY <1>3, <1>5 DEF Reads, Update, Altered, id, v
<1>7. QED
  BY <1>2, <1>5, <1>6 DEF id

\* After n entries of the new table and t tried ones were read.
Loaded(m, n, t, e) ==
  /\ Shape(e, 0..(n - 1)) /\ DOMAIN e.info = 0..(n + t - 1) /\ e.nId = n + t
  /\ e.nNew = m.nNew /\ e.nTried = m.nTried /\ e.coll = {} /\ \A s \in NewSlots : e.new[s] = -1
  /\ \A k \in 0..(n - 1) : e.info[k].addr = m.info[InOrder(NewIds(m))[k + 1]].addr
  /\ \A k \in n..(n + t - 1) : /\ e.info[k].addr = m.info[InOrder(TriedIds(m))[k - n + 1]].addr
                               /\ e.info[k].inTried

\* Two entries that are written have different addresses.
LEMMA OtherAddr ==
  ASSUME NEW m, Sound(m), NEW S \in SUBSET Nat, S \subseteq DOMAIN m.info, IsFiniteSet(S),
         NEW i \in 1..Cardinality(S), NEW j \in 1..Cardinality(S), i # j
  PROVE  m.info[InOrder(S)[i]].addr # m.info[InOrder(S)[j]].addr
<1>1. Cardinality(S) \in Nat
  BY InOrderFacts
<1>2. InOrder(S)[i] \in S /\ Rank(S, InOrder(S)[i]) = i - 1 /\ InOrder(S)[j] \in S /\ Rank(S, InOrder(S)[j]) = j - 1
  BY InOrderFacts
<1>3. i - 1 # j - 1
  BY <1>1
<1>4. InOrder(S)[i] # InOrder(S)[j]
  BY <1>2, <1>3
<1>5. \A x, y \in DOMAIN m.info : x # y => m.info[x].addr # m.info[y].addr
  BY DEF Sound, Shape, NamesOK
<1>6. QED
  BY <1>2, <1>4, <1>5

\* Entries of the two tables have different addresses.
LEMMA OtherTable ==
  ASSUME NEW m, Sound(m), NEW i \in 1..m.nNew, NEW j \in 1..m.nTried
  PROVE  m.info[InOrder(NewIds(m))[i]].addr # m.info[InOrder(TriedIds(m))[j]].addr
<1>1. /\ NewIds(m) = Untried(m.info) /\ TriedIds(m) = Tried(m.info)
      /\ NewIds(m) \in SUBSET Nat /\ IsFiniteSet(NewIds(m))
      /\ TriedIds(m) \in SUBSET Nat /\ IsFiniteSet(TriedIds(m))
      /\ m.nNew = Cardinality(NewIds(m)) /\ m.nTried = Cardinality(TriedIds(m))
  BY WrittenIds
<1>2. InOrder(NewIds(m))[i] \in NewIds(m)
  BY <1>1, InOrderFacts
<1>3. InOrder(TriedIds(m))[j] \in TriedIds(m)
  BY <1>1, InOrderFacts
<1>4. /\ InOrder(NewIds(m))[i] # InOrder(TriedIds(m))[j]
      /\ InOrder(NewIds(m))[i] \in DOMAIN m.info /\ InOrder(TriedIds(m))[j] \in DOMAIN m.info
  BY <1>1, <1>2, <1>3 DEF Tried, Untried
<1>5. \A x, y \in DOMAIN m.info : x # y => m.info[x].addr # m.info[y].addr
  BY DEF Sound, Shape, NamesOK
<1>6. QED
  BY <1>4, <1>5

\* Reading one entry of the new table.
LEMMA LoadNew ==
  ASSUME NEW m, Sound(m), NEW n \in Nat, n < m.nNew, NEW e, Loaded(m, n, 0, e)
  PROVE  Loaded(m, n + 1, 0, Read(e, Serialize(m).new[n + 1]))
<1> DEFINE S == NewIds(m)
           ids == InOrder(S)
           i == n + 1
           x == Saved(m, ids)[i]
           d == Read(e, x)
<1>1. /\ S \in SUBSET Nat /\ S \in SUBSET DOMAIN m.info /\ IsFiniteSet(S)
      /\ m.nNew = Cardinality(S) /\ m.nNew \in Nat
  BY WrittenIds DEF NewIds
<1>2. i \in 1..Cardinality(S)
  BY <1>1
<1>3. Serialize(m).new = Saved(m, ids)
  BY DEF Serialize
<1>4. /\ ids[i] \in S /\ x.addr = m.info[ids[i]].addr /\ <<x.addr, x.src>> \in DOMAIN NewBucket
      /\ x.tested \in {"never", "answered", "stale"}
  <2> HIDE DEF S, i
  <2>1. Written(m, S)
    BY <1>1, SavedFacts
  <2>2. QED
    BY <1>2, <2>1 DEF Written
<1> HIDE DEF x, d
<1>5. /\ Shape(e, 0..(n - 1)) /\ DOMAIN e.info = 0..(n - 1) /\ e.nId = n
      /\ e.nNew = m.nNew /\ e.nTried = m.nTried /\ e.coll = {} /\ \A s \in NewSlots : e.new[s] = -1
      /\ \A k \in 0..(n - 1) : e.info[k].addr = m.info[ids[k + 1]].addr
  <2>1. n + 0 = n
    OBVIOUS
  <2>2. QED
    BY <2>1 DEF Loaded
<1>6. x.addr \notin DOMAIN e.addr
  <2> SUFFICES ASSUME x.addr \in DOMAIN e.addr PROVE FALSE
    OBVIOUS
  <2>1. PICK k \in 0..(n - 1) : e.info[k].addr = x.addr
    <3>1. e.addr[x.addr] \in DOMAIN e.info /\ e.info[e.addr[x.addr]].addr = x.addr
      BY <1>5 DEF Shape, NamesOK
    <3>2. QED
      BY <1>5, <3>1
  <2>2. m.info[ids[k + 1]].addr = m.info[ids[i]].addr
    BY <1>4, <1>5, <2>1
  <2>3. k + 1 \in 1..Cardinality(S) /\ k + 1 # i
    BY <1>1, <1>2
  <2> HIDE DEF S, i
  <2>4. QED
    BY <1>1, <1>2, <2>2, <2>3, OtherAddr
<1>7. Shape(d, (0..(n - 1)) \cup {n}) /\ Reads(e, d, x)
  BY <1>4, <1>5, <1>6, ReadShape DEF d
<1>8. (0..(n - 1)) \cup {n} = 0..(n + 1 - 1) /\ n + 1 + 0 - 1 = n /\ n + 1 - 1 = n /\ n + 1 + 0 = n + 1
  OBVIOUS
<1>9. DOMAIN d.info = 0..n /\ d.nId = n + 1 /\ d.nNew = m.nNew /\ d.nTried = m.nTried /\ d.coll = {}
      /\ \A s \in NewSlots : d.new[s] = -1
  BY <1>5, <1>7, <1>8 DEF Reads
<1>10. ASSUME NEW k \in 0..n PROVE d.info[k].addr = m.info[ids[k + 1]].addr
  <2>1. CASE k = n
    BY <1>4, <1>5, <1>7, <2>1 DEF Reads
  <2>2. CASE k # n
    <3>1. k \in 0..(n - 1)
      BY <2>2
    <3>2. QED
      BY <1>5, <1>7, <3>1 DEF Reads
  <2>3. QED
    BY <2>1, <2>2
<1>11. Loaded(m, n + 1, 0, d)
  <2>1. \A k \in 0..(n + 1 - 1) : d.info[k].addr = m.info[InOrder(NewIds(m))[k + 1]].addr
    BY <1>8, <1>10
  <2>2. \A k \in (n + 1)..(n + 1 + 0 - 1) : FALSE
    BY <1>8
  <2>3. Shape(d, 0..(n + 1 - 1)) /\ DOMAIN d.info = 0..(n + 1 + 0 - 1) /\ d.nId = n + 1 + 0
    BY <1>7, <1>8, <1>9
  <2>4. QED
    BY <1>9, <2>1, <2>2, <2>3 DEF Loaded
<1>12. QED
  BY <1>3, <1>11 DEF d, x

\* Reading one tried entry: the slot is free, as no two tried entries share one.
LEMMA LoadTried ==
  ASSUME NEW m, Sound(m), NEW t \in Nat, t < m.nTried, NEW e, Loaded(m, m.nNew, t, e)
  PROVE  Loaded(m, m.nNew, t + 1, ReadTried(e, Serialize(m).tried[t + 1]))
<1> DEFINE n == m.nNew
           S == TriedIds(m)
           ids == InOrder(S)
           i == t + 1
           x == Saved(m, ids)[i]
           id == n + t
           slot == TriedSlot[x.addr]
           d == Read(e, x)
           w == Trying(d, id, d.nTried)
<1>1. /\ S \in SUBSET Nat /\ S \in SUBSET DOMAIN m.info /\ IsFiniteSet(S) /\ S = Tried(m.info)
      /\ m.nTried = Cardinality(S) /\ m.nTried \in Nat /\ n \in Nat
  BY WrittenIds DEF TriedIds
<1>2. i \in 1..Cardinality(S)
  BY <1>1
<1>3. Serialize(m).tried = Saved(m, ids)
  BY DEF Serialize
<1>4. /\ ids[i] \in S /\ x.addr = m.info[ids[i]].addr /\ <<x.addr, x.src>> \in DOMAIN NewBucket
      /\ x.tested \in {"never", "answered", "stale"}
      /\ m.info[ids[i]].tested # "never" => x.tested # "never"
  <2> HIDE DEF S, i
  <2>1. Written(m, S)
    BY <1>1, SavedFacts
  <2>2. QED
    BY <1>2, <2>1 DEF Written
<1>5. /\ m.info[ids[i]].inTried /\ ids[i] \in DOMAIN m.info /\ x.addr \in Addrs
      /\ m.tried[slot] = ids[i] /\ x.tested # "never" /\ slot \in TriedSlots
  <2> HIDE DEF x, i, ids
  <2>1. m.info[ids[i]].inTried /\ ids[i] \in DOMAIN m.info
    BY <1>1, <1>4 DEF Tried
  <2>2. m.info[ids[i]].tested # "never" /\ m.tried[TriedSlot[m.info[ids[i]].addr]] = ids[i]
    BY <2>1 DEF Sound, Shape, TriedOK
  <2>3. x.addr \in Addrs
    BY <1>4, AddrManAssumption
  <2>4. QED
    BY <1>4, <2>1, <2>2, <2>3 DEF TriedSlots
<1> HIDE DEF x, d, n, w
<1>6. /\ Shape(e, 0..(n - 1)) /\ DOMAIN e.info = 0..(n + t - 1) /\ e.nId = id
      /\ e.nNew = m.nNew /\ e.nTried = m.nTried /\ e.coll = {} /\ \A s \in NewSlots : e.new[s] = -1
      /\ \A k \in 0..(n - 1) : e.info[k].addr = m.info[InOrder(NewIds(m))[k + 1]].addr
      /\ \A k \in n..(n + t - 1) : e.info[k].addr = m.info[ids[k - n + 1]].addr /\ e.info[k].inTried
  BY DEF Loaded, n
<1>7. \A k \in n..(n + t - 1) : k - n + 1 \in 1..Cardinality(S) /\ k - n + 1 # i
  BY <1>1, <1>2
<1>8. x.addr \notin DOMAIN e.addr
  <2> SUFFICES ASSUME x.addr \in DOMAIN e.addr PROVE FALSE
    OBVIOUS
  <2>1. PICK k \in 0..(n + t - 1) : e.info[k].addr = x.addr
    <3>1. e.addr[x.addr] \in DOMAIN e.info /\ e.info[e.addr[x.addr]].addr = x.addr
      BY <1>6 DEF Shape, NamesOK
    <3>2. QED
      BY <1>6, <3>1
  <2>2. CASE k \in 0..(n - 1)
    <3>1. m.info[InOrder(NewIds(m))[k + 1]].addr = m.info[ids[i]].addr
      BY <1>4, <1>6, <2>1, <2>2
    <3>2. PICK h \in 1..m.nNew : h = k + 1
      BY <1>1, <2>2 DEF n
    <3>3. i \in 1..m.nTried
      BY <1>1, <1>2
    <3> HIDE DEF i
    <3>4. m.info[InOrder(NewIds(m))[h]].addr # m.info[ids[i]].addr
      BY <3>3, OtherTable
    <3>5. QED
      BY <3>1, <3>2, <3>4
  <2>3. CASE k \in n..(n + t - 1)
    <3>1. PICK h \in 1..Cardinality(S) : h = k - n + 1 /\ h # i
      BY <1>7, <2>3
    <3>2. m.info[ids[h]].addr = m.info[ids[i]].addr
      BY <1>4, <1>6, <2>1, <2>3, <3>1
    <3> HIDE DEF S, i
    <3>3. QED
      BY <1>1, <1>2, <3>1, <3>2, OtherAddr
  <2>4. QED
    BY <1>1, <2>2, <2>3
<1>9. e.tried[slot] = -1
  <2> SUFFICES ASSUME e.tried[slot] # -1 PROVE FALSE
    OBVIOUS
  <2> DEFINE z == e.tried[slot]
  <2>1. z \in DOMAIN e.info /\ e.info[z].inTried /\ TriedSlot[e.info[z].addr] = slot
    <3>1. TriedOK(e.info, e.tried)
      BY <1>6, Zenon DEF Shape
    <3>2. QED
      BY <1>5, <3>1 DEF TriedOK
  <2>2. z \notin 0..(n - 1)
    <3>1. PlacesOK(e.info, e.new, 0..(n - 1))
      BY <1>6 DEF Shape
    <3>2. QED
      BY <2>1, <3>1 DEF PlacesOK
  <2> HIDE DEF z
  <2>3. z \in n..(n + t - 1)
    BY <1>1, <1>6, <2>1, <2>2
  <2>4. PICK h \in 1..Cardinality(S) : h = z - n + 1 /\ h # i
    BY <1>7, <2>3
  <2>5. e.info[z].addr = m.info[ids[h]].addr
    BY <1>6, <2>3, <2>4
  <2> HIDE DEF S, i
  <2>6. ids[h] \in S
    BY <1>1, <2>4, InOrderFacts
  <2>7. ids[h] \in DOMAIN m.info /\ m.info[ids[h]].inTried
    BY <1>1, <2>6 DEF Tried
  <2>8. m.tried[TriedSlot[m.info[ids[h]].addr]] = ids[h]
    BY <2>7 DEF Sound, Shape, TriedOK
  <2>9. ids[h] = ids[i]
    BY <1>5, <2>1, <2>5, <2>8
  <2>10. m.info[ids[h]].addr # m.info[ids[i]].addr
    BY <1>1, <1>2, <2>4, OtherAddr
  <2>11. QED
    BY <2>9, <2>10
<1>10. Shape(d, (0..(n - 1)) \cup {id}) /\ Reads(e, d, x)
  BY <1>4, <1>6, <1>8, ReadShape DEF d
<1>11. /\ id \notin DOMAIN e.info /\ DOMAIN d.info = DOMAIN e.info \cup {id}
       /\ d.info[id].addr = x.addr /\ d.info[id].tested = x.tested
       /\ \A k \in DOMAIN e.info : d.info[k] = e.info[k]
       /\ d.new = e.new /\ d.tried = e.tried /\ d.nNew = e.nNew /\ d.nTried = e.nTried
       /\ d.nId = id + 1 /\ d.coll = e.coll
  BY <1>6, <1>10 DEF Reads
<1> HIDE DEF id, i
<1>12. /\ Shape(w, ((0..(n - 1)) \cup {id}) \ {id}) /\ Tries(d, w, id) /\ w.nTried = d.nTried
  <2>1. d.nTried \in Int /\ id \in (0..(n - 1)) \cup {id}
    BY <1>10 DEF Shape, Typed
  <2>2. d.info[id].tested # "never" /\ d.tried[TriedSlot[d.info[id].addr]] = -1
    BY <1>5, <1>9, <1>11
  <2>3. QED
    BY <1>10, <2>1, <2>2, TryingShape DEF w
<1>13. ((0..(n - 1)) \cup {id}) \ {id} = 0..(n - 1)
  BY <1>1 DEF id
<1>14. ReadTried(e, x) = w
  <2>1. ReadTried(e, x) = [d EXCEPT !.info[e.nId].inTried = TRUE, !.tried[slot] = e.nId]
    BY <1>9 DEF ReadTried, d
  <2>2. w = [d EXCEPT !.info[id].inTried = TRUE, !.tried[slot] = id, !.nTried = d.nTried]
    BY <1>11 DEF w, Trying
  <2>3. Typed(d)
    BY <1>10 DEF Shape
  <2>4. QED
    BY <1>6, <2>1, <2>2, <2>3 DEF Typed
<1>15. /\ DOMAIN w.info = DOMAIN d.info /\ w.info[id].addr = x.addr /\ w.info[id].inTried
       /\ \A k \in DOMAIN e.info : w.info[k] = e.info[k]
       /\ w.nId = id + 1 /\ w.new = e.new /\ w.coll = e.coll /\ w.nNew = e.nNew /\ w.nTried = e.nTried
  BY <1>11, <1>12 DEF Tries, Update, Altered
<1>16. Loaded(m, n, t + 1, w)
  <2>1. id \in Nat /\ id = n + t /\ n + (t + 1) = id + 1 /\ n + (t + 1) - 1 = id /\ id - n + 1 = t + 1
    BY <1>1 DEF id
  <2>2. DOMAIN w.info = 0..(n + (t + 1) - 1)
    <3>1. DOMAIN w.info = 0..(n + t - 1) \cup {id}
      BY <1>6, <1>11, <1>15
    <3>2. 0..(n + t - 1) \cup {id} = 0..id
      BY <1>1, <2>1
    <3>3. QED
      BY <2>1, <3>1, <3>2
  <2>3. \A k \in 0..(n - 1) : w.info[k].addr = m.info[InOrder(NewIds(m))[k + 1]].addr
    <3>1. \A k \in 0..(n - 1) : k \in DOMAIN e.info
      BY <1>1, <1>6
    <3>2. QED
      BY <1>6, <1>15, <3>1
  <2>4. ASSUME NEW k \in n..(n + (t + 1) - 1)
        PROVE  w.info[k].addr = m.info[InOrder(TriedIds(m))[k - n + 1]].addr /\ w.info[k].inTried
    <3>1. CASE k = id
      BY <1>4, <1>15, <2>1, <3>1 DEF i
    <3>2. CASE k # id
      <4>1. k \in n..(n + t - 1) /\ k \in DOMAIN e.info
        BY <1>1, <1>6, <2>1, <3>2
      <4>2. QED
        BY <1>6, <1>15, <4>1
    <3>3. QED
      BY <3>1, <3>2
  <2>5. QED
    BY <1>6, <1>12, <1>13, <1>15, <2>1, <2>2, <2>3, <2>4 DEF Loaded
<1>17. QED
  BY <1>3, <1>14, <1>16 DEF n, x, i

\* The state when the entries of the new table have been read, and when all have.
StartRead(m) == [Empty EXCEPT !.nNew = Serialize(m).nNew, !.nTried = Serialize(m).nTried]
ReadNew(m) == InTurn(Read, StartRead(m), Serialize(m).new)
ReadAll(m) == InTurn(ReadTried, ReadNew(m), Serialize(m).tried)

\* Nothing is read yet.
LEMMA StartLoaded ==
  ASSUME NEW m, Sound(m)
  PROVE  Loaded(m, 0, 0, StartRead(m))
<1> DEFINE e == StartRead(m)
<1>1. m.nNew \in Int /\ m.nTried \in Int
  BY DEF Sound, Shape, Typed
<1>2. e = Blank(m.nNew, m.nTried)
  <2>1. PICK o, p, q, c : o = <<>> /\ p = [s \in NewSlots |-> -1] /\ q = [s \in TriedSlots |-> -1] /\ c = {}
    OBVIOUS
  <2>2. Empty = [info |-> o, addr |-> o, random |-> o, new |-> p, tried |-> q,
                 nNew |-> 0, nTried |-> 0, nId |-> 0, coll |-> c]
    BY <2>1, Zenon DEF Empty
  <2>3. Blank(m.nNew, m.nTried) = [info |-> o, addr |-> o, random |-> o, new |-> p, tried |-> q,
                                   nNew |-> m.nNew, nTried |-> m.nTried, nId |-> 0, coll |-> c]
    BY <2>1, Zenon DEF Blank
  <2>4. Serialize(m).nNew = m.nNew /\ Serialize(m).nTried = m.nTried
    BY DEF Serialize
  <2>5. e = [Empty EXCEPT !.nNew = m.nNew, !.nTried = m.nTried]
    BY <2>4 DEF StartRead
  <2> HIDE DEF e
  <2>6. [Empty EXCEPT !.nNew = m.nNew] =
          [info |-> o, addr |-> o, random |-> o, new |-> p, tried |-> q,
           nNew |-> m.nNew, nTried |-> 0, nId |-> 0, coll |-> c]
    BY <2>2
  <2>7. PICK h : /\ h = [Empty EXCEPT !.nNew = m.nNew]
                 /\ h = [info |-> o, addr |-> o, random |-> o, new |-> p, tried |-> q,
                         nNew |-> m.nNew, nTried |-> 0, nId |-> 0, coll |-> c]
    BY <2>6, Zenon
  <2>8. [h EXCEPT !.nTried = m.nTried] =
          [info |-> o, addr |-> o, random |-> o, new |-> p, tried |-> q,
           nNew |-> m.nNew, nTried |-> m.nTried, nId |-> 0, coll |-> c]
    <3>1. h = [info |-> o, addr |-> o, random |-> o, new |-> p, tried |-> q,
               nNew |-> m.nNew, nTried |-> 0, nId |-> 0, coll |-> c]
      BY <2>7, Zenon
    <3>2. QED
      BY <3>1
  <2>9. QED
    BY <2>3, <2>5, <2>7, <2>8, Zenon
<1> HIDE DEF e
<1>3. /\ Shape(e, {}) /\ DOMAIN e.info = {} /\ e.nId = 0 /\ e.nNew = m.nNew /\ e.nTried = m.nTried
      /\ e.coll = {} /\ e.new = [s \in NewSlots |-> -1]
  BY <1>1, <1>2, EmptyShape
<1>4. 0..(0 - 1) = {} /\ 0..(0 + 0 - 1) = {} /\ 0 + 0 = 0
  OBVIOUS
<1>5. Loaded(m, 0, 0, e)
  BY <1>3, <1>4 DEF Loaded
<1>6. QED
  BY <1>5 DEF e

\* The entries of the new table are read one after the other.
LEMMA ReadNewLoaded ==
  ASSUME NEW m, Sound(m)
  PROVE  Loaded(m, m.nNew, 0, ReadNew(m))
<1> DEFINE s == Serialize(m).new
<1>1. m.nNew \in Nat /\ Len(s) = m.nNew
  <2>1. /\ NewIds(m) \in SUBSET Nat /\ NewIds(m) \in SUBSET DOMAIN m.info /\ IsFiniteSet(NewIds(m))
        /\ m.nNew = Cardinality(NewIds(m)) /\ m.nNew \in Nat
    BY WrittenIds DEF NewIds
  <2>2. Written(m, NewIds(m))
    BY <2>1, SavedFacts
  <2>3. s = Saved(m, InOrder(NewIds(m)))
    BY DEF Serialize
  <2>4. QED
    BY <2>1, <2>2, <2>3 DEF Written
<1> HIDE DEF s
<1>2. PICK f : /\ f[0] = StartRead(m) /\ ReadNew(m) = f[Len(s)]
               /\ \A i \in 1..Len(s) : f[i] = Read(f[i - 1], s[i])
  <2>1. PICK f : ReadRun(StartRead(m), s, f)
    BY <1>1, ReadSteps
  <2>2. ReadNew(m) = InTurn(Read, StartRead(m), s)
    BY DEF ReadNew, s
  <2>3. QED
    BY <2>1, <2>2, Zenon DEF ReadRun
<1> DEFINE N == {n \in Nat : n <= m.nNew => Loaded(m, n, 0, f[n])}
<1>3. 0 \in N
  BY <1>2, StartLoaded
<1>4. ASSUME NEW n \in N PROVE n + 1 \in N
  <2> SUFFICES ASSUME n + 1 <= m.nNew PROVE Loaded(m, n + 1, 0, f[n + 1])
    OBVIOUS
  <2>1. n \in Nat /\ n < m.nNew /\ n + 1 \in 1..Len(s) /\ n + 1 - 1 = n
    BY <1>1
  <2>2. f[n + 1] = Read(f[n], s[n + 1])
    BY <1>2, <2>1
  <2>3. Loaded(m, n, 0, f[n])
    BY <1>1, <2>1
  <2>4. Loaded(m, n + 1, 0, Read(f[n], s[n + 1]))
    BY <2>1, <2>3, LoadNew DEF s
  <2>5. QED
    BY <2>2, <2>4
<1>5. N = Nat
  <2>1. N \in SUBSET Nat
    OBVIOUS
  <2> HIDE DEF N
  <2>2. QED
    BY <1>3, <1>4, <2>1, SetInduction
<1>6. Loaded(m, m.nNew, 0, f[m.nNew])
  BY <1>1, <1>5
<1>7. QED
  BY <1>1, <1>2, <1>6

\* Then the tried ones.
LEMMA ReadAllLoaded ==
  ASSUME NEW m, Sound(m)
  PROVE  Loaded(m, m.nNew, m.nTried, ReadAll(m))
<1> DEFINE s == Serialize(m).tried
<1>1. m.nTried \in Nat /\ Len(s) = m.nTried
  <2>1. /\ TriedIds(m) \in SUBSET Nat /\ TriedIds(m) \in SUBSET DOMAIN m.info
        /\ IsFiniteSet(TriedIds(m)) /\ m.nTried = Cardinality(TriedIds(m)) /\ m.nTried \in Nat
    BY WrittenIds DEF TriedIds
  <2>2. Written(m, TriedIds(m))
    BY <2>1, SavedFacts
  <2>3. s = Saved(m, InOrder(TriedIds(m)))
    BY DEF Serialize
  <2>4. QED
    BY <2>1, <2>2, <2>3 DEF Written
<1> HIDE DEF s
<1>2. PICK f : /\ f[0] = ReadNew(m) /\ ReadAll(m) = f[Len(s)]
               /\ \A i \in 1..Len(s) : f[i] = ReadTried(f[i - 1], s[i])
  <2>1. PICK f : ReadTriedRun(ReadNew(m), s, f)
    BY <1>1, ReadTriedSteps
  <2>2. ReadAll(m) = InTurn(ReadTried, ReadNew(m), s)
    BY DEF ReadAll, s
  <2>3. QED
    BY <2>1, <2>2, Zenon DEF ReadTriedRun
<1> DEFINE N == {n \in Nat : n <= m.nTried => Loaded(m, m.nNew, n, f[n])}
<1>3. 0 \in N
  BY <1>2, ReadNewLoaded
<1>4. ASSUME NEW n \in N PROVE n + 1 \in N
  <2> SUFFICES ASSUME n + 1 <= m.nTried PROVE Loaded(m, m.nNew, n + 1, f[n + 1])
    OBVIOUS
  <2>1. n \in Nat /\ n < m.nTried /\ n + 1 \in 1..Len(s) /\ n + 1 - 1 = n
    BY <1>1
  <2>2. f[n + 1] = ReadTried(f[n], s[n + 1])
    BY <1>2, <2>1
  <2>3. Loaded(m, m.nNew, n, f[n])
    BY <1>1, <2>1
  <2>4. Loaded(m, m.nNew, n + 1, ReadTried(f[n], s[n + 1]))
    BY <2>1, <2>3, LoadTried DEF s
  <2>5. QED
    BY <2>2, <2>4
<1>5. N = Nat
  <2>1. N \in SUBSET Nat
    OBVIOUS
  <2> HIDE DEF N
  <2>2. QED
    BY <1>3, <1>4, <2>1, SetInduction
<1>6. Loaded(m, m.nNew, m.nTried, f[m.nTried])
  BY <1>1, <1>5
<1>7. QED
  BY <1>1, <1>2, <1>6

\* The places of the new table as the file gives them: a bucket and the number of an entry.
Filled(m) == {s \in NewSlots : m.new[s] # -1}
PlaceOf(m, s) == <<s[1], UnkId(m, m.new[s])>>
PlaceSet(m) == UNION {{b} \X Serialize(m).bucket[b] : b \in Buckets}

\* The file has every place.
LEMMA PlaceSetFacts ==
  ASSUME NEW m
  PROVE  PlaceSet(m) = {PlaceOf(m, s) : s \in Filled(m)} /\ IsFiniteSet(PlaceSet(m))
<1> DEFINE D == {PlaceOf(m, s) : s \in Filled(m)}
           In(b) == {UnkId(m, m.new[s]) : s \in {t \in NewSlots : t[1] = b /\ m.new[t] # -1}}
<1>1. \A b \in Buckets : Serialize(m).bucket[b] = In(b)
  <2>1. Serialize(m).bucket = [b \in Buckets |-> In(b)]
    BY DEF Serialize
  <2> HIDE DEF In
  <2>2. QED
    BY <2>1
<1>2. PlaceSet(m) = UNION {{b} \X In(b) : b \in Buckets}
  <2> HIDE DEF In
  <2> QED BY <1>1 DEF PlaceSet
<1>3. \A x \in PlaceSet(m) : x \in D
  <2> SUFFICES ASSUME NEW x \in PlaceSet(m) PROVE x \in D
    OBVIOUS
  <2>1. PICK b \in Buckets : x \in {b} \X In(b)
    <3> HIDE DEF In
    <3> QED BY <1>2
  <2>2. PICK y \in In(b) : x = <<b, y>>
    <3> HIDE DEF In
    <3> QED BY <2>1
  <2>3. PICK s \in NewSlots : s[1] = b /\ m.new[s] # -1 /\ y = UnkId(m, m.new[s])
    OBVIOUS
  <2>4. QED
    BY <2>2, <2>3 DEF PlaceOf, Filled
<1>4. ASSUME NEW s \in Filled(m) PROVE PlaceOf(m, s) \in PlaceSet(m)
  <2>1. s \in NewSlots /\ m.new[s] # -1
    BY DEF Filled
  <2>2. s[1] \in Buckets
    BY <2>1, SlotFacts
  <2>3. UnkId(m, m.new[s]) \in In(s[1])
    BY <2>1
  <2> HIDE DEF In
  <2>4. PlaceOf(m, s) \in {s[1]} \X In(s[1])
    BY <2>3 DEF PlaceOf
  <2>5. QED
    BY <1>2, <2>2, <2>4
<1>5. PlaceSet(m) = D
  BY <1>3, <1>4
<1>6. IsFiniteSet(D)
  <2> DEFINE f == [s \in Filled(m) |-> PlaceOf(m, s)]
  <2>1. IsFiniteSet(Filled(m))
    <3>1. Filled(m) \in SUBSET NewSlots
      BY DEF Filled
    <3>2. QED
      BY <3>1, SlotFacts, FS_Subset
  <2>2. f \in Surjection(Filled(m), D)
    BY DEF Surjection
  <2> HIDE DEF f, D
  <2>3. QED
    BY <2>1, <2>2, FS_Surjection
<1>7. QED
  BY <1>5, <1>6

\* SetToSeq lists every element once.
LEMMA SetToSeqFacts ==
  ASSUME NEW S, IsFiniteSet(S)
  PROVE  /\ Len(SetToSeq(S)) \in Nat /\ \A i \in 1..Len(SetToSeq(S)) : SetToSeq(S)[i] \in S
         /\ \A i, j \in 1..Len(SetToSeq(S)) : SetToSeq(S)[i] = SetToSeq(S)[j] => i = j
         /\ \A x \in S : \E i \in 1..Len(SetToSeq(S)) : SetToSeq(S)[i] = x
<1> DEFINE n == Cardinality(S)
           q == SetToSeq(S)
<1>1. n \in Nat /\ ExistsBijection(1..n, S)
  BY FS_CardinalityType
<1>2. \E f \in [1..n -> S] : IsInjective(f)
  BY <1>1 DEF ExistsBijection, Bijection, Injection
<1>3. q \in [1..n -> S] /\ IsInjective(q)
  BY <1>2 DEF SetToSeq
<1> HIDE DEF q, n
<1>4. Len(q) = n
  BY <1>1, <1>3, FunctionIsSeq
<1>5. q \in Injection(1..n, S)
  BY <1>3 DEF Injection
<1>6. Cardinality(1..n) = n
  <2>1. 1 \in Int /\ n \in Int
    BY <1>1
  <2>2. Cardinality(1..n) = IF 1 > n THEN 0 ELSE n - 1 + 1
    BY <2>1, FS_Interval
  <2>3. QED
    BY <1>1, <2>2
<1>7. q \in Surjection(1..n, S)
  <2>1. PICK I : I = 1..n
    OBVIOUS
  <2>2. q \in Injection(I, S) /\ Cardinality(I) = Cardinality(S)
    BY <1>5, <1>6, <2>1 DEF n
  <2>3. q \in Surjection(I, S)
    BY <2>2, FS_Injection
  <2>4. QED
    BY <2>1, <2>3
<1>8. \A x \in S : \E i \in 1..n : q[i] = x
  BY <1>7 DEF Surjection
<1>9. \A i, j \in 1..n : q[i] = q[j] => i = j
  BY <1>3 DEF IsInjective
<1>10. QED
  BY <1>1, <1>3, <1>4, <1>8, <1>9 DEF q

\* The entry at a place of the new table is written, and its number finds it again.
LEMMA PlaceFacts ==
  ASSUME NEW m, Sound(m), NEW s \in Filled(m)
  PROVE  LET id == m.new[s]
             k == UnkId(m, id)
         IN /\ s \in NewSlots /\ id \in DOMAIN m.info /\ k \in 0..(m.nNew - 1)
            /\ InOrder(NewIds(m))[k + 1] = id /\ NewSlot(m.info[id].addr, s[1]) = s
            /\ m.info[id].ref \in 1..MaxRefs
<1> DEFINE id == m.new[s]
           k == UnkId(m, id)
           S == NewIds(m)
<1>1. s \in NewSlots /\ id # -1
  BY DEF Filled
<1>2. PlacesOK(m.info, m.new, {})
  BY DEF Sound, Shape
<1>3. id \in DOMAIN m.info /\ NewSlot(m.info[id].addr, s[1]) = s
  BY <1>1, <1>2 DEF PlacesOK
<1>4. Cardinality(PlacesOf(m.new, id)) # 0
  BY <1>1, NoPlace
<1>5. m.info[id].ref \in 1..MaxRefs /\ id \in S
  <2>1. m.info[id].ref # 0
    BY <1>2, <1>3, <1>4 DEF PlacesOK
  <2>2. QED
    BY <1>2, <1>3, <2>1 DEF PlacesOK, NewIds
<1>6. S \in SUBSET Nat /\ IsFiniteSet(S) /\ m.nNew = Cardinality(S)
  BY WrittenIds
<1>7. k = Rank(S, id)
  BY DEF UnkId, Rank
<1> HIDE DEF S, k, id
<1>8. k \in 0..(Cardinality(S) - 1) /\ InOrder(S)[k + 1] = id
  BY <1>5, <1>6, <1>7, InOrderFacts
<1>9. QED
  BY <1>1, <1>3, <1>5, <1>6, <1>8 DEF S, k, id

\* No two places have the same bucket and number.
LEMMA PlacesDiffer ==
  ASSUME NEW m, Sound(m), NEW s \in Filled(m), NEW t \in Filled(m),
         UnkId(m, m.new[s]) = UnkId(m, m.new[t])
  PROVE  m.new[s] = m.new[t] /\ (s[1] = t[1] => s = t)
<1>1. m.new[s] = m.new[t]
  BY PlaceFacts
<1>2. QED
  BY <1>1, PlaceFacts

\* All entries were read, and the places P of the file.
Placing(m, P, e) ==
  /\ Shape(e, {k \in 0..(m.nNew - 1) : e.info[k].ref = 0})
  /\ DOMAIN e.info = 0..(m.nNew + m.nTried - 1)
  /\ e.nNew = m.nNew /\ e.nTried = m.nTried /\ e.coll = {}
  /\ \A k \in 0..(m.nNew - 1) : e.info[k].addr = m.info[InOrder(NewIds(m))[k + 1]].addr
  /\ \A k \in m.nNew..(m.nNew + m.nTried - 1) :
       e.info[k].addr = m.info[InOrder(TriedIds(m))[k - m.nNew + 1]].addr /\ e.info[k].inTried
  /\ \A s \in NewSlots :
       e.new[s] = IF m.new[s] # -1 /\ PlaceOf(m, s) \in P THEN UnkId(m, m.new[s]) ELSE -1

\* No place is read yet.
LEMMA StartPlacing ==
  ASSUME NEW m, Sound(m), NEW e, Loaded(m, m.nNew, m.nTried, e)
  PROVE  Placing(m, {}, e)
<1>1. Shape(e, 0..(m.nNew - 1))
  BY DEF Loaded
<1>2. \A k \in 0..(m.nNew - 1) : e.info[k].ref = 0
  BY <1>1 DEF Shape, PlacesOK
<1>3. {k \in 0..(m.nNew - 1) : e.info[k].ref = 0} = 0..(m.nNew - 1)
  BY <1>2
<1>4. QED
  BY <1>1, <1>3 DEF Loaded, Placing

\* A place is read: it is free, and its entry has fewer references than before.
LEMMA LoadPlace ==
  ASSUME NEW m, Sound(m), NEW P, NEW e, Placing(m, P, e), NEW s \in Filled(m), PlaceOf(m, s) \notin P
  PROVE  Placing(m, P \cup {PlaceOf(m, s)}, ReadPlace(e, PlaceOf(m, s)))
<1> DEFINE id == m.new[s]
           q == UnkId(m, id)
           n == m.nNew
           T == m.nTried
           L == {k \in 0..(n - 1) : e.info[k].ref = 0}
           d == Listed(e, q, s)
           Q == P \cup {PlaceOf(m, s)}
<1>1. n \in Nat /\ T \in Nat
  BY WrittenIds
<1>2. /\ s \in NewSlots /\ id \in DOMAIN m.info /\ q \in 0..(n - 1) /\ InOrder(NewIds(m))[q + 1] = id
      /\ NewSlot(m.info[id].addr, s[1]) = s /\ m.info[id].ref \in 1..MaxRefs /\ id # -1
  BY PlaceFacts DEF Filled
<1>3. PlaceOf(m, s) = <<s[1], q>>
  BY DEF PlaceOf
<1>4. /\ Shape(e, L) /\ DOMAIN e.info = 0..(n + T - 1) /\ e.nNew = n /\ e.nTried = T /\ e.coll = {}
      /\ \A k \in 0..(n - 1) : e.info[k].addr = m.info[InOrder(NewIds(m))[k + 1]].addr
      /\ \A k \in n..(n + T - 1) :
           e.info[k].addr = m.info[InOrder(TriedIds(m))[k - n + 1]].addr /\ e.info[k].inTried
      /\ \A t \in NewSlots :
           e.new[t] = IF m.new[t] # -1 /\ PlaceOf(m, t) \in P THEN UnkId(m, m.new[t]) ELSE -1
  BY DEF Placing
<1> HIDE DEF q, n, T, L, id
<1>5. q \in DOMAIN e.info /\ q \in Nat
  BY <1>1, <1>2, <1>4
<1>6. e.info[q].addr = m.info[id].addr /\ NewSlot(e.info[q].addr, s[1]) = s
  BY <1>2, <1>4
<1>7. e.new[s] = -1
  BY <1>2, <1>4
<1>8. ~e.info[q].inTried /\ e.info[q].ref \in Nat
  <2>1. PlacesOK(e.info, e.new, L) /\ Typed(e)
    BY <1>4 DEF Shape
  <2>2. e.info[q] \in InfoType
    BY <1>5, <2>1 DEF Typed
  <2>3. e.info[q].ref \in Nat
    BY <2>2 DEF InfoType
  <2>4. q \in L \/ e.info[q].ref # 0
    BY <1>2 DEF L
  <2>5. QED
    BY <1>5, <2>1, <2>3, <2>4 DEF PlacesOK
<1>9. e.info[q].ref < MaxRefs
  <2> DEFINE A == PlacesOf(e.new, q)
             B == PlacesOf(m.new, id)
  <2>1. ASSUME NEW t \in A PROVE t \in B \ {s}
    <3>1. t \in NewSlots /\ e.new[t] = q
      BY DEF PlacesOf
    <3>2. m.new[t] # -1 /\ UnkId(m, m.new[t]) = q /\ t # s
      BY <1>4, <1>5, <1>7, <3>1
    <3>3. t \in Filled(m)
      BY <3>1, <3>2 DEF Filled
    <3>4. m.new[t] = id
      BY <3>2, <3>3, PlacesDiffer DEF id, q
    <3>5. QED
      BY <3>1, <3>2, <3>4 DEF PlacesOf
  <2>2. s \in B
    BY <1>2 DEF PlacesOf, id
  <2>3. A \in SUBSET (B \ {s}) /\ IsFiniteSet(A) /\ IsFiniteSet(B) /\ Cardinality(A) \in Nat /\ Cardinality(B) \in Nat
    BY <2>1, SlotFacts
  <2> HIDE DEF A, B
  <2>4. IsFiniteSet(B \ {s}) /\ Cardinality(B \ {s}) = Cardinality(B) - 1
    BY <2>2, <2>3, FS_RemoveElement
  <2>5. Cardinality(A) <= Cardinality(B \ {s})
    BY <2>3, <2>4, FS_Subset
  <2>6. e.info[q].ref = Cardinality(A)
    BY <1>4, <1>5 DEF Shape, PlacesOK, A
  <2>7. m.info[id].ref = Cardinality(B)
    BY <1>2 DEF Sound, Shape, PlacesOK, B
  <2>8. MaxRefs \in Nat
    BY AddrManAssumption
  <2>9. QED
    BY <1>2, <2>3, <2>4, <2>5, <2>6, <2>7, <2>8
<1>10. ReadPlace(e, PlaceOf(m, s)) = d
  <2>1. PlaceOf(m, s)[1] = s[1] /\ PlaceOf(m, s)[2] = q
    BY <1>3
  <2>2. q < e.nNew
    BY <1>1, <1>2, <1>4
  <2>3. QED
    BY <1>6, <1>7, <1>9, <2>1, <2>2 DEF ReadPlace, Listed
<1> HIDE DEF d
<1>11. /\ Shape(d, L \ {q}) /\ Relisted(e, d, q) /\ d.new = [e.new EXCEPT ![s] = q]
       /\ d.info[q].ref = e.info[q].ref + 1
  <2>1. /\ s \in NewSlots /\ Shape(e, L) /\ q \in DOMAIN e.info /\ e.new[s] = -1
        /\ NewSlot(e.info[q].addr, s[1]) = s /\ ~e.info[q].inTried /\ e.info[q].ref < MaxRefs
    BY <1>2, <1>4, <1>5, <1>6, <1>7, <1>8, <1>9
  <2>2. Shape(Listed(e, q, s), L \ {q}) /\ Relisted(e, Listed(e, q, s), q)
    BY <2>1, ListedShape
  <2>3. Typed(e)
    BY <2>1 DEF Shape
  <2>4. d.new = [e.new EXCEPT ![s] = q] /\ d.info[q].ref = e.info[q].ref + 1
    BY <2>1, <2>3 DEF Typed, InfoType, d, Listed
  <2>5. QED
    BY <2>2, <2>4 DEF d
<1>12. /\ DOMAIN d.info = DOMAIN e.info /\ d.nNew = n /\ d.nTried = T /\ d.coll = {}
       /\ d.info[q].addr = e.info[q].addr /\ \A k \in DOMAIN e.info \ {q} : d.info[k] = e.info[k]
  BY <1>4, <1>11 DEF Relisted, Update
<1>13. L \ {q} = {k \in 0..(n - 1) : d.info[k].ref = 0}
  <2>1. d.info[q].ref # 0
    BY <1>8, <1>11
  <2>2. \A k \in 0..(n - 1) : k # q => d.info[k] = e.info[k]
    BY <1>1, <1>4, <1>12
  <2>3. QED
    BY <2>1, <2>2 DEF L
<1>14. ASSUME NEW k \in 0..(n - 1) PROVE d.info[k].addr = m.info[InOrder(NewIds(m))[k + 1]].addr
  <2>1. k \in DOMAIN e.info
    BY <1>1, <1>4
  <2>2. d.info[k].addr = e.info[k].addr
    BY <1>12, <2>1
  <2>3. QED
    BY <1>4, <2>2
<1>15. ASSUME NEW k \in n..(n + T - 1)
       PROVE  d.info[k].addr = m.info[InOrder(TriedIds(m))[k - n + 1]].addr /\ d.info[k].inTried
  <2>1. k \in DOMAIN e.info \ {q}
    BY <1>1, <1>2, <1>4
  <2>2. QED
    BY <1>4, <1>12, <2>1
<1>16. ASSUME NEW t \in NewSlots
       PROVE  d.new[t] = IF m.new[t] # -1 /\ PlaceOf(m, t) \in Q THEN UnkId(m, m.new[t]) ELSE -1
  <2>1. e.new \in [NewSlots -> Nat \cup {-1}]
    BY <1>4 DEF Shape, Typed
  <2>2. CASE t = s
    <3>1. d.new[t] = q
      BY <1>2, <1>11, <2>1, <2>2
    <3>2. QED
      BY <1>2, <2>2, <3>1 DEF q, id
  <2>3. CASE t # s
    <3>1. d.new[t] = e.new[t]
      BY <1>11, <2>1, <2>3
    <3>2. m.new[t] # -1 => PlaceOf(m, t) # PlaceOf(m, s)
      <4> SUFFICES ASSUME m.new[t] # -1, PlaceOf(m, t) = PlaceOf(m, s) PROVE FALSE
        OBVIOUS
      <4>1. t \in Filled(m)
        BY DEF Filled
      <4>2. t[1] = s[1] /\ UnkId(m, m.new[t]) = UnkId(m, m.new[s])
        BY DEF PlaceOf
      <4>3. QED
        BY <2>3, <4>1, <4>2, PlacesDiffer
    <3>3. QED
      BY <1>4, <3>1, <3>2
  <2>4. QED
    BY <2>2, <2>3
<1> HIDE DEF Q
<1>17. Placing(m, Q, d)
  BY <1>4, <1>11, <1>12, <1>13, <1>14, <1>15, <1>16 DEF Placing, n, T
<1>18. QED
  BY <1>10, <1>17 DEF Q

\* The state when the places have been read.
ReadPlaces(m) == InTurn(ReadPlace, ReadAll(m), SetToSeq(PlaceSet(m)))

\* All places are read.
LEMMA ReadPlacesPlaced ==
  ASSUME NEW m, Sound(m)
  PROVE  Placing(m, PlaceSet(m), ReadPlaces(m))
<1> DEFINE s == SetToSeq(PlaceSet(m))
<1>1. /\ Len(s) \in Nat /\ \A i \in 1..Len(s) : s[i] \in PlaceSet(m)
      /\ \A i, j \in 1..Len(s) : s[i] = s[j] => i = j
      /\ \A x \in PlaceSet(m) : \E i \in 1..Len(s) : s[i] = x
  BY PlaceSetFacts, SetToSeqFacts
<1>2. ReadPlaces(m) = InTurn(ReadPlace, ReadAll(m), s)
  BY DEF ReadPlaces
<1> HIDE DEF s
<1>3. PICK f : /\ f[0] = ReadAll(m) /\ ReadPlaces(m) = f[Len(s)]
               /\ \A i \in 1..Len(s) : f[i] = ReadPlace(f[i - 1], s[i])
  <2>1. PICK f : ReadPlaceRun(ReadAll(m), s, f)
    BY <1>1, ReadPlaceSteps
  <2>2. QED
    BY <1>2, <2>1, Zenon DEF ReadPlaceRun
<1> DEFINE First(n) == {s[i] : i \in 1..n}
           N == {n \in Nat : n <= Len(s) => Placing(m, First(n), f[n])}
<1>4. 0 \in N
  <2>1. First(0) = {}
    OBVIOUS
  <2>2. Placing(m, {}, f[0])
    BY <1>3, ReadAllLoaded, StartPlacing
  <2> HIDE DEF First
  <2>3. QED
    BY <2>1, <2>2
<1>5. ASSUME NEW n \in N PROVE n + 1 \in N
  <2> SUFFICES ASSUME n + 1 <= Len(s) PROVE Placing(m, First(n + 1), f[n + 1])
    OBVIOUS
  <2>1. n \in Nat /\ n <= Len(s) /\ n + 1 \in 1..Len(s) /\ n + 1 - 1 = n
    BY <1>1
  <2>2. f[n + 1] = ReadPlace(f[n], s[n + 1])
    BY <1>3, <2>1
  <2>3. Placing(m, First(n), f[n])
    BY <2>1
  <2>4. First(n + 1) = First(n) \cup {s[n + 1]}
    <3>1. 1..(n + 1) = (1..n) \cup {n + 1}
      BY <2>1
    <3>2. QED
      BY <3>1
  <2>5. s[n + 1] \notin First(n)
    <3>1. \A i \in 1..n : i \in 1..Len(s) /\ i # n + 1
      BY <1>1, <2>1
    <3>2. \A i \in 1..n : s[i] # s[n + 1]
      BY <1>1, <2>1, <3>1
    <3>3. QED
      BY <3>2
  <2>6. PICK t \in Filled(m) : s[n + 1] = PlaceOf(m, t)
    <3>1. s[n + 1] \in PlaceSet(m)
      BY <1>1, <2>1
    <3>2. QED
      BY <3>1, PlaceSetFacts
  <2> HIDE DEF First
  <2>7. Placing(m, First(n) \cup {PlaceOf(m, t)}, ReadPlace(f[n], PlaceOf(m, t)))
    BY <2>3, <2>5, <2>6, LoadPlace
  <2>8. QED
    BY <2>2, <2>4, <2>6, <2>7
<1>6. N = Nat
  <2>1. N \in SUBSET Nat
    OBVIOUS
  <2> HIDE DEF N
  <2>2. QED
    BY <1>4, <1>5, <2>1, SetInduction
<1>7. First(Len(s)) = PlaceSet(m)
  BY <1>1
<1>8. Placing(m, First(Len(s)), f[Len(s)])
  <2> HIDE DEF First
  <2> QED BY <1>1, <1>6
<1> HIDE DEF First
<1>9. QED
  BY <1>3, <1>7, <1>8

\* Every entry has its places again, so that none is lost.
LEMMA NoneLost ==
  ASSUME NEW m, Sound(m), NEW e, Placing(m, PlaceSet(m), e)
  PROVE  \A k \in 0..(m.nNew - 1) : e.info[k].ref # 0
<1> SUFFICES ASSUME NEW k \in 0..(m.nNew - 1) PROVE e.info[k].ref # 0
  OBVIOUS
<1> DEFINE S == NewIds(m)
           id == InOrder(S)[k + 1]
<1>1. /\ S \in SUBSET Nat /\ IsFiniteSet(S) /\ m.nNew = Cardinality(S) /\ m.nNew \in Nat /\ m.nTried \in Nat
  BY WrittenIds
<1>2. PICK i \in 1..Cardinality(S) : i = k + 1
  BY <1>1
<1>3. InOrder(S)[i] \in S /\ Rank(S, InOrder(S)[i]) = i - 1 /\ i - 1 = k
  <2>1. i - 1 = k
    BY <1>1, <1>2
  <2> HIDE DEF S
  <2>2. InOrder(S)[i] \in S /\ Rank(S, InOrder(S)[i]) = i - 1
    BY <1>1, InOrderFacts
  <2>3. QED
    BY <2>1, <2>2
<1>4. id \in S /\ UnkId(m, id) = k
  <2>1. id = InOrder(S)[i]
    BY <1>2
  <2>2. UnkId(m, id) = Rank(S, id)
    BY DEF UnkId, Rank
  <2> HIDE DEF S, id
  <2>3. QED
    BY <1>3, <2>1, <2>2
<1> HIDE DEF id
<1>5. id \in DOMAIN m.info /\ m.info[id].ref # 0 /\ id # -1
  BY <1>1, <1>4 DEF NewIds
<1>6. PlacesOf(m.new, id) # {}
  <2>1. m.info[id].ref = Cardinality(PlacesOf(m.new, id))
    BY <1>5 DEF Sound, Shape, PlacesOK
  <2>2. Cardinality({}) = 0
    BY FS_EmptySet
  <2>3. QED
    BY <1>5, <2>1, <2>2
<1>7. PICK s \in NewSlots : m.new[s] = id
  BY <1>6 DEF PlacesOf
<1>8. s \in Filled(m)
  BY <1>5, <1>7 DEF Filled
<1>9. PlaceOf(m, s) \in PlaceSet(m)
  BY <1>8, PlaceSetFacts
<1>10. e.new[s] = k
  BY <1>4, <1>5, <1>7, <1>9 DEF Placing
<1>11. Cardinality(PlacesOf(e.new, k)) # 0
  BY <1>10, NoPlace
<1>12. k \in DOMAIN e.info
  BY <1>1 DEF Placing
<1>13. QED
  BY <1>11, <1>12 DEF Placing, Shape, PlacesOK

\* The two tables of a state have the addresses of those of another one.
Restored(m, e) == /\ AddrsAt(e, e.new) = AddrsAt(m, m.new)
                  /\ AddrsAt(e, e.tried) = AddrsAt(m, m.tried)

\* The new table is as it was.
LEMMA NewRestored ==
  ASSUME NEW m, Sound(m), NEW e, Placing(m, PlaceSet(m), e)
  PROVE  AddrsAt(e, e.new) = AddrsAt(m, m.new)
<1>1. DOMAIN m.new = NewSlots /\ DOMAIN e.new = NewSlots
  BY DEF Sound, Placing, Shape, Typed
<1>2. ASSUME NEW t \in Filled(m)
      PROVE  e.new[t] # -1 /\ e.info[e.new[t]].addr = m.info[m.new[t]].addr
  <2> DEFINE k == UnkId(m, m.new[t])
  <2>1. t \in NewSlots /\ k \in 0..(m.nNew - 1) /\ InOrder(NewIds(m))[k + 1] = m.new[t] /\ m.new[t] # -1
    BY PlaceFacts DEF Filled
  <2>2. PlaceOf(m, t) \in PlaceSet(m)
    BY PlaceSetFacts
  <2>3. e.new[t] = k
    BY <2>1, <2>2 DEF Placing
  <2> HIDE DEF k
  <2>4. e.info[k].addr = m.info[m.new[t]].addr
    BY <2>1 DEF Placing
  <2>5. k # -1
    BY <2>1
  <2>6. QED
    BY <2>3, <2>4, <2>5
<1>3. \A t \in NewSlots : t \notin Filled(m) => e.new[t] = -1
  BY DEF Placing, Filled
<1>4. {t \in DOMAIN e.new : e.new[t] # -1} = Filled(m) /\ {t \in DOMAIN m.new : m.new[t] # -1} = Filled(m)
  <2>1. Filled(m) \subseteq NewSlots
    BY DEF Filled
  <2>2. {t \in DOMAIN e.new : e.new[t] # -1} = Filled(m)
    BY <1>1, <1>2, <1>3, <2>1
  <2>3. {t \in DOMAIN m.new : m.new[t] # -1} = Filled(m)
    BY <1>1 DEF Filled
  <2>4. QED
    BY <2>2, <2>3
<1>5. AddrsAt(e, e.new) = [s \in Filled(m) |-> e.info[e.new[s]].addr]
  BY <1>4 DEF AddrsAt
<1>6. AddrsAt(m, m.new) = [s \in Filled(m) |-> m.info[m.new[s]].addr]
  BY <1>4 DEF AddrsAt
<1>7. QED
  BY <1>2, <1>5, <1>6

\* And so is the tried table.
LEMMA TriedRestored ==
  ASSUME NEW m, Sound(m), NEW e, Placing(m, PlaceSet(m), e)
  PROVE  AddrsAt(e, e.tried) = AddrsAt(m, m.tried)
<1> DEFINE S == TriedIds(m)
           n == m.nNew
           T == m.nTried
           F == {t \in TriedSlots : m.tried[t] # -1}
<1>1. DOMAIN m.tried = TriedSlots /\ DOMAIN e.tried = TriedSlots
  BY DEF Sound, Placing, Shape, Typed
<1>2. /\ S \in SUBSET Nat /\ IsFiniteSet(S) /\ T = Cardinality(S) /\ T \in Nat /\ n \in Nat
      /\ S = Tried(m.info)
  BY WrittenIds
<1>3. TriedOK(m.info, m.tried) /\ TriedOK(e.info, e.tried)
  BY DEF Sound, Placing, Shape
<1>4. /\ DOMAIN e.info = 0..(n + T - 1)
      /\ \A k \in n..(n + T - 1) : e.info[k].addr = m.info[InOrder(S)[k - n + 1]].addr /\ e.info[k].inTried
      /\ \A k \in 0..(n - 1) : e.info[k].ref # 0
  BY NoneLost DEF Placing
<1>5. \A k \in 0..(n - 1) : ~e.info[k].inTried
  <2>1. \A k \in DOMAIN e.info : e.info[k].inTried => e.info[k].ref = 0
    BY DEF Placing, Shape, PlacesOK
  <2>2. QED
    BY <1>2, <1>4, <2>1
<1> HIDE DEF S, n, T
<1>6. ASSUME NEW t \in F
      PROVE  e.tried[t] # -1 /\ e.info[e.tried[t]].addr = m.info[m.tried[t]].addr
  <2> DEFINE id == m.tried[t]
  <2>1. id \in S /\ TriedSlot[m.info[id].addr] = t
    BY <1>2, <1>3 DEF TriedOK, Tried
  <2>2. PICK r \in 0..(T - 1) : InOrder(S)[r + 1] = id
    BY <1>2, <2>1, InOrderFacts
  <2> HIDE DEF id
  <2> PICK k : k = n + r
    OBVIOUS
  <2>3. k \in n..(n + T - 1) /\ k - n + 1 = r + 1
    BY <1>2
  <2>4. e.info[k].addr = m.info[id].addr /\ e.info[k].inTried
    BY <1>4, <2>2, <2>3
  <2>5. k \in DOMAIN e.info /\ k # -1
    BY <1>2, <1>4, <2>3
  <2>6. e.tried[t] = k
    BY <1>3, <2>1, <2>4, <2>5 DEF TriedOK
  <2>7. QED
    BY <2>4, <2>5, <2>6 DEF id
<1>7. ASSUME NEW t \in TriedSlots, e.tried[t] # -1 PROVE m.tried[t] # -1
  <2> DEFINE k == e.tried[t]
  <2>1. k \in DOMAIN e.info /\ e.info[k].inTried /\ TriedSlot[e.info[k].addr] = t
    BY <1>3, <1>7 DEF TriedOK
  <2> HIDE DEF k
  <2>2. k \in n..(n + T - 1)
    <3>1. k \in 0..(n + T - 1) /\ k \notin 0..(n - 1)
      BY <1>4, <1>5, <2>1
    <3>2. QED
      BY <1>2, <3>1
  <2>3. PICK i \in 1..Cardinality(S) : i = k - n + 1
    BY <1>2, <2>2
  <2>4. InOrder(S)[i] \in S
    BY <1>2, InOrderFacts
  <2>5. e.info[k].addr = m.info[InOrder(S)[i]].addr
    BY <1>4, <2>2, <2>3
  <2>6. InOrder(S)[i] \in DOMAIN m.info /\ m.info[InOrder(S)[i]].inTried /\ InOrder(S)[i] # -1
    <3>1. \A x \in S : x \in DOMAIN m.info /\ m.info[x].inTried
      BY <1>2 DEF Tried
    <3>2. \A x \in S : x # -1
      BY <1>2
    <3>3. QED
      BY <2>4, <3>1, <3>2
  <2>7. m.tried[t] = InOrder(S)[i]
    BY <1>3, <2>1, <2>5, <2>6 DEF TriedOK
  <2>8. QED
    BY <2>6, <2>7
<1>8. {t \in DOMAIN e.tried : e.tried[t] # -1} = F /\ {t \in DOMAIN m.tried : m.tried[t] # -1} = F
  BY <1>1, <1>6, <1>7
<1> HIDE DEF F
<1>9. AddrsAt(e, e.tried) = [s \in F |-> e.info[e.tried[s]].addr]
  BY <1>8 DEF AddrsAt
<1>10. AddrsAt(m, m.tried) = [s \in F |-> m.info[m.tried[s]].addr]
  BY <1>8 DEF AddrsAt
<1>11. QED
  BY <1>6, <1>9, <1>10

\* What is read is sound.
LEMMA PlacedAll ==
  ASSUME NEW m, Sound(m), NEW e, Placing(m, PlaceSet(m), e)
  PROVE  /\ Sound(e)
         /\ {id \in DOMAIN e.info : ~e.info[id].inTried /\ e.info[id].ref = 0} = {}
<1> DEFINE n == m.nNew
           T == m.nTried
<1>1. n \in Nat /\ T \in Nat
  BY WrittenIds
<1>2. /\ DOMAIN e.info = 0..(n + T - 1) /\ e.nNew = n /\ e.nTried = T /\ e.coll = {}
      /\ \A k \in n..(n + T - 1) : e.info[k].inTried
      /\ \A k \in 0..(n - 1) : e.info[k].ref # 0
  BY NoneLost DEF Placing
<1>3. Shape(e, {})
  <2>1. {k \in 0..(n - 1) : e.info[k].ref = 0} = {}
    BY <1>2
  <2>2. QED
    BY <2>1 DEF Placing
<1>4. \A k \in 0..(n - 1) : ~e.info[k].inTried
  <2>1. \A k \in DOMAIN e.info : e.info[k].inTried => e.info[k].ref = 0
    BY <1>3 DEF Shape, PlacesOK
  <2>2. QED
    <3>1. \A k \in 0..(n - 1) : k \in 0..(n + T - 1)
      BY <1>1
    <3> HIDE DEF n, T
    <3>2. QED
      BY <1>2, <2>1, <3>1
<1> HIDE DEF n, T
<1>5. \A k \in 0..(n + T - 1) : k \in 0..(n - 1) \/ k \in n..(n + T - 1)
  BY <1>1
<1>6. /\ \A k \in 0..(n - 1) : k \in 0..(n + T - 1) /\ k \notin n..(n + T - 1)
      /\ \A k \in n..(n + T - 1) : k \in 0..(n + T - 1)
  BY <1>1
<1>7. Tried(e.info) = n..(n + T - 1)
  BY <1>2, <1>4, <1>5, <1>6 DEF Tried
<1>8. Untried(e.info) = 0..(n - 1)
  BY <1>2, <1>5, <1>6, <1>7 DEF Untried
<1>9. Cardinality(0..(n - 1)) = n /\ Cardinality(n..(n + T - 1)) = T
  <2>1. \A a, b \in Int : Cardinality(a..b) = IF a > b THEN 0 ELSE b - a + 1
    BY FS_Interval
  <2>2. 0 \in Int /\ n \in Int /\ n - 1 \in Int /\ n + T - 1 \in Int
    BY <1>1
  <2>3. Cardinality(0..(n - 1)) = IF 0 > n - 1 THEN 0 ELSE n - 1 - 0 + 1
    BY <2>1, <2>2
  <2> PICK b \in Int : b = n + T - 1
    BY <2>2
  <2>4. Cardinality(n..b) = IF n > b THEN 0 ELSE b - n + 1
    BY <2>1, <2>2
  <2>5. QED
    BY <1>1, <2>3, <2>4
<1>10. CountsOK(e, 0, 0)
  BY <1>1, <1>2, <1>7, <1>8, <1>9 DEF CountsOK
<1>11. Pending(e)
  BY <1>2 DEF Pending
<1>12. \A k \in DOMAIN e.info : e.info[k].inTried \/ e.info[k].ref # 0
  BY <1>2, <1>5
<1>13. QED
  BY <1>3, <1>10, <1>11, <1>12 DEF Sound

\* Writing peers.dat and reading it gives a sound state with the same tables.
LEMMA UnserializeSound ==
  ASSUME NEW m, Sound(m)
  PROVE  /\ Sound(Unserialize(Serialize(m))) /\ Restored(m, Unserialize(Serialize(m)))
<1> DEFINE e == ReadPlaces(m)
           lost == {id \in DOMAIN e.info : ~e.info[id].inTried /\ e.info[id].ref = 0}
<1>1. Placing(m, PlaceSet(m), e)
  BY ReadPlacesPlaced
<1>2. Unserialize(Serialize(m)) = InTurn(Delete, e, InOrder(lost))
  BY DEF Unserialize, ReadPlaces, ReadAll, ReadNew, StartRead, PlaceSet
<1> HIDE DEF e
<1>3. Sound(e) /\ lost = {}
  BY <1>1, PlacedAll
<1>4. Restored(m, e)
  BY <1>1, NewRestored, TriedRestored DEF Restored
<1> HIDE DEF lost
<1>5. Len(InOrder(lost)) = 0
  <2>1. IsFiniteSet({}) /\ Cardinality({}) = 0 /\ {} \in SUBSET Nat
    BY FS_EmptySet
  <2>2. Len(InOrder({})) = 0
    BY <2>1, InOrderFacts
  <2>3. QED
    BY <1>3, <2>2
<1>6. InTurn(Delete, e, InOrder(lost)) = e
  <2>1. PICK s : s = InOrder(lost)
    OBVIOUS
  <2>2. Len(s) = 0 /\ Len(s) \in Nat
    BY <1>5, <2>1
  <2>3. PICK f : DeleteRun(e, s, f)
    BY <2>2, DeleteSteps
  <2>4. f[0] = e /\ InTurn(Delete, e, s) = f[Len(s)]
    BY <2>3, Zenon DEF DeleteRun
  <2>5. InTurn(Delete, e, s) = e
    BY <2>2, <2>4, Zenon
  <2>6. QED
    BY <2>1, <2>5, Zenon
<1>7. Unserialize(Serialize(m)) = e
  BY <1>2, <1>6, Zenon
<1>8. QED
  BY <1>3, <1>4, <1>7

-----------------------------------------------------------------------------
(* The theorems.                                                           *)

\* Every step of every operation keeps the state sound.
LEMMA StepSound ==
  ASSUME Sound(am), [Next]_am
  PROVE  Sound(am')
<1>1. ASSUME NEW x \in DOMAIN NewBucket, Add(x[1], x[2]) PROVE Sound(am')
  <2>1. x[1] \in Addrs /\ x[2] \in Sources /\ <<x[1], x[2]>> \in DOMAIN NewBucket
    BY AddrManAssumption
  <2>2. QED
    BY <1>1, <2>1, AddSound
<1>2. ASSUME NEW a \in Addrs, Good(a) PROVE Sound(am')
  BY <1>2, GoodSound DEF Good
<1>3. ASSUME NEW a \in Addrs, Attempt(a) PROVE Sound(am')
  BY <1>3, AttemptSound
<1>4. CASE ResolveCollisions
  BY <1>4, ResolveCollisionsSound
<1>5. CASE SelectTriedCollision
  BY <1>5, SelectSound
<1>6. CASE GetAddr
  BY <1>6, GetAddrSound
<1>7. CASE Minute \/ Hours
  BY <1>7, TimeSound
<1>8. CASE Restart
  BY <1>8, UnserializeSound DEF Restart
<1>9. CASE UNCHANGED am
  BY <1>9
<1>10. QED
  BY <1>1, <1>2, <1>3, <1>4, <1>5, <1>6, <1>7, <1>8, <1>9 DEF Next

\* The random order, the map by address, the references, the tried table, the
\* counters and the collisions agree after every sequence of Add, Good, Attempt,
\* Select, GetAddr, ResolveCollisions and restarts.
THEOREM Invariance == Spec => []IInv
<1>1. Init => IInv
  BY InitSound DEF IInv
<1>2. IInv /\ [Next]_am => IInv'
  BY StepSound DEF IInv
<1>3. QED
  BY <1>1, <1>2, PTL DEF Spec

\* The state of CAddrMan keeps its types; in particular nNew and nTried never go
\* below zero, and mapInfo has no entry for an id that was not given out.
THEOREM TypeCorrect == Spec => []TypeOK
<1>1. IInv => TypeOK
  <2> SUFFICES ASSUME Sound(am) PROVE TypeOK
    BY DEF IInv
  <2>1. Typed(am)
    BY DEF Sound, Shape
  <2>2. {am.nNew, am.nTried, am.nId} \subseteq Nat
    BY <2>1, WrittenIds DEF Typed
  <2>3. am.coll \subseteq Nat
    BY <2>1 DEF Typed
  <2>4. QED
    BY <2>1, <2>2, <2>3 DEF Typed, TypeOK, InfoType
<1>2. QED
  BY <1>1, Invariance, PTL

\* The order holds every entry once.
LEMMA OrderLength ==
  ASSUME NEW m, Sound(m)
  PROVE  Len(m.random) = m.nNew + m.nTried
<1> DEFINE I == 1..Len(m.random)
           f == [i \in I |-> m.random[i]]
<1>1. Typed(m) /\ OrderOK(m.info, m.random)
  BY DEF Sound, Shape
<1>2. m.random \in Seq(Nat) /\ DOMAIN m.random = I /\ Len(m.random) \in Nat
  BY <1>1 DEF Typed
<1>3. \A i \in I : f[i] = m.random[i] /\ f[i] \in DOMAIN m.info /\ m.info[f[i]].pos = i
  BY <1>1, <1>2 DEF OrderOK
<1>4. \A x \in DOMAIN m.info : \E i \in I : f[i] = x
  BY <1>1, <1>2 DEF OrderOK
<1>5. f \in [I -> DOMAIN m.info]
  BY <1>3
<1>6. IsFiniteSet(I) /\ Cardinality(I) = Len(m.random)
  <2>1. \A a, b \in Int : IsFiniteSet(a..b) /\ Cardinality(a..b) = IF a > b THEN 0 ELSE b - a + 1
    BY FS_Interval
  <2>2. QED
    BY <1>2, <2>1
<1> HIDE DEF f, I
<1>7. f \in Surjection(I, DOMAIN m.info)
  BY <1>4, <1>5 DEF Surjection
<1>8. f \in Injection(I, DOMAIN m.info)
  BY <1>3, <1>5 DEF Injection, IsInjective
<1>9. Cardinality(DOMAIN m.info) = Len(m.random)
  BY <1>6, <1>7, <1>8, FS_Surjection
<1>10. /\ IsFiniteSet(Tried(m.info)) /\ IsFiniteSet(Untried(m.info))
       /\ m.nNew = Cardinality(Untried(m.info)) /\ m.nTried = Cardinality(Tried(m.info))
       /\ m.nNew \in Nat /\ m.nTried \in Nat
  BY WrittenIds
<1>11. /\ DOMAIN m.info = Untried(m.info) \cup Tried(m.info)
       /\ Untried(m.info) \cap Tried(m.info) = {}
  BY DEF Untried, Tried
<1>12. Cardinality({}) = 0
  BY FS_EmptySet
<1>13. Cardinality(Untried(m.info) \cup Tried(m.info)) =
         Cardinality(Untried(m.info)) + Cardinality(Tried(m.info))
           - Cardinality(Untried(m.info) \cap Tried(m.info))
  BY <1>10, FS_Union
<1>14. Cardinality(DOMAIN m.info) = m.nNew + m.nTried - 0
  BY <1>10, <1>11, <1>12, <1>13, Zenon
<1>15. QED
  BY <1>9, <1>10, <1>14

\* CAddrMan::Check_ returns 0 between any two operations, whatever the hash
\* functions, the addresses announced and the rivals that answer or fail: counts,
\* random order, map by address, references and both tables agree.
THEOREM CheckStaysClean == Spec => []CheckPasses
<1>1. IInv => CheckPasses
  <2> SUFFICES ASSUME Sound(am) PROVE CheckPasses
    BY DEF IInv
  <2>1. /\ TriedIds(am) = Tried(am.info) /\ am.nTried = Cardinality(TriedIds(am))
        /\ am.nNew = Cardinality(Untried(am.info)) /\ NewIds(am) = Untried(am.info)
    BY WrittenIds
  <2>2. Untried(am.info) = DOMAIN am.info \ TriedIds(am)
    BY <2>1 DEF Untried
  <2>3. Len(am.random) = am.nNew + am.nTried
    BY OrderLength
  <2>4. /\ OrderOK(am.info, am.random) /\ NamesOK(am.info, am.addr)
        /\ PlacesOK(am.info, am.new, {}) /\ TriedOK(am.info, am.tried)
    BY DEF Sound, Shape
  <2>5. ASSUME NEW id \in DOMAIN am.info
        PROVE  LET i == am.info[id]
               IN /\ i.inTried => i.tested # "never" /\ i.ref = 0 /\ am.tried[TriedSlot[i.addr]] = id
                  /\ ~i.inTried => i.ref \in 1..MaxRefs
                  /\ i.ref = Cardinality({s \in NewSlots : am.new[s] = id})
                  /\ i.addr \in DOMAIN am.addr /\ am.addr[i.addr] = id
                  /\ i.pos \in DOMAIN am.random /\ am.random[i.pos] = id
    <3>1. am.info[id].pos \in DOMAIN am.random /\ am.random[am.info[id].pos] = id
      BY <2>4 DEF OrderOK
    <3>2. am.info[id].addr \in DOMAIN am.addr /\ am.addr[am.info[id].addr] = id
      BY <2>4 DEF NamesOK
    <3>3. /\ am.info[id].ref = Cardinality({s \in NewSlots : am.new[s] = id})
          /\ am.info[id].inTried => am.info[id].ref = 0
          /\ ~am.info[id].inTried => am.info[id].ref \in 1..MaxRefs
      BY <2>4 DEF PlacesOK, PlacesOf
    <3>4. am.info[id].inTried =>
            am.info[id].tested # "never" /\ am.tried[TriedSlot[am.info[id].addr]] = id
      BY <2>4 DEF TriedOK
    <3>5. QED
      BY <3>1, <3>2, <3>3, <3>4
  <2>6. \A s \in TriedSlots : am.tried[s] # -1 =>
          am.tried[s] \in TriedIds(am) /\ TriedSlot[am.info[am.tried[s]].addr] = s
    BY <2>1, <2>4 DEF TriedOK, Tried
  <2>7. \A s \in NewSlots : am.new[s] # -1 =>
          am.new[s] \in DOMAIN am.info /\ NewSlot(am.info[am.new[s]].addr, s[1]) = s
    BY <2>4 DEF PlacesOK
  <2>8. QED
    BY <2>1, <2>2, <2>3, <2>5, <2>6, <2>7, Zenon DEF CheckPasses
<1>2. QED
  BY <1>1, Invariance, PTL

\* An address that waits for a place of the tried table has a rival there, another
\* address, so that SelectTriedCollision_ never reads mapInfo[-1] and a feeler
\* connection tests the rival.
THEOREM CollisionsStayPending == Spec => []CollisionsPending
<1>1. IInv => CollisionsPending
  BY DEF IInv, Sound, Pending, CollisionsPending
<1>2. QED
  BY <1>1, Invariance, PTL

\* A restart puts every address back into the places it had in both tables, though
\* peers.dat names no position and every id changes.
THEOREM ReloadRestores == Spec => ReloadKeepsTables
<1>1. IInv /\ [Next]_am =>
        [Restart => /\ AddrsAt(am', am'.new) = AddrsAt(am, am.new)
                    /\ AddrsAt(am', am'.tried) = AddrsAt(am, am.tried)]_am
  <2> SUFFICES ASSUME Sound(am), Restart
               PROVE  /\ AddrsAt(am', am'.new) = AddrsAt(am, am.new)
                      /\ AddrsAt(am', am'.tried) = AddrsAt(am, am.tried)
    BY DEF IInv
  <2>1. Restored(am, am')
    BY UnserializeSound DEF Restart
  <2>2. QED
    BY <2>1 DEF Restored
<1>2. QED
  BY <1>1, Invariance, PTL DEF Spec, ReloadKeepsTables
=============================================================================
