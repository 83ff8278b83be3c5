-------------------------- MODULE ChainStateProofs --------------------------
(***************************************************************************)
(* Proofs about ChainState for every finite block tree.                    *)
(***************************************************************************)
EXTENDS ChainState, FiniteSetTheorems, WellFoundedInduction, TLAPS

-----------------------------------------------------------------------------
(* Finite sets, least elements and the block tree.                         *)

\* A set of natural numbers has a least element.
LEMMA LeastNat ==
  ASSUME NEW S \in SUBSET Nat, S # {}
  PROVE  \E x \in S : \A y \in S : x <= y
<1>1. PICK x \in S : \A y \in S : ~(<<y, x>> \in OpToRel(<, Nat))
  BY NatLessThanWellFounded, WFMin
<1>2. \A y \in S : ~(y < x)
  BY <1>1 DEF OpToRel
<1> QED BY <1>2

\* What the walks along pprev rely on: a chain contains its block and genesis,
\* it contains the chains of its blocks, height and work grow along it, and of
\* two of its blocks the lower one is an ancestor of the other.
ChainOK(b) ==
  /\ b \in Anc[b] /\ Genesis \in Anc[b]
  /\ \A a \in Anc[b] : /\ Anc[a] \subseteq Anc[b]
                       /\ a = b \/ (Height[a] < Height[b] /\ Work[a] < Work[b])
  /\ \A a, c \in Anc[b] : Height[a] <= Height[c] => a \in Anc[c]

\* Every block has a proper chain: the lowest one without would have a parent
\* that has one.
LEMMA ChainsOK == \A b \in Blocks : ChainOK(b)
<1>1. ASSUME NEW b \in Blocks \ {Genesis}, ChainOK(Parent[b])
      PROVE  ChainOK(b)
  <2> DEFINE p == Parent[b]
  <2>1. /\ p \in Blocks /\ Anc[b] = {b} \cup Anc[p] /\ Anc[p] \subseteq Blocks
        /\ Height[b] = Height[p] + 1 /\ Work[p] < Work[b]
    BY TreeAssumption
  <2>2. Height \in [Blocks -> Nat] /\ Work \in [Blocks -> Nat]
    BY TreeAssumption
  <2>3. \A a \in Anc[p] : Height[a] < Height[b] /\ Work[a] < Work[b]
    BY <1>1, <2>1, <2>2 DEF ChainOK
  <2>4. \A a \in Anc[b] : /\ Anc[a] \subseteq Anc[b]
                          /\ a = b \/ (Height[a] < Height[b] /\ Work[a] < Work[b])
    BY <1>1, <2>1, <2>3 DEF ChainOK
  <2>5. ASSUME NEW a \in Anc[b], NEW c \in Anc[b], Height[a] <= Height[c]
        PROVE  a \in Anc[c]
    <3>1. CASE c = b BY <3>1
    <3>2. CASE c # b /\ a # b BY <1>1, <2>1, <2>5, <3>2 DEF ChainOK
    <3>3. CASE c # b /\ a = b BY <2>1, <2>2, <2>3, <2>5, <3>3
    <3> QED BY <3>1, <3>2, <3>3
  <2> QED BY <1>1, <2>1, <2>4, <2>5 DEF ChainOK
<1>2. ChainOK(Genesis)
  BY TreeAssumption DEF ChainOK
<1> SUFFICES ASSUME \E b \in Blocks : ~ChainOK(b) PROVE FALSE
  OBVIOUS
<1> DEFINE H == {Height[b] : b \in {d \in Blocks : ~ChainOK(d)}}
<1>3. H \in SUBSET Nat /\ H # {}
  BY TreeAssumption
<1> HIDE DEF H
<1>4. PICK h \in H : \A y \in H : h <= y
  BY <1>3, LeastNat
<1>5. PICK b \in Blocks : ~ChainOK(b) /\ Height[b] = h
  BY DEF H
<1>6. b # Genesis
  BY <1>2, <1>5
<1>7. Parent[b] \in Blocks /\ Height[Parent[b]] < h /\ Height[Parent[b]] \in Nat
  <2>1. b \in Blocks \ {Genesis} BY <1>5, <1>6
  <2>2. /\ Parent[b] \in Blocks /\ Height[b] = Height[Parent[b]] + 1
        /\ Height[Parent[b]] \in Nat
    BY <2>1, TreeAssumption
  <2> QED BY <1>5, <2>2
<1>8. ~ChainOK(Parent[b])
  BY <1>1, <1>5, <1>6
<1>9. Height[Parent[b]] \in H
  BY <1>7, <1>8 DEF H
<1> QED BY <1>4, <1>7, <1>9, <1>3

\* The same facts, ready for use.
LEMMA Tree ==
  /\ Height \in [Blocks -> Nat] /\ Work \in [Blocks -> Nat]
  /\ Genesis \in Blocks /\ Anc[Genesis] = {Genesis} /\ None \notin Blocks
  /\ \A b \in Blocks : /\ Anc[b] \subseteq Blocks
                        /\ b \in Anc[b] /\ Genesis \in Anc[b]
                        /\ \A a \in Anc[b] : Anc[a] \subseteq Anc[b]
  /\ \A b \in Blocks \ {Genesis} : /\ Parent[b] \in Blocks
                                    /\ b \notin Anc[Parent[b]]
                                    /\ Anc[b] = {b} \cup Anc[Parent[b]]
BY TreeAssumption, ChainsOK DEF ChainOK

\* Height and work grow along a chain.
LEMMA Upwards ==
  \A b \in Blocks : \A a \in Anc[b] :
    a = b \/ (Height[a] < Height[b] /\ Work[a] < Work[b] /\ b \notin Anc[a])
<1> SUFFICES ASSUME NEW b \in Blocks, NEW a \in Anc[b], a # b
             PROVE  Height[a] < Height[b] /\ Work[a] < Work[b] /\ b \notin Anc[a]
  OBVIOUS
<1>1. a \in Blocks /\ Height[a] \in Nat /\ Height[b] \in Nat
  BY Tree
<1>2. Height[a] < Height[b] /\ Work[a] < Work[b]
  BY ChainsOK DEF ChainOK
<1>3. b \in Anc[a] => b = a \/ Height[b] < Height[a]
  BY <1>1, ChainsOK DEF ChainOK
<1> QED BY <1>1, <1>2, <1>3

\* A chain is linear.
LEMMA Linear ==
  \A b \in Blocks : \A a, c \in Anc[b] : a \in Anc[c] \/ c \in Anc[a]
<1> SUFFICES ASSUME NEW b \in Blocks, NEW a \in Anc[b], NEW c \in Anc[b]
             PROVE  a \in Anc[c] \/ c \in Anc[a]
  OBVIOUS
<1>1. Height[a] \in Nat /\ Height[c] \in Nat
  BY Tree
<1>2. Height[a] <= Height[c] \/ Height[c] <= Height[a]
  BY <1>1
<1> QED BY <1>2, ChainsOK DEF ChainOK

\* A non-empty set of blocks has a lowest one, and one of a chain a highest one.
LEMMA LowestBlock ==
  ASSUME NEW S \in SUBSET Blocks, S # {}
  PROVE  \E b \in S : \A d \in S : Height[b] <= Height[d]
<1> DEFINE H == {Height[b] : b \in S}
<1>1. H \in SUBSET Nat /\ H # {}
  BY Tree
<1>2. PICK h \in H : \A y \in H : h <= y
  <2> HIDE DEF H
  <2> QED BY <1>1, LeastNat
<1> QED BY <1>2

\* CBlockIndexWorkComparator is a strict total order, whatever the sequence
\* numbers are.
LEMMA BetterOrders ==
  ASSUME NEW s \in [Blocks -> Int]
  PROVE  /\ \A a \in Blocks : ~BetterBy(s, a, a)
         /\ \A a, b \in Blocks : /\ a = b \/ BetterBy(s, a, b) \/ BetterBy(s, b, a)
                                 /\ ~(BetterBy(s, a, b) /\ BetterBy(s, b, a))
                                 /\ BetterBy(s, a, b) => Work[b] <= Work[a]
                                 /\ Work[a] < Work[b] => BetterBy(s, b, a)
         /\ \A a, b, c \in Blocks :
              BetterBy(s, a, b) /\ BetterBy(s, b, c) => BetterBy(s, a, c)
<1>1. Work \in [Blocks -> Nat] /\ Blocks \subseteq Nat
  BY TreeAssumption
<1> QED BY <1>1 DEF BetterBy

\* A non-empty set of blocks has a best one: the one with the fewest better ones.
LEMMA BestBlock ==
  ASSUME NEW s \in [Blocks -> Int], NEW S \in SUBSET Blocks, S # {}
  PROVE  \E a \in S : \A b \in S : ~BetterBy(s, b, a)
<1> DEFINE B(a) == {b \in S : BetterBy(s, b, a)}
           N == {Cardinality(B(a)) : a \in S}
<1>1. \A a \in S : IsFiniteSet(B(a)) /\ Cardinality(B(a)) \in Nat
  <2> SUFFICES ASSUME NEW a \in S PROVE IsFiniteSet(B(a)) /\ Cardinality(B(a)) \in Nat
    OBVIOUS
  <2>1. IsFiniteSet(Blocks) /\ B(a) \in SUBSET Blocks BY TreeAssumption
  <2>2. IsFiniteSet(B(a)) BY <2>1, FS_Subset
  <2> QED BY <2>2, FS_CardinalityType
<1>2. N \in SUBSET Nat /\ N # {}
  BY <1>1
<1>3. PICK n \in N : \A y \in N : n <= y
  <2> HIDE DEF N
  <2> QED BY <1>2, LeastNat
<1>4. PICK a \in S : n = Cardinality(B(a))
  BY <1>3
<1>5. ASSUME NEW b \in S, BetterBy(s, b, a) PROVE FALSE
  <2>1. B(b) \in SUBSET B(a)
    BY <1>5, BetterOrders
  <2>2. b \in B(a) /\ b \notin B(b)
    BY <1>5, BetterOrders
  <2>3. /\ Cardinality(B(b)) <= Cardinality(B(a))
        /\ Cardinality(B(b)) = Cardinality(B(a)) => B(a) = B(b)
    <3> HIDE DEF B
    <3> QED BY <1>1, <2>1, FS_Subset
  <2>4. n <= Cardinality(B(b))
    BY <1>3
  <2> HIDE DEF B
  <2> QED BY <1>1, <1>4, <2>2, <2>3, <2>4
<1> QED BY <1>5

-----------------------------------------------------------------------------
(* One iteration of ActivateBestChain, taken apart.                        *)

\* pindexMostWork, the candidates after FindMostWorkChain, and its new marks.
Target(t) == IF mostWork[t] = None THEN FindMostWorkChain ELSE mostWork[t]
Cands(t) == IF mostWork[t] = None THEN CandidatesFound ELSE candidates
Marks(t) == IF mostWork[t] = None THEN Poisoned ELSE {}

\* The thread leaves the loop.
Leaves(t) == /\ pc' = [pc EXCEPT ![t] = "idle"]
             /\ blk' = [blk EXCEPT ![t] = None]
             /\ mostWork' = [mostWork EXCEPT ![t] = None]

\* There is nothing to do, or only blocks to disconnect.
Rests(t, m) ==
  /\ m = None \/ m \in Anc[tip]
  /\ tip' = IF m = None THEN tip ELSE m
  /\ candidates' = Cands(t)
  /\ Leaves(t)
  /\ UNCHANGED <<failedValid, failedBlocks>>
  /\ scripts' = scripts /\ assertFailed' = FALSE

\* Blocks are connected up to b.
Advances(t, m, b) ==
  /\ m \in Blocks \ Anc[tip] /\ b = StopAt(t, m) /\ ConnectOk(t, b, m)
  /\ tip' = b
  /\ scripts' = scripts \cup ((Anc[b] \ Anc[tip]) \ (failedValid \cup failedChild'))
  /\ candidates' = Prune(Cands(t), seqId, b)
  /\ assertFailed' = (candidates' = {})
  /\ UNCHANGED <<failedValid, failedBlocks>>
  /\ \/ b = m /\ Leaves(t)
     \/ b # m /\ mostWork' = [mostWork EXCEPT ![t] = m] /\ UNCHANGED <<pc, blk>>

\* Block b turns out to be invalid.
Fails(t, m, b) ==
  /\ m \in Blocks \ Anc[tip] /\ b = StopAt(t, m) /\ ~ConnectOk(t, b, m)
  /\ tip' = Parent[b]
  /\ scripts' = scripts \cup
                  ((Anc[Parent[b]] \ Anc[tip]) \ (failedValid \cup failedChild'))
  /\ \E pruned : /\ candidates' = pruned \ {b}
                 /\ \/ Parent[b] \in Anc[tip] /\ pruned = Cands(t) /\ assertFailed' = FALSE
                    \/ /\ Parent[b] \notin Anc[tip]
                       /\ pruned = Prune(Cands(t), seqId, Parent[b])
                       /\ assertFailed' = (pruned = {})
  /\ failedValid' = failedValid \cup {b} /\ failedBlocks' = failedBlocks \cup {b}
  /\ mostWork' = [mostWork EXCEPT ![t] = None]
  /\ UNCHANGED <<pc, blk>>

\* The block at which ActivateBestChainStep stops is on the way to m, and the
\* blocks before it connect and have no more work than the old tip.
LEMMA StopFacts ==
  ASSUME TypeOK, NEW t \in Threads, NEW m \in Blocks \ Anc[tip]
  PROVE  LET b == StopAt(t, m) IN
         /\ b \in Anc[m] \ Anc[tip] /\ b \in Blocks \ {Genesis}
         /\ Parent[b] \in Anc[m]
         /\ ~ConnectOk(t, b, m) \/ Work[b] > Work[tip] \/ b = m
         /\ \A d \in Anc[Parent[b]] \ Anc[tip] :
               ConnectOk(t, d, m) /\ Work[d] <= Work[tip]
<1> DEFINE stops == {b \in Anc[m] \ Anc[tip] :
                       ~ConnectOk(t, b, m) \/ Work[b] > Work[tip] \/ b = m}
           b == StopAt(t, m)
<1>0. tip \in Blocks /\ m \in Anc[m] /\ Genesis \in Anc[tip] /\ Anc[m] \subseteq Blocks
  BY Tree DEF TypeOK
<1>1. stops \in SUBSET Blocks /\ stops # {}
  BY <1>0
<1>2. \E x \in stops : \A d \in stops : Height[x] <= Height[d]
  <2> HIDE DEF stops
  <2> QED BY <1>1, LowestBlock
<1>3. b = CHOOSE x \in stops : \A d \in stops : Height[x] <= Height[d]
  BY DEF StopAt
<1>4. b \in stops /\ \A d \in stops : Height[b] <= Height[d]
  <2> HIDE DEF stops, b
  <2> QED BY <1>2, <1>3
<1> HIDE DEF b
<1>5. b \in Anc[m] \ Anc[tip] /\ b \in Blocks \ {Genesis}
  BY <1>0, <1>4
<1>6. /\ Parent[b] \in Blocks /\ Parent[b] \in Anc[Parent[b]]
      /\ Anc[b] = {b} \cup Anc[Parent[b]] /\ b \notin Anc[Parent[b]]
      /\ Anc[b] \subseteq Anc[m]
  BY <1>5, Tree
<1>7. ASSUME NEW d \in Anc[Parent[b]] \ Anc[tip]
      PROVE  ConnectOk(t, d, m) /\ Work[d] <= Work[tip]
  <2>1. d \in Anc[b] /\ d # b /\ d \in Anc[m] \ Anc[tip] /\ d \in Blocks
    BY <1>6, <1>0
  <2>2. Height[d] < Height[b] /\ Height[d] \in Nat /\ Height[b] \in Nat
    BY <1>5, <2>1, Upwards, Tree
  <2>3. d \notin stops
    BY <1>4, <2>2
  <2>4. Work[d] \in Nat /\ Work[tip] \in Nat
    BY <1>0, <2>1, Tree
  <2> QED BY <2>1, <2>3, <2>4
<1> QED BY <1>4, <1>5, <1>6, <1>7 DEF b

\* FindMostWorkChain answers the best usable candidate.
LEMMA FindFacts ==
  ASSUME TypeOK
  PROVE  /\ Usable = {} => FindMostWorkChain = None
         /\ Usable # {} => /\ FindMostWorkChain \in Usable
                           /\ \A c \in Usable : ~Better(c, FindMostWorkChain)
<1>1. CASE Usable = {} BY <1>1 DEF FindMostWorkChain
<1>2. CASE Usable # {}
  <2>1. seqId \in [Blocks -> Int] /\ Usable \in SUBSET Blocks
    BY DEF TypeOK, Usable
  <2>2. \E a \in Usable : \A c \in Usable : ~Better(c, a)
    BY <1>2, <2>1, BestBlock DEF Better
  <2>3. FindMostWorkChain = CHOOSE a \in Usable : \A c \in Usable : ~Better(c, a)
    BY <1>2 DEF FindMostWorkChain, Best
  <2> QED BY <1>2, <2>2, <2>3
<1> QED BY <1>1, <1>2

\* An iteration does one of the three things, and what it leaves alone.
LEMMA Iteration ==
  ASSUME TypeOK, ~assertFailed, NEW t \in Threads, ActivateBestChain(t)
  PROVE  /\ Target(t) \in Blocks \cup {None}
         /\ \/ Rests(t, Target(t))
            \/ \E b \in Blocks : Advances(t, Target(t), b) \/ Fails(t, Target(t), b)
         /\ failedChild' = failedChild \cup Marks(t)
         /\ Cands(t) \subseteq candidates /\ pc[t] = "abc"
         /\ UNCHANGED <<index, haveData, linked, unlinked, dropped, sequence>>
<1> DEFINE m == Target(t)
<1>1. m \in Blocks \cup {None}
  BY FindFacts DEF TypeOK, Target, Usable
<1>2. /\ failedChild' = failedChild \cup Marks(t)
      /\ Cands(t) \subseteq candidates /\ pc[t] = "abc"
      /\ UNCHANGED <<index, haveData, linked, unlinked, dropped, sequence>>
  BY DEF ActivateBestChain, Marks, Cands, CandidatesFound
<1>3. tip \in Blocks /\ tip \in Anc[tip] /\ None \notin Blocks
  BY Tree DEF TypeOK
<1>4. CASE m \in {None, tip}
  <2>1. /\ candidates' = Cands(t) /\ Leaves(t)
        /\ UNCHANGED <<tip, scripts, failedValid, failedBlocks, assertFailed>>
    BY <1>4 DEF ActivateBestChain, Target, Cands, Leaves, ActivateBestChainStep
  <2>2. Rests(t, m)
    BY <1>3, <1>4, <2>1 DEF Rests, TypeOK
  <2> QED BY <1>1, <1>2, <2>2
<1>5. CASE m \notin {None, tip}
  <2>1. m \in Blocks
    BY <1>1, <1>5
  <2>2. ActivateBestChainStep(t, m, Cands(t))
    BY <1>5 DEF ActivateBestChain, Target, Cands
  <2>3. CASE m \in Anc[tip]
    <3>1. Anc[m] \ Anc[tip] = {}
      BY <2>3, <1>3, Tree
    <3>2. Rests(t, m)
      BY <2>1, <2>2, <2>3, <3>1, <1>3 DEF ActivateBestChainStep, Rests, Leaves
    <3> QED BY <1>1, <1>2, <3>2
  <2>4. CASE m \notin Anc[tip]
    <3> DEFINE b == StopAt(t, m)
    <3>1. /\ b \in Anc[m] \ Anc[tip] /\ b \in Blocks \ {Genesis} /\ b \in Anc[b]
          /\ Parent[b] \in Blocks /\ Parent[b] \in Anc[Parent[b]]
      BY <2>1, <2>4, StopFacts, Tree
    <3>2. CASE ConnectOk(t, b, m)
      <4>1. Anc[b] \ Anc[tip] # {}
        BY <3>1
      <4>2. [pc EXCEPT ![t] = "abc"] = pc /\ [blk EXCEPT ![t] = blk[t]] = blk
        BY <1>2 DEF TypeOK
      <4>3. /\ tip' = b
            /\ scripts' = scripts \cup
                            ((Anc[b] \ Anc[tip]) \ (failedValid \cup failedChild'))
            /\ candidates' = Prune(Cands(t), seqId, b)
            /\ assertFailed' = (candidates' = {})
            /\ UNCHANGED <<failedValid, failedBlocks>>
        BY <2>2, <2>4, <3>2, <4>1 DEF ActivateBestChainStep
      <4>4. b = m => Leaves(t)
        BY <2>2, <2>4, <3>2 DEF ActivateBestChainStep, Leaves
      <4>5. b # m => mostWork' = [mostWork EXCEPT ![t] = m] /\ UNCHANGED <<pc, blk>>
        BY <2>2, <2>4, <3>2, <4>2 DEF ActivateBestChainStep
      <4>6. Advances(t, m, b)
        BY <2>1, <2>4, <3>2, <4>3, <4>4, <4>5 DEF Advances
      <4> QED BY <1>1, <1>2, <3>1, <4>6
    <3>3. CASE ~ConnectOk(t, b, m)
      <4>1. (Anc[Parent[b]] \ Anc[tip] = {}) <=> Parent[b] \in Anc[tip]
        BY <3>1, <1>3, Tree
      <4>2. Fails(t, m, b)
        BY <2>1, <2>2, <2>4, <3>3, <4>1
        DEF ActivateBestChainStep, InvalidBlockFound, Fails
      <4> QED BY <1>1, <1>2, <3>1, <4>2
    <3> QED BY <3>2, <3>3
  <2> QED BY <2>3, <2>4
<1> QED BY <1>4, <1>5

-----------------------------------------------------------------------------
(* What holds for any number of threads and any operator.                  *)

\* The index is closed under pprev, and the data of a block comes after its
\* entry.
StoreOK ==
  /\ Genesis \in haveData \ dropped
  /\ dropped \subseteq haveData /\ haveData \subseteq index
  /\ \A b \in index : Anc[b] \subseteq index
  /\ WaitingBlocksAreFound

\* Candidates, tip and pindexMostWork have complete chains.
PointersOK ==
  /\ candidates \subseteq linked /\ tip \in linked /\ Failed \subseteq index
  /\ \A t \in Threads : /\ mostWork[t] \in linked \cup {None}
                        /\ pc[t] = "checked" => blk[t] \in Blocks \ {Genesis}

BaseInv == TypeOK /\ StoreOK /\ PointersOK

\* A linked block has its data, an entry and a linked chain.
LEMMA LinkedClosed ==
  ASSUME TypeOK, StoreOK
  PROVE  /\ linked \subseteq index /\ linked \subseteq haveData \ dropped
         /\ Genesis \in linked
         /\ \A b \in linked : Anc[b] \subseteq linked
         /\ unlinked \cap linked = {} /\ unlinked \subseteq haveData \ dropped
<1> USE DEF TypeOK, StoreOK, WaitingBlocksAreFound
<1>1. linked \subseteq haveData \ dropped
  BY Tree
<1>2. Genesis \in linked
  BY Tree
<1>3. ASSUME NEW b \in linked, NEW a \in Anc[b]
      PROVE  a \in linked
  <2>1. Anc[a] \subseteq Anc[b] /\ Anc[b] \subseteq haveData \ dropped /\ a \in index
    BY Tree
  <2> QED BY <2>1
<1> QED BY <1>1, <1>2, <1>3

\* The initial state.
LEMMA InitBase == Init => BaseInv
<1> SUFFICES ASSUME Init PROVE BaseInv OBVIOUS
<1>1. TypeOK
  <2>1. Genesis \in Blocks BY TreeAssumption
  <2>2. /\ seqId \in [Blocks -> Int] /\ nextSeq \in Int /\ reverseSeq \in Int
        /\ preciousWork \in Nat
    BY DEF Init
  <2>3. /\ pc \in [Threads -> {"idle", "checked", "abc"}]
        /\ blk \in [Threads -> Blocks \cup {None}]
        /\ mostWork \in [Threads -> Blocks \cup {None}]
    BY DEF Init
  <2> QED BY <2>1, <2>2, <2>3 DEF Init, TypeOK
<1>2. StoreOK
  BY Tree DEF Init, StoreOK, WaitingBlocksAreFound
<1>3. PointersOK
  BY DEF Init, PointersOK, Failed
<1> QED BY <1>1, <1>2, <1>3 DEF BaseInv

\* A new entry without data disturbs nothing.
LEMMA EntryStore ==
  ASSUME TypeOK, StoreOK, NEW b \in Blocks, HeaderOk(b), AddToBlockIndex(b),
         b = Genesis => b \in index,
         UNCHANGED <<haveData, linked, unlinked, dropped>>
  PROVE  StoreOK' /\ index' \in SUBSET Blocks
<1> USE DEF TypeOK, StoreOK, WaitingBlocksAreFound, AddToBlockIndex
<1>1. CASE b \in index
  <2>1. index' = index BY <1>1
  <2> QED BY <2>1
<1>2. CASE b \notin index
  <2>1. Parent[b] \in index /\ Anc[b] = {b} \cup Anc[Parent[b]]
    BY <1>2, Tree DEF HeaderOk
  <2>2. b \notin haveData /\ b \in Anc[b]
    BY <1>2, Tree
  <2> QED BY <2>1, <2>2
<1> QED BY <1>1, <1>2

\* ReceivedBlockTransactions keeps mapBlocksUnlinked exact.
LEMMA ReceiveStore ==
  ASSUME TypeOK, StoreOK, NEW b \in Blocks \ {Genesis}, b \notin haveData,
         HeaderOk(b), AddToBlockIndex(b), ReceivedBlockTransactions(b)
  PROVE  StoreOK' /\ index' \in SUBSET Blocks /\ linked \subseteq linked'
<1> DEFINE p == Parent[b]
           N == NewlyLinked(b)
<1>1. /\ p \in Blocks /\ Anc[b] = {b} \cup Anc[p] /\ b \notin Anc[p] /\ b \in Anc[b]
      /\ p \in Anc[p]
  BY Tree
<1>2. /\ index' = index \cup {b} /\ haveData' = haveData \cup {b} /\ b \notin dropped
      /\ b \notin linked /\ b \notin unlinked
  BY LinkedClosed DEF AddToBlockIndex, ReceivedBlockTransactions, StoreOK
<1>3. p \in index
  BY <1>1, Tree DEF HeaderOk, StoreOK
<1>4. \A d \in index' : Anc[d] \subseteq index'
  BY <1>1, <1>2, <1>3 DEF StoreOK
<1>5. CASE p \in linked
  <2>1. linked' = linked \cup N /\ unlinked' = unlinked \ N /\ dropped' = dropped
    BY <1>5 DEF ReceivedBlockTransactions
  <2>2. /\ b \in N
        /\ \A d \in N : d = b \/ (/\ d \in unlinked /\ b \in Anc[d]
                                   /\ Anc[d] \ Anc[b] \subseteq unlinked)
        /\ \A d \in unlinked : b \in Anc[d] /\ Anc[d] \ Anc[b] \subseteq unlinked
                                => d \in N
    BY DEF NewlyLinked
  <2> HIDE DEF N
  <2>3. ASSUME NEW d \in N
        PROVE  d \in index' /\ Anc[d] \subseteq haveData' \ dropped'
    <3>1. Anc[b] \subseteq haveData' \ dropped'
      BY <1>1, <1>2, <1>5, <2>1, LinkedClosed
    <3>2. CASE d = b BY <1>2, <3>1, <3>2
    <3>3. CASE d # b
      BY <1>2, <2>1, <2>2, <3>1, <3>3, LinkedClosed DEF StoreOK
    <3> QED BY <3>2, <3>3
  <2>4. ASSUME NEW d \in index', Anc[d] \subseteq haveData' \ dropped', d \notin linked
        PROVE  d \in N
    <3>0. d \in Blocks /\ d \in Anc[d]
      BY <1>2, Tree DEF TypeOK
    <3>1. CASE d = b BY <2>2, <3>1
    <3>2. CASE d # b
      <4>1. d \in index BY <1>2, <3>2
      <4>2. b \in Anc[d]
        BY <1>2, <2>1, <2>4, <4>1 DEF StoreOK, WaitingBlocksAreFound
      <4>3. ASSUME NEW e \in Anc[d] \ Anc[b]
            PROVE  e \in unlinked
        <5>1. e \in Blocks /\ b \in Anc[e]
          BY <3>0, <4>2, Linear, Tree
        <5>2. e \notin linked
          BY <5>1, <1>2, LinkedClosed
        <5>3. e # b BY <1>1
        <5>4. e \in haveData \ dropped
          BY <1>2, <2>1, <2>4, <5>3
        <5> QED BY <5>2, <5>4 DEF StoreOK, WaitingBlocksAreFound
      <4>4. d \notin Anc[b]
        BY <3>0, <3>2, <4>2, Upwards
      <4> QED BY <2>2, <3>0, <4>2, <4>3, <4>4
    <3> QED BY <3>1, <3>2
  <2>5. linked' = {d \in index' : Anc[d] \subseteq haveData' \ dropped'}
    <3>1. linked \subseteq {d \in index' : Anc[d] \subseteq haveData' \ dropped'}
      BY <1>2, <2>1 DEF StoreOK, WaitingBlocksAreFound
    <3> QED BY <2>1, <2>3, <2>4, <3>1
  <2>6. unlinked' = haveData' \ (linked' \cup dropped')
    BY <1>2, <2>1, <2>2 DEF StoreOK, WaitingBlocksAreFound
  <2> QED BY <1>2, <1>4, <2>1, <2>5, <2>6 DEF StoreOK, WaitingBlocksAreFound, TypeOK
<1>6. CASE p \notin linked
  <2>1. PICK x \in Anc[p] : x \notin haveData \ dropped
    BY <1>3, <1>6 DEF StoreOK, WaitingBlocksAreFound
  <2>2. linked' = linked /\ x # b
    BY <1>1, <1>6, <2>1 DEF ReceivedBlockTransactions
  <2>3. \/ dropped' = dropped \cup {b} /\ unlinked' = unlinked
        \/ dropped' = dropped /\ unlinked' = unlinked \cup {b}
    BY <1>6 DEF ReceivedBlockTransactions
  <2>4. dropped \subseteq dropped'
    BY <2>3
  <2>5. \A d \in index' : b \in Anc[d] => ~(Anc[d] \subseteq haveData' \ dropped')
    <3> SUFFICES ASSUME NEW d \in index', b \in Anc[d]
                 PROVE  x \in Anc[d] /\ x \notin haveData' \ dropped'
      OBVIOUS
    <3>1. d \in Blocks /\ Anc[b] \subseteq Anc[d]
      BY <1>2, Tree DEF TypeOK
    <3> QED BY <1>1, <1>2, <2>1, <2>2, <2>4, <3>1
  <2>6. \A d \in index' : b \notin Anc[d] =>
          /\ d \in index
          /\ Anc[d] \subseteq haveData' \ dropped' <=> Anc[d] \subseteq haveData \ dropped
    BY <1>1, <1>2, <2>3
  <2>7. \A d \in linked : b \notin Anc[d]
    BY <1>2, LinkedClosed
  <2>8. linked' = {d \in index' : Anc[d] \subseteq haveData' \ dropped'}
    BY <1>2, <2>2, <2>5, <2>6, <2>7 DEF StoreOK, WaitingBlocksAreFound
  <2>9. unlinked' = haveData' \ (linked' \cup dropped')
    BY <1>2, <2>2, <2>3 DEF StoreOK, WaitingBlocksAreFound
  <2> QED BY <1>2, <1>4, <2>2, <2>3, <2>8, <2>9 DEF StoreOK, WaitingBlocksAreFound, TypeOK
<1> QED BY <1>5, <1>6

\* The sequence numbers that ReceivedBlockTransactions gives out.
LEMMA ReceiveNumbers ==
  ASSUME TypeOK, NEW b \in Blocks \ {Genesis}, ReceivedBlockTransactions(b)
  PROVE  /\ seqId' \in [Blocks -> Int] /\ nextSeq' \in Int /\ nextSeq' >= nextSeq
         /\ Parent[b] \notin linked => seqId' = seqId
         /\ Parent[b] \in linked =>
              \A d \in Blocks : IF d \in NewlyLinked(b) THEN seqId'[d] >= nextSeq
                                                       ELSE seqId'[d] = seqId[d]
<1> DEFINE N == NewlyLinked(b)
<1>1. N \in SUBSET Blocks /\ IsFiniteSet(Blocks)
  BY TreeAssumption DEF NewlyLinked, TypeOK
<1>2. IsFiniteSet(N)
  <2> HIDE DEF N
  <2> QED BY <1>1, FS_Subset
<1>3. Cardinality(N) \in Nat
  BY <1>2, FS_CardinalityType
<1>4. CASE Parent[b] \in linked
  <2>1. nextSeq' = nextSeq + Cardinality(N)
    BY <1>4 DEF ReceivedBlockTransactions
  <2>2. PICK rank \in LinkOrders(N) :
          seqId' = [d \in Blocks |-> IF d \in N THEN nextSeq - 1 + rank[d] ELSE seqId[d]]
    BY <1>4 DEF ReceivedBlockTransactions
  <2>3. rank \in [N -> 1 .. Cardinality(N)]
    BY <2>2 DEF LinkOrders
  <2>4. \A d \in N : rank[d] \in Int /\ rank[d] >= 1
    <3> HIDE DEF N
    <3> QED BY <1>3, <2>3
  <2> HIDE DEF N
  <2>5. nextSeq \in Int /\ seqId \in [Blocks -> Int]
    BY DEF TypeOK
  <2>6. \A d \in Blocks : IF d \in N THEN seqId'[d] >= nextSeq /\ seqId'[d] \in Int
                                     ELSE seqId'[d] = seqId[d]
    BY <2>2, <2>4, <2>5
  <2>7. seqId' \in [Blocks -> Int]
    BY <2>2, <2>4, <2>5
  <2> QED BY <1>3, <1>4, <2>1, <2>5, <2>6, <2>7 DEF N
<1>5. CASE Parent[b] \notin linked
  <2>1. seqId' = seqId /\ nextSeq' = nextSeq
    BY <1>5 DEF ReceivedBlockTransactions
  <2> QED BY <1>5, <2>1 DEF TypeOK
<1> QED BY <1>4, <1>5

\* AcceptBlockHeader refuses a header.
LEMMA RejectBase ==
  ASSUME BaseInv, NEW b \in Blocks \ {Genesis}, RejectHeader(b)
  PROVE  /\ StoreOK' /\ Failed' \subseteq index
         /\ failedChild' \in SUBSET Blocks /\ assertFailed' \in BOOLEAN
<1> USE DEF BaseInv, TypeOK, StoreOK, PointersOK, Failed, WaitingBlocksAreFound
<1>1. StoreOK'
  BY DEF RejectHeader, stored
<1>2. CASE FailedBelow(b) = {}
  BY <1>1, <1>2 DEF RejectHeader
<1>3. CASE FailedBelow(b) # {}
  <2>1. Parent[b] \in index /\ Anc[Parent[b]] \subseteq index
    BY <1>3 DEF FailedBelow
  <2>2. PICK f \in FailedBelow(b) :
          /\ assertFailed' = (f \notin failedValid)
          /\ failedChild' = IF f \in failedValid
                            THEN failedChild \cup (Anc[Parent[b]] \ Anc[f]) ELSE failedChild
    BY <1>3 DEF RejectHeader
  <2>3. failedValid' = failedValid
    BY DEF RejectHeader
  <2> QED BY <1>1, <2>1, <2>2, <2>3
<1> QED BY <1>2, <1>3

\* Headers.
LEMMA HeaderBase ==
  ASSUME BaseInv, ~assertFailed, NEW b \in Blocks \ {Genesis}, AcceptBlockHeader(b)
  PROVE  BaseInv'
<1>1. CASE HeaderOk(b)
  <2>1. AddToBlockIndex(b) /\ UNCHANGED <<haveData, linked, scripts, unlinked, dropped,
                                flags, sequence, candidates, tip, assertFailed, threads>>
    BY <1>1 DEF AcceptBlockHeader, RejectHeader
  <2>2. StoreOK' /\ index' \in SUBSET Blocks
    BY <1>1, <2>1, EntryStore DEF BaseInv
  <2>3. TypeOK'
    BY <2>1, <2>2 DEF BaseInv, TypeOK, flags, sequence, threads
  <2>4. PointersOK'
    BY <2>1 DEF BaseInv, PointersOK, flags, threads, Failed, AddToBlockIndex
  <2> QED BY <2>2, <2>3, <2>4 DEF BaseInv
<1>2. CASE ~HeaderOk(b)
  <2>1. RejectHeader(b) /\ UNCHANGED threads
    BY <1>2 DEF AcceptBlockHeader
  <2>2. StoreOK' /\ Failed' \subseteq index /\ failedChild' \in SUBSET Blocks
        /\ assertFailed' \in BOOLEAN
    BY <2>1, RejectBase
  <2>3. UNCHANGED <<stored, sequence, failedValid, failedBlocks, candidates, tip, threads>>
    BY <2>1 DEF RejectHeader
  <2>4. TypeOK'
    BY <2>2, <2>3 DEF BaseInv, TypeOK, stored, sequence, threads
  <2>5. PointersOK'
    BY <2>2, <2>3 DEF BaseInv, PointersOK, stored, threads
  <2> QED BY <2>2, <2>4, <2>5 DEF BaseInv
<1> QED BY <1>1, <1>2

\* CheckBlock before the lock is taken.
LEMMA CheckBase ==
  ASSUME BaseInv, NEW t \in Threads, NEW b \in Blocks \ {Genesis}, CheckNewBlock(t, b)
  PROVE  BaseInv'
<1>1. UNCHANGED <<stored, flags, sequence, candidates, tip, mostWork, assertFailed>>
  BY DEF CheckNewBlock
<1>2. StoreOK'
  BY <1>1 DEF BaseInv, StoreOK, stored, WaitingBlocksAreFound
<1>3. /\ pc' = [pc EXCEPT ![t] = "checked"] /\ blk' = [blk EXCEPT ![t] = b]
      /\ pc' \in [Threads -> {"idle", "checked", "abc"}]
      /\ blk' \in [Threads -> Blocks \cup {None}]
  BY DEF CheckNewBlock, BaseInv, TypeOK
<1>4. TypeOK'
  BY <1>1, <1>3 DEF BaseInv, TypeOK, stored, flags, sequence
<1>5. PointersOK'
  BY <1>1, <1>3 DEF BaseInv, TypeOK, PointersOK, stored, flags, Failed
<1> QED BY <1>2, <1>4, <1>5 DEF BaseInv

\* The end of ProcessNewBlock, either way, and the RPCs' way to ActivateBestChain.
LEMMA ThreadMoves ==
  ASSUME TypeOK, NEW t \in Threads, GiveUp(t) \/ Activate(t)
  PROVE  /\ pc' \in [Threads -> {"idle", "checked", "abc"}]
         /\ blk' \in [Threads -> Blocks \cup {None}]
         /\ mostWork' = mostWork /\ mostWork' \in [Threads -> Blocks \cup {None}]
         /\ \A u \in Threads : pc'[u] = "checked" =>
              u # t /\ pc[u] = "checked" /\ blk'[u] = blk[u]
BY DEF TypeOK, GiveUp, Activate

\* AcceptBlock.
LEMMA AcceptBase ==
  ASSUME BaseInv, ~assertFailed, NEW t \in Threads, NEW requested \in BOOLEAN,
         AcceptBlock(t, requested)
  PROVE  BaseInv'
<1> DEFINE b == blk[t]
<1>1. b \in Blocks \ {Genesis} /\ (GiveUp(t) \/ Activate(t))
  BY DEF AcceptBlock, BaseInv, PointersOK
<1>2. /\ pc' \in [Threads -> {"idle", "checked", "abc"}]
      /\ blk' \in [Threads -> Blocks \cup {None}]
      /\ mostWork' = mostWork /\ mostWork' \in [Threads -> Blocks \cup {None}]
      /\ \A u \in Threads : pc'[u] = "checked" =>
           u # t /\ pc[u] = "checked" /\ blk'[u] = blk[u]
  BY <1>1, ThreadMoves DEF BaseInv
<1>3. ASSUME linked \subseteq linked', candidates' \subseteq linked', tip' = tip,
             Failed' \subseteq index'
      PROVE  PointersOK'
  BY <1>2, <1>3 DEF BaseInv, PointersOK
<1>4. CASE RejectHeader(b)
  <2>1. StoreOK' /\ Failed' \subseteq index /\ failedChild' \in SUBSET Blocks
        /\ assertFailed' \in BOOLEAN
    BY <1>1, <1>4, RejectBase
  <2>2. UNCHANGED <<stored, sequence, failedValid, failedBlocks, candidates, tip>>
    BY <1>4 DEF RejectHeader
  <2>3. TypeOK'
    BY <1>2, <2>1, <2>2 DEF BaseInv, TypeOK, stored, sequence
  <2>4. PointersOK'
    BY <1>3, <2>1, <2>2 DEF BaseInv, PointersOK, stored
  <2> QED BY <2>1, <2>3, <2>4 DEF BaseInv
<1>5. CASE HeaderOk(b)
  <2>1. AddToBlockIndex(b) /\ index' = index \cup {b}
    BY <1>5 DEF AcceptBlock, RejectHeader, AddToBlockIndex
  <2>2. CASE ~(~Skipped(b, requested) /\ b \notin BadContext)
    <3>1. /\ UNCHANGED <<haveData, linked, scripts, unlinked, dropped, failedChild,
                         failedBlocks, sequence, candidates, tip, assertFailed>>
          /\ failedValid' \subseteq failedValid \cup {b}
      BY <1>5, <2>2 DEF AcceptBlock, RejectHeader, flags
    <3>2. StoreOK' /\ index' \in SUBSET Blocks
      BY <1>1, <1>5, <2>1, <3>1, EntryStore DEF BaseInv
    <3>3. TypeOK'
      BY <1>1, <1>2, <3>1, <3>2 DEF BaseInv, TypeOK, sequence
    <3>4. PointersOK'
      BY <1>3, <2>1, <3>1 DEF BaseInv, PointersOK, Failed
    <3> QED BY <3>2, <3>3, <3>4 DEF BaseInv
  <2>3. CASE ~Skipped(b, requested) /\ b \notin BadContext
    <3>1. ReceivedBlockTransactions(b) /\ b \notin haveData
      BY <1>5, <2>3 DEF AcceptBlock, RejectHeader, Skipped
    <3>2. StoreOK' /\ index' \in SUBSET Blocks /\ linked \subseteq linked'
      BY <1>1, <1>5, <2>1, <3>1, ReceiveStore DEF BaseInv
    <3>3. seqId' \in [Blocks -> Int] /\ nextSeq' \in Int
      BY <1>1, <3>1, ReceiveNumbers DEF BaseInv
    <3>4. UNCHANGED <<scripts, reverseSeq, preciousWork, flags, tip, assertFailed>>
      BY <3>1 DEF ReceivedBlockTransactions
    <3>5. candidates' \subseteq linked'
      BY <3>1, <3>2 DEF ReceivedBlockTransactions, BaseInv, PointersOK
    <3>6. haveData' \in SUBSET Blocks /\ dropped' \in SUBSET Blocks
          /\ linked' \in SUBSET Blocks /\ unlinked' \in SUBSET Blocks
      BY <3>2 DEF StoreOK, WaitingBlocksAreFound
    <3>7. candidates' \in SUBSET Blocks
      BY <3>5, <3>6
    <3>8. TypeOK'
      BY <1>2, <3>2, <3>3, <3>4, <3>6, <3>7 DEF BaseInv, TypeOK, flags
    <3>9. PointersOK'
      BY <1>3, <2>1, <3>2, <3>4, <3>5 DEF BaseInv, PointersOK, Failed, flags
    <3> QED BY <3>2, <3>8, <3>9 DEF BaseInv
  <2> QED BY <2>2, <2>3
<1> QED BY <1>4, <1>5 DEF AcceptBlock

\* The blocks FindMostWorkChain marks lie on chains of candidates.
LEMMA MarksInIndex ==
  ASSUME BaseInv, NEW t \in Threads
  PROVE  Marks(t) \subseteq linked
<1>1. \A c \in candidates : Anc[c] \subseteq linked
  BY LinkedClosed DEF BaseInv, PointersOK
<1>2. Poisoned \subseteq linked
  BY <1>1 DEF Poisoned, AboveFailed, Dropped
<1> QED BY <1>2 DEF Marks

\* One iteration of ActivateBestChain.
LEMMA IterationBase ==
  ASSUME BaseInv, ~assertFailed, NEW t \in Threads, ActivateBestChain(t)
  PROVE  BaseInv'
<1> DEFINE m == Target(t)
<1>1. /\ m \in Blocks \cup {None}
      /\ Rests(t, m) \/ \E b \in Blocks : Advances(t, m, b) \/ Fails(t, m, b)
      /\ failedChild' = failedChild \cup Marks(t)
      /\ Cands(t) \subseteq candidates /\ pc[t] = "abc"
      /\ UNCHANGED <<index, haveData, linked, unlinked, dropped, sequence>>
  BY Iteration DEF BaseInv
<1>2. /\ failedChild' \in SUBSET Blocks /\ failedChild' \subseteq index
      /\ linked \subseteq index /\ index \subseteq Blocks
  BY <1>1, MarksInIndex, LinkedClosed DEF BaseInv, TypeOK, PointersOK, Failed
<1>3. m \in linked \cup {None}
  BY FindFacts DEF Target, BaseInv, PointersOK, Usable
<1>4. StoreOK'
  BY <1>1 DEF BaseInv, StoreOK, WaitingBlocksAreFound
<1>5. m # None => Anc[m] \subseteq linked
  BY <1>3, LinkedClosed DEF BaseInv
<1>6. ASSUME NEW x \in Blocks \cup {None}, x \in linked \cup {None},
             mostWork' = [mostWork EXCEPT ![t] = x],
             Leaves(t) \/ UNCHANGED <<pc, blk>>,
             tip' \in linked, candidates' \subseteq candidates,
             scripts' \in SUBSET Blocks,
             failedValid' \subseteq failedValid \cup linked,
             failedBlocks' \subseteq failedBlocks \cup linked,
             assertFailed' \in BOOLEAN
      PROVE  BaseInv'
  <2>1. /\ pc' \in [Threads -> {"idle", "checked", "abc"}]
        /\ blk' \in [Threads -> Blocks \cup {None}]
        /\ mostWork' \in [Threads -> Blocks \cup {None}]
        /\ \A u \in Threads : pc'[u] = "checked" => pc[u] = "checked" /\ blk'[u] = blk[u]
        /\ \A u \in Threads : mostWork'[u] \in linked \cup {None}
    BY <1>6 DEF BaseInv, TypeOK, PointersOK, Leaves
  <2>2. TypeOK'
    BY <1>1, <1>2, <1>6, <2>1 DEF BaseInv, TypeOK, sequence
  <2>3. PointersOK'
    BY <1>1, <1>2, <1>6, <2>1 DEF BaseInv, PointersOK, Failed
  <2> QED BY <1>4, <2>2, <2>3 DEF BaseInv
<1>7. CASE Rests(t, m)
  <2>1. tip' \in linked
    BY <1>3, <1>7 DEF Rests, BaseInv, PointersOK
  <2>2. assertFailed' \in BOOLEAN
    BY <1>7 DEF Rests
  <2> QED BY <1>1, <1>6, <1>7, <2>1, <2>2 DEF Rests, Leaves, BaseInv, TypeOK
<1>8. ASSUME NEW b \in Blocks, Advances(t, m, b)
      PROVE  BaseInv'
  <2>1. b \in Anc[m] /\ m \in Blocks /\ m # None
    BY <1>8, StopFacts, Tree DEF Advances, BaseInv
  <2>2. tip' \in linked /\ candidates' \subseteq candidates
    BY <1>1, <1>5, <1>8, <2>1 DEF Advances, Prune
  <2>3. scripts' \in SUBSET Blocks /\ assertFailed' \in BOOLEAN
    BY <1>8, Tree DEF Advances, BaseInv, TypeOK
  <2> QED BY <1>3, <1>6, <1>8, <2>1, <2>2, <2>3 DEF Advances, Leaves, BaseInv, TypeOK
<1>9. ASSUME NEW b \in Blocks, Fails(t, m, b)
      PROVE  BaseInv'
  <2>1. b \in Anc[m] /\ Parent[b] \in Anc[m] /\ m \in Blocks /\ m # None
        /\ Parent[b] \in Blocks
    BY <1>9, StopFacts, Tree DEF Fails, BaseInv
  <2>2. tip' \in linked /\ candidates' \subseteq candidates
    BY <1>1, <1>5, <1>9, <2>1 DEF Fails, Prune
  <2>3. scripts' \in SUBSET Blocks /\ assertFailed' \in BOOLEAN
    BY <1>9, <2>1, Tree DEF Fails, BaseInv, TypeOK
  <2>4. b \in linked
    BY <1>5, <2>1
  <2> QED BY <1>6, <1>9, <2>2, <2>3, <2>4 DEF Fails
<1> QED BY <1>1, <1>7, <1>8, <1>9

\* preciousblock.
LEMMA PreciousBase ==
  ASSUME BaseInv, NEW t \in Threads, NEW b \in Blocks, PreciousBlock(t, b)
  PROVE  BaseInv'
<1> DEFINE from == IF Work[tip] > preciousWork THEN -1 ELSE reverseSeq
<1>1. Activate(t) /\ UNCHANGED <<stored, flags, nextSeq, tip>>
  BY DEF PreciousBlock
<1>2. /\ pc' \in [Threads -> {"idle", "checked", "abc"}]
      /\ blk' \in [Threads -> Blocks \cup {None}]
      /\ mostWork' = mostWork /\ mostWork' \in [Threads -> Blocks \cup {None}]
      /\ \A u \in Threads : pc'[u] = "checked" =>
           u # t /\ pc[u] = "checked" /\ blk'[u] = blk[u]
  BY <1>1, ThreadMoves DEF BaseInv
<1>3. StoreOK'
  BY <1>1 DEF BaseInv, StoreOK, stored, WaitingBlocksAreFound
<1>4. candidates' \subseteq linked
  BY DEF PreciousBlock, Prune, BaseInv, PointersOK
<1>5. from \in Int
  BY DEF BaseInv, TypeOK
<1>6. /\ seqId' = [seqId EXCEPT ![b] = from]
      /\ reverseSeq' = (IF from > MinSequenceId THEN from - 1 ELSE from)
      /\ preciousWork' = Work[tip] /\ assertFailed' \in BOOLEAN
  BY DEF PreciousBlock
<1> HIDE DEF from
<1>7. /\ seqId' \in [Blocks -> Int] /\ reverseSeq' \in Int /\ preciousWork' \in Nat
      /\ nextSeq' \in Int
  <2>1. MinSequenceId \in Int /\ Work \in [Blocks -> Nat] /\ tip \in Blocks
    BY Tree, RuleAssumption DEF BaseInv, TypeOK
  <2>2. reverseSeq' \in Int
    BY <1>5, <1>6, <2>1
  <2>3. seqId' \in [Blocks -> Int]
    BY <1>5, <1>6 DEF BaseInv, TypeOK
  <2> QED BY <1>1, <1>6, <2>1, <2>2, <2>3 DEF BaseInv, TypeOK
<1>8. TypeOK'
  BY <1>1, <1>2, <1>4, <1>6, <1>7 DEF BaseInv, TypeOK, stored, flags
<1>9. PointersOK'
  BY <1>1, <1>2, <1>4 DEF BaseInv, PointersOK, stored, flags, Failed
<1> QED BY <1>3, <1>8, <1>9 DEF BaseInv

\* invalidateblock.
LEMMA InvalidateBase ==
  ASSUME BaseInv, NEW t \in Threads, NEW b \in Blocks, InvalidateBlock(t, b)
  PROVE  BaseInv'
<1>1. Activate(t) /\ UNCHANGED <<stored, sequence, assertFailed>> /\ b \in index \ {Genesis}
  BY DEF InvalidateBlock
<1>2. /\ pc' \in [Threads -> {"idle", "checked", "abc"}]
      /\ blk' \in [Threads -> Blocks \cup {None}]
      /\ mostWork' = mostWork /\ mostWork' \in [Threads -> Blocks \cup {None}]
      /\ \A u \in Threads : pc'[u] = "checked" =>
           u # t /\ pc[u] = "checked" /\ blk'[u] = blk[u]
  BY <1>1, ThreadMoves DEF BaseInv
<1>3. StoreOK'
  BY <1>1 DEF BaseInv, StoreOK, stored, WaitingBlocksAreFound
<1>4. candidates' \subseteq linked
  BY DEF InvalidateBlock, BaseInv, PointersOK
<1>5. Anc[tip] \subseteq linked /\ linked \subseteq index /\ linked \subseteq Blocks
  BY LinkedClosed DEF BaseInv, PointersOK, TypeOK
<1>6. tip' \in linked
  <2>1. b \in Anc[tip] => Parent[b] \in Anc[tip]
    BY <1>1, Tree DEF BaseInv, TypeOK
  <2> QED BY <1>5, <2>1 DEF InvalidateBlock, BaseInv, PointersOK
<1>7. /\ failedChild' \subseteq failedChild \cup linked
      /\ failedValid' = failedValid \cup {b} /\ failedBlocks' = failedBlocks \cup {b}
  BY <1>5 DEF InvalidateBlock
<1>8. TypeOK'
  BY <1>1, <1>2, <1>4, <1>5, <1>6, <1>7 DEF BaseInv, TypeOK, stored, sequence
<1>9. PointersOK'
  BY <1>1, <1>2, <1>4, <1>5, <1>6, <1>7 DEF BaseInv, PointersOK, stored, Failed
<1> QED BY <1>3, <1>8, <1>9 DEF BaseInv

\* reconsiderblock.
LEMMA ReconsiderBase ==
  ASSUME BaseInv, NEW t \in Threads, NEW b \in Blocks, ReconsiderBlock(t, b)
  PROVE  BaseInv'
<1>1. Activate(t) /\ UNCHANGED <<stored, sequence, tip, assertFailed>>
  BY DEF ReconsiderBlock
<1>2. /\ pc' \in [Threads -> {"idle", "checked", "abc"}]
      /\ blk' \in [Threads -> Blocks \cup {None}]
      /\ mostWork' = mostWork /\ mostWork' \in [Threads -> Blocks \cup {None}]
      /\ \A u \in Threads : pc'[u] = "checked" =>
           u # t /\ pc[u] = "checked" /\ blk'[u] = blk[u]
  BY <1>1, ThreadMoves DEF BaseInv
<1>3. StoreOK'
  BY <1>1 DEF BaseInv, StoreOK, stored, WaitingBlocksAreFound
<1>4. /\ candidates' \subseteq linked
      /\ failedValid' \subseteq failedValid /\ failedChild' \subseteq failedChild
      /\ failedBlocks' \subseteq failedBlocks
  BY DEF ReconsiderBlock, BaseInv, PointersOK
<1>5. TypeOK'
  BY <1>1, <1>2, <1>4 DEF BaseInv, TypeOK, stored, sequence
<1>6. PointersOK'
  BY <1>1, <1>2, <1>4 DEF BaseInv, PointersOK, stored, Failed
<1> QED BY <1>3, <1>5, <1>6 DEF BaseInv

\* A restart links every complete chain.
LEMMA RestartBase ==
  ASSUME BaseInv, NEW t \in Threads, Restart(t)
  PROVE  BaseInv'
<1>1. UNCHANGED <<index, haveData, scripts, failedValid, tip>>
  BY DEF Restart
<1>2. /\ linked' = Complete /\ dropped' = {} /\ failedBlocks' = {}
      /\ unlinked' = {b \in haveData \ {Genesis} : Parent[b] \notin Complete}
      /\ failedChild' = failedChild \cup (MarkedFailed \ Failed)
      /\ candidates' = LoadedCandidates /\ assertFailed' \in BOOLEAN
  BY DEF Restart
<1>3. linked \subseteq Complete /\ Complete \subseteq haveData /\ Genesis \in Complete
      /\ haveData \subseteq Blocks
  BY LinkedClosed, Tree DEF Complete, BaseInv, StoreOK, WaitingBlocksAreFound, TypeOK
<1>4. \A b \in haveData \ {Genesis} : Parent[b] \in Complete <=> b \in Complete
  <2> SUFFICES ASSUME NEW b \in haveData \ {Genesis}
               PROVE  Parent[b] \in Complete <=> b \in Complete
    OBVIOUS
  <2>1. b \in index /\ Anc[b] = {b} \cup Anc[Parent[b]] /\ Parent[b] \in Anc[Parent[b]]
    BY <1>3, Tree DEF BaseInv, StoreOK
  <2>2. Parent[b] \in index
    BY <2>1 DEF BaseInv, StoreOK
  <2> QED BY <2>1, <2>2 DEF Complete
<1>5. StoreOK'
  <2>1. unlinked' = haveData' \ (linked' \cup dropped')
    BY <1>1, <1>2, <1>3, <1>4
  <2>2. linked' = {b \in index' : Anc[b] \subseteq haveData' \ dropped'}
    BY <1>1, <1>2 DEF Complete
  <2> QED BY <1>1, <1>2, <2>1, <2>2 DEF BaseInv, StoreOK, WaitingBlocksAreFound
<1>6. LoadedCandidates \subseteq Complete
  BY DEF LoadedCandidates, Prune
<1>7. /\ seqId' \in [Blocks -> Int] /\ nextSeq' \in Int /\ reverseSeq' \in Int
      /\ preciousWork' \in Nat
  BY DEF Restart, Unused
<1>8. /\ pc' \in [Threads -> {"idle", "checked", "abc"}]
      /\ blk' \in [Threads -> Blocks \cup {None}]
      /\ mostWork' \in [Threads -> Blocks \cup {None}]
      /\ \A u \in Threads : pc'[u] # "checked" /\ mostWork'[u] = None
  BY DEF Restart
<1>9. MarkedFailed \subseteq index
  BY DEF MarkedFailed
<1>10. TypeOK'
  BY <1>1, <1>2, <1>3, <1>6, <1>7, <1>8, <1>9 DEF BaseInv, TypeOK
<1>11. PointersOK'
  BY <1>1, <1>2, <1>3, <1>6, <1>8, <1>9 DEF BaseInv, PointersOK, Failed
<1> QED BY <1>5, <1>10, <1>11 DEF BaseInv

\* Every step keeps the base invariant.
LEMMA NextBase == BaseInv /\ [Next]_vars => BaseInv'
<1> SUFFICES ASSUME BaseInv, [Next]_vars PROVE BaseInv' OBVIOUS
<1>1. CASE Next
  BY <1>1, HeaderBase, CheckBase, AcceptBase, IterationBase, RestartBase, PreciousBase,
     InvalidateBase, ReconsiderBase DEF Next
<1>2. CASE UNCHANGED vars
  BY <1>2 DEF vars, flags, stored, sequence, threads, BaseInv, TypeOK, StoreOK,
              PointersOK, WaitingBlocksAreFound, Failed
<1> QED BY <1>1, <1>2

\* The base invariant holds whatever the number of threads and the operator do.
LEMMA BaseInvariance == Spec => []BaseInv
BY InitBase, NextBase, PTL DEF Spec

\* The state of CChainState keeps its types: in particular the tip, a candidate
\* and pindexMostWork are always blocks, whatever ActivateBestChainStep met.
THEOREM TypeCorrect == Spec => []TypeOK
<1>1. BaseInv => TypeOK BY DEF BaseInv
<1> QED BY <1>1, BaseInvariance, PTL

\* nChainTx and mapBlocksUnlinked are exact for every tree, any threads and any
\* operator: no received block is forgotten, except those that came while the
\* parent was marked failed, and those only up to the next restart.
THEOREM UnlinkedIsExact == Spec => []WaitingBlocksAreFound
<1>1. BaseInv => WaitingBlocksAreFound BY DEF BaseInv, StoreOK
<1> QED BY <1>1, BaseInvariance, PTL

-----------------------------------------------------------------------------
(* Failure flags, for a careful operator and any number of threads.        *)

\* g_failed_blocks holds only blocks that were themselves found invalid.
FlagsOK == FailedHasInvalidAncestor /\ failedBlocks \subseteq failedValid

\* An ancestor's invalidity is inherited.
LEMMA InvalidInherited ==
  ASSUME NEW b \in Blocks, NEW a \in Anc[b], InvalidAbove(a)
  PROVE  InvalidAbove(b)
BY Tree DEF InvalidAbove

\* FindMostWorkChain marks only blocks above a block marked before.
LEMMA MarksInvalid ==
  ASSUME BaseInv, FlagsOK, NEW t \in Threads, NEW a \in Marks(t)
  PROVE  InvalidAbove(a)
<1>1. PICK c \in Dropped : a \in AboveFailed(c)
  BY DEF Marks, Poisoned
<1>2. PICK x \in FailedOnPath(c) : Height[a] > Height[x]
  BY <1>1 DEF Dropped, Usable, AboveFailed
<1>3. c \in Blocks /\ a \in Anc[c] /\ x \in Anc[c] /\ x \in Failed
  BY <1>1, <1>2 DEF Dropped, AboveFailed, FailedOnPath, BaseInv, TypeOK
<1>4. a \in Blocks /\ x \in Blocks /\ Height[a] \in Nat /\ Height[x] \in Nat
  BY <1>3, Tree
<1>5. x \in Anc[a]
  <2>1. a \in Anc[x] => a = x \/ Height[a] < Height[x]
    BY <1>4, Upwards
  <2> QED BY <1>2, <1>3, <1>4, <2>1, Linear
<1> QED BY <1>3, <1>4, <1>5, InvalidInherited DEF FlagsOK, FailedHasInvalidAncestor

\* Flags stay right when they are only added, to blocks found invalid and above
\* such blocks.
LEMMA FlagsGrow ==
  ASSUME TypeOK, FlagsOK, failedValid \subseteq failedValid', TypeOK',
         failedBlocks' \subseteq failedBlocks \cup (failedValid' \ failedValid)
                         \/ failedBlocks' \subseteq failedValid',
         \A x \in failedChild' \ failedChild : InvalidAbove(x)'
  PROVE  FlagsOK'
<1>1. ASSUME NEW x \in Failed' PROVE InvalidAbove(x)'
  <2>1. CASE x \in Failed
    BY <2>1 DEF FlagsOK, FailedHasInvalidAncestor, InvalidAbove
  <2>2. CASE x \notin Failed /\ x \in failedChild'
    BY <2>2 DEF Failed
  <2>3. CASE x \in failedValid'
    <3>1. x \in Anc[x] BY <2>3, Tree DEF TypeOK
    <3> QED BY <2>3, <3>1 DEF InvalidAbove
  <2> QED BY <2>1, <2>2, <2>3 DEF Failed
<1> QED BY <1>1 DEF FlagsOK, FailedHasInvalidAncestor

\* A refused header marks blocks above one that is known to be invalid.
LEMMA RejectFlags ==
  ASSUME BaseInv, BaseInv', FlagsOK, ~assertFailed, NEW b \in Blocks \ {Genesis},
         RejectHeader(b)
  PROVE  FlagsOK' /\ ~assertFailed' /\ failedValid' = failedValid
<1>1. failedValid' = failedValid /\ failedBlocks' = failedBlocks
  BY DEF RejectHeader
<1>2. CASE FailedBelow(b) = {}
  <2>1. failedChild' = failedChild /\ ~assertFailed'
    BY <1>2 DEF RejectHeader
  <2> QED BY <1>1, <2>1, FlagsGrow DEF BaseInv
<1>3. CASE FailedBelow(b) # {}
  <2>1. PICK f \in FailedBelow(b) :
          /\ assertFailed' = (f \notin failedValid)
          /\ failedChild' = IF f \in failedValid
                            THEN failedChild \cup (Anc[Parent[b]] \ Anc[f]) ELSE failedChild
    BY <1>3 DEF RejectHeader
  <2>2. f \in failedValid /\ f \in Anc[Parent[b]] /\ Parent[b] \in Blocks
    BY <2>1, Tree DEF FailedBelow, FlagsOK
  <2>3. ASSUME NEW x \in Anc[Parent[b]] \ Anc[f]
        PROVE  f \in Anc[x]
    BY <2>2, Linear
  <2>4. \A x \in failedChild' \ failedChild : InvalidAbove(x)'
    BY <1>1, <2>1, <2>2, <2>3 DEF InvalidAbove
  <2> QED BY <1>1, <2>1, <2>2, <2>4, FlagsGrow DEF BaseInv
<1> QED BY <1>2, <1>3

\* An iteration of ActivateBestChain.
LEMMA IterationFlags ==
  ASSUME BaseInv, BaseInv', FlagsOK, ~assertFailed, NEW t \in Threads, ActivateBestChain(t)
  PROVE  FlagsOK'
<1>1. failedChild' = failedChild \cup Marks(t)
  BY Iteration DEF BaseInv
<1>2. \/ failedValid' = failedValid /\ failedBlocks' = failedBlocks
      \/ \E b \in Blocks : /\ failedValid' = failedValid \cup {b}
                            /\ failedBlocks' = failedBlocks \cup {b}
  BY Iteration DEF BaseInv, Rests, Advances, Fails
<1>3. failedValid \subseteq failedValid' /\ failedBlocks' \subseteq failedValid'
  BY <1>2 DEF FlagsOK
<1>4. \A x \in failedChild' \ failedChild : InvalidAbove(x)'
  BY <1>1, <1>3, MarksInvalid DEF InvalidAbove
<1> QED BY <1>3, <1>4, FlagsGrow DEF BaseInv

\* reconsiderblock, by an operator who names the invalid block itself, removes
\* the flags of that block and of all blocks above it, and no others.
LEMMA ReconsiderClears ==
  ASSUME BaseInv, CarefulOperator, NEW t \in Threads, NEW b \in Blocks,
         ReconsiderBlock(t, b)
  PROVE  /\ failedValid' = {x \in failedValid : b \notin Anc[x]}
         /\ failedChild' = {x \in failedChild : b \notin Anc[x]}
         /\ failedBlocks' = failedBlocks \ NotValidFrom(b)
<1>1. b \in index /\ Anc[b] \cap Failed \subseteq {b} /\ b \in Anc[b]
  BY Tree DEF ReconsiderBlock
<1>2. /\ {d \in Failed : b \in Anc[d]} \subseteq NotValidFrom(b)
      /\ \A d \in NotValidFrom(b) : b \in Anc[d]
  BY DEF NotValidFrom, BaseInv, PointersOK
<1>3. /\ failedValid' = failedValid \ (NotValidFrom(b) \cup Anc[b])
      /\ failedChild' = failedChild \ (NotValidFrom(b) \cup Anc[b])
      /\ failedBlocks' = failedBlocks \ NotValidFrom(b)
  BY DEF ReconsiderBlock
<1> QED BY <1>1, <1>2, <1>3 DEF Failed

\* Every step of a careful operator's node keeps the flags right.
LEMMA NextFlags ==
  ASSUME BaseInv, BaseInv', CarefulOperator, FlagsOK, [Next]_vars
  PROVE  FlagsOK'
<1>0. TypeOK /\ TypeOK' /\ (failedBlocks \subseteq failedValid)
  BY DEF BaseInv, FlagsOK
<1>1. ASSUME NEW b \in Blocks \ {Genesis}, AcceptBlockHeader(b), ~assertFailed
      PROVE  FlagsOK'
  <2>1. RejectHeader(b) \/ UNCHANGED flags
    BY <1>1 DEF AcceptBlockHeader
  <2>2. CASE UNCHANGED flags
    BY <1>0, <2>2, FlagsGrow DEF flags
  <2> QED BY <1>1, <2>1, <2>2, RejectFlags
<1>2. ASSUME NEW t \in Threads, NEW b \in Blocks, CheckNewBlock(t, b)
      PROVE  FlagsOK'
  BY <1>0, <1>2, FlagsGrow DEF CheckNewBlock, flags
<1>3. ASSUME NEW t \in Threads, NEW requested \in BOOLEAN, AcceptBlock(t, requested),
             ~assertFailed
      PROVE  FlagsOK'
  <2>1. blk[t] \in Blocks \ {Genesis}
    BY <1>3 DEF AcceptBlock, BaseInv, PointersOK
  <2>2. \/ RejectHeader(blk[t]) \/ UNCHANGED flags
        \/ /\ failedValid' = failedValid \cup {blk[t]}
           /\ UNCHANGED <<failedChild, failedBlocks>>
    BY <1>3 DEF AcceptBlock, ReceivedBlockTransactions
  <2>3. CASE RejectHeader(blk[t])
    BY <1>3, <2>1, <2>3, RejectFlags
  <2>4. CASE UNCHANGED flags
    BY <1>0, <2>4, FlagsGrow DEF flags
  <2>5. CASE failedValid' = failedValid \cup {blk[t]} /\ UNCHANGED <<failedChild, failedBlocks>>
    BY <1>0, <2>5, FlagsGrow
  <2> QED BY <2>2, <2>3, <2>4, <2>5
<1>4. ASSUME NEW t \in Threads, ActivateBestChain(t), ~assertFailed
      PROVE  FlagsOK'
  BY <1>4, IterationFlags
<1>5. ASSUME NEW t \in Threads, Restart(t)
      PROVE  FlagsOK'
  <2>1. /\ failedValid' = failedValid /\ failedBlocks' = {}
        /\ failedChild' = failedChild \cup (MarkedFailed \ Failed)
    BY <1>5 DEF Restart
  <2>2. ASSUME NEW x \in MarkedFailed PROVE InvalidAbove(x)'
    <3>1. PICK f \in Anc[x] : f \in Failed
      BY <2>2 DEF MarkedFailed
    <3>2. x \in Blocks /\ InvalidAbove(f)
      BY <2>2, <3>1 DEF MarkedFailed, BaseInv, TypeOK, FlagsOK, FailedHasInvalidAncestor
    <3>3. InvalidAbove(x)
      BY <3>1, <3>2, InvalidInherited
    <3> QED BY <2>1, <3>3 DEF InvalidAbove
  <2> QED BY <1>0, <2>1, <2>2, FlagsGrow
<1>6. ASSUME NEW t \in Threads, NEW b \in Blocks, PreciousBlock(t, b)
      PROVE  FlagsOK'
  BY <1>0, <1>6, FlagsGrow DEF PreciousBlock, flags
<1>7. ASSUME NEW t \in Threads, NEW b \in Blocks, InvalidateBlock(t, b)
      PROVE  FlagsOK'
  <2>1. /\ failedValid' = failedValid \cup {b} /\ failedBlocks' = failedBlocks \cup {b}
        /\ \A x \in failedChild' \ failedChild :
              b \in Anc[tip] /\ x \in Anc[tip] \ Anc[b]
    BY <1>7 DEF InvalidateBlock
  <2>2. \A x \in failedChild' \ failedChild : b \in Anc[x]
    BY <1>0, <2>1, Linear DEF TypeOK
  <2>3. \A x \in failedChild' \ failedChild : InvalidAbove(x)'
    BY <2>1, <2>2 DEF InvalidAbove
  <2> QED BY <1>0, <2>1, <2>3, FlagsGrow
<1>8. ASSUME NEW t \in Threads, NEW b \in Blocks, ReconsiderBlock(t, b)
      PROVE  FlagsOK'
  <2>1. /\ failedValid' = {x \in failedValid : b \notin Anc[x]}
        /\ failedChild' = {x \in failedChild : b \notin Anc[x]}
        /\ failedBlocks' = failedBlocks \ NotValidFrom(b)
    BY <1>8, ReconsiderClears
  <2>2. ASSUME NEW x \in Failed' PROVE InvalidAbove(x)'
    <3>1. x \in Failed /\ x \in Blocks /\ b \notin Anc[x]
      BY <1>0, <2>1 DEF Failed, TypeOK
    <3>2. PICK f \in Anc[x] : f \in failedValid
      BY <3>1 DEF FlagsOK, FailedHasInvalidAncestor, InvalidAbove
    <3>3. b \notin Anc[f]
      BY <3>1, <3>2, Tree
    <3> QED BY <2>1, <3>2, <3>3 DEF InvalidAbove
  <2>3. failedBlocks' \subseteq failedValid'
    BY <1>0, <2>1 DEF NotValidFrom, Failed, BaseInv, PointersOK
  <2> QED BY <2>2, <2>3 DEF FlagsOK, FailedHasInvalidAncestor
<1>9. CASE UNCHANGED vars
  BY <1>0, <1>9, FlagsGrow DEF vars, flags
<1> QED BY <1>1, <1>2, <1>3, <1>4, <1>5, <1>6, <1>7, <1>8, <1>9 DEF Next

\* No block is left with a forgotten failure mark: with an operator who names
\* the invalid block itself in reconsiderblock, every failed block has an
\* ancestor that was itself found invalid, for any tree and any threads.
THEOREM FlagsHaveReason == Spec /\ CarefulOperator => []FailedHasInvalidAncestor
<1> DEFINE J == BaseInv /\ CarefulOperator /\ FlagsOK
<1>1. Init /\ CarefulOperator => J
  <2>1. Init => FlagsOK
    BY DEF Init, FlagsOK, FailedHasInvalidAncestor, Failed
  <2> QED BY <2>1, InitBase
<1>2. J /\ [Next]_vars => J'
  BY NextBase, NextFlags
<1>3. J => FailedHasInvalidAncestor
  BY DEF FlagsOK
<1> HIDE DEF J
<1> QED BY <1>1, <1>2, <1>3, PTL DEF Spec

\* A block at or above the fork height that enters the active chain without a
\* signature is the block that a thread of ActivateBestChain brought along, and
\* the new tip: its fChecked keeps what CheckBlock said for an earlier tip.  All
\* blocks below it are checked at their own height, whatever was cached.
OnlyTipUnsigned ==
  [][\A b \in Active' \ Active : AuthForkHeight > 0 /\ Height[b] >= AuthForkHeight =>
       b \in Signed \/ (b = tip' /\ \E t \in Threads : pc[t] = "abc" /\ blk[t] = b)]_vars

\* What a block needs to be connected, taken apart.
LEMMA ConnectedSigned ==
  ASSUME NEW t \in Threads, NEW m, NEW d \in Blocks \ {Genesis}, ConnectOk(t, d, m),
         AuthForkHeight > 0, Height[d] >= AuthForkHeight
  PROVE  d \in Signed \/ (d = m /\ blk[t] = d)
<1>1. Height[d] = Height[Parent[d]] + 1
  BY TreeAssumption
<1> QED BY <1>1 DEF ConnectOk, CheckBlock

\* For any tree, any threads and any operator, at most the tip that a step of
\* ActivateBestChain sets is unsigned where the rule wants a signature.
THEOREM UnsignedOnlyAsTip == Spec => OnlyTipUnsigned
<1> DEFINE P == \A b \in Active' \ Active :
                  AuthForkHeight > 0 /\ Height[b] >= AuthForkHeight =>
                    b \in Signed \/ (b = tip' /\ \E t \in Threads : pc[t] = "abc" /\ blk[t] = b)
<1>1. BaseInv /\ [Next]_vars => [P]_vars
  <2> SUFFICES ASSUME BaseInv, Next, NEW b \in Active' \ Active,
                      AuthForkHeight > 0, Height[b] >= AuthForkHeight
               PROVE  \/ b \in Signed
                      \/ b = tip' /\ \E t \in Threads : pc[t] = "abc" /\ blk[t] = b
    OBVIOUS
  <2>1. /\ TypeOK /\ TypeOK' /\ ~assertFailed /\ tip \in Blocks /\ tip' \in Blocks
        /\ b \in Anc[tip'] /\ b \notin Anc[tip] /\ b \in Blocks \ {Genesis}
    BY NextBase, Tree DEF BaseInv, TypeOK, Active, Next
  <2>2. ASSUME NEW t \in Threads, ActivateBestChain(t)
        PROVE  \/ b \in Signed
               \/ b = tip' /\ pc[t] = "abc" /\ blk[t] = b
    <3> DEFINE m == Target(t)
    <3>1. /\ pc[t] = "abc"
          /\ Rests(t, m) \/ \E s \in Blocks : Advances(t, m, s) \/ Fails(t, m, s)
      BY <2>1, <2>2, Iteration
    <3>2. ~Rests(t, m)
      BY <2>1, Tree DEF Rests
    <3>3. PICK s \in Blocks : Advances(t, m, s) \/ Fails(t, m, s)
      BY <3>1, <3>2
    <3>4. /\ m \in Blocks \ Anc[tip] /\ s = StopAt(t, m)
          /\ \/ tip' = s /\ ConnectOk(t, s, m)
             \/ tip' = Parent[s]
      BY <3>3 DEF Advances, Fails
    <3>5. /\ s \in Anc[m] /\ s \in Blocks \ {Genesis} /\ Parent[s] \in Anc[m]
          /\ m \notin Anc[Parent[s]]
          /\ \A d \in Anc[Parent[s]] \ Anc[tip] : ConnectOk(t, d, m)
      <4>1. /\ s \in Anc[m] /\ s \in Blocks \ {Genesis} /\ Parent[s] \in Anc[m]
            /\ \A d \in Anc[Parent[s]] \ Anc[tip] : ConnectOk(t, d, m)
        BY <2>1, <3>4, StopFacts
      <4>2. m \in Anc[Parent[s]] => s \in Anc[Parent[s]]
        BY <3>4, <4>1, Tree
      <4> QED BY <4>1, <4>2, Tree
    <3>6. CASE b \in Anc[Parent[s]]
      <4>1. ConnectOk(t, b, m) /\ b # m
        BY <2>1, <3>5, <3>6
      <4> QED BY <2>1, <4>1, ConnectedSigned
    <3>7. CASE b \notin Anc[Parent[s]]
      <4>1. b = s /\ tip' = s /\ ConnectOk(t, s, m)
        BY <2>1, <3>4, <3>5, <3>7, Tree
      <4> QED BY <2>1, <3>1, <4>1, ConnectedSigned
    <3> QED BY <3>6, <3>7
  <2>3. CASE \E t \in Threads, x \in Blocks : InvalidateBlock(t, x)
    <3>1. PICK t \in Threads, x \in Blocks : InvalidateBlock(t, x)
      BY <2>3
    <3>2. Anc[tip'] \subseteq Anc[tip]
      BY <2>1, <3>1, Tree DEF InvalidateBlock
    <3> QED BY <2>1, <3>2
  <2>4. \/ \E t \in Threads : ActivateBestChain(t)
        \/ \E t \in Threads, x \in Blocks : InvalidateBlock(t, x)
    <3>1. tip' # tip
      BY <2>1
    <3> QED BY <3>1 DEF Next, AcceptBlockHeader, RejectHeader, CheckNewBlock, AcceptBlock,
                        ReceivedBlockTransactions, Restart, PreciousBlock, ReconsiderBlock
  <2> QED BY <2>2, <2>3, <2>4
<1> QED BY <1>1, BaseInvariance, PTL DEF Spec, OnlyTipUnsigned

-----------------------------------------------------------------------------
(* The active chain, for a careful operator and one thread.                *)

OneThread == \A t, u \in Threads : t = u

Setting == CarefulOperator /\ OneThread

\* Of the chains the node has seen, one that has reached the fork height has more
\* work than one that has not (or there is no fork height).  The code does not
\* ensure it: a longer chain may have less work.
ForkByWork ==
  \A a, b \in index :
    Height[a] + 1 < AuthForkHeight /\ AuthForkHeight <= Height[b] + 1 => Work[a] < Work[b]

Good(b) == ~InvalidAbove(b)

ActiveOK == Active \subseteq scripts /\ Good(tip)

\* A block that was once connected would be connected again.
ScriptsOK ==
  \A b \in scripts \ {Genesis} : b \notin BadConnect /\ CheckBlock(b, Height[Parent[b]])

CandidatesOK == \A c \in candidates : ~Better(tip, c)

\* Every linked block without a failure flag is a candidate or worse than a.
Covers(a) == \A b \in linked \ Failed : b \in candidates \/ Better(a, b)

\* Outside ActivateBestChain the tip is the best candidate on a good chain.
AtRest == Idle => /\ tip \in candidates /\ Covers(tip)
                  /\ \A c \in candidates : Good(c) => ~Better(c, tip)

\* Inside, the tip may be on its way through worse blocks, but the candidates
\* still hold the best block that was ever connected.
Anchored == \E a \in candidates : Anc[a] \subseteq scripts /\ Good(a) /\ Covers(a)

\* pindexMostWork stays the best candidate on a good chain.
MostWorkOK ==
  \A t \in Threads : mostWork[t] # None =>
    /\ pc[t] = "abc" /\ mostWork[t] \in candidates \ Active /\ Good(mostWork[t])
    /\ \A c \in candidates : Good(c) => ~Better(c, mostWork[t])

\* What the check before the lock was worth.
BlockOK ==
  \A t \in Threads :
    /\ pc[t] = "idle" => blk[t] = None
    /\ pc[t] = "checked" => CheckBlock(blk[t], Height[tip])
    /\ pc[t] = "abc" /\ blk[t] \in linked \ {Genesis} /\ Good(blk[t])
         => CheckBlock(blk[t], Height[Parent[blk[t]]])

\* Negative sequence numbers are left of the last use of preciousblock, or of
\* uses at less work.
SequenceOK ==
  /\ nextSeq >= 1 /\ reverseSeq < 0
  /\ \A d \in Blocks : seqId[d] < 0 =>
       Work[d] <= preciousWork /\ (Work[d] = preciousWork => seqId[d] >= reverseSeq)

\* The inductive invariant.
IInv == /\ BaseInv /\ FlagsOK /\ Setting
        /\ ActiveOK /\ ScriptsOK /\ CandidatesOK /\ AtRest /\ Anchored
        /\ MostWorkOK /\ BlockOK /\ SequenceOK /\ ~assertFailed

\* A chain is good when it has no failure flag at all.
LEMMA GoodChains ==
  ASSUME TypeOK, FlagsOK, NEW b \in Blocks
  PROVE  /\ Good(b) <=> Anc[b] \cap Failed = {}
         /\ Good(b) => b \notin Failed /\ \A a \in Anc[b] : Good(a)
<1>1. \A a \in Anc[b] : a \in Failed => InvalidAbove(b)
  BY InvalidInherited DEF FlagsOK, FailedHasInvalidAncestor
<1>2. Anc[b] \cap Failed = {} => ~InvalidAbove(b)
  BY DEF InvalidAbove, Failed
<1> QED BY <1>1, <1>2, InvalidInherited, Tree DEF Good

\* Types for the order on the candidates.
LEMMA OrderTypes ==
  ASSUME BaseInv
  PROVE  /\ seqId \in [Blocks -> Int] /\ tip \in Blocks /\ linked \subseteq Blocks
         /\ candidates \subseteq linked /\ tip \in linked /\ Anc[tip] \subseteq linked
         /\ tip \in Anc[tip]
BY LinkedClosed, Tree DEF BaseInv, TypeOK, PointersOK

\* In the initial state genesis is all there is.
LEMMA InitIInv == Init /\ Setting => IInv
<1> SUFFICES ASSUME Init, Setting PROVE IInv OBVIOUS
<1>1. BaseInv BY InitBase
<1>2. FlagsOK
  BY DEF Init, FlagsOK, FailedHasInvalidAncestor, Failed
<1>3. /\ linked = {Genesis} /\ scripts = {Genesis} /\ candidates = {Genesis}
      /\ tip = Genesis /\ failedValid = {} /\ seqId \in [Blocks -> Int]
      /\ Anc[Genesis] = {Genesis} /\ Genesis \in Blocks
  BY <1>1, Tree DEF Init, BaseInv, TypeOK
<1>4. ~Better(Genesis, Genesis)
  BY <1>3, BetterOrders DEF Better
<1>5. \A b : Good(b)
  BY <1>3 DEF Good, InvalidAbove
<1>6. ActiveOK /\ ScriptsOK /\ CandidatesOK
  BY <1>3, <1>4, <1>5 DEF ActiveOK, ScriptsOK, CandidatesOK, Active
<1>7. Covers(Genesis)
  BY <1>3 DEF Covers
<1>8. AtRest /\ Anchored
  BY <1>3, <1>4, <1>5, <1>7 DEF AtRest, Anchored
<1>9. MostWorkOK /\ BlockOK
  BY DEF Init, MostWorkOK, BlockOK
<1>10. SequenceOK /\ ~assertFailed
  BY DEF Init, SequenceOK
<1> QED BY <1>1, <1>2, <1>6, <1>8, <1>9, <1>10 DEF IInv

\* With one thread outside ActivateBestChain, everything is at rest.
LEMMA RestFacts ==
  ASSUME IInv, NEW t \in Threads, pc[t] # "abc"
  PROVE  /\ Idle /\ \A u \in Threads : u = t /\ mostWork[u] = None
         /\ tip \in candidates /\ Covers(tip)
         /\ \A c \in candidates : Good(c) => ~Better(c, tip)
<1>1. \A u \in Threads : u = t
  BY DEF IInv, Setting, OneThread
<1>2. Idle
  BY <1>1 DEF Idle
<1>3. \A u \in Threads : mostWork[u] = None
  BY <1>1 DEF IInv, MostWorkOK
<1> QED BY <1>1, <1>2, <1>3 DEF IInv, AtRest

\* At rest no good chain has more work than the tip.
LEMMA NoneBetter ==
  ASSUME IInv, NEW t \in Threads, pc[t] # "abc", NEW b \in linked, Good(b)
  PROVE  ~Better(b, tip)
<1>1. b \in Blocks /\ b \notin Failed
  BY OrderTypes, GoodChains DEF IInv, BaseInv
<1>2. b \in candidates \/ Better(tip, b)
  BY <1>1, RestFacts DEF Covers
<1> QED BY <1>1, <1>2, RestFacts, OrderTypes, BetterOrders DEF Better, IInv

\* A block that passed CheckBlock at the height of the tip passes it at its own
\* height if its parent is linked and good.
LEMMA FirstCheck ==
  ASSUME IInv, ForkByWork, NEW t \in Threads, pc[t] # "abc", NEW b \in Blocks \ {Genesis},
         CheckBlock(b, Height[tip]), Parent[b] \in linked, Good(Parent[b])
  PROVE  CheckBlock(b, Height[Parent[b]])
<1> DEFINE p == Parent[b]
<1>1. /\ p \in Blocks /\ tip \in Blocks /\ seqId \in [Blocks -> Int]
      /\ Height \in [Blocks -> Nat] /\ Work \in [Blocks -> Nat] /\ AuthForkHeight \in Nat
  BY Tree, RuleAssumption, OrderTypes DEF IInv
<1>2. ~Better(p, tip) /\ p \in index /\ tip \in index
  <2>1. linked \subseteq index /\ tip \in linked
    BY OrderTypes, LinkedClosed, Tree DEF IInv, BaseInv
  <2> QED BY <2>1, NoneBetter
<1>3. ~(Work[tip] < Work[p])
  BY <1>1, <1>2, BetterOrders DEF Better
<1>4. ~(Height[tip] + 1 < AuthForkHeight /\ AuthForkHeight <= Height[p] + 1)
  BY <1>1, <1>2, <1>3 DEF ForkByWork
<1> QED BY <1>1, <1>4 DEF CheckBlock

\* Steps that leave the chain, the candidates and the judgement of linked blocks
\* alone.
LEMMA QuietStep ==
  ASSUME IInv, BaseInv', FlagsOK', ~assertFailed',
         UNCHANGED <<linked, scripts, candidates, tip, sequence>>,
         Failed \subseteq Failed', \A b \in linked : Good(b)' <=> Good(b),
         Idle' => Idle, MostWorkOK', BlockOK'
  PROVE  IInv'
<1>0. UNCHANGED <<seqId, nextSeq, reverseSeq, preciousWork>>
  BY DEF sequence
<1>1. candidates \subseteq linked /\ tip \in linked
  BY DEF IInv, BaseInv, PointersOK
<1>2. Setting' /\ ActiveOK' /\ ScriptsOK'
  BY <1>1 DEF IInv, Setting, OneThread, ActiveOK, ScriptsOK, Active
<1>3. \A a, b : Better(a, b)' <=> Better(a, b)
  BY <1>0 DEF Better
<1>4. CandidatesOK'
  BY <1>3 DEF IInv, CandidatesOK
<1>5. \A a : Covers(a) => Covers(a)'
  BY <1>3 DEF Covers
<1>6. AtRest'
  BY <1>1, <1>3, <1>5 DEF IInv, AtRest
<1>7. Anchored'
  <2>1. PICK a \in candidates : Anc[a] \subseteq scripts /\ Good(a) /\ Covers(a)
    BY DEF IInv, Anchored
  <2> QED BY <1>1, <1>5, <2>1 DEF Anchored
<1>8. SequenceOK'
  BY <1>0 DEF IInv, SequenceOK
<1> QED BY <1>2, <1>4, <1>6, <1>7, <1>8 DEF IInv

\* Headers.
LEMMA HeaderStep ==
  ASSUME IInv, BaseInv', FlagsOK', NEW b \in Blocks \ {Genesis}, AcceptBlockHeader(b)
  PROVE  IInv'
<1>1. BaseInv /\ FlagsOK /\ ~assertFailed
  BY DEF IInv
<1>2. /\ failedValid' = failedValid /\ failedChild \subseteq failedChild' /\ ~assertFailed'
      /\ UNCHANGED <<linked, scripts, candidates, tip, sequence, threads>>
  <2>1. CASE HeaderOk(b)
    BY <1>1, <2>1 DEF AcceptBlockHeader, RejectHeader, flags
  <2>2. CASE RejectHeader(b)
    BY <1>1, <2>2, RejectFlags DEF AcceptBlockHeader, RejectHeader, stored
  <2> QED BY <2>1, <2>2 DEF AcceptBlockHeader
<1>3. Failed \subseteq Failed'
  BY <1>2 DEF Failed
<1>4. \A d : Good(d)' <=> Good(d)
  BY <1>2 DEF Good, InvalidAbove
<1>5. /\ pc' = pc /\ blk' = blk /\ mostWork' = mostWork
      /\ \A a, d : Better(a, d)' <=> Better(a, d)
  BY <1>2 DEF threads, sequence, Better
<1>6. Idle' => Idle
  BY <1>5 DEF Idle
<1>7. MostWorkOK'
  BY <1>2, <1>4, <1>5 DEF IInv, MostWorkOK, Active
<1>8. BlockOK'
  BY <1>2, <1>4, <1>5 DEF IInv, BlockOK
<1> QED BY <1>2, <1>3, <1>4, <1>6, <1>7, <1>8, QuietStep

\* CheckBlock before the lock is taken.
LEMMA CheckStep ==
  ASSUME IInv, BaseInv', FlagsOK', NEW t \in Threads, NEW b \in Blocks \ {Genesis},
         CheckNewBlock(t, b)
  PROVE  IInv'
<1>1. /\ UNCHANGED <<linked, scripts, candidates, tip, sequence>> /\ Failed' = Failed
      /\ failedValid' = failedValid /\ ~assertFailed' /\ mostWork' = mostWork
  BY DEF CheckNewBlock, stored, flags, Failed, IInv
<1>2. pc[t] # "abc" /\ pc'[t] = "checked" /\ blk'[t] = b /\ CheckBlock(b, Height[tip])
  BY DEF CheckNewBlock, IInv, BaseInv, TypeOK
<1>3. \A u \in Threads : u = t /\ mostWork[u] = None
  BY <1>2, RestFacts
<1>4. \A d : Good(d)' <=> Good(d)
  BY <1>1 DEF Good, InvalidAbove
<1>5. Idle' => Idle
  BY <1>2, <1>3 DEF Idle
<1>6. MostWorkOK'
  BY <1>1, <1>3 DEF MostWorkOK
<1>7. BlockOK'
  BY <1>1, <1>2, <1>3 DEF BlockOK
<1> QED BY <1>1, <1>4, <1>5, <1>6, <1>7, QuietStep

\* A block whose parent is linked arrives, and is linked with those that waited.
LEMMA LinkStep ==
  ASSUME IInv, BaseInv', FlagsOK', NEW t \in Threads, pc[t] # "abc",
         NEW b \in Blocks \ {Genesis}, b \notin haveData, Parent[b] \in linked,
         ReceivedBlockTransactions(b), pc'[t] = "abc", mostWork' = mostWork, BlockOK'
  PROVE  IInv'
<1> DEFINE N == NewlyLinked(b)
<1>1. /\ linked' = linked \cup N
      /\ candidates' = candidates \cup {d \in N : ~BetterBy(seqId', tip, d)}
      /\ UNCHANGED <<scripts, reverseSeq, preciousWork, flags, tip, assertFailed>>
  BY DEF ReceivedBlockTransactions
<1>2. /\ seqId' \in [Blocks -> Int] /\ nextSeq' >= nextSeq /\ nextSeq' \in Int
      /\ \A d \in Blocks : IF d \in N THEN seqId'[d] >= nextSeq ELSE seqId'[d] = seqId[d]
  BY ReceiveNumbers DEF IInv, BaseInv
<1>3. N \cap linked = {} /\ N \subseteq Blocks
  BY LinkedClosed DEF NewlyLinked, IInv, BaseInv, TypeOK
<1> HIDE DEF N
<1>4. /\ tip \in linked /\ linked \subseteq Blocks /\ candidates \subseteq linked
      /\ seqId \in [Blocks -> Int]
  BY OrderTypes DEF IInv
<1>5. \A a, d \in linked : Better(a, d)' <=> Better(a, d)
  BY <1>2, <1>3, <1>4 DEF Better, BetterBy
<1>6. /\ Failed' = Failed /\ failedValid' = failedValid
      /\ \A d : Good(d)' <=> Good(d)
  BY <1>1 DEF flags, Failed, Good, InvalidAbove
<1>7. Setting' /\ ActiveOK' /\ ScriptsOK' /\ ~assertFailed'
  BY <1>1, <1>6 DEF IInv, Setting, OneThread, ActiveOK, ScriptsOK, Active
<1>8. CandidatesOK'
  <2>1. \A d \in N : BetterBy(seqId', tip, d) <=> Better(tip, d)'
    BY <1>1 DEF Better
  <2> QED BY <1>1, <1>4, <1>5, <2>1 DEF IInv, CandidatesOK
<1>9. /\ \A u \in Threads : u = t /\ mostWork[u] = None
      /\ tip \in candidates /\ Covers(tip)
  BY RestFacts
<1>10. Covers(tip)'
  <2>1. \A d \in N : d \in candidates' \/ Better(tip, d)'
    BY <1>1 DEF Better
  <2> QED BY <1>1, <1>4, <1>5, <1>6, <1>9, <2>1 DEF Covers
<1>11. Anchored'
  BY <1>1, <1>7, <1>9, <1>10 DEF Anchored, ActiveOK, Active
<1>12. AtRest' /\ MostWorkOK'
  BY <1>9 DEF AtRest, Idle, MostWorkOK
<1>13. SequenceOK'
  <2>1. nextSeq \in Int /\ nextSeq >= 1
    BY DEF IInv, SequenceOK, BaseInv, TypeOK
  <2>2. \A d \in Blocks : seqId'[d] < 0 => d \notin N
    BY <1>2, <2>1
  <2>3. \A d \in Blocks : seqId'[d] < 0 => seqId'[d] = seqId[d]
    BY <1>2, <2>2
  <2>4. reverseSeq' = reverseSeq /\ preciousWork' = preciousWork
    BY <1>1
  <2> QED BY <1>2, <2>1, <2>3, <2>4 DEF IInv, SequenceOK
<1> QED BY <1>7, <1>8, <1>11, <1>12, <1>13 DEF IInv

\* AcceptBlock.
LEMMA AcceptStep ==
  ASSUME IInv, ForkByWork, BaseInv', FlagsOK', NEW t \in Threads, NEW requested \in BOOLEAN,
         AcceptBlock(t, requested)
  PROVE  IInv'
<1> DEFINE b == blk[t]
<1>0. BaseInv /\ FlagsOK /\ ~assertFailed /\ TypeOK
  BY DEF IInv, BaseInv
<1>1. /\ pc[t] = "checked" /\ pc[t] # "abc" /\ b \in Blocks \ {Genesis}
      /\ CheckBlock(b, Height[tip])
  BY <1>0 DEF AcceptBlock, PointersOK, BaseInv, IInv, BlockOK
<1>2. Idle /\ \A u \in Threads : u = t /\ mostWork[u] = None
  BY <1>1, RestFacts
<1>3. mostWork' = mostWork
  BY DEF AcceptBlock, GiveUp, Activate
<1>4. MostWorkOK'
  BY <1>2, <1>3 DEF MostWorkOK
<1>5. GiveUp(t) => BlockOK'
  BY <1>0, <1>2 DEF GiveUp, BlockOK, TypeOK
<1>6. Activate(t) => pc'[t] = "abc" /\ blk'[t] = b
  BY <1>0 DEF Activate, TypeOK
<1>7. CASE RejectHeader(b) /\ GiveUp(t)
  <2>1. /\ UNCHANGED <<linked, scripts, candidates, tip, sequence>>
        /\ failedValid' = failedValid /\ failedChild \subseteq failedChild' /\ ~assertFailed'
    BY <1>0, <1>1, <1>7, RejectFlags DEF RejectHeader, stored
  <2>2. Failed \subseteq Failed' /\ \A d : Good(d)' <=> Good(d)
    BY <2>1 DEF Failed, Good, InvalidAbove
  <2> QED BY <1>2, <1>4, <1>5, <1>7, <2>1, <2>2, QuietStep
<1>8. ASSUME HeaderOk(b), Activate(t),
             UNCHANGED <<linked, scripts, candidates, tip, sequence, flags, assertFailed>>
      PROVE  IInv'
  <2>1. Failed \subseteq Failed' /\ \A d : Good(d)' <=> Good(d)
    BY <1>8 DEF flags, Failed, Good, InvalidAbove
  <2>2. b \in linked /\ Good(b) => CheckBlock(b, Height[Parent[b]])
    <3>1. b \in linked /\ Good(b) => Parent[b] \in linked /\ Good(Parent[b])
      BY <1>0, <1>1, LinkedClosed, GoodChains, Tree DEF BaseInv
    <3> QED BY <1>1, <3>1, FirstCheck
  <2>3. BlockOK'
    BY <1>2, <1>6, <1>8, <2>1, <2>2 DEF BlockOK
  <2> QED BY <1>0, <1>2, <1>4, <1>8, <2>1, <2>3, QuietStep
<1>9. ASSUME HeaderOk(b), ~Skipped(b, requested), GiveUp(t),
             failedValid' = failedValid \cup {b},
             UNCHANGED <<linked, scripts, candidates, tip, sequence, failedChild, assertFailed>>
      PROVE  IInv'
  <2>1. b \notin haveData
    BY <1>9 DEF Skipped
  <2>2. \A d \in linked : b \notin Anc[d]
    BY <1>0, <2>1, LinkedClosed DEF BaseInv
  <2>3. Failed \subseteq Failed' /\ \A d \in linked : Good(d)' <=> Good(d)
    BY <1>9, <2>2 DEF Failed, Good, InvalidAbove
  <2> QED BY <1>0, <1>2, <1>4, <1>5, <1>9, <2>3, QuietStep
<1>10. ASSUME HeaderOk(b), ~Skipped(b, requested), Activate(t), ReceivedBlockTransactions(b)
       PROVE  IInv'
  <2>1. b \notin haveData
    BY <1>10 DEF Skipped
  <2>2. CASE Parent[b] \notin linked
    BY <1>8, <1>10, <2>2 DEF ReceivedBlockTransactions, sequence
  <2>3. CASE Parent[b] \in linked
    <3>1. Good(b)' => Good(Parent[b])
      <4>1. Good(b)' => Good(b)
        BY <1>6, <1>10 DEF ReceivedBlockTransactions, flags, Good, InvalidAbove
      <4> QED BY <1>0, <1>1, <4>1, GoodChains, Tree
    <3>2. BlockOK'
      BY <1>1, <1>2, <1>6, <1>10, <2>3, <3>1, FirstCheck DEF BlockOK
    <3> QED BY <1>1, <1>3, <1>6, <1>10, <2>1, <2>3, <3>2, LinkStep
  <2> QED BY <2>2, <2>3
<1> QED BY <1>7, <1>8, <1>9, <1>10 DEF AcceptBlock

\* Going back along the active chain makes no candidate too bad.
LEMMA LowerTip ==
  ASSUME IInv, NEW x \in Anc[tip], NEW c \in candidates
  PROVE  ~Better(x, c)
<1>1. /\ tip \in Blocks /\ x \in Blocks /\ c \in Blocks /\ seqId \in [Blocks -> Int]
      /\ Work \in [Blocks -> Nat]
  BY OrderTypes, Tree DEF IInv
<1>2. ~Better(tip, c)
  BY DEF IInv, CandidatesOK
<1>3. x = tip \/ Work[x] < Work[tip]
  BY <1>1, Upwards
<1>4. Work[tip] <= Work[c]
  BY <1>1, <1>2, BetterOrders DEF Better
<1>5. CASE Work[x] < Work[tip]
  <2>1. Work[x] < Work[c] BY <1>1, <1>4, <1>5
  <2> QED BY <1>1, <2>1, BetterOrders DEF Better
<1> QED BY <1>2, <1>3, <1>5

\* A call of an operator, or a restart, hands over to ActivateBestChain with the
\* tip as the anchor.
LEMMA EnterLoop ==
  ASSUME IInv, BaseInv', FlagsOK', NEW t \in Threads, pc'[t] = "abc",
         \A u \in Threads : mostWork'[u] = None /\ blk'[u] = None,
         scripts' = scripts, Anc[tip'] \subseteq scripts, Good(tip)',
         CandidatesOK', tip' \in candidates', Covers(tip)', SequenceOK', ~assertFailed'
  PROVE  IInv'
<1>1. \A u \in Threads : u = t
  BY DEF IInv, Setting, OneThread
<1>2. Setting' /\ ActiveOK' /\ ScriptsOK'
  BY DEF IInv, Setting, OneThread, ActiveOK, ScriptsOK, Active
<1>3. AtRest' /\ MostWorkOK' /\ Anchored'
  BY <1>1 DEF AtRest, Idle, MostWorkOK, Anchored
<1>4. None \notin linked'
  BY Tree DEF BaseInv, TypeOK
<1>5. BlockOK'
  BY <1>1, <1>4 DEF BlockOK
<1> QED BY <1>2, <1>3, <1>5 DEF IInv

\* A thread that is idle and calls ActivateBestChain brings no block along.
LEMMA IdleActivates ==
  ASSUME IInv, NEW t \in Threads, pc[t] = "idle", Activate(t)
  PROVE  /\ pc'[t] = "abc"
         /\ \A u \in Threads : mostWork'[u] = None /\ blk'[u] = None
<1>1. \A u \in Threads : u = t /\ mostWork[u] = None /\ blk[u] = None
  BY RestFacts DEF IInv, BlockOK
<1> QED BY <1>1 DEF Activate, IInv, BaseInv, TypeOK

\* preciousblock.
LEMMA PreciousStep ==
  ASSUME IInv, BaseInv', FlagsOK', NEW t \in Threads, NEW b \in Blocks, PreciousBlock(t, b)
  PROVE  IInv'
<1> DEFINE from == IF Work[tip] > preciousWork THEN -1 ELSE reverseSeq
           s == [seqId EXCEPT ![b] = from]
<1>1. /\ pc[t] = "idle" /\ Activate(t) /\ b \in linked \ Failed
      /\ Anc[b] \cap Failed = {}
      /\ Work[b] >= Work[tip] /\ Work[tip] >= preciousWork
      /\ seqId' = s /\ preciousWork' = Work[tip]
      /\ reverseSeq' = (IF from > MinSequenceId THEN from - 1 ELSE from)
      /\ candidates' = Prune(candidates \cup {b}, s, tip)
      /\ assertFailed' = (candidates' = {})
      /\ UNCHANGED <<stored, flags, nextSeq, tip>>
  BY DEF PreciousBlock, IInv, Setting
<1>2. /\ Work \in [Blocks -> Nat] /\ tip \in Blocks /\ seqId \in [Blocks -> Int]
      /\ reverseSeq \in Int /\ preciousWork \in Nat /\ MinSequenceId \in Int
      /\ nextSeq \in Int /\ Blocks \subseteq Nat
  BY TreeAssumption, RuleAssumption DEF IInv, BaseInv, TypeOK
<1>3. /\ nextSeq >= 1 /\ reverseSeq < 0
      /\ \A d \in Blocks : seqId[d] < 0 =>
           Work[d] <= preciousWork /\ (Work[d] = preciousWork => seqId[d] >= reverseSeq)
  BY DEF IInv, SequenceOK
<1>4. /\ pc'[t] = "abc"
      /\ \A u \in Threads : mostWork'[u] = None /\ blk'[u] = None
  BY <1>1, IdleActivates
<1>5. tip \in candidates /\ Covers(tip)
  BY <1>1, RestFacts
<1>6. Work[b] = Work[tip]
  <2>1. Good(b)
    BY <1>1, GoodChains DEF IInv, BaseInv
  <2>2. ~Better(b, tip)
    BY <1>1, <2>1, NoneBetter
  <2> QED BY <1>1, <1>2, <2>2, BetterOrders DEF Better
<1>7. from \in Int /\ from < 0
  BY <1>2, <1>3
<1>8. \A d \in Blocks : Work[d] = Work[tip] => from <= seqId[d]
  BY <1>1, <1>2, <1>3, <1>7
<1>9. s \in [Blocks -> Int] /\ s[b] = from /\ \A d \in Blocks \ {b} : s[d] = seqId[d]
  BY <1>2, <1>7
<1> HIDE DEF from, s
<1>10. ASSUME NEW d \in Blocks \ {b}, Better(tip, d)
       PROVE  BetterBy(s, tip, d)
  BY <1>2, <1>7, <1>8, <1>9, <1>10 DEF Better, BetterBy
<1>11. ~BetterBy(s, tip, tip)
  BY <1>2, <1>9, BetterOrders
<1>12. tip \in candidates' /\ ~assertFailed'
  BY <1>1, <1>5, <1>11 DEF Prune
<1>13. CandidatesOK'
  BY <1>1 DEF CandidatesOK, Better, Prune
<1>14. Covers(tip)'
  <2>1. linked' = linked /\ Failed' = Failed /\ linked \subseteq Blocks
    BY <1>1 DEF stored, flags, Failed, IInv, BaseInv, TypeOK
  <2>2. ASSUME NEW d \in linked \ Failed PROVE d \in candidates' \/ BetterBy(s, tip, d)
    BY <1>1, <1>5, <1>10, <2>1, <2>2 DEF Covers, Prune
  <2> QED BY <1>1, <2>1, <2>2 DEF Covers, Better
<1>15. SequenceOK'
  <2>1. reverseSeq' \in Int /\ reverseSeq' <= from /\ reverseSeq' < 0
    BY <1>1, <1>2, <1>7
  <2>2. ASSUME NEW d \in Blocks, s[d] < 0
        PROVE  Work[d] <= Work[tip] /\ (Work[d] = Work[tip] => s[d] >= reverseSeq')
    <3>1. CASE d = b
      BY <1>2, <1>6, <1>7, <1>9, <2>1, <3>1
    <3>2. CASE d # b
      <4>1. s[d] = seqId[d] /\ seqId[d] < 0 /\ seqId[d] \in Int
        BY <1>2, <1>9, <2>2, <3>2
      <4>2. Work[d] <= preciousWork /\ Work[d] \in Nat /\ Work[tip] \in Nat
        BY <1>2, <1>3, <4>1
      <4> QED BY <1>1, <1>2, <1>7, <1>8, <2>1, <4>1, <4>2
    <3> QED BY <3>1, <3>2
  <2> QED BY <1>1, <1>2, <1>3, <2>1, <2>2 DEF SequenceOK
<1>16. Good(tip)' /\ Anc[tip'] \subseteq scripts /\ scripts' = scripts
  BY <1>1 DEF stored, flags, Good, InvalidAbove, IInv, ActiveOK, Active
<1> QED BY <1>1, <1>4, <1>12, <1>13, <1>14, <1>15, <1>16, EnterLoop

\* invalidateblock.
LEMMA InvalidateStep ==
  ASSUME IInv, BaseInv', FlagsOK', NEW t \in Threads, NEW b \in Blocks, InvalidateBlock(t, b)
  PROVE  IInv'
<1> DEFINE above == IF b \in Anc[tip] THEN Anc[tip] \ Anc[b] ELSE {}
<1>1. /\ pc[t] = "idle" /\ Activate(t) /\ b \in linked \ {Genesis}
      /\ tip' = (IF b \in Anc[tip] THEN Parent[b] ELSE tip)
      /\ failedChild' = failedChild \cup above
      /\ failedValid' = failedValid \cup {b}
      /\ candidates' = (candidates \ (above \cup {b})) \cup
                          {d \in linked \ (failedValid' \cup failedChild') : ~Better(tip', d)}
      /\ UNCHANGED <<stored, sequence, assertFailed>>
  BY DEF InvalidateBlock, IInv, Setting
<1>2. /\ pc'[t] = "abc"
      /\ \A u \in Threads : mostWork'[u] = None /\ blk'[u] = None
  BY <1>1, IdleActivates
<1>3. /\ tip \in Blocks /\ seqId \in [Blocks -> Int] /\ linked \subseteq Blocks
      /\ candidates \subseteq linked /\ tip \in Anc[tip] /\ Anc[tip] \subseteq linked
      /\ Work \in [Blocks -> Nat]
  BY OrderTypes, Tree DEF IInv
<1>4. /\ seqId' = seqId /\ linked' = linked /\ scripts' = scripts /\ ~assertFailed'
      /\ UNCHANGED <<nextSeq, reverseSeq, preciousWork>>
      /\ \A x, y : Better(x, y)' <=> Better(x, y)
  BY <1>1 DEF stored, sequence, Better, IInv
<1>5. /\ tip' \in Anc[tip] /\ tip' \in Anc[tip'] /\ Anc[tip'] \subseteq Anc[tip]
      /\ b \notin Anc[tip'] /\ tip' \in Blocks
      /\ tip' \notin above \cup {b}
  <2>1. CASE b \in Anc[tip]
    <3>1. /\ Anc[b] = {b} \cup Anc[Parent[b]] /\ b \notin Anc[Parent[b]]
          /\ Parent[b] \in Anc[Parent[b]] /\ Parent[b] \in Blocks
      BY <1>1, Tree
    <3> QED BY <1>1, <1>3, <2>1, <3>1, Tree
  <2>2. CASE b \notin Anc[tip]
    BY <1>1, <1>3, <2>2
  <2> QED BY <2>1, <2>2
<1>6. Good(tip) /\ Anc[tip] \subseteq scripts
  BY DEF IInv, ActiveOK, Active
<1>7. Good(tip)' /\ Anc[tip'] \subseteq scripts
  BY <1>1, <1>5, <1>6 DEF Good, InvalidAbove
<1>8. tip' \notin Failed'
  <2>1. tip' \notin Failed
    BY <1>3, <1>5, <1>6, GoodChains DEF IInv, BaseInv
  <2> QED BY <1>1, <1>5, <2>1 DEF Failed
<1>9. tip' \in candidates'
  BY <1>1, <1>3, <1>5, <1>8, BetterOrders DEF Failed, Better
<1>10. CandidatesOK'
  <2>1. \A c \in candidates : ~Better(tip', c)
    BY <1>5, LowerTip
  <2>2. \A c \in candidates' : ~Better(tip', c)
    BY <1>1, <2>1
  <2> QED BY <1>4, <2>2 DEF CandidatesOK, Better
<1>11. Covers(tip)'
  <2>1. \A d \in linked \ Failed' : d \in candidates' \/ Better(tip', d)
    BY <1>1 DEF Failed
  <2> QED BY <1>4, <2>1 DEF Covers, Better
<1>12. SequenceOK'
  BY <1>4 DEF IInv, SequenceOK
<1> QED BY <1>2, <1>4, <1>7, <1>9, <1>10, <1>11, <1>12, EnterLoop

\* reconsiderblock.
LEMMA ReconsiderStep ==
  ASSUME IInv, BaseInv', FlagsOK', NEW t \in Threads, NEW b \in Blocks, ReconsiderBlock(t, b)
  PROVE  IInv'
<1>1. /\ pc[t] = "idle" /\ Activate(t)
      /\ candidates' = candidates \cup {d \in NotValidFrom(b) \cap linked : Better(d, tip)}
      /\ UNCHANGED <<stored, sequence, tip, assertFailed>>
  BY DEF ReconsiderBlock
<1>2. /\ failedValid' = {x \in failedValid : b \notin Anc[x]}
      /\ failedChild' = {x \in failedChild : b \notin Anc[x]}
  BY ReconsiderClears DEF IInv, Setting
<1>3. /\ pc'[t] = "abc"
      /\ \A u \in Threads : mostWork'[u] = None /\ blk'[u] = None
  BY <1>1, IdleActivates
<1>4. /\ tip \in Blocks /\ seqId \in [Blocks -> Int] /\ linked \subseteq Blocks
      /\ candidates \subseteq linked
  BY OrderTypes DEF IInv
<1>5. /\ seqId' = seqId /\ linked' = linked /\ scripts' = scripts /\ ~assertFailed'
      /\ UNCHANGED <<nextSeq, reverseSeq, preciousWork>>
      /\ \A x, y : Better(x, y)' <=> Better(x, y)
  BY <1>1 DEF stored, sequence, Better, IInv
<1>6. Good(tip)' /\ Anc[tip'] \subseteq scripts
  BY <1>1, <1>2 DEF IInv, ActiveOK, Active, Good, InvalidAbove
<1>7. tip \in candidates /\ Covers(tip)
  BY <1>1, RestFacts
<1>8. CandidatesOK'
  <2>1. \A c \in candidates' : ~Better(tip, c)
    BY <1>1, <1>4, BetterOrders DEF IInv, CandidatesOK, Better
  <2> QED BY <1>1, <1>5, <2>1 DEF CandidatesOK
<1>9. Covers(tip)'
  <2>1. ASSUME NEW d \in linked \ Failed' PROVE d \in candidates' \/ Better(tip, d)
    <3>1. CASE d \notin Failed
      BY <1>1, <1>7, <3>1 DEF Covers
    <3>2. CASE d \in Failed
      <4>1. d \in NotValidFrom(b)
        BY <1>2, <3>2 DEF NotValidFrom, Failed, IInv, BaseInv, PointersOK
      <4>2. d = tip \/ Better(d, tip) \/ Better(tip, d)
        BY <1>4, BetterOrders DEF Better
      <4> QED BY <1>1, <1>7, <4>1, <4>2
    <3> QED BY <3>1, <3>2
  <2> QED BY <1>1, <1>5, <2>1 DEF Covers
<1>10. SequenceOK'
  BY <1>5 DEF IInv, SequenceOK
<1> QED BY <1>1, <1>3, <1>5, <1>6, <1>7, <1>8, <1>9, <1>10, EnterLoop

\* A restart.
LEMMA RestartStep ==
  ASSUME IInv, BaseInv', FlagsOK', NEW t \in Threads, Restart(t)
  PROVE  IInv'
<1>1. /\ UNCHANGED <<index, haveData, scripts, failedValid, tip>>
      /\ linked' = Complete /\ failedChild' = failedChild \cup (MarkedFailed \ Failed)
      /\ candidates' = LoadedCandidates /\ assertFailed' = (LoadedCandidates = {})
      /\ seqId' = Unused /\ nextSeq' = 1 /\ reverseSeq' = -1
      /\ pc'[t] = "abc" /\ \A u \in Threads : mostWork'[u] = None /\ blk'[u] = None
  BY DEF Restart
<1>2. /\ tip \in Blocks /\ linked \subseteq Complete /\ tip \in linked
      /\ Unused \in [Blocks -> Int]
  BY OrderTypes DEF IInv, BaseInv, StoreOK, WaitingBlocksAreFound, Complete, Unused
<1>3. Good(tip) /\ Anc[tip] \subseteq scripts
  BY DEF IInv, ActiveOK, Active
<1>4. Good(tip)' /\ Anc[tip'] \subseteq scripts
  BY <1>1, <1>3 DEF Good, InvalidAbove
<1>5. tip \in Complete \ MarkedFailed
  BY <1>2, <1>3, GoodChains DEF MarkedFailed, IInv, BaseInv
<1>6. tip' \in candidates' /\ ~assertFailed'
  BY <1>1, <1>2, <1>5, BetterOrders DEF LoadedCandidates, Prune
<1>7. CandidatesOK'
  BY <1>1 DEF CandidatesOK, LoadedCandidates, Prune, Better
<1>8. Covers(tip)'
  <2>1. MarkedFailed \subseteq Failed'
    BY <1>1 DEF Failed
  <2> QED BY <1>1, <2>1 DEF Covers, LoadedCandidates, Prune, Better
<1>9. SequenceOK'
  BY <1>1 DEF SequenceOK, Unused
<1> QED BY <1>1, <1>4, <1>6, <1>7, <1>8, <1>9, EnterLoop

\* What FindMostWorkChain answers, or answered in an earlier iteration: the best
\* candidate on a good chain, which is not below the tip.  It drops no good
\* candidate, and every candidate it drops carries a flag afterwards.
LEMMA TargetFacts ==
  ASSUME IInv, NEW t \in Threads, pc[t] = "abc"
  PROVE  LET m == Target(t) IN
         /\ m \in linked /\ m \in Blocks /\ m # None /\ m \in Cands(t) /\ Good(m)
         /\ m \in Anc[tip] => m = tip
         /\ Work[tip] <= Work[m]
         /\ \A c \in candidates : Good(c) => c \in Cands(t) /\ ~Better(c, m)
         /\ \A c \in candidates \ Cands(t) : c \in Failed \cup Marks(t)
         /\ Cands(t) \subseteq candidates
<1> DEFINE m == Target(t)
<1>0. /\ BaseInv /\ FlagsOK /\ TypeOK /\ tip \in Blocks /\ candidates \subseteq linked
      /\ linked \subseteq Blocks /\ seqId \in [Blocks -> Int] /\ None \notin Blocks
      /\ Work \in [Blocks -> Nat]
  BY OrderTypes, Tree DEF IInv, BaseInv
<1>1. Cands(t) \subseteq candidates
  BY DEF Cands, CandidatesFound
<1>2. \A c \in candidates \ Cands(t) : c \in Failed \cup Marks(t)
  BY DEF Cands, CandidatesFound, Marks, MetFailed
<1>3. \A c \in candidates : Good(c) => c \in Cands(t)
  <2> SUFFICES ASSUME NEW c \in candidates, Good(c), c \notin Cands(t) PROVE FALSE
    OBVIOUS
  <2>1. c \in Failed \cup Marks(t)
    BY <1>2
  <2>2. c \notin Failed
    BY <1>0, GoodChains
  <2> QED BY <1>0, <2>1, <2>2, MarksInvalid DEF Good
<1>4. m \in candidates /\ Good(m) /\ \A c \in candidates : Good(c) => ~Better(c, m)
  <2>1. CASE mostWork[t] = None
    <3>1. \A c \in candidates : c \in Usable <=> Good(c)
      <4> SUFFICES ASSUME NEW c \in candidates PROVE c \in Usable <=> Good(c)
        OBVIOUS
      <4>1. Anc[tip] \cap Failed = {}
        BY <1>0, GoodChains DEF IInv, ActiveOK
      <4>2. FailedOnPath(c) = Anc[c] \cap Failed
        BY <4>1 DEF FailedOnPath
      <4> QED BY <1>0, <4>2, GoodChains DEF Usable
    <3>2. Usable # {} /\ Usable \subseteq candidates
      BY <3>1 DEF IInv, Anchored, Usable
    <3>3. m = FindMostWorkChain
      BY <2>1 DEF Target
    <3> QED BY <1>0, <3>1, <3>2, <3>3, FindFacts
  <2>2. CASE mostWork[t] # None
    <3>1. m = mostWork[t]
      BY <2>2 DEF Target
    <3> QED BY <2>2, <3>1 DEF IInv, MostWorkOK
  <2> QED BY <2>1, <2>2
<1> HIDE DEF m
<1>5. ~Better(tip, m) /\ m \in Blocks
  BY <1>0, <1>4 DEF IInv, CandidatesOK
<1>6. Work[tip] <= Work[m]
  BY <1>0, <1>5, BetterOrders DEF Better
<1>7. m \in Anc[tip] => m = tip
  <2>1. m \in Anc[tip] => m = tip \/ Work[m] < Work[tip]
    BY <1>0, Upwards
  <2> QED BY <1>0, <1>5, <1>6, <2>1
<1> QED BY <1>0, <1>1, <1>2, <1>3, <1>4, <1>5, <1>6, <1>7 DEF m

\* The best connected block stays a candidate through FindMostWorkChain.
LEMMA AnchorStays ==
  ASSUME IInv, NEW t \in Threads, pc[t] = "abc"
  PROVE  \E a \in Cands(t) :
           /\ Anc[a] \subseteq scripts /\ Good(a) /\ ~Better(a, Target(t))
           /\ \A d \in linked \ (Failed \cup Marks(t)) : d \in Cands(t) \/ Better(a, d)
<1>1. PICK a \in candidates : Anc[a] \subseteq scripts /\ Good(a) /\ Covers(a)
  BY DEF IInv, Anchored
<1> QED BY <1>1, TargetFacts DEF Covers

\* It does so too when the candidates are pruned after connecting x, unless x
\* takes its place.
LEMMA AnchorMoves ==
  ASSUME IInv, NEW t \in Threads, pc[t] = "abc", NEW x \in linked, Good(x)
  PROVE  LET C == Prune(Cands(t), seqId, x) IN
         \E a \in C :
           /\ Anc[a] \subseteq scripts \/ a = x
           /\ Good(a)
           /\ \A d \in linked \ (Failed \cup Marks(t)) : d \in C \/ Better(a, d)
<1> DEFINE C == Prune(Cands(t), seqId, x)
<1>1. PICK a \in Cands(t) :
        /\ Anc[a] \subseteq scripts /\ Good(a)
        /\ \A d \in linked \ (Failed \cup Marks(t)) : d \in Cands(t) \/ Better(a, d)
  BY AnchorStays
<1>2. /\ BaseInv /\ FlagsOK /\ TypeOK /\ linked \subseteq Blocks
      /\ seqId \in [Blocks -> Int] /\ Cands(t) \subseteq Blocks
  BY OrderTypes, TargetFacts DEF IInv, BaseInv
<1>3. \A d \in Cands(t) : d \in C \/ Better(x, d)
  BY DEF Prune, Better
<1>4. CASE a \in C
  <2>1. ~Better(x, a)
    BY <1>4 DEF Prune, Better
  <2>2. \A d \in Blocks : Better(x, d) => Better(a, d)
    BY <1>2, <2>1, BetterOrders DEF Better
  <2> QED BY <1>1, <1>2, <1>3, <1>4, <2>2
<1>5. CASE a \notin C
  <2>1. Better(x, a)
    BY <1>3, <1>5
  <2>2. x \notin Failed \cup Marks(t)
    BY <1>2, GoodChains, MarksInvalid DEF Good
  <2>3. x \in Cands(t)
    BY <1>1, <1>2, <2>1, <2>2, BetterOrders DEF Better
  <2>4. x \in C
    BY <1>2, <2>3, BetterOrders DEF Prune
  <2>5. \A d \in Blocks : Better(a, d) => Better(x, d)
    BY <1>2, <2>1, BetterOrders DEF Better
  <2> QED BY <1>1, <1>2, <1>3, <2>4, <2>5
<1> QED BY <1>4, <1>5

\* The way to pindexMostWork is linked, good and free of old and new flags.
LEMMA PathFacts ==
  ASSUME IInv, NEW t \in Threads, pc[t] = "abc", NEW d \in Anc[Target(t)]
  PROVE  d \in linked /\ d \in Blocks /\ Good(d) /\ d \notin Failed \cup Marks(t)
<1>1. Target(t) \in linked /\ Target(t) \in Blocks /\ Good(Target(t))
  BY TargetFacts
<1>2. BaseInv /\ FlagsOK /\ TypeOK /\ StoreOK
  BY DEF IInv, BaseInv
<1>3. d \in linked /\ d \in Blocks /\ Good(d)
  BY <1>1, <1>2, LinkedClosed, Tree, GoodChains
<1> QED BY <1>2, <1>3, GoodChains, MarksInvalid DEF Good

\* A block of the way that ConnectBlock accepts, even one that kept its fChecked,
\* would be accepted when read from disk.
LEMMA ConnectedRechecks ==
  ASSUME IInv, NEW t \in Threads, pc[t] = "abc", NEW d \in Anc[Target(t)] \ {Genesis},
         ConnectOk(t, d, Target(t))
  PROVE  d \notin BadConnect /\ CheckBlock(d, Height[Parent[d]])
<1>1. d \in linked /\ Good(d)
  BY PathFacts
<1> QED BY <1>1 DEF ConnectOk, IInv, BlockOK

\* What every iteration keeps.
LEMMA IterationKeeps ==
  ASSUME IInv, NEW t \in Threads, ActivateBestChain(t)
  PROVE  /\ pc[t] = "abc" /\ \A u \in Threads : u = t
         /\ \/ Rests(t, Target(t))
            \/ \E b \in Blocks : Advances(t, Target(t), b) \/ Fails(t, Target(t), b)
         /\ failedChild' = failedChild \cup Marks(t)
         /\ UNCHANGED <<index, haveData, linked, unlinked, dropped>>
         /\ seqId' = seqId /\ SequenceOK' /\ Setting'
         /\ \A a, d : Better(a, d)' <=> Better(a, d)
<1>1. /\ pc[t] = "abc"
      /\ \/ Rests(t, Target(t))
         \/ \E b \in Blocks : Advances(t, Target(t), b) \/ Fails(t, Target(t), b)
      /\ failedChild' = failedChild \cup Marks(t)
      /\ UNCHANGED <<index, haveData, linked, unlinked, dropped, sequence>>
  BY Iteration DEF IInv, BaseInv
<1>2. UNCHANGED <<seqId, nextSeq, reverseSeq, preciousWork>>
  BY <1>1 DEF sequence
<1>3. SequenceOK' /\ Setting' /\ \A a, d : Better(a, d)' <=> Better(a, d)
  BY <1>2 DEF IInv, SequenceOK, Setting, OneThread, Better
<1>4. \A u \in Threads : u = t
  BY DEF IInv, Setting, OneThread
<1> QED BY <1>1, <1>2, <1>3, <1>4

\* An iteration that finds nothing to do.
LEMMA RestsStep ==
  ASSUME IInv, BaseInv', FlagsOK', NEW t \in Threads, ActivateBestChain(t),
         Rests(t, Target(t))
  PROVE  IInv'
<1> DEFINE m == Target(t)
<1>1. /\ pc[t] = "abc" /\ \A u \in Threads : u = t
      /\ failedChild' = failedChild \cup Marks(t) /\ linked' = linked
      /\ SequenceOK' /\ Setting' /\ \A a, d : Better(a, d)' <=> Better(a, d)
  BY IterationKeeps
<1>2. /\ m \in Blocks /\ m # None /\ m \in Cands(t) /\ (m \in Anc[tip] => m = tip)
      /\ \A c \in candidates : Good(c) => ~Better(c, m)
      /\ Cands(t) \subseteq candidates
  BY <1>1, TargetFacts
<1>3. /\ m = tip /\ tip' = tip /\ candidates' = Cands(t) /\ Leaves(t)
      /\ failedValid' = failedValid /\ scripts' = scripts /\ ~assertFailed'
  BY <1>2 DEF Rests
<1>4. \A d : Good(d)' <=> Good(d)
  BY <1>3 DEF Good, InvalidAbove
<1>5. ActiveOK' /\ ScriptsOK'
  BY <1>3, <1>4 DEF IInv, ActiveOK, ScriptsOK, Active
<1>6. CandidatesOK'
  BY <1>1, <1>2, <1>3 DEF IInv, CandidatesOK
<1>7. Failed' = Failed \cup Marks(t)
  BY <1>1, <1>3 DEF Failed
<1>8. PICK a \in Cands(t) :
        /\ Anc[a] \subseteq scripts /\ Good(a) /\ ~Better(a, m)
        /\ \A d \in linked \ (Failed \cup Marks(t)) : d \in Cands(t) \/ Better(a, d)
  BY <1>1, AnchorStays
<1>9. Anchored' /\ Covers(a)'
  BY <1>1, <1>3, <1>4, <1>7, <1>8 DEF Anchored, Covers
<1>10. Covers(tip)'
  <2>1. /\ candidates \subseteq Blocks /\ linked \subseteq Blocks
        /\ seqId \in [Blocks -> Int] /\ tip \in Blocks
    BY OrderTypes DEF IInv
  <2>2. \A d \in Blocks : Better(a, d) => Better(tip, d)
    BY <1>2, <1>3, <1>8, <2>1, BetterOrders DEF Better
  <2> QED BY <1>1, <1>3, <1>7, <1>8, <2>1, <2>2 DEF Covers
<1>11. AtRest'
  BY <1>1, <1>2, <1>3, <1>4, <1>10 DEF AtRest
<1>12. \A u \in Threads : pc'[u] = "idle" /\ blk'[u] = None /\ mostWork'[u] = None
  BY <1>1, <1>3 DEF Leaves, IInv, BaseInv, TypeOK
<1>13. MostWorkOK' /\ BlockOK'
  BY <1>12 DEF MostWorkOK, BlockOK
<1> QED BY <1>1, <1>3, <1>5, <1>6, <1>9, <1>11, <1>13 DEF IInv

\* An iteration that connects blocks.
LEMMA AdvancesStep ==
  ASSUME IInv, BaseInv', FlagsOK', NEW t \in Threads, ActivateBestChain(t),
         NEW b \in Blocks, Advances(t, Target(t), b)
  PROVE  IInv' /\ Work[tip] <= Work[tip'] /\ (pc'[t] = "abc" => Work[tip] < Work[tip'])
<1> DEFINE m == Target(t)
<1>1. /\ pc[t] = "abc" /\ \A u \in Threads : u = t
      /\ failedChild' = failedChild \cup Marks(t) /\ linked' = linked /\ seqId' = seqId
      /\ SequenceOK' /\ Setting' /\ \A a, d : Better(a, d)' <=> Better(a, d)
  BY IterationKeeps
<1>2. /\ m \in Blocks /\ m # None /\ m \in Cands(t) /\ Good(m) /\ Work[tip] <= Work[m]
      /\ \A c \in candidates : Good(c) => ~Better(c, m)
      /\ Cands(t) \subseteq candidates
  BY <1>1, TargetFacts
<1>3. /\ tip' = b /\ candidates' = Prune(Cands(t), seqId, b)
      /\ scripts' = scripts \cup ((Anc[b] \ Anc[tip]) \ (failedValid \cup failedChild'))
      /\ assertFailed' = (candidates' = {})
      /\ m \in Blocks \ Anc[tip] /\ b = StopAt(t, m) /\ ConnectOk(t, b, m)
      /\ failedValid' = failedValid
  BY DEF Advances
<1>4. /\ b \in Anc[m] \ Anc[tip] /\ b \in Blocks \ {Genesis}
      /\ Work[b] > Work[tip] \/ b = m
      /\ \A d \in Anc[Parent[b]] \ Anc[tip] : ConnectOk(t, d, m)
  BY <1>3, StopFacts DEF IInv, BaseInv
<1>5. /\ tip \in Blocks /\ linked \subseteq Blocks /\ candidates \subseteq linked
      /\ seqId \in [Blocks -> Int] /\ Work \in [Blocks -> Nat]
      /\ Anc[tip] \subseteq scripts /\ Genesis \in Anc[tip]
      /\ Anc[b] = {b} \cup Anc[Parent[b]] /\ Anc[b] \subseteq Anc[m] /\ b \in Anc[b]
  <2>1. /\ tip \in Blocks /\ linked \subseteq Blocks /\ candidates \subseteq linked
        /\ seqId \in [Blocks -> Int] /\ Anc[tip] \subseteq scripts
    BY OrderTypes DEF IInv, ActiveOK, Active
  <2> QED BY <1>2, <1>4, <2>1, Tree
<1>6. /\ Failed' = Failed \cup Marks(t)
      /\ \A d : Good(d)' <=> Good(d)
  BY <1>1, <1>3 DEF Failed, Good, InvalidAbove
<1>7. \A d \in Anc[m] : d \in linked /\ Good(d) /\ d \notin Failed \cup Marks(t)
  BY <1>1, PathFacts
<1>8. Anc[b] \subseteq scripts'
  BY <1>1, <1>3, <1>5, <1>7 DEF Failed
<1>9. ActiveOK'
  BY <1>3, <1>4, <1>6, <1>7, <1>8 DEF ActiveOK, Active
<1>10. ScriptsOK'
  <2>1. \A d \in Anc[b] \ Anc[tip] : d \notin BadConnect /\ CheckBlock(d, Height[Parent[d]])
    BY <1>1, <1>3, <1>4, <1>5, ConnectedRechecks
  <2> QED BY <1>3, <2>1 DEF IInv, ScriptsOK
<1>11. CandidatesOK'
  BY <1>1, <1>3 DEF CandidatesOK, Prune, Better
<1>12. m \in candidates' /\ ~assertFailed'
  <2>1. b = m \/ Work[b] < Work[m]
    BY <1>4, <1>2, Upwards
  <2>2. ~BetterBy(seqId, b, m)
    BY <1>2, <1>4, <1>5, <2>1, BetterOrders
  <2> QED BY <1>2, <1>3, <2>2 DEF Prune
<1>13. Anchored'
  <2>1. PICK a \in candidates' :
          /\ Anc[a] \subseteq scripts \/ a = b
          /\ Good(a)
          /\ \A d \in linked \ (Failed \cup Marks(t)) : d \in candidates' \/ Better(a, d)
    BY <1>1, <1>3, <1>4, <1>7, AnchorMoves
  <2>2. Anc[a] \subseteq scripts'
    BY <1>3, <1>8, <2>1
  <2>3. Covers(a)'
    BY <1>1, <1>6, <2>1 DEF Covers
  <2> QED BY <1>6, <2>1, <2>2, <2>3 DEF Anchored
<1>14. \A c \in candidates' : c \in candidates /\ (Good(c) => ~Better(c, m))
  BY <1>2, <1>3 DEF Prune
<1>15. CASE b = m
  <2>1. Leaves(t)
    BY <1>15 DEF Advances
  <2>2. \A u \in Threads : pc'[u] = "idle" /\ blk'[u] = None /\ mostWork'[u] = None
    BY <1>1, <2>1 DEF Leaves, IInv, BaseInv, TypeOK
  <2>3. MostWorkOK' /\ BlockOK'
    BY <2>2 DEF MostWorkOK, BlockOK
  <2>4. PICK a \in Cands(t) :
          /\ Good(a) /\ ~Better(a, m)
          /\ \A d \in linked \ (Failed \cup Marks(t)) : d \in Cands(t) \/ Better(a, d)
    BY <1>1, AnchorStays
  <2>5. \A d \in Blocks : Better(a, d) => Better(m, d)
    BY <1>2, <1>5, <2>4, BetterOrders DEF Better
  <2>6. \A d \in Cands(t) : d \in candidates' \/ Better(m, d)
    BY <1>3, <1>15 DEF Prune, Better
  <2>7. Covers(tip)'
    <3>1. \A d \in linked \ (Failed \cup Marks(t)) : d \in candidates' \/ Better(m, d)
      BY <1>5, <2>4, <2>5, <2>6
    <3>2. \A d \in linked' \ Failed' : d \in candidates' \/ BetterBy(seqId', tip', d)
      BY <1>1, <1>3, <1>6, <1>15, <3>1 DEF Better
    <3> QED BY <3>2 DEF Covers, Better
  <2>8. AtRest'
    <3>1. \A c \in candidates' : Good(c)' => ~Better(c, tip)'
      BY <1>1, <1>3, <1>6, <1>14, <1>15 DEF Better
    <3> QED BY <1>3, <1>12, <1>15, <2>7, <3>1 DEF AtRest
  <2> QED BY <1>1, <1>2, <1>3, <1>9, <1>10, <1>11, <1>12, <1>13, <1>15, <2>2, <2>3, <2>8
          DEF IInv
<1>16. CASE b # m
  <2>1. mostWork' = [mostWork EXCEPT ![t] = m] /\ UNCHANGED <<pc, blk>>
    BY <1>16 DEF Advances
  <2>2. m \notin Anc[b]
    BY <1>2, <1>4, <1>16, Upwards
  <2>3. MostWorkOK'
    <3>1. mostWork'[t] = m
      BY <2>1 DEF IInv, BaseInv, TypeOK
    <3>2. \A c \in candidates' : Good(c)' => ~Better(c, m)
      BY <1>6, <1>14
    <3> QED BY <1>1, <1>2, <1>3, <1>6, <1>12, <2>1, <2>2, <3>1, <3>2
            DEF MostWorkOK, Active, Better
  <2>4. BlockOK'
    BY <1>1, <1>6, <2>1 DEF IInv, BlockOK
  <2>5. AtRest'
    BY <1>1, <2>1 DEF AtRest, Idle
  <2>6. Work[tip] < Work[tip']
    BY <1>3, <1>4, <1>5, <1>16
  <2>7. Work[tip] <= Work[tip']
    BY <1>3, <1>5, <2>6
  <2> QED BY <1>1, <1>9, <1>10, <1>11, <1>12, <1>13, <2>3, <2>4, <2>5, <2>6, <2>7 DEF IInv
<1> QED BY <1>15, <1>16

\* An iteration that meets an invalid block.
LEMMA FailsStep ==
  ASSUME IInv, BaseInv', FlagsOK', NEW t \in Threads, ActivateBestChain(t),
         NEW b \in Blocks, Fails(t, Target(t), b)
  PROVE  IInv' /\ failedValid' # failedValid
<1> DEFINE m == Target(t)
           p == Parent[b]
<1>1. /\ pc[t] = "abc" /\ \A u \in Threads : u = t
      /\ failedChild' = failedChild \cup Marks(t) /\ linked' = linked /\ seqId' = seqId
      /\ SequenceOK' /\ Setting' /\ \A a, d : Better(a, d)' <=> Better(a, d)
  BY IterationKeeps
<1>2. /\ m \in Blocks /\ m # None /\ m \in Cands(t) /\ Cands(t) \subseteq candidates
  BY <1>1, TargetFacts
<1>3. /\ tip' = p
      /\ scripts' = scripts \cup ((Anc[p] \ Anc[tip]) \ (failedValid \cup failedChild'))
      /\ m \in Blocks \ Anc[tip] /\ b = StopAt(t, m) /\ ~ConnectOk(t, b, m)
      /\ failedValid' = failedValid \cup {b}
      /\ mostWork' = [mostWork EXCEPT ![t] = None] /\ UNCHANGED <<pc, blk>>
  BY DEF Fails
<1>4. /\ b \in Anc[m] \ Anc[tip] /\ b \in Blocks \ {Genesis}
      /\ p \in Anc[m]
      /\ \A d \in Anc[p] \ Anc[tip] : ConnectOk(t, d, m)
  BY <1>3, StopFacts DEF IInv, BaseInv
<1>5. /\ tip \in Blocks /\ linked \subseteq Blocks /\ candidates \subseteq linked
      /\ seqId \in [Blocks -> Int] /\ Work \in [Blocks -> Nat]
      /\ Anc[tip] \subseteq scripts /\ Genesis \in Anc[tip]
      /\ b \notin Anc[p] /\ Anc[p] \subseteq Anc[m] /\ p \in Anc[p] /\ p \in Blocks
      /\ p # b
  <2>1. /\ tip \in Blocks /\ linked \subseteq Blocks /\ candidates \subseteq linked
        /\ seqId \in [Blocks -> Int] /\ Anc[tip] \subseteq scripts
    BY OrderTypes DEF IInv, ActiveOK, Active
  <2>2. p \in Blocks /\ b \notin Anc[p] /\ p \in Anc[p] /\ Anc[p] \subseteq Anc[m]
    BY <1>2, <1>4, Tree
  <2> QED BY <2>1, <2>2, Tree
<1>6. \A d \in Anc[m] : d \in linked /\ Good(d) /\ d \notin Failed \cup Marks(t)
  BY <1>1, PathFacts
<1>7. b \notin scripts
  BY <1>3, <1>4 DEF IInv, ScriptsOK, ConnectOk
<1>8. /\ Failed' = Failed \cup Marks(t) \cup {b}
      /\ \A d : Good(d)' <=> Good(d) /\ b \notin Anc[d]
  BY <1>1, <1>3 DEF Failed, Good, InvalidAbove
<1>9. failedValid' # failedValid
  BY <1>3, <1>4, <1>6 DEF Failed
<1>10. Anc[p] \subseteq scripts'
  BY <1>1, <1>3, <1>5, <1>6 DEF Failed
<1>11. ActiveOK'
  BY <1>3, <1>4, <1>5, <1>6, <1>8, <1>10 DEF ActiveOK, Active
<1>12. ScriptsOK'
  <2>1. \A d \in Anc[p] \ Anc[tip] : d \notin BadConnect /\ CheckBlock(d, Height[Parent[d]])
    BY <1>1, <1>4, <1>5, ConnectedRechecks
  <2> QED BY <1>3, <2>1 DEF IInv, ScriptsOK
<1>13. /\ CandidatesOK' /\ ~assertFailed'
       /\ \E a \in candidates' :
            /\ Anc[a] \subseteq scripts \/ a = p
            /\ Good(a)
            /\ \A d \in linked \ Failed' : d \in candidates' \/ Better(a, d)
  <2>1. CASE p \in Anc[tip]
    <3>1. candidates' = Cands(t) \ {b} /\ ~assertFailed'
      BY <2>1 DEF Fails
    <3>2. \A c \in candidates' : ~Better(p, c)
      BY <1>2, <2>1, <3>1, LowerTip
    <3>3. CandidatesOK'
      BY <1>1, <1>3, <3>2 DEF CandidatesOK, Better
    <3>4. PICK a \in Cands(t) :
            /\ Anc[a] \subseteq scripts /\ Good(a)
            /\ \A d \in linked \ (Failed \cup Marks(t)) : d \in Cands(t) \/ Better(a, d)
      BY <1>1, AnchorStays
    <3>5. a # b
      BY <1>2, <1>5, <1>7, <3>4, Tree
    <3> QED BY <1>8, <3>1, <3>3, <3>4, <3>5
  <2>2. CASE p \notin Anc[tip]
    <3> DEFINE C == Prune(Cands(t), seqId, p)
    <3>1. candidates' = C \ {b} /\ assertFailed' = (C = {})
      BY <2>2 DEF Fails
    <3>2. m \in C
      <4>1. p = m \/ Work[p] < Work[m]
        BY <1>2, <1>4, Upwards
      <4>2. ~BetterBy(seqId, p, m)
        BY <1>2, <1>5, <4>1, BetterOrders
      <4> QED BY <1>2, <4>2 DEF Prune
    <3>3. CandidatesOK'
      BY <1>1, <1>3, <3>1 DEF CandidatesOK, Prune, Better
    <3>4. PICK a \in C :
            /\ Anc[a] \subseteq scripts \/ a = p
            /\ Good(a)
            /\ \A d \in linked \ (Failed \cup Marks(t)) : d \in C \/ Better(a, d)
      BY <1>1, <1>4, <1>6, AnchorMoves
    <3>5. a # b
      <4>1. a \in Blocks BY <1>2, <1>5, <3>4 DEF Prune
      <4> QED BY <1>5, <1>7, <3>4, <4>1, Tree
    <3> HIDE DEF C
    <3> QED BY <1>8, <3>1, <3>2, <3>3, <3>4, <3>5
  <2> QED BY <2>1, <2>2
<1>14. Anchored'
  <2>1. PICK a \in candidates' :
          /\ Anc[a] \subseteq scripts \/ a = p
          /\ Good(a)
          /\ \A d \in linked \ Failed' : d \in candidates' \/ Better(a, d)
    BY <1>13
  <2>2. Anc[a] \subseteq scripts' /\ b \notin Anc[a]
    BY <1>3, <1>5, <1>7, <1>10, <2>1
  <2>3. Covers(a)'
    BY <1>1, <2>1 DEF Covers
  <2> QED BY <1>8, <2>1, <2>2, <2>3 DEF Anchored
<1>15. AtRest' /\ MostWorkOK'
  <2>1. mostWork'[t] = None
    BY <1>3 DEF IInv, BaseInv, TypeOK
  <2> QED BY <1>1, <1>3, <2>1 DEF AtRest, Idle, MostWorkOK
<1>16. BlockOK'
  BY <1>1, <1>3, <1>8 DEF IInv, BlockOK
<1> QED BY <1>1, <1>9, <1>11, <1>12, <1>13, <1>14, <1>15, <1>16 DEF IInv

\* Every step keeps the inductive invariant.
LEMMA NextIInv == IInv /\ ForkByWork /\ [Next]_vars => IInv'
<1> SUFFICES ASSUME IInv, ForkByWork, [Next]_vars PROVE IInv' OBVIOUS
<1>1. BaseInv' /\ FlagsOK'
  BY NextBase, NextFlags DEF IInv, Setting
<1>2. CASE Next
  <2>1. ASSUME NEW t \in Threads, ActivateBestChain(t) PROVE IInv'
    BY <1>1, <2>1, IterationKeeps, RestsStep, AdvancesStep, FailsStep
  <2> QED BY <1>1, <1>2, <2>1, HeaderStep, CheckStep, AcceptStep, RestartStep, PreciousStep,
             InvalidateStep, ReconsiderStep DEF Next
<1>3. CASE UNCHANGED vars
  <2>1. UNCHANGED <<linked, scripts, candidates, tip, sequence, failedValid, failedChild,
                    pc, blk, mostWork, assertFailed, seqId>>
    BY <1>3 DEF vars, flags, stored, sequence, threads
  <2>2. /\ Failed' = Failed /\ (Idle' <=> Idle) /\ ~assertFailed'
        /\ \A d : Good(d)' <=> Good(d)
    BY <2>1 DEF Failed, Idle, Good, InvalidAbove, IInv
  <2>3. MostWorkOK' /\ BlockOK'
    BY <2>1, <2>2 DEF IInv, MostWorkOK, BlockOK, Active, Better
  <2> QED BY <1>1, <2>1, <2>2, <2>3, QuietStep
<1> QED BY <1>2, <1>3

\* What the node has seen, it has seen for good.
LEMMA ForkByWorkBefore == BaseInv /\ [Next]_vars /\ ForkByWork' => ForkByWork
<1> SUFFICES ASSUME BaseInv, [Next]_vars PROVE index \subseteq index'
  BY DEF ForkByWork
<1> QED BY DEF Next, vars, stored, flags, AcceptBlockHeader, AddToBlockIndex, RejectHeader,
               CheckNewBlock, AcceptBlock, ActivateBestChain, PreciousBlock,
               InvalidateBlock, ReconsiderBlock, Restart

\* The invariant on which the theorems about the active chain rest: it holds as
\* long as work has followed height around the fork.
LEMMA Invariance == Spec /\ Setting => [](ForkByWork => IInv)
<1> DEFINE J == BaseInv /\ (ForkByWork => IInv)
<1>1. Init /\ Setting => J
  BY InitBase, InitIInv
<1>2. J /\ [Next]_vars => J'
  BY NextBase, NextIInv, ForkByWorkBefore
<1>3. J => (ForkByWork => IInv)
  OBVIOUS
<1> HIDE DEF J
<1> QED BY <1>1, <1>2, <1>3, PTL DEF Spec

\* Every active block was connected and carries no failure flag, through
\* reorganisations, operator commands and restarts.
THEOREM ActiveChainStaysValid == Spec /\ Setting => [](ForkByWork => ActiveChainValid)
<1>1. IInv => ActiveChainValid
  <2> SUFFICES ASSUME IInv PROVE ActiveChainValid OBVIOUS
  <2>1. Anc[tip] \cap Failed = {}
    BY GoodChains DEF IInv, BaseInv, TypeOK, ActiveOK
  <2> QED BY <2>1 DEF IInv, ActiveOK, ActiveChainValid, Active
<1> QED BY <1>1, Invariance, PTL

\* setBlockIndexCandidates holds no block worse than the tip and, outside
\* ActivateBestChain, every better one that is not known to be invalid.
THEOREM CandidatesStayExact == Spec /\ Setting => [](ForkByWork => CandidatesExact)
<1>1. IInv => CandidatesExact
  <2> SUFFICES ASSUME IInv PROVE CandidatesExact OBVIOUS
  <2>1. /\ candidates \subseteq linked /\ linked \subseteq Blocks /\ tip \in Blocks
        /\ seqId \in [Blocks -> Int] /\ TypeOK /\ FlagsOK
    BY OrderTypes DEF IInv, BaseInv
  <2>2. \A b \in candidates : b \in linked /\ ~Better(tip, b)
    BY <2>1 DEF IInv, CandidatesOK
  <2>3. ASSUME Idle, NEW b \in linked, Preferred(b, tip), ~InvalidAbove(b)
        PROVE  b \in candidates
    <3>1. Better(b, tip)
      BY <2>3 DEF Preferred, Better, BetterBy
    <3>2. ~Better(tip, b)
      BY <2>1, <3>1, BetterOrders DEF Better
    <3>3. b \notin Failed
      BY <2>1, <2>3, GoodChains DEF Good
    <3> QED BY <2>3, <3>2, <3>3 DEF IInv, AtRest, Covers
  <2>4. Idle => tip \in candidates
    BY DEF IInv, AtRest
  <2> QED BY <2>2, <2>3, <2>4 DEF CandidatesExact
<1> QED BY <1>1, Invariance, PTL

\* When ActivateBestChain is done, no complete chain without a failure flag is
\* preferred to the active one.
THEOREM BestChainIsActive == Spec /\ Setting => [](ForkByWork => ActivatedBest)
<1>1. IInv => ActivatedBest
  <2> SUFFICES ASSUME IInv, Idle, NEW b \in linked, Anc[b] \cap Failed = {}, Preferred(b, tip)
               PROVE  FALSE
    BY DEF ActivatedBest
  <2>1. /\ linked \subseteq Blocks /\ tip \in Blocks /\ seqId \in [Blocks -> Int]
        /\ TypeOK /\ FlagsOK
    BY OrderTypes DEF IInv, BaseInv
  <2>2. Better(b, tip) /\ Good(b) /\ b \notin Failed
    BY <2>1, GoodChains DEF Preferred, Better, BetterBy
  <2>3. ~Better(tip, b)
    BY <2>1, <2>2, BetterOrders DEF Better
  <2> QED BY <2>2, <2>3 DEF IInv, AtRest, Covers
<1> QED BY <1>1, Invariance, PTL

\* An active block at or above the fork height that carries no signature is only
\* possible once the node has seen a chain that reached the fork height with no
\* more work than one that did not.  CheckBlock asks for the signature by the
\* height of the tip, and fChecked keeps its answer; the code does not exclude
\* that case.
THEOREM AuthorizedIfForkByWork == Spec /\ Setting => [](ForkByWork => AuthorizedChain)
<1>1. IInv => AuthorizedChain
  <2> SUFFICES ASSUME IInv, AuthForkHeight > 0, NEW b \in Active, Height[b] >= AuthForkHeight
               PROVE  b \in Signed
    BY DEF AuthorizedChain
  <2>1. tip \in Blocks /\ AuthForkHeight \in Nat
    BY RuleAssumption DEF IInv, BaseInv, TypeOK
  <2>2. b \in Blocks
    BY <2>1, Tree DEF Active
  <2>3. b # Genesis
    BY <2>1, TreeAssumption
  <2>4. b \in scripts \ {Genesis}
    BY <2>3 DEF IInv, ActiveOK
  <2>5. CheckBlock(b, Height[Parent[b]])
    BY <2>4 DEF IInv, ScriptsOK
  <2>6. Height[Parent[b]] + 1 = Height[b]
    BY <2>2, <2>3, TreeAssumption
  <2> QED BY <2>5, <2>6 DEF CheckBlock
<1> QED BY <1>1, Invariance, PTL

\* No assertion of validation.cpp fails: the candidates are never empty after
\* pruning, and g_failed_blocks holds only invalid blocks.
THEOREM AssertsHold == Spec /\ Setting => [](ForkByWork => NoAssertFails)
<1>1. IInv => NoAssertFails BY DEF IInv, NoAssertFails
<1> QED BY <1>1, Invariance, PTL

\* The active chain loses work only in a step that finds or declares a block
\* invalid.
THEOREM WorkIsKept ==
  Spec /\ Setting /\ []ForkByWork => WorkLossNeedsInvalidBlock
<1>1. IInv /\ [Next]_vars => [Work[tip'] < Work[tip] => failedValid' # failedValid]_vars
  <2> SUFFICES ASSUME IInv, Next, Work[tip'] < Work[tip] PROVE failedValid' # failedValid
    OBVIOUS
  <2>1. BaseInv' /\ FlagsOK'
    BY NextBase, NextFlags DEF IInv, Setting
  <2>2. tip \in Blocks /\ tip' \in Blocks /\ Work \in [Blocks -> Nat]
    BY <2>1, Tree DEF IInv, BaseInv, TypeOK
  <2>3. tip' # tip
    BY <2>2
  <2>4. ASSUME NEW t \in Threads, ActivateBestChain(t) PROVE failedValid' # failedValid
    <3>1. CASE Rests(t, Target(t))
      <4>1. tip' = tip
        BY <2>4, <3>1, IterationKeeps, TargetFacts DEF Rests
      <4> QED BY <2>3, <4>1
    <3>2. ASSUME NEW b \in Blocks, Advances(t, Target(t), b) PROVE FALSE
      <4>1. Work[tip] <= Work[tip']
        BY <2>1, <2>4, <3>2, AdvancesStep
      <4> QED BY <2>2, <4>1
    <3> QED BY <2>1, <2>4, <3>1, <3>2, IterationKeeps, FailsStep
  <2>5. ASSUME NEW t \in Threads, NEW b \in Blocks, InvalidateBlock(t, b)
        PROVE  failedValid' # failedValid
    <3>1. b \in Anc[tip] /\ failedValid' = failedValid \cup {b}
      BY <2>3, <2>5 DEF InvalidateBlock
    <3>2. b \notin failedValid
      BY <3>1 DEF IInv, ActiveOK, Good, InvalidAbove
    <3> QED BY <3>1, <3>2
  <2>6. \/ \E t \in Threads : ActivateBestChain(t)
        \/ \E t \in Threads, b \in Blocks : InvalidateBlock(t, b)
    BY <2>3 DEF Next, AcceptBlockHeader, RejectHeader, CheckNewBlock, AcceptBlock,
                ReceivedBlockTransactions, Restart, PreciousBlock, ReconsiderBlock
  <2> QED BY <2>4, <2>5, <2>6
<1> QED BY <1>1, Invariance, PTL DEF Spec, WorkLossNeedsInvalidBlock

\* An iteration after which ActivateBestChain goes on has gained work or found a
\* new invalid block: the loop cannot run for ever on a finite tree.
THEOREM LoopProgresses ==
  Spec /\ Setting /\ []ForkByWork => ActivationProgresses
<1> DEFINE P == \A t \in Threads :
                  pc[t] = "abc" /\ pc'[t] = "abc" /\ ActivateBestChain(t) =>
                    \/ Work[tip'] > Work[tip]
                    \/ failedValid' # failedValid
<1>1. IInv /\ [Next]_vars => [P]_vars
  <2> SUFFICES ASSUME IInv, Next, NEW t \in Threads, pc'[t] = "abc", ActivateBestChain(t)
               PROVE  Work[tip'] > Work[tip] \/ failedValid' # failedValid
    OBVIOUS
  <2>1. BaseInv' /\ FlagsOK'
    BY NextBase, NextFlags DEF IInv, Setting
  <2>2. tip \in Blocks /\ tip' \in Blocks /\ Work \in [Blocks -> Nat]
    BY <2>1, Tree DEF IInv, BaseInv, TypeOK
  <2>3. ~Rests(t, Target(t))
    BY DEF Rests, Leaves, IInv, BaseInv, TypeOK
  <2>4. ASSUME NEW b \in Blocks, Advances(t, Target(t), b) PROVE Work[tip'] > Work[tip]
    <3>1. Work[tip] < Work[tip']
      BY <2>1, <2>4, AdvancesStep
    <3> QED BY <2>2, <3>1
  <2> QED BY <2>1, <2>3, <2>4, IterationKeeps, FailsStep
<1> QED BY <1>1, Invariance, PTL DEF Spec, ActivationProgresses
=============================================================================
