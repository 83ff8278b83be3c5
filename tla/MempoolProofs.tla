--------------------------- MODULE MempoolProofs ----------------------------
(***************************************************************************)
(* Proofs about Mempool, for any transactions, blocks and limits: the      *)
(* links mirror the inputs, the totals are sums over true ancestors and    *)
(* descendants, every pool transaction is fit for the next block, and a    *)
(* replacement pays for what it replaces.                                  *)
(***************************************************************************)
EXTENDS Mempool, FiniteSetTheorems, SequenceTheorems, WellFoundedInduction, TLAPS

-----------------------------------------------------------------------------
(* The invariant.                                                          *)

\* The members of a pool.
Fields(p) == p = [txs |-> p.txs, feeDelta |-> p.feeDelta, anc |-> p.anc, desc |-> p.desc,
                  par |-> p.par, chi |-> p.chi, delta |-> p.delta]

\* Links go both ways, and only between pool transactions that the inputs connect.
SoundLinks(txs, par, chi) ==
  /\ txs \in SUBSET Txs /\ par \in [Txs -> SUBSET Txs] /\ chi \in [Txs -> SUBSET Txs]
  /\ \A x, y \in Txs : y \in par[x] <=> x \in chi[y]
  /\ \A x, y \in Txs : y \in par[x] => x \in txs /\ y \in txs /\ y \in Sources(x)

Sound(p) == /\ Fields(p) /\ p.feeDelta \in [Txs -> Int] /\ p.delta \in [Txs -> Int]
            /\ SoundLinks(p.txs, p.par, p.chi)

\* Counts and fees.
Amounts == [n : Int, fee : Int]

\* The totals of each entry are the sums over what its links reach.
Summed(p) == /\ p.anc \in [Txs -> Amounts] /\ p.desc \in [Txs -> Amounts]
             /\ \A x \in p.txs : /\ p.feeDelta[x] = p.delta[x]
                                 /\ p.anc[x] = Total(p, Closure(p.par, {x}))
                                 /\ p.desc[x] = Total(p, Closure(p.chi, {x}))
             /\ \A x \in Txs \ p.txs : p.desc[x] = None

\* The only links that may miss are those from transactions outside B to parents in A.
Linked(txs, par, A, B) ==
  \A x, y \in txs : y \in Sources(x) => y \in par[x] \/ (y \in A /\ x \notin B)

\* Inputs are in the pool, or outputs of G that none of X spends.
Live(txs, G, X) ==
  \A t \in txs : \A o \in Spends(t) :
    o[1] \in txs \/ (o[1] \in G /\ \A u \in X : o \notin Spends(u))

\* No two transactions spend the same output.
Single(txs) == \A t, u \in txs : t # u => Spends(t) \cap Spends(u) = {}

\* A pool on the way: the children outside B of A wait for their links; G are the
\* sources of coins and X the spenders in the chain.
Tied(p, A, B, G, X) == /\ Sound(p) /\ Linked(p.txs, p.par, A, B)
                       /\ Live(p.txs, G, X) /\ Single(p.txs)
Fit(p, A, B, G, X) == Tied(p, A, B, G, X) /\ Summed(p)

\* A transaction can be in the block after b, as to times.
InTime(b, t) == Final(b, t) /\ \A o \in Spends(t) : Mature(b, o)

\* A pool at rest, with tip b.
Rest(p, b) == /\ Fit(p, {}, {}, Base(b), InChain(b))
              /\ p.txs \cap InChain(b) = {}
              /\ \A t \in p.txs : InTime(b, t)

Inv == tip \in Blocks /\ Rest(pool, tip)

-----------------------------------------------------------------------------
(* Numbers.                                                                *)

\* A set of numbers that is not empty has a least one.
LEMMA Least ==
  ASSUME NEW H \in SUBSET Nat, H # {}
  PROVE  \E h \in H : \A y \in H : h <= y
<1>1. PICK h \in H : \A y \in H : ~(<<y, h>> \in OpToRel(<, Nat))
  BY NatLessThanWellFounded, WFMin
<1>2. \A y \in H : ~(y < h)
  BY <1>1 DEF OpToRel
<1>3. QED
  BY <1>2

\* A set that holds 0 and the successor of every number it holds is Nat.
LEMMA SetInduction ==
  ASSUME NEW N \in SUBSET Nat, 0 \in N, \A n \in N : n + 1 \in N
  PROVE  N = Nat
<1> SUFFICES ASSUME Nat \ N # {} PROVE FALSE
  OBVIOUS
<1>1. PICK m \in Nat \ N : \A y \in Nat \ N : m <= y
  BY Least
<1>2. m # 0 /\ m - 1 \in Nat
  OBVIOUS
<1>3. m - 1 \in N
  BY <1>1, <1>2
<1>4. m - 1 + 1 = m
  BY <1>2
<1>5. QED
  BY <1>3, <1>4

-----------------------------------------------------------------------------
(* The tree of blocks.                                                     *)

\* The numbers and heights of blocks, as the assumption has them.
LEMMA TreeFacts ==
  /\ Blocks \subseteq Nat /\ 0 \in Blocks /\ Height[0] = 0 /\ IsFiniteSet(Blocks)
  /\ \A b \in Blocks \ {0} : /\ Parent[b] \in Blocks /\ Parent[b] \in Nat /\ Parent[b] < b
                             /\ Height[b] = Height[Parent[b]] + 1
BY MempoolAssumption

\* A set that holds block 0 and every block whose parent it holds holds all.
LEMMA TreeInduction ==
  ASSUME NEW S \in SUBSET Blocks, 0 \in S,
         \A b \in Blocks \ {0} : Parent[b] \in S => b \in S
  PROVE  S = Blocks
<1> SUFFICES ASSUME Blocks \ S # {} PROVE FALSE
  OBVIOUS
<1>1. PICK b \in Blocks \ S : \A y \in Blocks \ S : b <= y
  BY Least, MempoolAssumption
<1>2. b \in Blocks \ {0} /\ Parent[b] \in Blocks /\ Parent[b] < b /\ b \in Nat /\ Parent[b] \in Nat
  BY MempoolAssumption
<1>3. Parent[b] \in S
  BY <1>1, <1>2
<1>4. QED
  BY <1>2, <1>3

\* There is a number above all blocks: a smallest set of blocks without one
\* would, without one of its blocks, have one.
LEMMA BlocksBounded == \E n \in Nat : \A b \in Blocks : b < n
<1> DEFINE Bounded(T) == \E n \in Nat : \A b \in T : b < n
           U == {T \in SUBSET Blocks : ~Bounded(T)}
           C == {Cardinality(T) : T \in U}
<1> SUFFICES ASSUME Blocks \in U PROVE FALSE
  OBVIOUS
<1>1. \A T \in SUBSET Blocks : IsFiniteSet(T) /\ Cardinality(T) \in Nat
  BY MempoolAssumption, FS_Subset, FS_CardinalityType
<1>2. C \in SUBSET Nat /\ C # {}
  BY <1>1
<1>3. PICK T \in U : \A V \in U : Cardinality(T) <= Cardinality(V)
  <2> HIDE DEF U
  <2>1. PICK c \in C : \A y \in C : c <= y
    <3> HIDE DEF C
    <3> QED BY <1>2, Least
  <2>2. QED
    BY <2>1
<1>4. T # {}
  BY MempoolAssumption
<1>5. PICK x \in T : TRUE
  BY <1>4
<1>6. Cardinality(T \ {x}) = Cardinality(T) - 1
  BY <1>1, FS_RemoveElement
<1>7. Bounded(T \ {x})
  <2>1. T \ {x} \in SUBSET Blocks
    OBVIOUS
  <2>2. T \ {x} \in U => FALSE
    <3> HIDE DEF U
    <3>1. Cardinality(T) \in Nat
      BY <1>1 DEF U
    <3>2. QED
      BY <1>3, <1>6, <3>1
  <2>3. QED
    BY <2>1, <2>2
<1>8. PICK n \in Nat : \A b \in T \ {x} : b < n
  BY <1>7
<1>9. x \in Nat /\ T \subseteq Nat
  BY MempoolAssumption
<1>10. \A b \in T : b < n + x + 1
  BY <1>8, <1>9
<1>11. n + x + 1 \in Nat
  BY <1>9
<1>12. QED
  BY <1>10, <1>11

\* Heights are numbers.
LEMMA HeightFacts == \A b \in Blocks : b \in Nat /\ Height[b] \in Nat
<1> DEFINE S == {b \in Blocks : Height[b] \in Nat}
<1>1. 0 \in S
  BY TreeFacts
<1>2. \A b \in Blocks \ {0} : Parent[b] \in S => b \in S
  BY TreeFacts
<1>3. S \in SUBSET Blocks
  OBVIOUS
<1> HIDE DEF S
<1>4. S = Blocks
  BY <1>1, <1>2, <1>3, TreeInduction
<1>5. QED
  BY <1>4, TreeFacts DEF S

\* The two functions that are defined along the tree, by name.
TreeStep(k, x, v) ==
  IF k[1] = "Chain" THEN (IF x = 0 THEN {0} ELSE {x} \cup v)
  ELSE IF x \in ChainOf(k[2].tip) THEN k[2] ELSE ConnectTip(v, x)

\* There is a solution.
LEMMA TreeStepsExist ==
  ASSUME NEW k, \A v, w : TreeStep(k, 0, v) = TreeStep(k, 0, w)
  PROVE  \E f : f = [x \in Blocks |-> TreeStep(k, x, f[Parent[x]])]
<1> DEFINE Below(n) == {b \in Blocks : b < n}
           Solves(f, n) == f = [b \in Below(n) |-> TreeStep(k, b, f[Parent[b]])]
           N == {n \in Nat : \E f : Solves(f, n)}
<1>1. 0 \in N
  <2>1. Below(0) = {}
    <3>1. \A b \in Blocks : ~(b < 0)
      BY TreeFacts
    <3>2. QED
      BY <3>1
  <2>2. Solves([b \in {} |-> {}], 0)
    BY <2>1
  <2>3. QED
    BY <2>2
<1>2. ASSUME NEW n \in N PROVE n + 1 \in N
  <2>1. PICK f : Solves(f, n)
    OBVIOUS
  <2> DEFINE g == [b \in Below(n + 1) |-> IF b = n THEN TreeStep(k, b, f[Parent[b]]) ELSE f[b]]
  <2>2. \A b \in Below(n + 1) : b # n => b \in Below(n)
    BY TreeFacts
  <2>3. \A b \in Below(n + 1) \ {0} : Parent[b] \in Below(n)
    BY TreeFacts
  <2>4. \A b \in Below(n) : b \in Below(n + 1) /\ b # n
    BY TreeFacts
  <2>5. \A b \in Below(n) : f[b] = TreeStep(k, b, f[Parent[b]])
    BY <2>1
  <2> HIDE DEF Below
  <2>6. \A b \in Below(n) : g[b] = f[b]
    BY <2>4
  <2>7. ASSUME NEW b \in Below(n + 1)
        PROVE  g[b] = TreeStep(k, b, g[Parent[b]])
    <3>1. g[b] = TreeStep(k, b, f[Parent[b]])
      BY <2>2, <2>5
    <3>2. b # 0 => g[Parent[b]] = f[Parent[b]]
      BY <2>3, <2>6
    <3> HIDE DEF g
    <3>3. CASE b = 0
      <4>1. TreeStep(k, 0, f[Parent[b]]) = TreeStep(k, 0, g[Parent[b]])
        OBVIOUS
      <4>2. QED
        BY <3>1, <3>3, <4>1
    <3>4. CASE b # 0
      BY <3>1, <3>2, <3>4
    <3>5. QED
      BY <3>3, <3>4
  <2>8. g = [b \in Below(n + 1) |-> g[b]]
    OBVIOUS
  <2> HIDE DEF g
  <2>9. Solves(g, n + 1)
    BY <2>7, <2>8
  <2>10. n + 1 \in Nat
    OBVIOUS
  <2>11. QED
    <3> HIDE DEF Solves
    <3> QED BY <2>9, <2>10
<1> HIDE DEF N
<1>3. N = Nat
  <2>1. N \in SUBSET Nat
    BY DEF N
  <2>2. QED
    BY <1>1, <1>2, <2>1, SetInduction
<1>4. PICK n \in Nat : \A b \in Blocks : b < n
  BY BlocksBounded
<1>5. Below(n) = Blocks
  BY <1>4
<1>6. PICK f : Solves(f, n)
  BY <1>3 DEF N
<1>7. f = [b \in Blocks |-> TreeStep(k, b, f[Parent[b]])]
  <2> HIDE DEF Below
  <2> QED BY <1>5, <1>6
<1>8. QED
  BY <1>7

\* The chain of a block is the block and the chain of its parent.
LEMMA ChainStep ==
  /\ ChainOf(0) = {0}
  /\ \A b \in Blocks \ {0} : ChainOf(b) = {b} \cup ChainOf(Parent[b])
<1> DEFINE Solves(f) == f = [x \in Blocks |-> IF x = 0 THEN {0} ELSE {x} \cup f[Parent[x]]]
           F == CHOOSE f : Solves(f)
<1>1. \E f : Solves(f)
  <2>1. PICK k : k = <<"Chain", 0>>
    OBVIOUS
  <2>2. \A x, v : TreeStep(k, x, v) = IF x = 0 THEN {0} ELSE {x} \cup v
    BY <2>1 DEF TreeStep
  <2>3. \A v, w : TreeStep(k, 0, v) = TreeStep(k, 0, w)
    BY <2>2
  <2>4. PICK f : f = [x \in Blocks |-> TreeStep(k, x, f[Parent[x]])]
    BY <2>3, TreeStepsExist
  <2>5. Solves(f)
    BY <2>2, <2>4
  <2>6. QED
    BY <2>5
<1>2. Solves(F)
  BY <1>1
<1>3. \A b : ChainOf(b) = F[b]
  BY DEF ChainOf
<1> HIDE DEF F
<1>4. \A b \in Blocks : F[b] = IF b = 0 THEN {0} ELSE {b} \cup F[Parent[b]]
  BY <1>2
<1>5. QED
  BY <1>3, <1>4, TreeFacts

\* What a chain holds: blocks up to its own, the root, the chains of its blocks.
LEMMA ChainFacts ==
  ASSUME NEW b \in Blocks
  PROVE  /\ ChainOf(b) \subseteq Blocks /\ 0 \in ChainOf(b) /\ b \in ChainOf(b)
         /\ \A a \in ChainOf(b) : a <= b /\ ChainOf(a) \subseteq ChainOf(b)
<1> DEFINE OK(x) == /\ ChainOf(x) \subseteq Blocks /\ 0 \in ChainOf(x) /\ x \in ChainOf(x)
                    /\ \A a \in ChainOf(x) : a <= x /\ ChainOf(a) \subseteq ChainOf(x)
           S == {x \in Blocks : OK(x)}
<1>1. 0 \in S
  BY ChainStep, TreeFacts
<1>2. ASSUME NEW x \in Blocks \ {0}, Parent[x] \in S PROVE x \in S
  <2>1. /\ ChainOf(x) = {x} \cup ChainOf(Parent[x]) /\ OK(Parent[x])
    BY <1>2, ChainStep
  <2>2. Parent[x] \in Nat /\ x \in Nat /\ Parent[x] < x
    BY TreeFacts
  <2>3. ASSUME NEW a \in ChainOf(x) PROVE a <= x /\ ChainOf(a) \subseteq ChainOf(x)
    <3>1. CASE a = x
      BY <2>2, <3>1
    <3>2. CASE a # x
      <4>1. a \in ChainOf(Parent[x]) /\ a \in Blocks
        BY <2>1, <3>2
      <4>2. a <= Parent[x] /\ a \in Nat
        BY <2>1, <4>1, TreeFacts
      <4>3. QED
        BY <2>1, <2>2, <4>1, <4>2
    <3>3. QED
      BY <3>1, <3>2
  <2>4. QED
    BY <2>1, <2>3
<1>3. S \in SUBSET Blocks
  OBVIOUS
<1> HIDE DEF S
<1>4. S = Blocks
  BY <1>1, <1>2, <1>3, TreeInduction
<1>5. QED
  BY <1>4 DEF S

-----------------------------------------------------------------------------
(* Transactions and the chain.                                             *)

\* Transactions are positive numbers.
LEMMA TxFacts == Txs \subseteq Nat /\ 0 \notin Txs /\ IsFiniteSet(Txs) /\ Cardinality(Txs) \in Nat
<1>1. Txs \subseteq Nat /\ 0 \notin Txs /\ IsFiniteSet(Txs)
  BY MempoolAssumption
<1>2. QED
  BY <1>1, FS_CardinalityType

\* A transaction has inputs, whose sources have smaller numbers.
LEMMA InputFacts ==
  ASSUME NEW t \in Txs
  PROVE  /\ t \in Nat /\ t > 0 /\ Spends(t) # {}
         /\ Inputs[t] \in Seq(Spends(t)) /\ Len(Inputs[t]) \in Nat
         /\ Spends(t) = {Inputs[t][i] : i \in 1..Len(Inputs[t])}
         /\ \A o \in Spends(t) : o[1] \in Int /\ o[1] < t /\ o[1] \in Sources(t)
         /\ \A s \in Sources(t) : s \in Int /\ s < t /\ \E o \in Spends(t) : s = o[1]
<1>1. t \in Nat /\ t > 0
  BY TxFacts
<1>2. /\ Inputs[t] \in Seq(Int \X Nat) /\ Inputs[t] # <<>>
      /\ \A i \in DOMAIN Inputs[t] : Inputs[t][i][1] < t
  BY MempoolAssumption
<1>3. PICK s : s = Inputs[t]
  OBVIOUS
<1>4. /\ s \in Seq(Int \X Nat) /\ s # <<>> /\ \A i \in DOMAIN s : s[i][1] < t
  BY <1>2, <1>3
<1>5. DOMAIN s = 1..Len(s) /\ Len(s) \in Nat /\ Len(s) # 0
  BY <1>4
<1>6. Spends(t) = {s[i] : i \in 1..Len(s)}
  BY <1>3, <1>5 DEF Spends, ToSet
<1>7. \A i \in 1..Len(s) : s[i] \in Int \X Nat /\ s[i][1] < t
  <2>1. \A i \in 1..Len(s) : s[i][1] < t
    BY <1>4, <1>5
  <2>2. \A i \in 1..Len(s) : s[i] \in Int \X Nat
    <3>1. PICK P : P = Int \X Nat
      OBVIOUS
    <3>2. s \in Seq(P)
      BY <1>4, <3>1
    <3>3. \A i \in 1..Len(s) : s[i] \in P
      BY <3>2
    <3>4. QED
      BY <3>1, <3>3
  <2>3. QED
    BY <2>1, <2>2
<1>8. \A o \in Spends(t) : o[1] \in Int /\ o[1] < t /\ o[1] \in Sources(t)
  BY <1>6, <1>7 DEF Sources
<1>9. 1 \in 1..Len(s)
  BY <1>5
<1>10. s[1] \in Spends(t)
  BY <1>6, <1>9
<1>11. \A x \in Sources(t) : x \in Int /\ x < t /\ \E o \in Spends(t) : x = o[1]
  BY <1>8 DEF Sources
<1>12. s \in Seq(Spends(t))
  <2>1. \A i \in 1..Len(s) : s[i] \in Spends(t)
    BY <1>6
  <2>2. s = [i \in 1..Len(s) |-> s[i]]
    BY <1>4
  <2>3. QED
    BY <1>5, <2>1, <2>2
<1>13. QED
  BY <1>1, <1>3, <1>5, <1>6, <1>8, <1>10, <1>11, <1>12

\* The transactions of a block.
LEMMA VtxFacts ==
  ASSUME NEW b \in Blocks
  PROVE  /\ Vtx[b] \in Seq(Txs) /\ Len(Vtx[b]) \in Nat
         /\ ToSet(Vtx[b]) = {Vtx[b][i] : i \in 1..Len(Vtx[b])} /\ ToSet(Vtx[b]) \subseteq Txs
<1>1. Vtx[b] \in Seq(Txs)
  <2>1. CASE b = 0
    <3>1. <<>> \in Seq(Txs)
      OBVIOUS
    <3>2. QED
      BY <2>1, <3>1, ValidBlocks
  <2>2. CASE b # 0
    BY <2>2, ValidBlocks
  <2>3. QED
    BY <2>1, <2>2
<1>2. PICK s \in Seq(Txs) : s = Vtx[b]
  BY <1>1
<1>3. DOMAIN s = 1..Len(s) /\ Len(s) \in Nat /\ \A i \in 1..Len(s) : s[i] \in Txs
  OBVIOUS
<1>4. ToSet(s) = {s[i] : i \in 1..Len(s)} /\ ToSet(s) \subseteq Txs
  BY <1>3 DEF ToSet
<1>5. QED
  BY <1>2, <1>3, <1>4

\* A block adds its transactions and its coinbase to the chain.
LEMMA InChainStep ==
  /\ InChain(0) = {} /\ Base(0) = {0}
  /\ \A b \in Blocks \ {0} :
       /\ InChain(b) = InChain(Parent[b]) \cup ToSet(Vtx[b])
       /\ Base(b) = Base(Parent[b]) \cup ToSet(Vtx[b]) \cup {-b}
<1>1. ChainOf(0) = {0}
  BY ChainStep
<1>2. ToSet(Vtx[0]) = {}
  <2>1. Vtx[0] = <<>>
    BY ValidBlocks
  <2>2. QED
    BY <2>1 DEF ToSet
<1>3. InChain(0) = {}
  BY <1>1, <1>2 DEF InChain
<1>4. Base(0) = {0}
  <2>1. {-a : a \in ChainOf(0)} = {0}
    BY <1>1
  <2>2. QED
    BY <1>3, <2>1 DEF Base
<1>5. ASSUME NEW b \in Blocks \ {0}
      PROVE  /\ InChain(b) = InChain(Parent[b]) \cup ToSet(Vtx[b])
             /\ Base(b) = Base(Parent[b]) \cup ToSet(Vtx[b]) \cup {-b}
  <2>1. ChainOf(b) = {b} \cup ChainOf(Parent[b])
    BY ChainStep
  <2>2. InChain(b) = InChain(Parent[b]) \cup ToSet(Vtx[b])
    BY <2>1 DEF InChain
  <2>3. {-a : a \in ChainOf(b)} = {-b} \cup {-a : a \in ChainOf(Parent[b])}
    BY <2>1
  <2>4. QED
    BY <2>2, <2>3 DEF Base
<1>6. QED
  BY <1>3, <1>4, <1>5

\* Sources that are transactions are in the chain; chains contain those below.
LEMMA InChainFacts ==
  ASSUME NEW b \in Blocks
  PROVE  /\ InChain(b) \subseteq Txs /\ InChain(b) \subseteq Base(b)
         /\ \A x \in Base(b) : x \in Txs => x \in InChain(b)
         /\ \A x \in Base(b) : x < 0 => -x \in ChainOf(b) /\ -x \in Blocks
         /\ \A a \in ChainOf(b) : InChain(a) \subseteq InChain(b) /\ Base(a) \subseteq Base(b)
<1>1. ChainOf(b) \subseteq Blocks /\ \A a \in ChainOf(b) : ChainOf(a) \subseteq ChainOf(b)
  BY ChainFacts
<1>2. \A a \in ChainOf(b) : ToSet(Vtx[a]) \subseteq Txs
  BY <1>1, VtxFacts
<1>3. InChain(b) \subseteq Txs
  BY <1>2 DEF InChain
<1>4. InChain(b) \subseteq Base(b)
  BY DEF Base
<1>5. ASSUME NEW x \in Base(b), x \in Txs PROVE x \in InChain(b)
  <2>1. x \in Nat /\ x # 0
    BY <1>5, TxFacts
  <2>2. ASSUME NEW a \in ChainOf(b) PROVE x # -a
    <3>1. a \in Nat
      BY <1>1, TreeFacts
    <3>2. QED
      BY <2>1, <3>1
  <2>3. QED
    BY <1>5, <2>1, <2>2 DEF Base
<1>6. ASSUME NEW x \in Base(b), x < 0 PROVE -x \in ChainOf(b) /\ -x \in Blocks
  <2>1. x # 0
    BY <1>6
  <2>2. x \notin InChain(b)
    <3>1. \A y \in Txs : ~(y < 0)
      BY TxFacts
    <3>2. QED
      BY <1>3, <1>6, <3>1
  <2>3. PICK a \in ChainOf(b) : x = -a
    BY <2>1, <2>2 DEF Base
  <2>4. a \in Nat /\ a \in Blocks
    BY <1>1, TreeFacts
  <2>5. -x = a
    BY <2>3, <2>4
  <2>6. QED
    BY <2>4, <2>5
<1>7. ASSUME NEW a \in ChainOf(b) PROVE InChain(a) \subseteq InChain(b) /\ Base(a) \subseteq Base(b)
  <2>1. ChainOf(a) \subseteq ChainOf(b)
    BY <1>1
  <2>2. InChain(a) \subseteq InChain(b)
    BY <2>1 DEF InChain
  <2>3. {-c : c \in ChainOf(a)} \subseteq {-c : c \in ChainOf(b)}
    BY <2>1
  <2>4. QED
    BY <2>2, <2>3 DEF Base
<1>8. QED
  BY <1>3, <1>4, <1>5, <1>6, <1>7

\* What the assumption says of the transaction at place i of block b.
LEMMA BlockFacts ==
  ASSUME NEW b \in Blocks \ {0}, NEW i \in 1..Len(Vtx[b])
  PROVE  /\ Vtx[b][i] \in Txs /\ Vtx[b][i] \in ToSet(Vtx[b])
         /\ Vtx[b][i] \notin InChain(Parent[b]) \cup Earlier(b, i)
         /\ \A o \in Spends(Vtx[b][i]) :
              /\ o[1] \in Base(Parent[b]) \cup Earlier(b, i)
              /\ \A t \in InChain(Parent[b]) \cup Earlier(b, i) : o \notin Spends(t)
         /\ Earlier(b, i) \subseteq ToSet(Vtx[b])
         /\ Earlier(b, i + 1) = Earlier(b, i) \cup {Vtx[b][i]}
<1>1. /\ Vtx[b] \in Seq(Txs) /\ Len(Vtx[b]) \in Nat
      /\ ToSet(Vtx[b]) = {Vtx[b][j] : j \in 1..Len(Vtx[b])} /\ ToSet(Vtx[b]) \subseteq Txs
  BY VtxFacts
<1>2. Vtx[b][i] \in ToSet(Vtx[b])
  BY <1>1
<1>3. 1..(i - 1) \subseteq 1..Len(Vtx[b])
  BY <1>1
<1>4. Earlier(b, i) \subseteq ToSet(Vtx[b])
  BY <1>1, <1>3 DEF Earlier
<1>5. 1..(i + 1 - 1) = 1..(i - 1) \cup {i}
  BY <1>1
<1>6. Earlier(b, i + 1) = Earlier(b, i) \cup {Vtx[b][i]}
  BY <1>5 DEF Earlier
<1>7. QED
  BY <1>1, <1>2, <1>4, <1>6, ValidBlocks

\* Transactions of a chain spend outputs of the chain, each its own.
LEMMA ChainValid ==
  ASSUME NEW b \in Blocks
  PROVE  (\A t \in InChain(b) : Sources(t) \subseteq Base(b)) /\ Single(InChain(b))
<1> DEFINE OK(x) == (\A t \in InChain(x) : Sources(t) \subseteq Base(x)) /\ Single(InChain(x))
           S == {x \in Blocks : OK(x)}
<1>1. 0 \in S
  BY InChainStep, TreeFacts DEF Single
<1>2. ASSUME NEW x \in Blocks \ {0}, Parent[x] \in S PROVE x \in S
  <2>1. /\ InChain(x) = InChain(Parent[x]) \cup ToSet(Vtx[x])
        /\ Base(x) = Base(Parent[x]) \cup ToSet(Vtx[x]) \cup {-x}
    BY InChainStep
  <2>2. OK(Parent[x])
    BY <1>2
  <2>3. ToSet(Vtx[x]) = {Vtx[x][i] : i \in 1..Len(Vtx[x])} /\ Len(Vtx[x]) \in Nat
    BY VtxFacts
  <2>4. ASSUME NEW t \in InChain(x) PROVE Sources(t) \subseteq Base(x)
    <3>1. CASE t \in InChain(Parent[x])
      BY <2>1, <2>2, <3>1
    <3>2. CASE t \in ToSet(Vtx[x])
      <4>1. PICK i \in 1..Len(Vtx[x]) : t = Vtx[x][i]
        BY <2>3, <3>2
      <4>2. \A o \in Spends(t) : o[1] \in Base(Parent[x]) \cup Earlier(x, i)
        BY <4>1, BlockFacts
      <4>3. Earlier(x, i) \subseteq ToSet(Vtx[x])
        BY BlockFacts
      <4>4. QED
        BY <2>1, <4>2, <4>3 DEF Sources
    <3>3. QED
      BY <2>1, <3>1, <3>2
  <2>5. ASSUME NEW i \in 1..Len(Vtx[x]), NEW u \in InChain(Parent[x])
        PROVE  Spends(Vtx[x][i]) \cap Spends(u) = {}
    BY BlockFacts
  <2>6. ASSUME NEW i \in 1..Len(Vtx[x]), NEW j \in 1..Len(Vtx[x]), i < j
        PROVE  Spends(Vtx[x][j]) \cap Spends(Vtx[x][i]) = {}
    <3>1. i \in 1..(j - 1)
      BY <2>3, <2>6
    <3>2. Vtx[x][i] \in Earlier(x, j)
      BY <3>1 DEF Earlier
    <3>3. QED
      BY <3>2, BlockFacts
  <2>7. ASSUME NEW t \in InChain(x), NEW u \in InChain(x), t # u
        PROVE  Spends(t) \cap Spends(u) = {}
    <3>1. CASE t \in InChain(Parent[x]) /\ u \in InChain(Parent[x])
      BY <2>2, <2>7, <3>1 DEF Single
    <3>2. CASE t \in InChain(Parent[x]) /\ u \in ToSet(Vtx[x])
      BY <2>3, <2>5, <3>2
    <3>3. CASE t \in ToSet(Vtx[x]) /\ u \in InChain(Parent[x])
      BY <2>3, <2>5, <3>3
    <3>4. CASE t \in ToSet(Vtx[x]) /\ u \in ToSet(Vtx[x])
      <4>1. PICK i \in 1..Len(Vtx[x]) : t = Vtx[x][i]
        BY <2>3, <3>4
      <4>2. PICK j \in 1..Len(Vtx[x]) : u = Vtx[x][j]
        BY <2>3, <3>4
      <4>3. i # j /\ i \in Nat /\ j \in Nat
        BY <2>7, <4>1, <4>2
      <4>4. i < j \/ j < i
        BY <4>3
      <4>5. QED
        BY <2>6, <4>1, <4>2, <4>4
    <3>5. QED
      BY <2>1, <3>1, <3>2, <3>3, <3>4
  <2>8. QED
    BY <2>4, <2>7 DEF Single
<1>3. S \in SUBSET Blocks
  OBVIOUS
<1> HIDE DEF S
<1>4. S = Blocks
  BY <1>1, <1>2, <1>3, TreeInduction
<1>5. QED
  BY <1>4 DEF S

-----------------------------------------------------------------------------
(* Operations in turn.                                                     *)

\* All transactions of s are put back, and the links of all of s are set.
ReaddAll(r, s, b, add) == InTurn(LAMBDA q, t : Readd(q, t, b, add), r, s)
UpdateAll(r, s, block) == InTurn(LAMBDA q, t : UpdateFromBlock(q, t, block), r, s)

\* The sum of the weights w of a set, one chosen element after the other.
Pick(s) == CHOOSE x \in s : TRUE
SumStep(w, F) == [s \in SUBSET Txs |-> IF s = {} THEN 0 ELSE w[Pick(s)] + F[s \ {Pick(s)}]]

\* The steps of the recursive functions over numbers, by name.
StepOf(k, m, i) ==
  IF k[1] = "Closure" THEN m \cup UNION {k[2][t] : t \in m}
  ELSE IF k[1] = "Trim" THEN UNION {TrimOnce(q) : q \in m}
  ELSE IF k[1] = "Down" THEN (IF m.tip \in ChainOf(k[2]) THEN m ELSE DisconnectTip(m))
  ELSE IF k[1] = "Conflict" THEN removeConflict(m, k[2], k[3][i])
  ELSE IF k[1] = "Confirmed" THEN Confirmed(m, k[2][i])
  ELSE IF k[1] = "Update" THEN UpdateFromBlock(m, k[2][i], k[3])
  ELSE IF k[1] = "Remove" THEN removeRecursive(m, k[2][i])
  ELSE IF k[1] = "Readd" THEN Readd(m, k[2][i], k[3], k[4])
  ELSE IF k[1] = "Sum" THEN SumStep(k[2], m)
  ELSE IF k[2][i] \in k[3] THEN m ELSE Append(m, k[2][i])

\* f is a solution of such a function.
IsRun(k, m, n, f) == f = [i \in 0..n |-> IF i = 0 THEN m ELSE StepOf(k, f[i - 1], i)]

\* There is one.
LEMMA StepsExist ==
  ASSUME NEW k, NEW m, NEW n \in Nat
  PROVE  \E f : IsRun(k, m, n, f)
<1> DEFINE N == {j \in Nat : \E f : IsRun(k, m, j, f)}
<1>1. 0 \in N
  <2>1. IsRun(k, m, 0, [i \in 0..0 |-> m])
    BY DEF IsRun
  <2>2. QED
    BY <2>1
<1>2. ASSUME NEW j \in N PROVE j + 1 \in N
  <2>1. PICK f : IsRun(k, m, j, f)
    OBVIOUS
  <2> DEFINE last == StepOf(k, f[j], j + 1)
             g == [i \in 0..(j + 1) |-> IF i = j + 1 THEN last ELSE f[i]]
  <2>2. j \in Nat
    OBVIOUS
  <2>3. \A i \in 0..j : f[i] = IF i = 0 THEN m ELSE StepOf(k, f[i - 1], i)
    BY <2>1 DEF IsRun
  <2>4. \A i \in 0..j : g[i] = f[i]
    BY <2>2
  <2>5. g[j + 1] = last
    BY <2>2
  <2>6. g = [i \in 0..(j + 1) |-> g[i]]
    OBVIOUS
  <2>7. ASSUME NEW i \in 0..(j + 1)
        PROVE  g[i] = IF i = 0 THEN m ELSE StepOf(k, g[i - 1], i)
    <3> HIDE DEF g
    <3>1. CASE i = j + 1
      <4>1. g[i - 1] = f[j] /\ i # 0
        BY <2>2, <2>4, <3>1
      <4>2. QED
        BY <2>5, <3>1, <4>1
    <3>2. CASE i # j + 1
      <4>1. i \in 0..j
        BY <2>2, <3>2
      <4>2. i # 0 => i - 1 \in 0..j
        BY <2>2, <4>1
      <4>3. g[i] = f[i] /\ (i # 0 => g[i - 1] = f[i - 1])
        BY <2>4, <4>1, <4>2
      <4>4. QED
        BY <2>3, <4>1, <4>3
    <3>3. QED
      BY <3>1, <3>2
  <2> HIDE DEF g
  <2>8. IsRun(k, m, j + 1, g)
    BY <2>6, <2>7 DEF IsRun
  <2>9. j + 1 \in Nat
    BY <2>2
  <2>10. QED
    BY <2>8, <2>9
<1>3. N \in SUBSET Nat
  OBVIOUS
<1> HIDE DEF N
<1>4. N = Nat
  BY <1>1, <1>2, <1>3, SetInduction
<1>5. QED
  BY <1>4 DEF N

\* f holds what is reached from S in 0, 1, 2... steps.
ClosureRun(links, S, f) == /\ f[0] = S /\ Closure(links, S) = f[Cardinality(Txs)]
  /\ \A i \in 1..Cardinality(Txs) : f[i] = f[i - 1] \cup UNION {links[t] : t \in f[i - 1]}

\* They exist.
LEMMA ClosureSteps ==
  ASSUME NEW links, NEW S, Cardinality(Txs) \in Nat
  PROVE  \E f : ClosureRun(links, S, f)
<1> DEFINE Solves(f) == f = [i \in 0..Cardinality(Txs) |-> IF i = 0 THEN S ELSE f[i - 1] \cup UNION {links[t] : t \in f[i - 1]}]
           F == CHOOSE f : Solves(f)
<1>1. \E f : Solves(f)
  <2>1. PICK k : k = <<"Closure", links>>
    BY Zenon
  <2>2. \A m, i : StepOf(k, m, i) = m \cup UNION {links[t] : t \in m}
    BY <2>1 DEF StepOf
  <2>3. PICK f : IsRun(k, S, Cardinality(Txs), f)
    BY StepsExist
  <2>4. QED
    BY <2>2, <2>3 DEF IsRun
<1>2. Solves(F)
  <2> HIDE DEF Solves
  <2> QED BY <1>1, Zenon
<1>3. Closure(links, S) = F[Cardinality(Txs)]
  BY DEF Closure
<1> HIDE DEF F
<1>4. \A i \in 0..Cardinality(Txs) : F[i] = IF i = 0 THEN S ELSE F[i - 1] \cup UNION {links[t] : t \in F[i - 1]}
  BY <1>2
<1>5. F[0] = S
  <2>1. 0 \in 0..Cardinality(Txs)
    OBVIOUS
  <2>2. QED
    BY <1>4, <2>1, Zenon
<1>6. \A i \in 1..Cardinality(Txs) : F[i] = F[i - 1] \cup UNION {links[t] : t \in F[i - 1]}
  <2>1. \A i \in 1..Cardinality(Txs) : i \in 0..Cardinality(Txs) /\ i # 0
    OBVIOUS
  <2>2. QED
    BY <1>4, <2>1, Zenon
<1>7. ClosureRun(links, S, F)
  BY <1>3, <1>5, <1>6 DEF ClosureRun
<1>8. QED
  BY <1>7

\* f holds the pools that evictions lead to.
TrimRun(p, f) == /\ f[0] = {p} /\ TrimToSize(p) = f[Cardinality(Txs)]
  /\ \A i \in 1..Cardinality(Txs) : f[i] = UNION {TrimOnce(q) : q \in f[i - 1]}

\* They exist.
LEMMA TrimSteps ==
  ASSUME NEW p, Cardinality(Txs) \in Nat
  PROVE  \E f : TrimRun(p, f)
<1> DEFINE Solves(f) == f = [i \in 0..Cardinality(Txs) |-> IF i = 0 THEN {p} ELSE UNION {TrimOnce(q) : q \in f[i - 1]}]
           F == CHOOSE f : Solves(f)
<1>1. \E f : Solves(f)
  <2>1. PICK k : k = <<"Trim", 0>>
    BY Zenon
  <2>2. \A m, i : StepOf(k, m, i) = UNION {TrimOnce(q) : q \in m}
    BY <2>1 DEF StepOf
  <2>3. PICK f : IsRun(k, {p}, Cardinality(Txs), f)
    BY StepsExist
  <2>4. QED
    BY <2>2, <2>3 DEF IsRun
<1>2. Solves(F)
  <2> HIDE DEF Solves
  <2> QED BY <1>1, Zenon
<1>3. TrimToSize(p) = F[Cardinality(Txs)]
  BY DEF TrimToSize
<1> HIDE DEF F
<1>4. \A i \in 0..Cardinality(Txs) : F[i] = IF i = 0 THEN {p} ELSE UNION {TrimOnce(q) : q \in F[i - 1]}
  BY <1>2
<1>5. F[0] = {p}
  <2>1. 0 \in 0..Cardinality(Txs)
    OBVIOUS
  <2>2. QED
    BY <1>4, <2>1, Zenon
<1>6. \A i \in 1..Cardinality(Txs) : F[i] = UNION {TrimOnce(q) : q \in F[i - 1]}
  <2>1. \A i \in 1..Cardinality(Txs) : i \in 0..Cardinality(Txs) /\ i # 0
    OBVIOUS
  <2>2. QED
    BY <1>4, <2>1, Zenon
<1>7. TrimRun(p, F)
  BY <1>3, <1>5, <1>6 DEF TrimRun
<1>8. QED
  BY <1>7

\* f holds the states in which blocks are disconnected one after the other.
DownRun(s, b, f) == /\ f[0] = s /\ Disconnected(s, b) = f[Height[s.tip]]
  /\ \A i \in 1..Height[s.tip] : f[i] = IF f[i - 1].tip \in ChainOf(b) THEN f[i - 1] ELSE DisconnectTip(f[i - 1])

\* They exist.
LEMMA DownSteps ==
  ASSUME NEW s, NEW b, Height[s.tip] \in Nat
  PROVE  \E f : DownRun(s, b, f)
<1> DEFINE Solves(f) == f = [i \in 0..Height[s.tip] |-> IF i = 0 THEN s ELSE IF f[i - 1].tip \in ChainOf(b) THEN f[i - 1] ELSE DisconnectTip(f[i - 1])]
           F == CHOOSE f : Solves(f)
<1>1. \E f : Solves(f)
  <2>1. PICK k : k = <<"Down", b>>
    BY Zenon
  <2>2. \A m, i : StepOf(k, m, i) = IF m.tip \in ChainOf(b) THEN m ELSE DisconnectTip(m)
    BY <2>1 DEF StepOf
  <2>3. PICK f : IsRun(k, s, Height[s.tip], f)
    BY StepsExist
  <2>4. QED
    BY <2>2, <2>3 DEF IsRun
<1>2. Solves(F)
  <2> HIDE DEF Solves
  <2> QED BY <1>1, Zenon
<1>3. Disconnected(s, b) = F[Height[s.tip]]
  BY DEF Disconnected
<1> HIDE DEF F
<1>4. \A i \in 0..Height[s.tip] : F[i] = IF i = 0 THEN s ELSE IF F[i - 1].tip \in ChainOf(b) THEN F[i - 1] ELSE DisconnectTip(F[i - 1])
  BY <1>2
<1>5. F[0] = s
  <2>1. 0 \in 0..Height[s.tip]
    OBVIOUS
  <2>2. QED
    BY <1>4, <2>1, Zenon
<1>6. \A i \in 1..Height[s.tip] : F[i] = IF F[i - 1].tip \in ChainOf(b) THEN F[i - 1] ELSE DisconnectTip(F[i - 1])
  <2>1. \A i \in 1..Height[s.tip] : i \in 0..Height[s.tip] /\ i # 0
    OBVIOUS
  <2>2. QED
    BY <1>4, <2>1, Zenon
<1>7. DownRun(s, b, F)
  BY <1>3, <1>5, <1>6 DEF DownRun
<1>8. QED
  BY <1>7

\* f holds the pools that removing the conflicts of t leads to, input by input.
ConflictRun(p, t, f) == /\ f[0] = p /\ removeConflicts(p, t) = f[Len(Inputs[t])]
  /\ \A i \in 1..Len(Inputs[t]) : f[i] = removeConflict(f[i - 1], t, Inputs[t][i])

\* They exist.
LEMMA ConflictSteps ==
  ASSUME NEW p, NEW t, Len(Inputs[t]) \in Nat
  PROVE  \E f : ConflictRun(p, t, f)
<1> DEFINE Solves(f) == f = [i \in 0..Len(Inputs[t]) |-> IF i = 0 THEN p ELSE removeConflict(f[i - 1], t, Inputs[t][i])]
           F == CHOOSE f : Solves(f)
<1>1. \E f : Solves(f)
  <2>1. PICK k : k = <<"Conflict", t, Inputs[t]>>
    BY Zenon
  <2>2. \A m, i : StepOf(k, m, i) = removeConflict(m, t, Inputs[t][i])
    BY <2>1 DEF StepOf
  <2>3. PICK f : IsRun(k, p, Len(Inputs[t]), f)
    BY StepsExist
  <2>4. QED
    BY <2>2, <2>3 DEF IsRun
<1>2. Solves(F)
  <2> HIDE DEF Solves
  <2> QED BY <1>1, Zenon
<1>3. removeConflicts(p, t) = F[Len(Inputs[t])]
  BY DEF removeConflicts, InTurn
<1> HIDE DEF F
<1>4. \A i \in 0..Len(Inputs[t]) : F[i] = IF i = 0 THEN p ELSE removeConflict(F[i - 1], t, Inputs[t][i])
  BY <1>2
<1>5. F[0] = p
  <2>1. 0 \in 0..Len(Inputs[t])
    OBVIOUS
  <2>2. QED
    BY <1>4, <2>1, Zenon
<1>6. \A i \in 1..Len(Inputs[t]) : F[i] = removeConflict(F[i - 1], t, Inputs[t][i])
  <2>1. \A i \in 1..Len(Inputs[t]) : i \in 0..Len(Inputs[t]) /\ i # 0
    OBVIOUS
  <2>2. QED
    BY <1>4, <2>1, Zenon
<1>7. ConflictRun(p, t, F)
  BY <1>3, <1>5, <1>6 DEF ConflictRun
<1>8. QED
  BY <1>7

\* f holds the pools that the transactions of a block lead to.
ConfirmedRun(p, s, f) == /\ f[0] = p /\ removeForBlock(p, s) = f[Len(s)]
  /\ \A i \in 1..Len(s) : f[i] = Confirmed(f[i - 1], s[i])

\* They exist.
LEMMA ConfirmedSteps ==
  ASSUME NEW p, NEW s, Len(s) \in Nat
  PROVE  \E f : ConfirmedRun(p, s, f)
<1> DEFINE Solves(f) == f = [i \in 0..Len(s) |-> IF i = 0 THEN p ELSE Confirmed(f[i - 1], s[i])]
           F == CHOOSE f : Solves(f)
<1>1. \E f : Solves(f)
  <2>1. PICK k : k = <<"Confirmed", s>>
    BY Zenon
  <2>2. \A m, i : StepOf(k, m, i) = Confirmed(m, s[i])
    BY <2>1 DEF StepOf
  <2>3. PICK f : IsRun(k, p, Len(s), f)
    BY StepsExist
  <2>4. QED
    BY <2>2, <2>3 DEF IsRun
<1>2. Solves(F)
  <2> HIDE DEF Solves
  <2> QED BY <1>1, Zenon
<1>3. removeForBlock(p, s) = F[Len(s)]
  BY DEF removeForBlock, InTurn
<1> HIDE DEF F
<1>4. \A i \in 0..Len(s) : F[i] = IF i = 0 THEN p ELSE Confirmed(F[i - 1], s[i])
  BY <1>2
<1>5. F[0] = p
  <2>1. 0 \in 0..Len(s)
    OBVIOUS
  <2>2. QED
    BY <1>4, <2>1, Zenon
<1>6. \A i \in 1..Len(s) : F[i] = Confirmed(F[i - 1], s[i])
  <2>1. \A i \in 1..Len(s) : i \in 0..Len(s) /\ i # 0
    OBVIOUS
  <2>2. QED
    BY <1>4, <2>1, Zenon
<1>7. ConfirmedRun(p, s, F)
  BY <1>3, <1>5, <1>6 DEF ConfirmedRun
<1>8. QED
  BY <1>7

\* f holds the pools that removing the elements of s one by one leads to.
RemoveRun(p, s, f) == /\ f[0] = p /\ InTurn(removeRecursive, p, s) = f[Len(s)]
  /\ \A i \in 1..Len(s) : f[i] = removeRecursive(f[i - 1], s[i])

\* They exist.
LEMMA RemoveSteps ==
  ASSUME NEW p, NEW s, Len(s) \in Nat
  PROVE  \E f : RemoveRun(p, s, f)
<1> DEFINE Solves(f) == f = [i \in 0..Len(s) |-> IF i = 0 THEN p ELSE removeRecursive(f[i - 1], s[i])]
           F == CHOOSE f : Solves(f)
<1>1. \E f : Solves(f)
  <2>1. PICK k : k = <<"Remove", s>>
    BY Zenon
  <2>2. \A m, i : StepOf(k, m, i) = removeRecursive(m, s[i])
    BY <2>1 DEF StepOf
  <2>3. PICK f : IsRun(k, p, Len(s), f)
    BY StepsExist
  <2>4. QED
    BY <2>2, <2>3 DEF IsRun
<1>2. Solves(F)
  <2> HIDE DEF Solves
  <2> QED BY <1>1, Zenon
<1>3. InTurn(removeRecursive, p, s) = F[Len(s)]
  BY DEF InTurn
<1> HIDE DEF F
<1>4. \A i \in 0..Len(s) : F[i] = IF i = 0 THEN p ELSE removeRecursive(F[i - 1], s[i])
  BY <1>2
<1>5. F[0] = p
  <2>1. 0 \in 0..Len(s)
    OBVIOUS
  <2>2. QED
    BY <1>4, <2>1, Zenon
<1>6. \A i \in 1..Len(s) : F[i] = removeRecursive(F[i - 1], s[i])
  <2>1. \A i \in 1..Len(s) : i \in 0..Len(s) /\ i # 0
    OBVIOUS
  <2>2. QED
    BY <1>4, <2>1, Zenon
<1>7. RemoveRun(p, s, F)
  BY <1>3, <1>5, <1>6 DEF RemoveRun
<1>8. QED
  BY <1>7

\* f holds the states in which transactions come back.
ReaddRun(r, s, b, add, f) == /\ f[0] = r /\ ReaddAll(r, s, b, add) = f[Len(s)]
  /\ \A i \in 1..Len(s) : f[i] = Readd(f[i - 1], s[i], b, add)

\* They exist.
LEMMA ReaddSteps ==
  ASSUME NEW r, NEW s, NEW b, NEW add, Len(s) \in Nat
  PROVE  \E f : ReaddRun(r, s, b, add, f)
<1> DEFINE Solves(f) == f = [i \in 0..Len(s) |-> IF i = 0 THEN r ELSE Readd(f[i - 1], s[i], b, add)]
           F == CHOOSE f : Solves(f)
<1>1. \E f : Solves(f)
  <2>1. PICK k : k = <<"Readd", s, b, add>>
    BY Zenon
  <2>2. \A m, i : StepOf(k, m, i) = Readd(m, s[i], b, add)
    BY <2>1 DEF StepOf
  <2>3. PICK f : IsRun(k, r, Len(s), f)
    BY StepsExist
  <2>4. QED
    BY <2>2, <2>3 DEF IsRun
<1>2. Solves(F)
  <2> HIDE DEF Solves
  <2> QED BY <1>1, Zenon
<1>3. ReaddAll(r, s, b, add) = F[Len(s)]
  BY DEF ReaddAll, InTurn
<1> HIDE DEF F
<1>4. \A i \in 0..Len(s) : F[i] = IF i = 0 THEN r ELSE Readd(F[i - 1], s[i], b, add)
  BY <1>2
<1>5. F[0] = r
  <2>1. 0 \in 0..Len(s)
    OBVIOUS
  <2>2. QED
    BY <1>4, <2>1, Zenon
<1>6. \A i \in 1..Len(s) : F[i] = Readd(F[i - 1], s[i], b, add)
  <2>1. \A i \in 1..Len(s) : i \in 0..Len(s) /\ i # 0
    OBVIOUS
  <2>2. QED
    BY <1>4, <2>1, Zenon
<1>7. ReaddRun(r, s, b, add, F)
  BY <1>3, <1>5, <1>6 DEF ReaddRun
<1>8. QED
  BY <1>7

\* f holds the states in which the links of what came back are set.
UpdateRun(r, s, block, f) == /\ f[0] = r /\ UpdateAll(r, s, block) = f[Len(s)]
  /\ \A i \in 1..Len(s) : f[i] = UpdateFromBlock(f[i - 1], s[i], block)

\* They exist.
LEMMA UpdateSteps ==
  ASSUME NEW r, NEW s, NEW block, Len(s) \in Nat
  PROVE  \E f : UpdateRun(r, s, block, f)
<1> DEFINE Solves(f) == f = [i \in 0..Len(s) |-> IF i = 0 THEN r ELSE UpdateFromBlock(f[i - 1], s[i], block)]
           F == CHOOSE f : Solves(f)
<1>1. \E f : Solves(f)
  <2>1. PICK k : k = <<"Update", s, block>>
    BY Zenon
  <2>2. \A m, i : StepOf(k, m, i) = UpdateFromBlock(m, s[i], block)
    BY <2>1 DEF StepOf
  <2>3. PICK f : IsRun(k, r, Len(s), f)
    BY StepsExist
  <2>4. QED
    BY <2>2, <2>3 DEF IsRun
<1>2. Solves(F)
  <2> HIDE DEF Solves
  <2> QED BY <1>1, Zenon
<1>3. UpdateAll(r, s, block) = F[Len(s)]
  BY DEF UpdateAll, InTurn
<1> HIDE DEF F
<1>4. \A i \in 0..Len(s) : F[i] = IF i = 0 THEN r ELSE UpdateFromBlock(F[i - 1], s[i], block)
  BY <1>2
<1>5. F[0] = r
  <2>1. 0 \in 0..Len(s)
    OBVIOUS
  <2>2. QED
    BY <1>4, <2>1, Zenon
<1>6. \A i \in 1..Len(s) : F[i] = UpdateFromBlock(F[i - 1], s[i], block)
  <2>1. \A i \in 1..Len(s) : i \in 0..Len(s) /\ i # 0
    OBVIOUS
  <2>2. QED
    BY <1>4, <2>1, Zenon
<1>7. UpdateRun(r, s, block, F)
  BY <1>3, <1>5, <1>6 DEF UpdateRun
<1>8. QED
  BY <1>7

\* f holds what is left of the sequence s without the transactions of a block.
ForgetRun(s, vtx, f) == /\ f[0] = <<>> /\ Forget(s, vtx) = f[Len(s)]
  /\ \A i \in 1..Len(s) : f[i] = IF s[i] \in ToSet(vtx) THEN f[i - 1] ELSE Append(f[i - 1], s[i])

\* They exist.
LEMMA ForgetSteps ==
  ASSUME NEW s, NEW vtx, Len(s) \in Nat
  PROVE  \E f : ForgetRun(s, vtx, f)
<1> DEFINE Solves(f) == f = [i \in 0..Len(s) |-> IF i = 0 THEN <<>> ELSE IF s[i] \in ToSet(vtx) THEN f[i - 1] ELSE Append(f[i - 1], s[i])]
           F == CHOOSE f : Solves(f)
<1>1. \E f : Solves(f)
  <2>1. PICK k : k = <<"Forget", s, ToSet(vtx)>>
    BY Zenon
  <2>2. \A m, i : StepOf(k, m, i) = IF s[i] \in ToSet(vtx) THEN m ELSE Append(m, s[i])
    BY <2>1 DEF StepOf
  <2>3. PICK f : IsRun(k, <<>>, Len(s), f)
    BY StepsExist
  <2>4. QED
    BY <2>2, <2>3 DEF IsRun
<1>2. Solves(F)
  <2> HIDE DEF Solves
  <2> QED BY <1>1, Zenon
<1>3. Forget(s, vtx) = F[Len(s)]
  BY DEF Forget, InTurn
<1> HIDE DEF F
<1>4. \A i \in 0..Len(s) : F[i] = IF i = 0 THEN <<>> ELSE IF s[i] \in ToSet(vtx) THEN F[i - 1] ELSE Append(F[i - 1], s[i])
  BY <1>2
<1>5. F[0] = <<>>
  <2>1. 0 \in 0..Len(s)
    OBVIOUS
  <2>2. QED
    BY <1>4, <2>1, Zenon
<1>6. \A i \in 1..Len(s) : F[i] = IF s[i] \in ToSet(vtx) THEN F[i - 1] ELSE Append(F[i - 1], s[i])
  <2>1. \A i \in 1..Len(s) : i \in 0..Len(s) /\ i # 0
    OBVIOUS
  <2>2. QED
    BY <1>4, <2>1, Zenon
<1>7. ForgetRun(s, vtx, F)
  BY <1>3, <1>5, <1>6 DEF ForgetRun
<1>8. QED
  BY <1>7

\* Induction over the numbers up to K.
LEMMA UpTo ==
  ASSUME NEW K \in Nat, NEW N \in SUBSET (0..K), 0 \in N, \A n \in N : n < K => n + 1 \in N
  PROVE  N = 0..K
<1> DEFINE M == {n \in Nat : n <= K => n \in N}
<1>1. 0 \in M
  OBVIOUS
<1>2. ASSUME NEW n \in M PROVE n + 1 \in M
  <2>1. n \in Nat /\ n + 1 \in Nat
    OBVIOUS
  <2>2. ASSUME n + 1 <= K PROVE n + 1 \in N
    <3>1. n < K /\ n \in N
      BY <2>1, <2>2
    <3>2. QED
      BY <3>1
  <2>3. QED
    BY <2>1, <2>2
<1>3. M \in SUBSET Nat
  OBVIOUS
<1> HIDE DEF M
<1>4. M = Nat
  BY <1>1, <1>2, <1>3, SetInduction
<1>5. \A n \in 0..K : n \in M /\ n <= K
  BY <1>4
<1>6. QED
  BY <1>5 DEF M

-----------------------------------------------------------------------------
(* Closures.                                                               *)

\* What is reached from S is closed under the links: each step that is not the
\* last reaches another transaction.
LEMMA ClosureFacts ==
  ASSUME NEW links \in [Txs -> SUBSET Txs], NEW S \in SUBSET Txs
  PROVE  /\ Closure(links, S) \in SUBSET Txs /\ S \subseteq Closure(links, S)
         /\ \A x \in Closure(links, S) : links[x] \subseteq Closure(links, S)
<1>1. PICK K \in Nat : K = Cardinality(Txs)
  BY TxFacts
<1>2. PICK f : ClosureRun(links, S, f)
  BY TxFacts, ClosureSteps
<1>3. /\ f[0] = S /\ Closure(links, S) = f[K]
      /\ \A i \in 1..K : f[i] = f[i - 1] \cup UNION {links[t] : t \in f[i - 1]}
  BY <1>1, <1>2 DEF ClosureRun
<1> DEFINE Closed(R) == \A x \in R : links[x] \subseteq R
           Grown(n) == /\ f[n] \in SUBSET Txs /\ S \subseteq f[n]
                       /\ Closed(f[n]) \/ Cardinality(f[n]) >= n
           N == {n \in 0..K : Grown(n)}
<1>4. \A R \in SUBSET Txs : IsFiniteSet(R) /\ Cardinality(R) \in Nat
  BY TxFacts, FS_Subset, FS_CardinalityType
<1>5. 0 \in N
  <2>1. 0 \in 0..K
    OBVIOUS
  <2>2. Cardinality(S) >= 0
    BY <1>4
  <2>3. QED
    BY <1>3, <2>1, <2>2
<1>6. ASSUME NEW n \in N, n < K PROVE n + 1 \in N
  <2>1. n \in Nat /\ n + 1 \in 1..K /\ n + 1 \in 0..K /\ n + 1 - 1 = n
    BY <1>6
  <2>2. f[n + 1] = f[n] \cup UNION {links[t] : t \in f[n]}
    BY <1>3, <2>1
  <2>3. PICK R \in SUBSET Txs : R = f[n]
    OBVIOUS
  <2>4. PICK Q : Q = f[n + 1]
    OBVIOUS
  <2>5. Q = R \cup UNION {links[t] : t \in R}
    BY <2>2, <2>3, <2>4
  <2>6. Q \in SUBSET Txs /\ S \subseteq Q
    <3>1. S \subseteq R
      BY <1>6, <2>3
    <3>2. \A t \in R : links[t] \subseteq Txs
      OBVIOUS
    <3>3. QED
      BY <2>5, <3>1, <3>2
  <2>7. CASE Closed(R)
    <3>1. Q = R
      BY <2>5, <2>7
    <3>2. Closed(Q)
      BY <2>7, <3>1
    <3>3. QED
      BY <2>1, <2>4, <2>6, <3>2
  <2>8. CASE ~Closed(R)
    <3>1. PICK x \in R : ~(links[x] \subseteq R)
      BY <2>8
    <3>2. PICK y \in links[x] : y \notin R
      BY <3>1
    <3>3. PICK V : V = R \cup {y}
      OBVIOUS
    <3>4. V \subseteq Q
      BY <2>5, <3>1, <3>2, <3>3
    <3>5. Cardinality(V) = Cardinality(R) + 1
      BY <1>4, <3>2, <3>3, FS_AddElement
    <3>6. Cardinality(V) <= Cardinality(Q)
      <4>1. V \in SUBSET Q /\ IsFiniteSet(Q)
        BY <1>4, <2>6, <3>4
      <4>2. QED
        BY <4>1, FS_Subset
    <3>7. Cardinality(R) >= n
      BY <1>6, <2>3, <2>8
    <3>8. Cardinality(Q) >= n + 1
      <4>1. Cardinality(R) \in Nat /\ Cardinality(Q) \in Nat
        BY <1>4, <2>6
      <4>2. QED
        BY <2>1, <3>5, <3>6, <3>7, <4>1
    <3>9. QED
      BY <2>1, <2>4, <2>6, <3>8
  <2>9. QED
    BY <2>7, <2>8
<1>7. N \in SUBSET (0..K)
  OBVIOUS
<1>8. N = 0..K
  <2> HIDE DEF N
  <2> QED BY <1>5, <1>6, <1>7, UpTo
<1>9. Grown(K)
  <2>1. K \in 0..K
    OBVIOUS
  <2>2. QED
    BY <1>8, <2>1
<1>10. Closed(f[K])
  <2>1. CASE Cardinality(f[K]) >= K
    <3>1. PICK R \in SUBSET Txs : R = f[K]
      BY <1>9
    <3>2. Cardinality(R) <= K /\ Cardinality(R) \in Nat /\ Cardinality(R) >= K
      BY <1>1, <1>4, <2>1, <3>1, TxFacts, FS_Subset
    <3>3. Cardinality(Txs) = Cardinality(R)
      BY <1>1, <3>2
    <3>4. Txs = R
      BY <3>3, TxFacts, FS_Subset
    <3>5. QED
      BY <3>1, <3>4
  <2>2. QED
    BY <1>9, <2>1
<1>11. QED
  BY <1>3, <1>9, <1>10

\* Nothing else is reached: a closed set that holds S holds what is reached.
LEMMA ClosureLeast ==
  ASSUME NEW links \in [Txs -> SUBSET Txs], NEW S, NEW D,
         S \subseteq D, D \subseteq Txs, \A x \in D : links[x] \subseteq D
  PROVE  Closure(links, S) \subseteq D
<1>1. PICK K \in Nat : K = Cardinality(Txs)
  BY TxFacts
<1>2. PICK f : ClosureRun(links, S, f)
  BY TxFacts, ClosureSteps
<1>3. /\ f[0] = S /\ Closure(links, S) = f[K]
      /\ \A i \in 1..K : f[i] = f[i - 1] \cup UNION {links[t] : t \in f[i - 1]}
  BY <1>1, <1>2 DEF ClosureRun
<1> DEFINE N == {n \in 0..K : f[n] \subseteq D}
<1>4. 0 \in N
  BY <1>3
<1>5. ASSUME NEW n \in N, n < K PROVE n + 1 \in N
  <2>1. n \in Nat /\ n + 1 \in 1..K /\ n + 1 \in 0..K /\ n + 1 - 1 = n
    BY <1>5
  <2>2. f[n + 1] = f[n] \cup UNION {links[t] : t \in f[n]}
    BY <1>3, <2>1
  <2>3. \A t \in f[n] : links[t] \subseteq D
    OBVIOUS
  <2>4. f[n + 1] \subseteq D
    BY <2>2, <2>3
  <2>5. QED
    BY <2>1, <2>4
<1>6. N \in SUBSET (0..K)
  OBVIOUS
<1>7. N = 0..K
  <2> HIDE DEF N
  <2> QED BY <1>4, <1>5, <1>6, UpTo
<1>8. K \in N
  BY <1>7
<1>9. QED
  BY <1>3, <1>8

-----------------------------------------------------------------------------
(* Sums of fees.                                                           *)

\* Sets of transactions are finite.
LEMMA FiniteTxs ==
  ASSUME NEW S \in SUBSET Txs
  PROVE  /\ IsFiniteSet(S) /\ Cardinality(S) \in Nat /\ Cardinality(S) <= Cardinality(Txs)
         /\ \A x \in S : Cardinality(S \ {x}) = Cardinality(S) - 1
         /\ \A x \in Txs \ S : Cardinality(S \cup {x}) = Cardinality(S) + 1
BY TxFacts, FS_Subset, FS_CardinalityType, FS_AddElement, FS_RemoveElement

\* F holds the sums of the weights w.
IsSum(w, F) == F \in [SUBSET Txs -> Int] /\ F = SumStep(w, F)

\* There is such a function.
LEMMA SumExists ==
  ASSUME NEW w \in [Txs -> Int]
  PROVE  \E F : IsSum(w, F)
<1>1. PICK K \in Nat : K = Cardinality(Txs)
  BY TxFacts
<1>2. PICK k : k = <<"Sum", w>>
  BY Zenon
<1>3. \A m, i : StepOf(k, m, i) = SumStep(w, m)
  BY <1>2 DEF StepOf
<1>4. PICK m : m = [s \in SUBSET Txs |-> 0]
  BY Zenon
<1>5. PICK n \in Nat : n = K + 1
  OBVIOUS
<1>6. PICK G : IsRun(k, m, n, G)
  BY StepsExist
<1>7. G[0] = m /\ \A i \in 1..n : G[i] = SumStep(w, G[i - 1])
  <2>1. \A i \in 0..n : G[i] = IF i = 0 THEN m ELSE SumStep(w, G[i - 1])
    BY <1>3, <1>6 DEF IsRun
  <2>2. QED
    BY <2>1
<1>8. \A s \in SUBSET Txs : s # {} => Pick(s) \in s
  BY DEF Pick
<1> DEFINE OK(i) == /\ G[i] \in [SUBSET Txs -> Int]
                    /\ i > 0 => \A s \in SUBSET Txs : Cardinality(s) < i => G[i][s] = G[i - 1][s]
           N == {i \in 0..n : OK(i)}
<1>9. 0 \in N
  BY <1>4, <1>7
<1>10. ASSUME NEW i \in N, i < n PROVE i + 1 \in N
  <2>1. i \in Nat /\ i + 1 \in 1..n /\ i + 1 \in 0..n /\ i + 1 - 1 = i
    BY <1>10
  <2>2. PICK f \in [SUBSET Txs -> Int] : f = G[i]
    BY <1>10
  <2>3. PICK g : g = G[i + 1]
    OBVIOUS
  <2>4. g = SumStep(w, f)
    BY <1>7, <2>1, <2>2, <2>3
  <2>5. \A s \in SUBSET Txs : g[s] = IF s = {} THEN 0 ELSE w[Pick(s)] + f[s \ {Pick(s)}]
    BY <2>4 DEF SumStep
  <2>6. g \in [SUBSET Txs -> Int]
    <3>1. ASSUME NEW s \in SUBSET Txs PROVE g[s] \in Int
      <4>1. CASE s = {}
        <5>1. g[s] = 0
          BY <2>5, <4>1
        <5>2. QED
          BY <5>1
      <4>2. CASE s # {}
        <5>1. PICK c \in s : c = Pick(s)
          BY <1>8, <4>2
        <5>2. w[c] \in Int /\ f[s \ {c}] \in Int
          BY <2>2
        <5>3. g[s] = w[c] + f[s \ {c}]
          BY <2>5, <4>2, <5>1
        <5>4. QED
          BY <5>2, <5>3
      <4>3. QED
        BY <4>1, <4>2
    <3>2. g = [s \in SUBSET Txs |-> g[s]]
      BY <2>4 DEF SumStep
    <3>3. QED
      BY <3>1, <3>2
  <2>7. ASSUME NEW s \in SUBSET Txs, Cardinality(s) < i + 1 PROVE g[s] = f[s]
    <3>1. CASE i = 0
      <4>1. s = {}
        <5>1. Cardinality(s) = 0 /\ IsFiniteSet(s)
          BY <2>7, <3>1, FiniteTxs
        <5>2. QED
          BY <5>1, FS_EmptySet
      <4>2. f = m
        BY <1>7, <2>2, <3>1
      <4>3. QED
        BY <1>4, <2>5, <4>1, <4>2
    <3>2. CASE i # 0
      <4>1. i - 1 \in Nat /\ i \in 1..n
        BY <2>1, <3>2
      <4>2. PICK e : e = G[i - 1]
        OBVIOUS
      <4>3. f = SumStep(w, e)
        BY <1>7, <2>2, <4>1, <4>2
      <4>4. f[s] = IF s = {} THEN 0 ELSE w[Pick(s)] + e[s \ {Pick(s)}]
        BY <4>3 DEF SumStep
      <4>5. CASE s = {}
        BY <2>5, <4>4, <4>5
      <4>6. CASE s # {}
        <5>1. PICK r \in SUBSET Txs : r = s \ {Pick(s)}
          OBVIOUS
        <5>2. Cardinality(r) < i
          <6>1. Cardinality(r) = Cardinality(s) - 1 /\ Cardinality(s) \in Nat
            BY <1>8, <4>6, <5>1, FiniteTxs
          <6>2. QED
            BY <2>1, <2>7, <6>1
        <5>3. f[r] = e[r]
          BY <1>10, <2>1, <2>2, <3>2, <4>2, <5>2
        <5>4. QED
          BY <2>5, <4>4, <4>6, <5>1, <5>3
      <4>7. QED
        BY <4>5, <4>6
    <3>3. QED
      BY <3>1, <3>2
  <2>8. OK(i + 1)
    BY <2>1, <2>2, <2>3, <2>6, <2>7
  <2>9. QED
    BY <2>1, <2>8
<1>11. N \in SUBSET (0..n)
  OBVIOUS
<1>12. N = 0..n
  <2> HIDE DEF N
  <2> QED BY <1>9, <1>10, <1>11, UpTo
<1>13. n \in N /\ K \in N
  <2>1. n \in 0..n /\ K \in 0..n
    BY <1>5
  <2> HIDE DEF N
  <2>2. QED
    BY <1>12, <2>1
<1>14. PICK F \in [SUBSET Txs -> Int] : F = G[n]
  BY <1>13
<1>15. PICK f \in [SUBSET Txs -> Int] : f = G[K]
  BY <1>13
<1>16. F = SumStep(w, f)
  <2>1. n \in 1..n /\ n - 1 = K
    BY <1>5
  <2>2. QED
    BY <1>7, <1>14, <1>15, <2>1
<1>17. ASSUME NEW s \in SUBSET Txs PROVE F[s] = f[s]
  <2>1. Cardinality(s) < n /\ n > 0 /\ n - 1 = K
    BY <1>1, <1>5, FiniteTxs
  <2>2. QED
    BY <1>13, <1>14, <1>15, <2>1
<1>18. F = f
  BY <1>17
<1>19. QED
  BY <1>16, <1>18 DEF IsSum

\* The order does not matter.
LEMMA SumAnyOrder ==
  ASSUME NEW w \in [Txs -> Int], NEW F, IsSum(w, F), NEW S \in SUBSET Txs, NEW x \in S
  PROVE  F[S] = w[x] + F[S \ {x}]
<1>1. F \in [SUBSET Txs -> Int]
  BY DEF IsSum
<1>2. \A s \in SUBSET Txs : F[s] = IF s = {} THEN 0 ELSE w[Pick(s)] + F[s \ {Pick(s)}]
  BY DEF IsSum, SumStep
<1>3. \A s \in SUBSET Txs : s # {} => Pick(s) \in s
  BY DEF Pick
<1>4. PICK K \in Nat : K = Cardinality(S)
  BY FiniteTxs
<1> DEFINE OK(i) == \A s \in SUBSET Txs : \A y \in s :
                      Cardinality(s) = i => F[s] = w[y] + F[s \ {y}]
           N == {i \in 0..K : OK(i)}
<1>5. 0 \in N
  <2>1. ASSUME NEW s \in SUBSET Txs, NEW y \in s, Cardinality(s) = 0 PROVE FALSE
    BY <2>1, FiniteTxs, FS_EmptySet
  <2>2. QED
    BY <2>1
<1>6. ASSUME NEW i \in N, i < K PROVE i + 1 \in N
  <2>1. i \in Nat /\ i + 1 \in 0..K
    BY <1>6
  <2>2. ASSUME NEW s \in SUBSET Txs, NEW y \in s, Cardinality(s) = i + 1
        PROVE  F[s] = w[y] + F[s \ {y}]
    <3>1. PICK c \in s : c = Pick(s)
      BY <1>3
    <3>2. F[s] = w[c] + F[s \ {c}]
      BY <1>2, <3>1
    <3>3. CASE c = y
      BY <3>2, <3>3
    <3>4. CASE c # y
      <4>1. PICK u \in SUBSET Txs : u = s \ {c}
        OBVIOUS
      <4>2. PICK v \in SUBSET Txs : v = s \ {y}
        OBVIOUS
      <4>3. PICK z \in SUBSET Txs : z = s \ {c, y}
        OBVIOUS
      <4>4. Cardinality(u) = i /\ Cardinality(v) = i
        BY <2>1, <2>2, <4>1, <4>2, FiniteTxs
      <4>5. y \in u /\ c \in v /\ u \ {y} = z /\ v \ {c} = z
        BY <3>4, <4>1, <4>2, <4>3
      <4>6. F[u] = w[y] + F[z]
        BY <1>6, <4>4, <4>5
      <4>7. F[v] = w[c] + F[z]
        BY <1>6, <4>4, <4>5
      <4>8. w[c] \in Int /\ w[y] \in Int /\ F[z] \in Int
        BY <1>1
      <4>9. QED
        BY <3>2, <4>1, <4>2, <4>6, <4>7, <4>8
    <3>5. QED
      BY <3>3, <3>4
  <2>3. QED
    BY <2>1, <2>2
<1>7. N \in SUBSET (0..K)
  OBVIOUS
<1>8. N = 0..K
  <2> HIDE DEF N
  <2> QED BY <1>5, <1>6, <1>7, UpTo
<1>9. OK(K)
  BY <1>8
<1>10. QED
  BY <1>4, <1>9

\* The fees of a pool.
Weights(p) == [t \in Txs |-> ModifiedFee(p, t)]

\* They are what Fees computes, one chosen element after the other.
LEMMA FeesAreSum ==
  ASSUME NEW p, NEW F, IsSum(Weights(p), F), NEW S \in SUBSET Txs
  PROVE  Fees(p, S) = F[S]
<1> DEFINE Solves(f) == f = [s \in SUBSET S |-> IF s = {} THEN 0
                               ELSE ModifiedFee(p, Pick(s)) + f[s \ {Pick(s)}]]
           H == CHOOSE f : Solves(f)
<1>1. \A s \in SUBSET Txs : F[s] = IF s = {} THEN 0 ELSE Weights(p)[Pick(s)] + F[s \ {Pick(s)}]
  BY DEF IsSum, SumStep
<1>2. \A s \in SUBSET Txs : s # {} => Pick(s) \in s
  BY DEF Pick
<1>3. \A s \in SUBSET S : F[s] = IF s = {} THEN 0 ELSE ModifiedFee(p, Pick(s)) + F[s \ {Pick(s)}]
  BY <1>1, <1>2 DEF Weights
<1>4. \E f : Solves(f)
  <2>1. PICK g : g = [s \in SUBSET S |-> F[s]]
    BY Zenon
  <2>2. \A s \in SUBSET S : s \ {Pick(s)} \in SUBSET S
    OBVIOUS
  <2>3. \A s \in SUBSET S : g[s] = IF s = {} THEN 0 ELSE ModifiedFee(p, Pick(s)) + g[s \ {Pick(s)}]
    BY <1>3, <2>1, <2>2
  <2>4. g = [s \in SUBSET S |-> g[s]]
    BY <2>1
  <2>5. Solves(g)
    BY <2>3, <2>4
  <2>6. QED
    <3> HIDE DEF Solves
    <3> QED BY <2>5
<1>5. Solves(H)
  <2> HIDE DEF Solves
  <2> QED BY <1>4, Zenon
<1>6. Fees(p, S) = H[S]
  BY Zenon DEF Fees, MapThenSumSet, MapThenFoldSet, Pick
<1> HIDE DEF H
<1>7. \A s \in SUBSET S : H[s] = IF s = {} THEN 0 ELSE ModifiedFee(p, Pick(s)) + H[s \ {Pick(s)}]
  BY <1>5
<1> HIDE DEF Solves
<1>8. PICK K \in Nat : K = Cardinality(S)
  BY FiniteTxs
<1> DEFINE OK(i) == \A s \in SUBSET S : Cardinality(s) = i => H[s] = F[s]
           N == {i \in 0..K : OK(i)}
<1>9. 0 \in N
  <2>1. ASSUME NEW s \in SUBSET S, Cardinality(s) = 0 PROVE H[s] = F[s]
    <3>1. s = {}
      BY <2>1, FiniteTxs, FS_EmptySet
    <3>2. QED
      BY <1>3, <1>7, <3>1
  <2>2. QED
    BY <2>1
<1>10. ASSUME NEW i \in N, i < K PROVE i + 1 \in N
  <2>1. i \in Nat /\ i + 1 \in 0..K
    BY <1>10
  <2>2. ASSUME NEW s \in SUBSET S, Cardinality(s) = i + 1 PROVE H[s] = F[s]
    <3>1. s # {}
      BY <2>1, <2>2, FS_EmptySet
    <3>2. PICK r \in SUBSET S : r = s \ {Pick(s)}
      OBVIOUS
    <3>3. Cardinality(r) = i
      <4>1. PICK c \in s : c = Pick(s)
        BY <1>2, <3>1
      <4>2. s \in SUBSET Txs /\ r = s \ {c}
        BY <3>2, <4>1
      <4>3. Cardinality(r) = Cardinality(s) - 1
        BY <4>2, FiniteTxs
      <4>4. QED
        BY <2>1, <2>2, <4>3
    <3>4. H[r] = F[r]
      BY <1>10, <3>3
    <3>5. QED
      BY <1>3, <1>7, <3>1, <3>2, <3>4
  <2>3. QED
    BY <2>1, <2>2
<1>11. N \in SUBSET (0..K)
  OBVIOUS
<1>12. N = 0..K
  <2> HIDE DEF N
  <2> QED BY <1>9, <1>10, <1>11, UpTo
<1>13. OK(K)
  BY <1>12
<1>14. QED
  BY <1>6, <1>8, <1>13

-----------------------------------------------------------------------------
(* Totals.                                                                 *)

\* Counts and fees add up and cancel.
LEMMA AmountFacts ==
  ASSUME NEW a \in Amounts, NEW b \in Amounts, NEW c \in Amounts
  PROVE  /\ Plus(a, b) \in Amounts /\ Minus(a, b) \in Amounts
         /\ Plus(a, None) = a /\ Plus(None, a) = a /\ Minus(a, None) = a
         /\ Minus(Plus(a, b), b) = a /\ Plus(a, b) = Plus(b, a)
         /\ Plus(a, Plus(b, c)) = Plus(Plus(a, b), c)
BY DEF Amounts, Plus, Minus, None

\* A set of sets that holds {} and grows by single transactions holds all sets.
LEMMA GrowingSets ==
  ASSUME NEW N \in SUBSET SUBSET Txs, {} \in N, \A S \in N : \A x \in Txs \ S : S \cup {x} \in N
  PROVE  N = SUBSET Txs
<1>1. SUFFICES ASSUME NEW V \in SUBSET Txs PROVE V \in N
  OBVIOUS
<1>2. PICK K \in Nat : K = Cardinality(V)
  BY FiniteTxs
<1> DEFINE M == {i \in 0..K : \A S \in SUBSET Txs : Cardinality(S) = i => S \in N}
<1>3. 0 \in M
  <2>1. ASSUME NEW S \in SUBSET Txs, Cardinality(S) = 0 PROVE S \in N
    <3>1. S = {}
      BY <2>1, FiniteTxs, FS_EmptySet
    <3>2. QED
      BY <3>1
  <2>2. QED
    BY <2>1
<1>4. ASSUME NEW i \in M, i < K PROVE i + 1 \in M
  <2>1. i \in Nat /\ i + 1 \in 0..K
    BY <1>4
  <2>2. ASSUME NEW S \in SUBSET Txs, Cardinality(S) = i + 1 PROVE S \in N
    <3>1. S # {}
      <4>1. Cardinality({}) = 0 /\ i + 1 # 0
        BY <2>1, FS_EmptySet
      <4>2. QED
        BY <2>2, <4>1
    <3>2. PICK x \in S : TRUE
      BY <3>1
    <3>3. PICK R \in SUBSET Txs : R = S \ {x}
      OBVIOUS
    <3>4. Cardinality(R) = i
      BY <2>1, <2>2, <3>3, FiniteTxs
    <3>5. R \in N
      BY <1>4, <3>4
    <3>6. S = R \cup {x} /\ x \in Txs \ R
      BY <3>3
    <3>7. QED
      BY <3>5, <3>6
  <2>3. QED
    BY <2>1, <2>2
<1>5. M \in SUBSET (0..K)
  OBVIOUS
<1>6. M = 0..K
  <2> HIDE DEF M
  <2> QED BY <1>3, <1>4, <1>5, UpTo
<1>7. K \in M
  BY <1>6
<1>8. QED
  BY <1>2, <1>7

\* The total of a set grows with each transaction by its modified fee.
LEMMA TotalFacts ==
  ASSUME NEW p, p.feeDelta \in [Txs -> Int]
  PROVE  /\ Total(p, {}) = None
         /\ \A S \in SUBSET Txs : Total(p, S) \in Amounts
         /\ \A S \in SUBSET Txs : \A x \in Txs \ S :
              Total(p, S \cup {x}) = [n |-> Total(p, S).n + 1,
                                      fee |-> Total(p, S).fee + Fee[x] + p.feeDelta[x]]
<1>1. Weights(p) \in [Txs -> Int]
  BY MempoolAssumption DEF Weights, ModifiedFee
<1>2. PICK F : IsSum(Weights(p), F)
  BY <1>1, SumExists
<1>3. \A S \in SUBSET Txs : Fees(p, S) = F[S] /\ F[S] \in Int
  BY <1>2, FeesAreSum DEF IsSum
<1>4. F[{}] = 0
  <2>1. {} \in SUBSET Txs
    OBVIOUS
  <2>2. F = SumStep(Weights(p), F)
    BY <1>2 DEF IsSum
  <2>3. QED
    BY <2>1, <2>2 DEF SumStep
<1>5. Total(p, {}) = None
  <2>1. Fees(p, {}) = 0
    BY <1>3, <1>4
  <2>2. QED
    BY <2>1, FS_EmptySet DEF Total, None
<1>6. ASSUME NEW S \in SUBSET Txs PROVE Total(p, S) \in Amounts
  BY <1>3, FiniteTxs DEF Total, Amounts
<1>7. ASSUME NEW S \in SUBSET Txs, NEW x \in Txs \ S
      PROVE  Total(p, S \cup {x}) = [n |-> Total(p, S).n + 1,
                                     fee |-> Total(p, S).fee + Fee[x] + p.feeDelta[x]]
  <2>1. PICK R \in SUBSET Txs : R = S \cup {x}
    OBVIOUS
  <2>2. x \in R /\ R \ {x} = S
    BY <2>1
  <2>3. F[R] = Weights(p)[x] + F[S]
    BY <1>1, <1>2, <2>2, SumAnyOrder
  <2>4. Weights(p)[x] = Fee[x] + p.feeDelta[x]
    BY DEF Weights, ModifiedFee
  <2>5. Fee[x] \in Int /\ p.feeDelta[x] \in Int /\ F[S] \in Int
    BY <1>3, MempoolAssumption
  <2>6. F[R] = F[S] + Fee[x] + p.feeDelta[x]
    BY <2>3, <2>4, <2>5
  <2>7. Cardinality(R) = Cardinality(S) + 1
    BY <2>1, FiniteTxs
  <2>8. Fees(p, R) = Fees(p, S) + Fee[x] + p.feeDelta[x]
    BY <1>3, <2>6
  <2>9. Total(p, R) = [n |-> Total(p, S).n + 1, fee |-> Total(p, S).fee + Fee[x] + p.feeDelta[x]]
    BY <2>7, <2>8 DEF Total
  <2>10. QED
    BY <2>1, <2>9
<1>8. QED
  BY <1>5, <1>6, <1>7

\* The total of disjoint sets is the sum of their totals.
LEMMA TotalUnion ==
  ASSUME NEW p, p.feeDelta \in [Txs -> Int], NEW S \in SUBSET Txs, NEW V \in SUBSET Txs,
         S \cap V = {}
  PROVE  Total(p, S \cup V) = Plus(Total(p, S), Total(p, V))
<1> DEFINE N == {W \in SUBSET Txs : S \cap W = {} => Total(p, S \cup W) = Plus(Total(p, S), Total(p, W))}
<1>1. {} \in N
  <2>1. Plus(Total(p, S), None) = Total(p, S)
    BY TotalFacts, AmountFacts
  <2>2. S \cup {} = S
    OBVIOUS
  <2>3. QED
    BY <2>1, <2>2, TotalFacts
<1>2. ASSUME NEW W \in N, NEW x \in Txs \ W PROVE W \cup {x} \in N
  <2>1. W \in SUBSET Txs /\ W \cup {x} \in SUBSET Txs
    OBVIOUS
  <2>2. ASSUME S \cap (W \cup {x}) = {}
        PROVE  Total(p, S \cup (W \cup {x})) = Plus(Total(p, S), Total(p, W \cup {x}))
    <3>1. PICK U \in SUBSET Txs : U = S \cup W
      BY <2>1
    <3>2. S \cup (W \cup {x}) = U \cup {x} /\ x \in Txs \ U /\ S \cap W = {}
      BY <2>2, <3>1
    <3>3. Total(p, U) = Plus(Total(p, S), Total(p, W))
      BY <3>1, <3>2
    <3>4. PICK a \in Amounts : a = Total(p, S)
      BY TotalFacts
    <3>5. PICK b \in Amounts : b = Total(p, W)
      BY <2>1, TotalFacts
    <3>6. PICK f \in Int : f = Fee[x] /\ p.feeDelta[x] \in Int
      BY MempoolAssumption
    <3>7. Total(p, W \cup {x}) = [n |-> b.n + 1, fee |-> b.fee + f + p.feeDelta[x]]
      BY <2>1, <3>5, <3>6, TotalFacts
    <3>8. Total(p, U \cup {x}) = [n |-> Plus(a, b).n + 1, fee |-> Plus(a, b).fee + f + p.feeDelta[x]]
      BY <3>2, <3>3, <3>4, <3>5, <3>6, TotalFacts
    <3>9. [n |-> Plus(a, b).n + 1, fee |-> Plus(a, b).fee + f + p.feeDelta[x]]
          = Plus(a, [n |-> b.n + 1, fee |-> b.fee + f + p.feeDelta[x]])
      BY <3>6 DEF Plus, Amounts
    <3>10. QED
      BY <3>2, <3>4, <3>7, <3>8, <3>9
  <2>3. QED
    BY <2>1, <2>2
<1>3. N \in SUBSET SUBSET Txs
  OBVIOUS
<1>4. N = SUBSET Txs
  <2> HIDE DEF N
  <2> QED BY <1>1, <1>2, <1>3, GrowingSets
<1>5. V \in N
  BY <1>4
<1>6. QED
  BY <1>5

\* The total of what is left when a part is taken away.
LEMMA TotalMinus ==
  ASSUME NEW p, p.feeDelta \in [Txs -> Int], NEW S \in SUBSET Txs, NEW R \in SUBSET S,
         NEW W, W = S \ R
  PROVE  Total(p, R) = Minus(Total(p, S), Total(p, W))
<1>1. W \in SUBSET Txs /\ R \in SUBSET Txs /\ S = R \cup W /\ R \cap W = {}
  OBVIOUS
<1>2. Total(p, S) = Plus(Total(p, R), Total(p, W))
  BY <1>1, TotalUnion
<1>3. Total(p, R) \in Amounts /\ Total(p, W) \in Amounts
  BY <1>1, TotalFacts
<1>4. Minus(Plus(Total(p, R), Total(p, W)), Total(p, W)) = Total(p, R)
  BY <1>3, AmountFacts
<1>5. QED
  BY <1>2, <1>4

\* Only the fees of the transactions in the set matter.
LEMMA TotalSame ==
  ASSUME NEW p, p.feeDelta \in [Txs -> Int], NEW q, q.feeDelta \in [Txs -> Int],
         NEW S \in SUBSET Txs, \A x \in S : q.feeDelta[x] = p.feeDelta[x]
  PROVE  Total(q, S) = Total(p, S)
<1> DEFINE N == {W \in SUBSET Txs : W \subseteq S => Total(q, W) = Total(p, W)}
<1>1. {} \in N
  BY TotalFacts
<1>2. ASSUME NEW W \in N, NEW x \in Txs \ W PROVE W \cup {x} \in N
  <2>1. W \in SUBSET Txs /\ W \cup {x} \in SUBSET Txs
    OBVIOUS
  <2>2. ASSUME W \cup {x} \subseteq S PROVE Total(q, W \cup {x}) = Total(p, W \cup {x})
    <3>1. Total(q, W) = Total(p, W) /\ q.feeDelta[x] = p.feeDelta[x]
      BY <2>2
    <3>2. /\ Total(p, W \cup {x}) = [n |-> Total(p, W).n + 1,
                                      fee |-> Total(p, W).fee + Fee[x] + p.feeDelta[x]]
          /\ Total(q, W \cup {x}) = [n |-> Total(q, W).n + 1,
                                      fee |-> Total(q, W).fee + Fee[x] + q.feeDelta[x]]
      BY <2>1, TotalFacts
    <3>3. QED
      BY <3>1, <3>2
  <2>3. QED
    BY <2>1, <2>2
<1>3. N \in SUBSET SUBSET Txs
  OBVIOUS
<1>4. N = SUBSET Txs
  <2> HIDE DEF N
  <2> QED BY <1>1, <1>2, <1>3, GrowingSets
<1>5. S \in N
  BY <1>4
<1>6. QED
  BY <1>5

\* The total of S in q, which has fee d for t in the place of the one of p.
Changed(p, q, t, d, S) ==
  Total(q, S) = IF t \in S THEN Plus(Total(p, S), [n |-> 0, fee |-> d - p.feeDelta[t]])
                ELSE Total(p, S)

\* When one fee changes, so do the totals of the sets with that transaction.
LEMMA TotalChanged ==
  ASSUME NEW p, p.feeDelta \in [Txs -> Int], NEW q, NEW t \in Txs, NEW d \in Int,
         q.feeDelta = [p.feeDelta EXCEPT ![t] = d], NEW S \in SUBSET Txs
  PROVE  Changed(p, q, t, d, S)
<1>1. q.feeDelta \in [Txs -> Int] /\ q.feeDelta[t] = d
      /\ \A x \in Txs : x # t => q.feeDelta[x] = p.feeDelta[x]
  OBVIOUS
<1>2. CASE t \notin S
  BY <1>1, <1>2, TotalSame DEF Changed
<1>3. CASE t \in S
  <2>1. PICK R \in SUBSET Txs : R = S \ {t}
    OBVIOUS
  <2>2. S = R \cup {t} /\ t \in Txs \ R
    BY <1>3, <2>1
  <2>3. Total(q, R) = Total(p, R)
    BY <1>1, <2>2, TotalSame
  <2>4. PICK a \in Amounts : a = Total(p, R)
    BY TotalFacts
  <2>5. PICK f \in Int : f = Fee[t] /\ p.feeDelta[t] \in Int
    BY MempoolAssumption
  <2>6. Total(p, S) = [n |-> a.n + 1, fee |-> a.fee + f + p.feeDelta[t]]
    BY <2>2, <2>4, <2>5, TotalFacts
  <2>7. Total(q, S) = [n |-> a.n + 1, fee |-> a.fee + f + d]
    BY <1>1, <2>2, <2>3, <2>4, <2>5, TotalFacts
  <2>8. [n |-> a.n + 1, fee |-> a.fee + f + d]
        = Plus([n |-> a.n + 1, fee |-> a.fee + f + p.feeDelta[t]], [n |-> 0, fee |-> d - p.feeDelta[t]])
    BY <2>5 DEF Plus, Amounts
  <2>9. QED
    BY <1>3, <2>6, <2>7, <2>8 DEF Changed
<1>4. QED
  BY <1>2, <1>3

-----------------------------------------------------------------------------
(* Ancestors and descendants.                                              *)

\* The links of one are the links of the other, turned around.
Dual(par, chi) == /\ par \in [Txs -> SUBSET Txs] /\ chi \in [Txs -> SUBSET Txs]
                  /\ \A x, y \in Txs : y \in par[x] <=> x \in chi[y]

\* What is reached from something reached is reached; the first step is one of links.
LEMMA ClosureOfOne ==
  ASSUME NEW links \in [Txs -> SUBSET Txs], NEW x \in Txs
  PROVE  /\ Closure(links, {x}) \in SUBSET Txs /\ x \in Closure(links, {x})
         /\ \A y \in Closure(links, {x}) : links[y] \subseteq Closure(links, {x})
         /\ \A y \in Closure(links, {x}) : Closure(links, {y}) \subseteq Closure(links, {x})
         /\ Closure(links, {x}) = {x} \cup Closure(links, links[x])
<1>1. PICK C \in SUBSET Txs : C = Closure(links, {x})
  BY ClosureFacts
<1>2. x \in C /\ \A y \in C : links[y] \subseteq C
  BY <1>1, ClosureFacts
<1>3. \A y \in C : Closure(links, {y}) \subseteq C
  BY <1>2, ClosureLeast
<1>4. PICK D \in SUBSET Txs : D = Closure(links, links[x])
  BY ClosureFacts
<1>5. links[x] \subseteq D /\ \A y \in D : links[y] \subseteq D
  BY <1>4, ClosureFacts
<1>6. D \subseteq C
  BY <1>2, <1>4, ClosureLeast
<1>7. C \subseteq {x} \cup D
  <2>1. PICK E \in SUBSET Txs : E = {x} \cup D
    OBVIOUS
  <2>2. {x} \subseteq E /\ \A y \in E : links[y] \subseteq E
    BY <1>5, <2>1
  <2>3. Closure(links, {x}) \subseteq E
    BY <2>2, ClosureLeast
  <2>4. QED
    BY <1>1, <2>1, <2>3
<1>8. QED
  BY <1>1, <1>2, <1>3, <1>4, <1>6, <1>7

\* An ancestor of x has x among its descendants.
LEMMA DualOneWay ==
  ASSUME NEW par, NEW chi, Dual(par, chi), NEW x \in Txs, NEW y \in Closure(par, {x})
  PROVE  x \in Closure(chi, {y})
<1>1. par \in [Txs -> SUBSET Txs] /\ chi \in [Txs -> SUBSET Txs]
  BY DEF Dual
<1> DEFINE D == {z \in Txs : x \in Closure(chi, {z})}
<1>2. x \in D
  BY <1>1, ClosureFacts
<1>3. ASSUME NEW z \in D PROVE par[z] \subseteq D
  <2>1. SUFFICES ASSUME NEW v \in par[z] PROVE v \in D
    OBVIOUS
  <2>2. v \in Txs /\ z \in chi[v]
    BY <1>1, <2>1 DEF Dual
  <2>3. z \in Closure(chi, {v})
    BY <1>1, <2>2, ClosureOfOne
  <2>4. Closure(chi, {z}) \subseteq Closure(chi, {v})
    BY <1>1, <2>2, <2>3, ClosureOfOne
  <2>5. QED
    BY <2>2, <2>4
<1>4. Closure(par, {x}) \subseteq D
  <2>1. {x} \subseteq D /\ D \subseteq Txs
    BY <1>2
  <2> HIDE DEF D
  <2>2. QED
    BY <1>1, <1>3, <2>1, ClosureLeast
<1>5. QED
  BY <1>4

\* Ancestors and descendants mirror each other.
LEMMA ClosureDual ==
  ASSUME NEW par, NEW chi, Dual(par, chi), NEW x \in Txs, NEW y \in Txs
  PROVE  y \in Closure(par, {x}) <=> x \in Closure(chi, {y})
<1>1. Dual(chi, par)
  BY DEF Dual
<1>2. ASSUME y \in Closure(par, {x}) PROVE x \in Closure(chi, {y})
  BY <1>2, DualOneWay
<1>3. ASSUME x \in Closure(chi, {y}) PROVE y \in Closure(par, {x})
  BY <1>1, <1>3, DualOneWay
<1>4. QED
  BY <1>2, <1>3

\* A walk along other links that agree where it goes reaches the same.
LEMMA ClosureSame ==
  ASSUME NEW l \in [Txs -> SUBSET Txs], NEW k \in [Txs -> SUBSET Txs], NEW S \in SUBSET Txs,
         \A x \in Closure(l, S) : k[x] = l[x]
  PROVE  Closure(k, S) = Closure(l, S)
<1>1. Closure(k, S) \subseteq Closure(l, S)
  BY ClosureFacts, ClosureLeast
<1>2. \A x \in Closure(k, S) : k[x] = l[x]
  BY <1>1
<1>3. Closure(l, S) \subseteq Closure(k, S)
  BY <1>2, ClosureFacts, ClosureLeast
<1>4. QED
  BY <1>1, <1>3

-----------------------------------------------------------------------------
(* Removals.                                                               *)

\* The totals after RemoveStaged.
StagedAnc(p, S, u) ==
  [x \in Txs |-> IF x \in S THEN None ELSE IF ~u THEN p.anc[x]
                 ELSE Minus(p.anc[x], Total(p, {r \in S : x \in CalculateDescendants(p, {r})}))]
StagedDesc(p, S) ==
  [x \in Txs |-> IF x \in S THEN None
                 ELSE Minus(p.desc[x], Total(p, {r \in S : x \in LinkedAncestors(p, r)}))]

\* The members after RemoveStaged.
Staged(p, S, u, q) ==
  /\ Fields(q) /\ q.txs = p.txs \ S /\ q.delta = p.delta
  /\ q.feeDelta = [x \in Txs |-> IF x \in S THEN 0 ELSE p.feeDelta[x]]
  /\ q.par = [x \in Txs |-> IF x \in S THEN {} ELSE p.par[x] \ {r \in S : x \in p.chi[r]}]
  /\ q.chi = [x \in Txs |-> IF x \in S THEN {} ELSE p.chi[x] \ {r \in S : x \in p.par[r]}]
  /\ q.anc = StagedAnc(p, S, u) /\ q.desc = StagedDesc(p, S)

\* They are these.
LEMMA StagedFields ==
  ASSUME NEW p, Fields(p), NEW S, NEW u
  PROVE  Staged(p, S, u, RemoveStaged(p, S, u))
<1>1. PICK anc : anc = StagedAnc(p, S, u)
  BY Zenon
<1>2. PICK desc : desc = StagedDesc(p, S)
  BY Zenon
<1>3. PICK par : par = [x \in Txs |-> IF x \in S THEN {} ELSE p.par[x] \ {r \in S : x \in p.chi[r]}]
  BY Zenon
<1>4. PICK chi : chi = [x \in Txs |-> IF x \in S THEN {} ELSE p.chi[x] \ {r \in S : x \in p.par[r]}]
  BY Zenon
<1>5. PICK feeDelta : feeDelta = [x \in Txs |-> IF x \in S THEN 0 ELSE p.feeDelta[x]]
  BY Zenon
<1>6. RemoveStaged(p, S, u) = [p EXCEPT !.txs = p.txs \ S, !.feeDelta = feeDelta, !.anc = anc,
                                        !.desc = desc, !.par = par, !.chi = chi]
  BY <1>1, <1>2, <1>3, <1>4, <1>5, Zenon DEF RemoveStaged, StagedAnc, StagedDesc
<1>7. [p EXCEPT !.txs = p.txs \ S, !.feeDelta = feeDelta, !.anc = anc,
                !.desc = desc, !.par = par, !.chi = chi]
      = [txs |-> p.txs \ S, feeDelta |-> feeDelta, anc |-> anc, desc |-> desc,
         par |-> par, chi |-> chi, delta |-> p.delta]
  <2>1. PICK txs : txs = p.txs \ S
    OBVIOUS
  <2>2. PICK p1 : p1 = [p EXCEPT !.txs = txs]
    OBVIOUS
  <2>3. p1 = [txs |-> txs, feeDelta |-> p.feeDelta, anc |-> p.anc, desc |-> p.desc,
              par |-> p.par, chi |-> p.chi, delta |-> p.delta]
    BY <2>2 DEF Fields
  <2>4. PICK p2 : p2 = [p1 EXCEPT !.feeDelta = feeDelta]
    OBVIOUS
  <2>5. p2 = [txs |-> txs, feeDelta |-> feeDelta, anc |-> p.anc, desc |-> p.desc,
              par |-> p.par, chi |-> p.chi, delta |-> p.delta]
    BY <2>3, <2>4
  <2>6. PICK p3 : p3 = [p2 EXCEPT !.anc = anc]
    OBVIOUS
  <2>7. p3 = [txs |-> txs, feeDelta |-> feeDelta, anc |-> anc, desc |-> p.desc,
              par |-> p.par, chi |-> p.chi, delta |-> p.delta]
    BY <2>5, <2>6
  <2>8. PICK p4 : p4 = [p3 EXCEPT !.desc = desc]
    OBVIOUS
  <2>9. p4 = [txs |-> txs, feeDelta |-> feeDelta, anc |-> anc, desc |-> desc,
              par |-> p.par, chi |-> p.chi, delta |-> p.delta]
    BY <2>7, <2>8
  <2>10. PICK p5 : p5 = [p4 EXCEPT !.par = par]
    OBVIOUS
  <2>11. p5 = [txs |-> txs, feeDelta |-> feeDelta, anc |-> anc, desc |-> desc,
               par |-> par, chi |-> p.chi, delta |-> p.delta]
    BY <2>9, <2>10
  <2>12. [p5 EXCEPT !.chi = chi]
         = [txs |-> txs, feeDelta |-> feeDelta, anc |-> anc, desc |-> desc,
            par |-> par, chi |-> chi, delta |-> p.delta]
    BY <2>11
  <2>13. [p EXCEPT !.txs = p.txs \ S, !.feeDelta = feeDelta, !.anc = anc,
                   !.desc = desc, !.par = par, !.chi = chi] = [p5 EXCEPT !.chi = chi]
    BY <2>1, <2>2, <2>4, <2>6, <2>8, <2>10, Zenon
  <2>14. QED
    BY <2>1, <2>12, <2>13, Zenon
<1>8. PICK q : q = RemoveStaged(p, S, u)
  OBVIOUS
<1>9. q = [txs |-> p.txs \ S, feeDelta |-> feeDelta, anc |-> anc, desc |-> desc,
           par |-> par, chi |-> chi, delta |-> p.delta]
  BY <1>6, <1>7, <1>8
<1>10. /\ Fields(q) /\ q.txs = p.txs \ S /\ q.delta = p.delta
       /\ q.feeDelta = feeDelta /\ q.par = par /\ q.chi = chi /\ q.anc = anc /\ q.desc = desc
  BY <1>9 DEF Fields
<1>11. Staged(p, S, u, q)
  BY <1>1, <1>2, <1>3, <1>4, <1>5, <1>10 DEF Staged
<1>12. QED
  BY <1>8, <1>11

\* q is p without S.
Cut(p, S, q) == /\ Sound(q) /\ q.txs = p.txs \ S /\ q.delta = p.delta
                /\ \A x \in Txs \ S : /\ q.feeDelta[x] = p.feeDelta[x]
                                     /\ q.par[x] = p.par[x] \ S /\ q.chi[x] = p.chi[x] \ S

\* RemoveStaged cuts the links of what it removes, on both sides.
LEMMA StagedSound ==
  ASSUME NEW p, Sound(p), NEW S \in SUBSET Txs, NEW u
  PROVE  Cut(p, S, RemoveStaged(p, S, u))
<1>1. PICK q : q = RemoveStaged(p, S, u)
  OBVIOUS
<1>2. /\ Fields(q) /\ q.txs = p.txs \ S /\ q.delta = p.delta
      /\ q.feeDelta = [x \in Txs |-> IF x \in S THEN 0 ELSE p.feeDelta[x]]
      /\ q.par = [x \in Txs |-> IF x \in S THEN {} ELSE p.par[x] \ {r \in S : x \in p.chi[r]}]
      /\ q.chi = [x \in Txs |-> IF x \in S THEN {} ELSE p.chi[x] \ {r \in S : x \in p.par[r]}]
  <2>1. Staged(p, S, u, q)
    BY <1>1, StagedFields DEF Sound
  <2>2. QED
    BY <2>1 DEF Staged
<1>3. /\ p.feeDelta \in [Txs -> Int] /\ p.delta \in [Txs -> Int]
      /\ p.par \in [Txs -> SUBSET Txs] /\ p.chi \in [Txs -> SUBSET Txs]
      /\ p.txs \in SUBSET Txs
      /\ \A x, y \in Txs : y \in p.par[x] <=> x \in p.chi[y]
      /\ \A x, y \in Txs : y \in p.par[x] => x \in p.txs /\ y \in p.txs /\ y \in Sources(x)
  BY DEF Sound, SoundLinks
<1>4. ASSUME NEW x \in Txs
      PROVE  /\ q.par[x] = IF x \in S THEN {} ELSE p.par[x] \ S
             /\ q.chi[x] = IF x \in S THEN {} ELSE p.chi[x] \ S
  <2>1. p.par[x] \subseteq Txs /\ p.chi[x] \subseteq Txs
    BY <1>3
  <2>2. p.par[x] \ {r \in S : x \in p.chi[r]} = p.par[x] \ S
    BY <1>3, <2>1
  <2>3. p.chi[x] \ {r \in S : x \in p.par[r]} = p.chi[x] \ S
    BY <1>3, <2>1
  <2>4. QED
    BY <1>2, <2>2, <2>3
<1>5. q.par \in [Txs -> SUBSET Txs] /\ q.chi \in [Txs -> SUBSET Txs]
  <2>1. ASSUME NEW x \in Txs PROVE q.par[x] \in SUBSET Txs /\ q.chi[x] \in SUBSET Txs
    <3>1. p.par[x] \subseteq Txs /\ p.chi[x] \subseteq Txs
      BY <1>3
    <3>2. CASE x \in S
      BY <1>4, <3>2
    <3>3. CASE x \notin S
      BY <1>4, <3>1, <3>3
    <3>4. QED
      BY <3>2, <3>3
  <2>2. q.par = [x \in Txs |-> q.par[x]] /\ q.chi = [x \in Txs |-> q.chi[x]]
    BY <1>2
  <2>3. QED
    BY <2>1, <2>2
<1>6. q.feeDelta \in [Txs -> Int] /\ \A x \in Txs \ S : q.feeDelta[x] = p.feeDelta[x]
  BY <1>2, <1>3
<1>7. ASSUME NEW x \in Txs, NEW y \in Txs PROVE y \in q.par[x] <=> x \in q.chi[y]
  <2>1. y \in p.par[x] <=> x \in p.chi[y]
    BY <1>3
  <2>2. y \in q.par[x] <=> x \notin S /\ y \in p.par[x] /\ y \notin S
    BY <1>4
  <2>3. x \in q.chi[y] <=> y \notin S /\ x \in p.chi[y] /\ x \notin S
    BY <1>4
  <2>4. QED
    BY <2>1, <2>2, <2>3
<1>8. \A x, y \in Txs : y \in q.par[x] => x \in q.txs /\ y \in q.txs /\ y \in Sources(x)
  BY <1>2, <1>3, <1>4
<1>9. SoundLinks(q.txs, q.par, q.chi)
  BY <1>2, <1>3, <1>5, <1>7, <1>8 DEF SoundLinks
<1>10. Sound(q)
  BY <1>2, <1>3, <1>6, <1>9 DEF Sound
<1>11. \A x \in Txs \ S : q.par[x] = p.par[x] \ S /\ q.chi[x] = p.chi[x] \ S
  BY <1>4
<1>12. Cut(p, S, q)
  BY <1>2, <1>6, <1>10, <1>11 DEF Cut
<1>13. QED
  BY <1>1, <1>12

\* What is left after a removal still has its links and its inputs to itself.
LEMMA CutLinked ==
  ASSUME NEW p, Sound(p), NEW S \in SUBSET Txs, NEW q, Cut(p, S, q),
         NEW A, NEW B, Linked(p.txs, p.par, A, B), Single(p.txs)
  PROVE  Sound(q) /\ Linked(q.txs, q.par, A, B) /\ Single(q.txs)
<1>1. /\ Sound(q) /\ q.txs = p.txs \ S
      /\ \A x \in Txs \ S : q.par[x] = p.par[x] \ S
  BY DEF Cut
<1>2. p.txs \subseteq Txs
  BY DEF Sound, SoundLinks
<1>3. Linked(q.txs, q.par, A, B)
  BY <1>1, <1>2 DEF Linked
<1>4. Single(q.txs)
  BY <1>1 DEF Single
<1>5. QED
  BY <1>1, <1>3, <1>4

\* The descendants of T: pool transactions, T among them, with their children.
LEMMA DescendantsFacts ==
  ASSUME NEW p, Sound(p), NEW T \in SUBSET p.txs
  PROVE  /\ CalculateDescendants(p, T) \in SUBSET p.txs /\ T \subseteq CalculateDescendants(p, T)
         /\ \A x \in CalculateDescendants(p, T) : p.chi[x] \subseteq CalculateDescendants(p, T)
<1>1. /\ p.txs \in SUBSET Txs /\ p.chi \in [Txs -> SUBSET Txs]
      /\ \A x, y \in Txs : y \in p.chi[x] => y \in p.txs
  BY DEF Sound, SoundLinks
<1>2. PICK links \in [Txs -> SUBSET Txs] : links = p.chi
  BY <1>1
<1>3. \A x \in p.txs : links[x] \subseteq p.txs
  BY <1>1, <1>2
<1>4. T \in SUBSET Txs /\ T \subseteq p.txs
  BY <1>1
<1>5. PICK D : D = p.txs
  OBVIOUS
<1>6. T \subseteq D /\ D \subseteq Txs /\ \A x \in D : links[x] \subseteq D
  BY <1>1, <1>3, <1>4, <1>5
<1>7. Closure(links, T) \subseteq D
  BY <1>6, ClosureLeast
<1>8. /\ T \subseteq Closure(links, T)
      /\ \A x \in Closure(links, T) : links[x] \subseteq Closure(links, T)
  BY <1>4, ClosureFacts
<1>9. QED
  BY <1>2, <1>5, <1>7, <1>8 DEF CalculateDescendants

-----------------------------------------------------------------------------
(* Totals after removals.                                                  *)

\* The links of a pool.
LEMMA PoolLinks ==
  ASSUME NEW p, Sound(p)
  PROVE  /\ Dual(p.par, p.chi) /\ p.txs \in SUBSET Txs /\ p.feeDelta \in [Txs -> Int]
         /\ \A x \in Txs : p.par[x] \subseteq p.txs /\ p.chi[x] \subseteq p.txs
         /\ \A x \in Txs \ p.txs : p.par[x] = {} /\ p.chi[x] = {}
<1>1. /\ p.par \in [Txs -> SUBSET Txs] /\ p.chi \in [Txs -> SUBSET Txs] /\ p.txs \in SUBSET Txs
      /\ \A x, y \in Txs : y \in p.par[x] <=> x \in p.chi[y]
      /\ \A x, y \in Txs : y \in p.par[x] => x \in p.txs /\ y \in p.txs
      /\ p.feeDelta \in [Txs -> Int]
  BY DEF Sound, SoundLinks
<1>2. ASSUME NEW x \in Txs PROVE p.par[x] \subseteq p.txs /\ p.chi[x] \subseteq p.txs
  <2>1. p.par[x] \subseteq Txs /\ p.chi[x] \subseteq Txs
    BY <1>1
  <2>2. QED
    BY <1>1, <2>1
<1>3. ASSUME NEW x \in Txs \ p.txs PROVE p.par[x] = {} /\ p.chi[x] = {}
  <2>1. p.par[x] \subseteq Txs /\ p.chi[x] \subseteq Txs
    BY <1>1
  <2>2. QED
    BY <1>1, <2>1
<1>4. QED
  BY <1>1, <1>2, <1>3 DEF Dual

\* What is reached from a pool transaction is in the pool.
LEMMA PoolClosure ==
  ASSUME NEW p, Sound(p), NEW x \in p.txs
  PROVE  /\ Closure(p.par, {x}) \in SUBSET p.txs /\ Closure(p.chi, {x}) \in SUBSET p.txs
         /\ x \in Closure(p.par, {x}) /\ x \in Closure(p.chi, {x})
<1>1. /\ p.par \in [Txs -> SUBSET Txs] /\ p.chi \in [Txs -> SUBSET Txs] /\ p.txs \in SUBSET Txs
      /\ \A y \in Txs : p.par[y] \subseteq p.txs /\ p.chi[y] \subseteq p.txs
  BY PoolLinks DEF Dual
<1>2. {x} \subseteq p.txs /\ p.txs \subseteq Txs /\ x \in Txs
  BY <1>1
<1>3. Closure(p.par, {x}) \subseteq p.txs
  BY <1>1, <1>2, ClosureLeast
<1>4. Closure(p.chi, {x}) \subseteq p.txs
  BY <1>1, <1>2, ClosureLeast
<1>5. QED
  BY <1>1, <1>2, <1>3, <1>4, ClosureOfOne

\* What left is subtracted.
Subtracted(p, S, u, q) ==
  /\ q.anc \in [Txs -> Amounts] /\ q.desc \in [Txs -> Amounts]
  /\ \A x \in Txs \ S : q.desc[x] = Minus(p.desc[x], Total(p, {r \in S : x \in LinkedAncestors(p, r)}))
  /\ \A x \in Txs \ S : q.anc[x] = IF ~u THEN p.anc[x] ELSE
       Minus(p.anc[x], Total(p, {r \in S : x \in CalculateDescendants(p, {r})}))
  /\ \A x \in S : q.desc[x] = None

\* The members of the totals after RemoveStaged, one by one.
LEMMA StagedTotals ==
  ASSUME NEW p, Sound(p), Summed(p), NEW S \in SUBSET p.txs, NEW u \in BOOLEAN,
         NEW q, q = RemoveStaged(p, S, u)
  PROVE  Subtracted(p, S, u, q)
<1>1. q.anc = StagedAnc(p, S, u) /\ q.desc = StagedDesc(p, S)
  <2>1. Staged(p, S, u, q)
    BY StagedFields DEF Sound
  <2>2. QED
    BY <2>1 DEF Staged
<1>2. S \in SUBSET Txs /\ p.feeDelta \in [Txs -> Int]
  BY PoolLinks
<1>3. p.anc \in [Txs -> Amounts] /\ p.desc \in [Txs -> Amounts]
  BY DEF Summed
<1>4. None \in Amounts
  BY DEF None, Amounts
<1>5. \A x \in Txs \ S : q.desc[x] = Minus(p.desc[x], Total(p, {r \in S : x \in LinkedAncestors(p, r)}))
  BY <1>1 DEF StagedDesc
<1>6. \A x \in Txs \ S : q.anc[x] = IF ~u THEN p.anc[x] ELSE
              Minus(p.anc[x], Total(p, {r \in S : x \in CalculateDescendants(p, {r})}))
  BY <1>1 DEF StagedAnc
<1>7. \A x \in S : q.desc[x] = None /\ q.anc[x] = None
  BY <1>1, <1>2 DEF StagedAnc, StagedDesc
<1>8. ASSUME NEW x \in Txs PROVE q.anc[x] \in Amounts /\ q.desc[x] \in Amounts
  <2>1. CASE x \in S
    BY <1>4, <1>7, <2>1
  <2>2. CASE x \notin S
    <3>1. PICK R \in SUBSET Txs : R = {r \in S : x \in LinkedAncestors(p, r)}
      BY <1>2
    <3>2. PICK T \in SUBSET Txs : T = {r \in S : x \in CalculateDescendants(p, {r})}
      BY <1>2
    <3>3. Total(p, R) \in Amounts /\ Total(p, T) \in Amounts
      BY <1>2, TotalFacts
    <3>4. p.anc[x] \in Amounts /\ p.desc[x] \in Amounts
      BY <1>3
    <3>5. Minus(p.desc[x], Total(p, R)) \in Amounts /\ Minus(p.anc[x], Total(p, T)) \in Amounts
      BY <3>3, <3>4, AmountFacts
    <3>6. q.desc[x] \in Amounts
      BY <1>5, <2>2, <3>1, <3>5
    <3>7. q.anc[x] \in Amounts
      BY <1>6, <2>2, <3>2, <3>4, <3>5
    <3>8. QED
      BY <3>6, <3>7
  <2>3. QED
    BY <2>1, <2>2
<1>9. q.anc = [x \in Txs |-> q.anc[x]] /\ q.desc = [x \in Txs |-> q.desc[x]]
  BY <1>1 DEF StagedAnc, StagedDesc
<1>10. q.anc \in [Txs -> Amounts] /\ q.desc \in [Txs -> Amounts]
  BY <1>8, <1>9
<1>11. QED
  BY <1>5, <1>6, <1>7, <1>10 DEF Subtracted

\* When a set with all its descendants leaves, the totals stay sums: nobody who
\* stays had an ancestor in it.
LEMMA ClosedSums ==
  ASSUME NEW p, Sound(p), Summed(p), NEW S \in SUBSET p.txs, \A x \in S : p.chi[x] \subseteq S,
         NEW u \in BOOLEAN
  PROVE  Summed(RemoveStaged(p, S, u))
<1>1. PICK q : q = RemoveStaged(p, S, u)
  OBVIOUS
<1>2. /\ Dual(p.par, p.chi) /\ p.txs \in SUBSET Txs /\ p.feeDelta \in [Txs -> Int]
      /\ S \in SUBSET Txs /\ \A x \in Txs : p.par[x] \subseteq p.txs /\ p.chi[x] \subseteq p.txs
  BY PoolLinks
<1>3. Cut(p, S, q)
  BY <1>1, <1>2, StagedSound
<1>4. /\ Sound(q) /\ q.txs = p.txs \ S /\ q.delta = p.delta
      /\ \A x \in Txs \ S : q.feeDelta[x] = p.feeDelta[x]
  BY <1>3 DEF Cut
<1>5. Dual(q.par, q.chi) /\ q.txs \in SUBSET Txs /\ q.feeDelta \in [Txs -> Int]
  BY <1>4, PoolLinks
<1>6. /\ p.par \in [Txs -> SUBSET Txs] /\ p.chi \in [Txs -> SUBSET Txs]
      /\ q.par \in [Txs -> SUBSET Txs] /\ q.chi \in [Txs -> SUBSET Txs]
  BY <1>2, <1>5 DEF Dual
<1>7. ASSUME NEW x \in Txs \ S PROVE q.par[x] = p.par[x] \ S /\ q.chi[x] = p.chi[x] \ S
  BY <1>3 DEF Cut
<1>8. ASSUME NEW r \in S PROVE Closure(p.chi, {r}) \subseteq S
  <2>1. {r} \subseteq S /\ S \subseteq Txs
    BY <1>2
  <2>2. QED
    BY <1>6, <2>1, ClosureLeast
<1>9. ASSUME NEW x \in q.txs
      PROVE  /\ Closure(q.par, {x}) = Closure(p.par, {x})
             /\ Total(q, Closure(p.par, {x})) = Total(p, Closure(p.par, {x}))
  <2>1. x \in p.txs /\ x \in Txs /\ x \notin S
    BY <1>2, <1>4
  <2>2. PICK C \in SUBSET p.txs : C = Closure(p.par, {x}) /\ x \in C
    BY <2>1, PoolClosure
  <2>3. C \in SUBSET Txs /\ \A y \in C : p.par[y] \subseteq C
    BY <1>2, <1>6, <2>1, <2>2, ClosureOfOne
  <2>4. ASSUME NEW y \in C PROVE y \notin S
    <3>1. x \in Closure(p.chi, {y})
      BY <1>2, <2>1, <2>2, <2>3, ClosureDual
    <3>2. QED
      BY <1>8, <2>1, <3>1
  <2>5. ASSUME NEW y \in C PROVE q.par[y] = p.par[y]
    <3>1. q.par[y] = p.par[y] \ S
      BY <1>7, <2>3, <2>4
    <3>2. QED
      BY <2>3, <2>4, <3>1
  <2>6. Closure(q.par, {x}) = C
    <3>1. {x} \in SUBSET Txs
      BY <2>1
    <3>2. QED
      BY <1>6, <2>2, <2>5, <3>1, ClosureSame
  <2>7. \A y \in C : q.feeDelta[y] = p.feeDelta[y]
    BY <1>4, <2>3, <2>4
  <2>8. Total(q, C) = Total(p, C)
    BY <1>2, <1>5, <2>3, <2>7, TotalSame
  <2>9. QED
    BY <2>2, <2>6, <2>8
<1>10. ASSUME NEW x \in q.txs
       PROVE  /\ Closure(q.chi, {x}) = Closure(p.chi, {x}) \ S
              /\ Total(q, Closure(p.chi, {x}) \ S) = Total(p, Closure(p.chi, {x}) \ S)
              /\ Closure(p.chi, {x}) \in SUBSET Txs
  <2>1. x \in p.txs /\ x \in Txs /\ x \notin S
    BY <1>2, <1>4
  <2>2. PICK C \in SUBSET Txs : C = Closure(p.chi, {x}) /\ x \in C /\ \A y \in C : p.chi[y] \subseteq C
    <3>1. PICK links \in [Txs -> SUBSET Txs] : links = p.chi
      BY <1>6
    <3>2. PICK V \in SUBSET Txs : V = Closure(links, {x})
      BY <2>1, ClosureOfOne
    <3>3. x \in V /\ \A y \in V : links[y] \subseteq V
      BY <2>1, <3>2, ClosureOfOne
    <3>4. QED
      BY <3>1, <3>2, <3>3
  <2>3. PICK E \in SUBSET Txs : E = Closure(q.chi, {x}) /\ x \in E /\ \A y \in E : q.chi[y] \subseteq E
    <3>1. PICK links \in [Txs -> SUBSET Txs] : links = q.chi
      BY <1>6
    <3>2. PICK V \in SUBSET Txs : V = Closure(links, {x})
      BY <2>1, ClosureOfOne
    <3>3. x \in V /\ \A y \in V : links[y] \subseteq V
      BY <2>1, <3>2, ClosureOfOne
    <3>4. QED
      BY <3>1, <3>2, <3>3
  <2>4. PICK D \in SUBSET Txs : D = C \ S
    OBVIOUS
  <2>5. E \subseteq D
    <3>1. {x} \subseteq D
      BY <2>1, <2>2, <2>4
    <3>2. ASSUME NEW y \in D PROVE q.chi[y] \subseteq D
      <4>1. y \in C /\ y \in Txs \ S
        BY <2>4
      <4>2. p.chi[y] \subseteq C /\ q.chi[y] = p.chi[y] \ S
        BY <1>7, <2>2, <4>1
      <4>3. QED
        BY <2>4, <4>2
    <3>3. QED
      BY <1>6, <2>3, <3>1, <3>2, ClosureLeast
  <2>6. C \subseteq E \cup S
    <3>1. PICK V \in SUBSET Txs : V = E \cup S
      BY <1>2
    <3>2. ASSUME NEW y \in V PROVE p.chi[y] \subseteq V
      <4>1. CASE y \in S
        BY <3>1, <4>1
      <4>2. CASE y \notin S
        <5>1. q.chi[y] = p.chi[y] \ S /\ q.chi[y] \subseteq E
          BY <1>7, <2>3, <3>1, <4>2
        <5>2. QED
          BY <3>1, <5>1
      <4>3. QED
        BY <4>1, <4>2
    <3>3. {x} \subseteq V
      BY <2>3, <3>1
    <3>4. QED
      BY <1>6, <2>2, <3>1, <3>2, <3>3, ClosureLeast
  <2>7. E = D
    BY <2>4, <2>5, <2>6
  <2>8. \A y \in D : q.feeDelta[y] = p.feeDelta[y]
    BY <1>4, <2>4
  <2>9. Total(q, D) = Total(p, D)
    BY <1>2, <1>5, <2>8, TotalSame
  <2>10. QED
    BY <2>2, <2>3, <2>4, <2>7, <2>9
<1>11. /\ q.anc \in [Txs -> Amounts] /\ q.desc \in [Txs -> Amounts]
       /\ \A x \in Txs \ S : q.desc[x] = Minus(p.desc[x], Total(p, {r \in S : x \in LinkedAncestors(p, r)}))
       /\ \A x \in Txs \ S : q.anc[x] = IF ~u THEN p.anc[x] ELSE
            Minus(p.anc[x], Total(p, {r \in S : x \in CalculateDescendants(p, {r})}))
       /\ \A x \in S : q.desc[x] = None
  <2>1. Subtracted(p, S, u, q)
    BY <1>1, StagedTotals
  <2>2. QED
    BY <2>1 DEF Subtracted
<1>12. ASSUME NEW x \in q.txs PROVE q.desc[x] = Total(q, Closure(q.chi, {x}))
  <2>1. x \in p.txs /\ x \in Txs /\ x \notin S
    BY <1>2, <1>4
  <2>2. ASSUME NEW r \in S PROVE x \in LinkedAncestors(p, r) <=> r \in Closure(p.chi, {x})
    <3>1. r \in Txs
      BY <1>2
    <3>2. Closure(p.par, {r}) = {r} \cup LinkedAncestors(p, r)
      BY <1>6, <3>1, ClosureOfOne DEF LinkedAncestors
    <3>3. x \in Closure(p.par, {r}) <=> r \in Closure(p.chi, {x})
      BY <1>2, <2>1, <3>1, ClosureDual
    <3>4. QED
      BY <2>1, <3>2, <3>3
  <2>3. {r \in S : x \in LinkedAncestors(p, r)} = Closure(p.chi, {x}) \cap S
    BY <2>2
  <2>4. p.desc[x] = Total(p, Closure(p.chi, {x}))
    BY <2>1 DEF Summed
  <2>5. q.desc[x] = Minus(Total(p, Closure(p.chi, {x})), Total(p, Closure(p.chi, {x}) \cap S))
    BY <1>11, <2>1, <2>3, <2>4
  <2>6. q.desc[x] = Total(p, Closure(p.chi, {x}) \ S)
    <3>1. PICK C \in SUBSET Txs : C = Closure(p.chi, {x})
      BY <1>10
    <3>2. PICK R \in SUBSET C : R = C \ S
      OBVIOUS
    <3>3. PICK W : W = C \cap S
      OBVIOUS
    <3>4. p.feeDelta \in [Txs -> Int] /\ W = C \ R
      BY <1>2, <3>2, <3>3
    <3>5. Total(p, R) = Minus(Total(p, C), Total(p, W))
      BY <3>4, TotalMinus
    <3>6. QED
      BY <2>5, <3>1, <3>2, <3>3, <3>5
  <2>7. QED
    BY <1>10, <2>6
<1>13. ASSUME NEW x \in q.txs PROVE q.anc[x] = Total(q, Closure(q.par, {x}))
  <2>1. x \in p.txs /\ x \in Txs /\ x \notin S
    BY <1>2, <1>4
  <2>2. {r \in S : x \in CalculateDescendants(p, {r})} = {}
    BY <1>8, <2>1 DEF CalculateDescendants
  <2>3. p.anc[x] = Total(p, Closure(p.par, {x})) /\ p.anc[x] \in Amounts
    BY <2>1 DEF Summed
  <2>4. Minus(p.anc[x], Total(p, {})) = p.anc[x]
    BY <1>2, <2>3, TotalFacts, AmountFacts
  <2>5. q.anc[x] = p.anc[x]
    BY <1>11, <2>1, <2>2, <2>4
  <2>6. QED
    BY <1>9, <2>3, <2>5
<1>14. \A x \in q.txs : q.feeDelta[x] = q.delta[x]
  BY <1>2, <1>4 DEF Summed
<1>15. \A x \in Txs \ q.txs : q.desc[x] = None
  <2>1. SUFFICES ASSUME NEW x \in Txs \ q.txs PROVE q.desc[x] = None
    OBVIOUS
  <2>2. CASE x \in S
    BY <1>11, <2>2
  <2>3. CASE x \notin S
    <3>1. x \in Txs \ p.txs
      BY <1>4, <2>3
    <3>2. p.desc[x] = None /\ p.desc[x] \in Amounts
      BY <3>1 DEF Summed
    <3>3. ASSUME NEW r \in S PROVE x \notin LinkedAncestors(p, r)
      <4>1. r \in p.txs /\ r \in Txs
        BY <1>2
      <4>2. Closure(p.par, {r}) = {r} \cup LinkedAncestors(p, r)
        BY <1>6, <4>1, ClosureOfOne DEF LinkedAncestors
      <4>3. Closure(p.par, {r}) \in SUBSET p.txs
        BY <4>1, PoolClosure
      <4>4. QED
        BY <3>1, <4>2, <4>3
    <3>4. {r \in S : x \in LinkedAncestors(p, r)} = {}
      BY <3>3
    <3>5. q.desc[x] = Minus(p.desc[x], Total(p, {}))
      BY <1>11, <2>3, <3>4
    <3>6. QED
      BY <1>2, <3>2, <3>5, TotalFacts, AmountFacts
  <2>4. QED
    BY <2>2, <2>3
<1>16. Summed(q)
  BY <1>11, <1>12, <1>13, <1>14, <1>15 DEF Summed
<1>17. QED
  BY <1>1, <1>16

\* When a transaction without ancestors leaves alone, the totals stay sums: it was
\* counted by its descendants, and is subtracted there.
LEMMA SourceSums ==
  ASSUME NEW p, Sound(p), Summed(p), NEW t \in p.txs, p.par[t] = {}
  PROVE  Summed(RemoveStaged(p, {t}, TRUE))
<1>1. PICK S, q : S = {t} /\ q = RemoveStaged(p, S, TRUE)
  OBVIOUS
<1>2. /\ Dual(p.par, p.chi) /\ p.txs \in SUBSET Txs /\ p.feeDelta \in [Txs -> Int]
      /\ S \in SUBSET Txs /\ S \in SUBSET p.txs /\ t \in Txs
  BY <1>1, PoolLinks
<1>3. Cut(p, S, q)
  BY <1>1, <1>2, StagedSound
<1>4. /\ Sound(q) /\ q.txs = p.txs \ S /\ q.delta = p.delta
      /\ \A x \in Txs \ S : q.feeDelta[x] = p.feeDelta[x]
  BY <1>3 DEF Cut
<1>5. Dual(q.par, q.chi) /\ q.txs \in SUBSET Txs /\ q.feeDelta \in [Txs -> Int]
  BY <1>4, PoolLinks
<1>6. /\ p.par \in [Txs -> SUBSET Txs] /\ p.chi \in [Txs -> SUBSET Txs]
      /\ q.par \in [Txs -> SUBSET Txs] /\ q.chi \in [Txs -> SUBSET Txs]
  BY <1>2, <1>5 DEF Dual
<1>7. ASSUME NEW x \in Txs \ S PROVE q.par[x] = p.par[x] \ S /\ q.chi[x] = p.chi[x] \ S
  BY <1>3 DEF Cut
<1>8. Closure(p.par, {t}) = {t} /\ LinkedAncestors(p, t) \subseteq {t}
  <2>1. {t} \subseteq {t} /\ {t} \subseteq Txs /\ \A x \in {t} : p.par[x] \subseteq {t}
    BY <1>2
  <2>2. Closure(p.par, {t}) \subseteq {t}
    BY <1>6, <2>1, ClosureLeast
  <2>3. Closure(p.par, {t}) = {t} \cup LinkedAncestors(p, t)
    BY <1>2, <1>6, ClosureOfOne DEF LinkedAncestors
  <2>4. QED
    BY <2>2, <2>3
<1>9. ASSUME NEW x \in q.txs
      PROVE  /\ Closure(q.chi, {x}) = Closure(p.chi, {x})
             /\ Total(q, Closure(p.chi, {x})) = Total(p, Closure(p.chi, {x}))
  <2>1. x \in p.txs /\ x \in Txs /\ x # t
    BY <1>1, <1>2, <1>4
  <2>2. PICK links \in [Txs -> SUBSET Txs] : links = p.chi
    BY <1>6
  <2>3. PICK C \in SUBSET Txs : C = Closure(links, {x})
    BY <2>1, ClosureOfOne
  <2>4. \A y \in C : links[y] \subseteq C
    BY <2>1, <2>3, ClosureOfOne
  <2>5. t \notin C
    <3>1. x \in Closure(p.par, {t}) <=> t \in Closure(p.chi, {x})
      BY <1>2, <2>1, ClosureDual
    <3>2. QED
      BY <1>8, <2>1, <2>2, <2>3, <3>1
  <2>6. ASSUME NEW y \in C PROVE q.chi[y] = links[y]
    <3>1. q.chi[y] = p.chi[y] \ S
      BY <1>1, <1>7, <2>5
    <3>2. t \notin links[y]
      BY <2>4, <2>5
    <3>3. QED
      BY <1>1, <2>2, <3>1, <3>2
  <2>7. Closure(q.chi, {x}) = C
    <3>1. {x} \in SUBSET Txs
      BY <2>1
    <3>2. QED
      BY <1>6, <2>3, <2>6, <3>1, ClosureSame, ZenonT(40)
  <2>8. \A y \in C : q.feeDelta[y] = p.feeDelta[y]
    BY <1>1, <1>4, <2>5
  <2>9. Total(q, C) = Total(p, C)
    <3>1. p.feeDelta \in [Txs -> Int] /\ q.feeDelta \in [Txs -> Int]
      BY <1>2, <1>5
    <3>2. QED
      BY <3>1, <2>8, TotalSame
  <2>10. QED
    BY <2>2, <2>3, <2>7, <2>9
<1>10. ASSUME NEW x \in q.txs
       PROVE  /\ Closure(q.par, {x}) = Closure(p.par, {x}) \ S
              /\ Total(q, Closure(p.par, {x}) \ S) = Total(p, Closure(p.par, {x}) \ S)
              /\ Closure(p.par, {x}) \in SUBSET Txs
  <2>1. x \in p.txs /\ x \in Txs /\ x # t
    BY <1>1, <1>2, <1>4
  <2>2. PICK l \in [Txs -> SUBSET Txs] : l = p.par
    BY <1>6
  <2>3. PICK k \in [Txs -> SUBSET Txs] : k = q.par
    BY <1>6
  <2>4. PICK C \in SUBSET Txs : C = Closure(l, {x})
    BY <2>1, ClosureOfOne
  <2>5. x \in C /\ \A y \in C : l[y] \subseteq C
    BY <2>1, <2>4, ClosureOfOne
  <2>6. PICK E \in SUBSET Txs : E = Closure(k, {x})
    BY <2>1, ClosureOfOne
  <2>7. x \in E /\ \A y \in E : k[y] \subseteq E
    BY <2>1, <2>6, ClosureOfOne
  <2>8. ASSUME NEW y \in Txs, y # t PROVE k[y] = l[y] \ S
    BY <1>1, <1>7, <2>2, <2>3, <2>8
  <2>9. PICK D \in SUBSET Txs : D = C \ S
    OBVIOUS
  <2>10. E \subseteq D
    <3>1. {x} \subseteq D
      BY <1>1, <2>1, <2>5, <2>9
    <3>2. ASSUME NEW y \in D PROVE k[y] \subseteq D
      <4>1. y \in C /\ y # t
        BY <1>1, <2>9
      <4>2. l[y] \subseteq C /\ k[y] = l[y] \ S
        BY <2>5, <2>8, <4>1
      <4>3. QED
        BY <2>9, <4>2
    <3>3. QED
      BY <2>6, <3>1, <3>2, ClosureLeast
  <2>11. C \subseteq E \cup S
    <3>1. PICK V \in SUBSET Txs : V = E \cup S
      BY <1>2
    <3>2. ASSUME NEW y \in V PROVE l[y] \subseteq V
      <4>1. CASE y = t
        BY <2>2, <4>1
      <4>2. CASE y # t
        <5>1. k[y] = l[y] \ S /\ k[y] \subseteq E
          BY <1>1, <2>7, <2>8, <3>1, <4>2
        <5>2. QED
          BY <3>1, <5>1
      <4>3. QED
        BY <4>1, <4>2
    <3>3. {x} \subseteq V
      BY <2>7, <3>1
    <3>4. QED
      BY <2>4, <3>1, <3>2, <3>3, ClosureLeast
  <2>12. E = D
    BY <2>9, <2>10, <2>11
  <2>13. \A y \in D : q.feeDelta[y] = p.feeDelta[y]
    BY <1>4, <2>9
  <2>14. Total(q, D) = Total(p, D)
    <3>1. p.feeDelta \in [Txs -> Int] /\ q.feeDelta \in [Txs -> Int]
      BY <1>2, <1>5
    <3>2. QED
      BY <3>1, <2>13, TotalSame
  <2>15. QED
    BY <2>2, <2>3, <2>4, <2>6, <2>9, <2>12, <2>14
<1>11. /\ q.anc \in [Txs -> Amounts] /\ q.desc \in [Txs -> Amounts]
       /\ \A x \in Txs \ S : q.desc[x] = Minus(p.desc[x], Total(p, {r \in S : x \in LinkedAncestors(p, r)}))
       /\ \A x \in Txs \ S : q.anc[x] =
            Minus(p.anc[x], Total(p, {r \in S : x \in CalculateDescendants(p, {r})}))
       /\ \A x \in S : q.desc[x] = None
  <2>1. TRUE \in BOOLEAN
    OBVIOUS
  <2>2. Subtracted(p, S, TRUE, q)
    BY <1>1, <1>2, <2>1, StagedTotals
  <2>3. QED
    BY <2>2 DEF Subtracted
<1>12. ASSUME NEW x \in Txs \ S PROVE q.desc[x] = p.desc[x]
  <2>1. {r \in S : x \in LinkedAncestors(p, r)} = {}
    BY <1>1, <1>8
  <2>2. p.desc[x] \in Amounts
    BY DEF Summed
  <2>3. Minus(p.desc[x], Total(p, {})) = p.desc[x]
    BY <1>2, <2>2, TotalFacts, AmountFacts
  <2>4. QED
    BY <1>11, <2>1, <2>3
<1>13. ASSUME NEW x \in q.txs PROVE q.desc[x] = Total(q, Closure(q.chi, {x}))
  <2>1. x \in p.txs /\ x \in Txs \ S
    BY <1>2, <1>4
  <2>2. p.desc[x] = Total(p, Closure(p.chi, {x}))
    BY <2>1 DEF Summed
  <2>3. QED
    BY <1>9, <1>12, <2>1, <2>2
<1>14. ASSUME NEW x \in q.txs PROVE q.anc[x] = Total(q, Closure(q.par, {x}))
  <2>1. x \in p.txs /\ x \in Txs /\ x \in Txs \ S
    BY <1>2, <1>4
  <2>2. PICK C \in SUBSET Txs : C = Closure(p.par, {x})
    BY <1>10
  <2>3. t \in C <=> x \in Closure(p.chi, {t})
    BY <1>2, <2>1, <2>2, ClosureDual
  <2>4. PICK W : W = {r \in S : x \in CalculateDescendants(p, {r})}
    OBVIOUS
  <2>5. PICK R \in SUBSET C : R = C \ S
    OBVIOUS
  <2>6. W = C \ R
    BY <1>1, <2>3, <2>4, <2>5 DEF CalculateDescendants
  <2>7. Total(p, R) = Minus(Total(p, C), Total(p, W))
    BY <1>2, <2>6, TotalMinus
  <2>8. p.anc[x] = Total(p, C)
    BY <2>1, <2>2 DEF Summed
  <2>9. q.anc[x] = Total(p, R)
    BY <1>11, <2>1, <2>4, <2>7, <2>8
  <2>10. QED
    BY <1>10, <2>2, <2>5, <2>9
<1>15. \A x \in q.txs : q.feeDelta[x] = q.delta[x]
  BY <1>2, <1>4 DEF Summed
<1>16. \A x \in Txs \ q.txs : q.desc[x] = None
  <2>1. SUFFICES ASSUME NEW x \in Txs \ q.txs PROVE q.desc[x] = None
    OBVIOUS
  <2>2. CASE x \in S
    BY <1>11, <2>2
  <2>3. CASE x \notin S
    BY <1>4, <1>12, <2>3 DEF Summed
  <2>4. QED
    BY <2>2, <2>3
<1>17. Summed(q)
  BY <1>11, <1>13, <1>14, <1>15, <1>16 DEF Summed
<1>18. QED
  BY <1>1, <1>17

\* Descendants of what is outside A are outside A, when children are.
LEMMA DescendantsOutside ==
  ASSUME NEW p, Sound(p), NEW A, NEW T \in SUBSET (p.txs \ A),
         \A x \in p.txs \ A : p.chi[x] \cap A = {}
  PROVE  CalculateDescendants(p, T) \cap A = {}
<1>1. /\ p.txs \in SUBSET Txs /\ p.chi \in [Txs -> SUBSET Txs]
      /\ \A x, y \in Txs : y \in p.chi[x] => y \in p.txs
  BY DEF Sound, SoundLinks
<1>2. PICK links \in [Txs -> SUBSET Txs] : links = p.chi
  BY <1>1
<1>3. PICK D : D = p.txs \ A
  OBVIOUS
<1>4. T \subseteq D /\ D \subseteq Txs
  BY <1>1, <1>3
<1>5. ASSUME NEW x \in D PROVE links[x] \subseteq D
  <2>1. x \in Txs /\ links[x] \subseteq Txs
    BY <1>4
  <2>2. links[x] \subseteq p.txs /\ links[x] \cap A = {}
    BY <1>1, <1>2, <1>3, <2>1
  <2>3. QED
    BY <1>3, <2>2
<1>6. Closure(links, T) \subseteq D
  BY <1>4, <1>5, ClosureLeast
<1>7. QED
  BY <1>2, <1>3, <1>6 DEF CalculateDescendants

\* q is p after a removal: entries that stay keep their fees and get no parents.
Less(p, q) == /\ q.txs \subseteq p.txs
              /\ \A x \in q.txs : q.feeDelta[x] = p.feeDelta[x] /\ q.par[x] \subseteq p.par[x]

\* A set that holds the children of its members, and none of those whose children
\* are not linked yet, can be removed: nobody who stays had a parent in it.
LEMMA ClosedCut ==
  ASSUME NEW p, NEW A, NEW B, NEW G, NEW X, Fit(p, A, B, G, X),
         NEW S \in SUBSET p.txs, \A x \in S : p.chi[x] \subseteq S, S \cap A = {},
         NEW q, Cut(p, S, q), Summed(q)
  PROVE  /\ Fit(q, A, B, G, X) /\ Less(p, q)
         /\ \A x \in q.txs : Sources(x) \cap S = {}
<1>1. /\ Sound(p) /\ Linked(p.txs, p.par, A, B) /\ Live(p.txs, G, X) /\ Single(p.txs)
  BY DEF Fit, Tied
<1>2. /\ p.txs \in SUBSET Txs /\ \A x, y \in Txs : y \in p.par[x] <=> x \in p.chi[y]
  BY <1>1 DEF Sound, SoundLinks
<1>3. /\ q.txs = p.txs \ S /\ Sound(q)
      /\ \A x \in Txs \ S : q.feeDelta[x] = p.feeDelta[x] /\ q.par[x] = p.par[x] \ S
  BY DEF Cut
<1>4. ASSUME NEW x \in q.txs, NEW y \in S PROVE y \notin Sources(x)
  <2>1. x \in p.txs /\ x \notin S /\ y \in p.txs /\ x \in Txs /\ y \in Txs
    BY <1>2, <1>3
  <2>2. y \notin p.par[x]
    BY <1>2, <2>1
  <2>3. QED
    BY <1>1, <2>1, <2>2 DEF Linked
<1>5. Linked(q.txs, q.par, A, B) /\ Single(q.txs)
  <2>1. S \in SUBSET Txs
    BY <1>2
  <2>2. QED
    BY <1>1, <2>1, CutLinked
<1>6. ASSUME NEW t \in q.txs, NEW o \in Spends(t)
      PROVE  o[1] \in q.txs \/ (o[1] \in G /\ \A u \in X : o \notin Spends(u))
  <2>1. o[1] \in p.txs \/ (o[1] \in G /\ \A u \in X : o \notin Spends(u))
    BY <1>1, <1>3 DEF Live
  <2>2. o[1] \notin S
    BY <1>4 DEF Sources
  <2>3. QED
    BY <1>3, <2>1, <2>2
<1>7. Live(q.txs, G, X)
  BY <1>6 DEF Live
<1>8. Less(p, q)
  BY <1>2, <1>3 DEF Less
<1>9. \A x \in q.txs : Sources(x) \cap S = {}
  BY <1>4
<1>10. QED
  BY <1>3, <1>5, <1>7, <1>8, <1>9 DEF Fit, Tied

\* What a removal with descendants leaves of p.
Pruned(p, T, A, B, G, X, q) == /\ Fit(q, A, B, G, X) /\ Less(p, q) /\ T \cap q.txs = {}
                               /\ \A x \in q.txs : Sources(x) \cap T = {}

\* A removal with descendants.
LEMMA DescendantsCut ==
  ASSUME NEW p, NEW A, NEW B, NEW G, NEW X, Fit(p, A, B, G, X), NEW T \in SUBSET p.txs,
         CalculateDescendants(p, T) \cap A = {}, NEW u \in BOOLEAN
  PROVE  Pruned(p, T, A, B, G, X, RemoveStaged(p, CalculateDescendants(p, T), u))
<1>1. Sound(p) /\ p.txs \in SUBSET Txs /\ Summed(p)
  BY DEF Fit, Tied, Sound, SoundLinks
<1>2. PICK S : S = CalculateDescendants(p, T)
  OBVIOUS
<1>3. S \in SUBSET p.txs /\ T \subseteq S /\ \A x \in S : p.chi[x] \subseteq S
  BY <1>1, <1>2, DescendantsFacts
<1>4. S \in SUBSET Txs /\ S \cap A = {}
  BY <1>1, <1>2, <1>3
<1>5. PICK q : q = RemoveStaged(p, S, u)
  OBVIOUS
<1>6. Cut(p, S, q)
  BY <1>1, <1>4, <1>5, StagedSound
<1>7. /\ Fit(q, A, B, G, X) /\ Less(p, q) /\ \A x \in q.txs : Sources(x) \cap S = {}
  <2>1. Summed(q)
    BY <1>1, <1>3, <1>5, ClosedSums
  <2>2. QED
    BY <1>3, <1>4, <1>6, <2>1, ClosedCut
<1>8. q.txs = p.txs \ S
  BY <1>6 DEF Cut
<1>9. T \cap q.txs = {} /\ \A x \in q.txs : Sources(x) \cap T = {}
  BY <1>3, <1>7, <1>8
<1>10. Pruned(p, T, A, B, G, X, q)
  BY <1>7, <1>9 DEF Pruned
<1>11. QED
  BY <1>2, <1>5, <1>10

\* At rest, and whenever no link misses, any descendants can be removed.
LEMMA DescendantsCutLinked ==
  ASSUME NEW p, NEW B, NEW G, NEW X, Fit(p, {}, B, G, X), NEW T \in SUBSET p.txs, NEW u \in BOOLEAN
  PROVE  Pruned(p, T, {}, B, G, X, RemoveStaged(p, CalculateDescendants(p, T), u))
<1>1. CalculateDescendants(p, T) \cap {} = {}
  OBVIOUS
<1>2. QED
  BY <1>1, DescendantsCut

\* removeRecursive of t with what it removes.
Recursively(p, t) == IF t \in p.txs THEN {t} ELSE Children(p, t)

\* t and its children are gone afterwards, so that t is no source of coins any more.
LEMMA RecursiveCut ==
  ASSUME NEW p, NEW A, NEW B, NEW G, NEW X, Fit(p, A, B, G, X), NEW t,
         CalculateDescendants(p, Recursively(p, t)) \cap A = {}
  PROVE  /\ Fit(removeRecursive(p, t), A, B, G \ {t}, X) /\ Less(p, removeRecursive(p, t))
         /\ t \notin removeRecursive(p, t).txs
<1>1. PICK T : T = Recursively(p, t)
  OBVIOUS
<1>2. T \in SUBSET p.txs
  BY <1>1 DEF Recursively, Children
<1>3. PICK q : q = removeRecursive(p, t)
  OBVIOUS
<1>4. q = RemoveStaged(p, CalculateDescendants(p, T), FALSE)
  BY <1>1, <1>3 DEF removeRecursive, Recursively
<1>5. CalculateDescendants(p, T) \cap A = {}
  BY <1>1
<1>6. Pruned(p, T, A, B, G, X, q)
  <2>1. Pruned(p, T, A, B, G, X, RemoveStaged(p, CalculateDescendants(p, T), FALSE))
    BY <1>2, <1>5, DescendantsCut
  <2>2. QED
    BY <1>4, <2>1
<1>7. /\ Sound(q) /\ Linked(q.txs, q.par, A, B) /\ Live(q.txs, G, X) /\ Single(q.txs)
      /\ Summed(q) /\ Less(p, q) /\ T \cap q.txs = {} /\ \A x \in q.txs : Sources(x) \cap T = {}
  BY <1>6 DEF Pruned, Fit, Tied
<1>8. q.txs \subseteq p.txs
  BY <1>7 DEF Less
<1>9. t \notin q.txs
  BY <1>1, <1>7, <1>8 DEF Recursively
<1>10. ASSUME NEW x \in q.txs PROVE t \notin Sources(x)
  <2>1. CASE t \in p.txs
    BY <1>1, <1>7, <2>1 DEF Recursively
  <2>2. CASE t \notin p.txs
    <3>1. x \notin Children(p, t)
      BY <1>1, <1>7, <2>2 DEF Recursively
    <3>2. QED
      BY <1>8, <3>1 DEF Children
  <2>3. QED
    BY <2>1, <2>2
<1>11. Live(q.txs, G \ {t}, X)
  BY <1>7, <1>10 DEF Live, Sources
<1>12. QED
  BY <1>3, <1>7, <1>9, <1>11 DEF Fit, Tied

\* The same where no link misses.
LEMMA RecursiveCutLinked ==
  ASSUME NEW p, NEW B, NEW G, NEW X, Fit(p, {}, B, G, X), NEW t
  PROVE  /\ Fit(removeRecursive(p, t), {}, B, G \ {t}, X) /\ Less(p, removeRecursive(p, t))
         /\ t \notin removeRecursive(p, t).txs
<1>1. CalculateDescendants(p, Recursively(p, t)) \cap {} = {}
  OBVIOUS
<1>2. QED
  BY <1>1, RecursiveCut

\* A pool may have more sources and fewer spenders than are needed.
LEMMA FitWeaker ==
  ASSUME NEW p, NEW A, NEW B, NEW G, NEW X, Fit(p, A, B, G, X),
         NEW H, G \subseteq H, NEW Y, Y \subseteq X
  PROVE  Fit(p, A, B, H, Y)
<1>1. Live(p.txs, G, X)
  BY DEF Fit, Tied
<1>2. Live(p.txs, H, Y)
  BY <1>1 DEF Live
<1>3. QED
  BY <1>2 DEF Fit, Tied

\* Removals in turn only remove.
LEMMA LessLess ==
  ASSUME NEW p, NEW q, NEW r, Less(p, q), Less(q, r)
  PROVE  Less(p, r)
BY DEF Less

\* A pool has less than itself.
LEMMA LessSame ==
  ASSUME NEW p
  PROVE  Less(p, p)
BY DEF Less

-----------------------------------------------------------------------------
(* LimitMempoolSize.                                                       *)

\* A pool at rest of which some leaves is at rest.
LEMMA RestLess ==
  ASSUME NEW p, NEW b, Rest(p, b), NEW q, Fit(q, {}, {}, Base(b), InChain(b)), Less(p, q)
  PROVE  Rest(q, b)
BY DEF Rest, Less

\* Expired transactions leave with their descendants.
LEMMA ExpireRest ==
  ASSUME NEW p, NEW b, Rest(p, b), NEW old \in SUBSET p.txs
  PROVE  Rest(Expire(p, old), b) /\ Less(p, Expire(p, old))
<1>1. Fit(p, {}, {}, Base(b), InChain(b))
  BY DEF Rest
<1>2. Pruned(p, old, {}, {}, Base(b), InChain(b), RemoveStaged(p, CalculateDescendants(p, old), FALSE))
  BY <1>1, DescendantsCutLinked
<1>3. Fit(Expire(p, old), {}, {}, Base(b), InChain(b)) /\ Less(p, Expire(p, old))
  BY <1>2 DEF Pruned, Expire
<1>4. QED
  BY <1>3, RestLess

\* So do evicted packages.
LEMMA TrimOnceRest ==
  ASSUME NEW p, NEW b, Rest(p, b), NEW q \in TrimOnce(p)
  PROVE  Rest(q, b) /\ Less(p, q)
<1>1. CASE Cardinality(p.txs) <= MaxMempool
  <2>1. q = p
    BY <1>1 DEF TrimOnce
  <2>2. QED
    BY <2>1, LessSame
<1>2. CASE ~(Cardinality(p.txs) <= MaxMempool)
  <2>1. PICK t \in Worst(p) : q = RemoveStaged(p, CalculateDescendants(p, {t}), FALSE)
    BY <1>2 DEF TrimOnce
  <2>2. PICK T : T = {t}
    OBVIOUS
  <2>3. T \in SUBSET p.txs
    BY <2>2 DEF Worst
  <2>4. Fit(p, {}, {}, Base(b), InChain(b))
    BY DEF Rest
  <2>5. Pruned(p, T, {}, {}, Base(b), InChain(b), RemoveStaged(p, CalculateDescendants(p, T), FALSE))
    BY <2>3, <2>4, DescendantsCutLinked
  <2>6. Fit(q, {}, {}, Base(b), InChain(b)) /\ Less(p, q)
    BY <2>1, <2>2, <2>5 DEF Pruned
  <2>7. QED
    BY <2>6, RestLess
<1>3. QED
  BY <1>1, <1>2

\* Evictions until the pool is small enough.
LEMMA TrimRest ==
  ASSUME NEW p, NEW b, Rest(p, b), NEW q \in TrimToSize(p)
  PROVE  Rest(q, b) /\ Less(p, q)
<1>1. PICK K \in Nat : K = Cardinality(Txs)
  BY TxFacts
<1>2. PICK f : TrimRun(p, f)
  BY TxFacts, TrimSteps
<1>3. /\ f[0] = {p} /\ TrimToSize(p) = f[K]
      /\ \A i \in 1..K : f[i] = UNION {TrimOnce(r) : r \in f[i - 1]}
  BY <1>1, <1>2 DEF TrimRun
<1> DEFINE OK(n) == \A r \in f[n] : Rest(r, b) /\ Less(p, r)
           N == {n \in 0..K : OK(n)}
<1>4. 0 \in N
  <2>1. OK(0)
    BY <1>3, LessSame
  <2>2. QED
    BY <2>1
<1>5. ASSUME NEW n \in N, n < K PROVE n + 1 \in N
  <2>1. n \in Nat /\ n + 1 \in 1..K /\ n + 1 \in 0..K /\ n + 1 - 1 = n
    BY <1>5
  <2>2. f[n + 1] = UNION {TrimOnce(r) : r \in f[n]}
    BY <1>3, <2>1
  <2>3. ASSUME NEW r \in f[n + 1] PROVE Rest(r, b) /\ Less(p, r)
    <3>1. PICK s \in f[n] : r \in TrimOnce(s)
      BY <2>2
    <3>2. Rest(s, b) /\ Less(p, s)
      OBVIOUS
    <3>3. Rest(r, b) /\ Less(s, r)
      BY <3>1, <3>2, TrimOnceRest
    <3>4. QED
      BY <3>2, <3>3, LessLess
  <2>4. QED
    BY <2>1, <2>3
<1>6. N \in SUBSET (0..K)
  OBVIOUS
<1>7. N = 0..K
  <2> HIDE DEF N
  <2> QED BY <1>4, <1>5, <1>6, UpTo
<1>8. OK(K)
  <2>1. K \in N
    BY <1>7
  <2>2. QED
    BY <2>1
<1>9. QED
  BY <1>3, <1>8

\* Both together.
LEMMA LimitRest ==
  ASSUME NEW p, NEW b, Rest(p, b), NEW q \in LimitMempoolSize(p)
  PROVE  Rest(q, b) /\ Less(p, q)
<1>1. PICK old \in SUBSET p.txs : q \in TrimToSize(Expire(p, old))
  BY DEF LimitMempoolSize
<1>2. Rest(Expire(p, old), b) /\ Less(p, Expire(p, old))
  BY ExpireRest
<1>3. Rest(q, b) /\ Less(Expire(p, old), q)
  BY <1>1, <1>2, TrimRest
<1>4. QED
  BY <1>2, <1>3, LessLess

-----------------------------------------------------------------------------
(* Acceptance.                                                             *)

\* q is p with t.
Entered(p, t, q) ==
  /\ Fields(q) /\ q.txs = p.txs \cup {t} /\ q.delta = p.delta
  /\ q.feeDelta = [p.feeDelta EXCEPT ![t] = p.delta[t]]
  /\ q.par = [p.par EXCEPT ![t] = Sources(t) \cap p.txs]
  /\ q.chi = [x \in Txs |-> IF x \in Sources(t) \cap p.txs THEN p.chi[x] \cup {t} ELSE p.chi[x]]

\* t counts itself with its ancestors, and each ancestor counts t; w has its fee.
Counted(p, t, q) ==
  \E w : /\ w.feeDelta = [p.feeDelta EXCEPT ![t] = p.delta[t]]
         /\ q.anc = [p.anc EXCEPT ![t] = Total(w, SearchedAncestors(p, t) \cup {t})]
         /\ q.desc = [x \in Txs |-> IF x \in SearchedAncestors(p, t) \cup {t}
                                    THEN Plus(p.desc[x], Total(w, {t})) ELSE p.desc[x]]

\* addUnchecked with what it looks up in p.
Enter(q, t, parents, ancestors) ==
  [q EXCEPT !.txs = @ \cup {t},
            !.par[t] = parents,
            !.chi = [x \in Txs |-> IF x \in parents THEN @[x] \cup {t} ELSE @[x]],
            !.desc = [x \in Txs |-> IF x \in ancestors \cup {t}
                                    THEN Plus(@[x], Total(q, {t})) ELSE @[x]],
            !.anc[t] = Total(q, ancestors \cup {t})]

\* The members after addUnchecked.
LEMMA AddFields ==
  ASSUME NEW p, Fields(p), NEW t
  PROVE  Entered(p, t, addUnchecked(p, t)) /\ Counted(p, t, addUnchecked(p, t))
<1>1. PICK q : q = [p EXCEPT !.feeDelta[t] = p.delta[t]]
  BY Zenon
<1>2. PICK feeDelta : feeDelta = [p.feeDelta EXCEPT ![t] = p.delta[t]]
  BY Zenon
<1>3. q = [txs |-> p.txs, feeDelta |-> feeDelta, anc |-> p.anc, desc |-> p.desc,
           par |-> p.par, chi |-> p.chi, delta |-> p.delta]
  <2>1. q = [p EXCEPT !.feeDelta = feeDelta]
    BY <1>1, <1>2, Zenon
  <2>2. QED
    BY <2>1 DEF Fields
<1>4. PICK parents : parents = Sources(t) \cap p.txs
  BY Zenon
<1>5. PICK ancestors : ancestors = SearchedAncestors(p, t)
  BY Zenon
<1>6. PICK q1 : q1 = [q EXCEPT !.txs = @ \cup {t}]
  BY Zenon
<1>7. PICK q2 : q2 = [q1 EXCEPT !.par[t] = parents]
  BY Zenon
<1>8. PICK q3 : q3 = [q2 EXCEPT !.chi = [x \in Txs |-> IF x \in parents THEN q.chi[x] \cup {t}
                                                       ELSE q.chi[x]]]
  BY Zenon
<1>9. PICK q4 : q4 = [q3 EXCEPT !.desc = [x \in Txs |-> IF x \in ancestors \cup {t}
                                                        THEN Plus(q.desc[x], Total(q, {t})) ELSE q.desc[x]]]
  BY Zenon
<1>10. PICK q5 : q5 = [q4 EXCEPT !.anc[t] = Total(q, ancestors \cup {t})]
  BY Zenon
<1>11. addUnchecked(p, t) = q5
  <2>1. addUnchecked(p, t) = Enter([p EXCEPT !.feeDelta[t] = p.delta[t]], t, Sources(t) \cap p.txs,
                                   SearchedAncestors(p, t))
    BY Zenon DEF addUnchecked, Enter
  <2>2. addUnchecked(p, t) = Enter(q, t, parents, ancestors)
    BY <1>1, <1>4, <1>5, <2>1, Zenon
  <2>3. Enter(q, t, parents, ancestors) = q5
    BY <1>6, <1>7, <1>8, <1>9, <1>10, Zenon DEF Enter
  <2>4. QED
    BY <2>2, <2>3, Zenon
<1>12. PICK txs : txs = p.txs \cup {t}
  BY Zenon
<1>13. q1 = [txs |-> txs, feeDelta |-> feeDelta, anc |-> p.anc, desc |-> p.desc,
             par |-> p.par, chi |-> p.chi, delta |-> p.delta]
  BY <1>3, <1>6, <1>12
<1>14. PICK par : par = [p.par EXCEPT ![t] = parents]
  BY Zenon
<1>15. q2 = [txs |-> txs, feeDelta |-> feeDelta, anc |-> p.anc, desc |-> p.desc,
             par |-> par, chi |-> p.chi, delta |-> p.delta]
  <2>1. q1.par = p.par
    BY <1>13
  <2>2. q2 = [q1 EXCEPT !.par = par]
    BY <1>7, <1>14, <2>1, Zenon
  <2>3. QED
    BY <1>13, <2>2
<1>16. PICK chi : chi = [x \in Txs |-> IF x \in parents THEN p.chi[x] \cup {t} ELSE p.chi[x]]
  BY Zenon
<1>17. q3 = [txs |-> txs, feeDelta |-> feeDelta, anc |-> p.anc, desc |-> p.desc,
             par |-> par, chi |-> chi, delta |-> p.delta]
  <2>1. q.chi = p.chi
    BY <1>3
  <2>2. q3 = [q2 EXCEPT !.chi = chi]
    BY <1>8, <1>16, <2>1, Zenon
  <2>3. QED
    BY <1>15, <2>2
<1>18. PICK desc : desc = [x \in Txs |-> IF x \in ancestors \cup {t}
                                         THEN Plus(p.desc[x], Total(q, {t})) ELSE p.desc[x]]
  BY Zenon
<1>19. q4 = [txs |-> txs, feeDelta |-> feeDelta, anc |-> p.anc, desc |-> desc,
             par |-> par, chi |-> chi, delta |-> p.delta]
  <2>1. q.desc = p.desc
    BY <1>3
  <2>2. q4 = [q3 EXCEPT !.desc = desc]
    BY <1>9, <1>18, <2>1, Zenon
  <2>3. QED
    BY <1>17, <2>2
<1>20. PICK anc : anc = [p.anc EXCEPT ![t] = Total(q, ancestors \cup {t})]
  BY Zenon
<1>21. q5 = [txs |-> txs, feeDelta |-> feeDelta, anc |-> anc, desc |-> desc,
             par |-> par, chi |-> chi, delta |-> p.delta]
  <2>1. q4.anc = p.anc
    BY <1>19
  <2>2. q5 = [q4 EXCEPT !.anc = anc]
    BY <1>10, <1>20, <2>1, Zenon
  <2>3. QED
    BY <1>19, <2>2
<1>22. /\ Fields(q5) /\ q5.txs = txs /\ q5.delta = p.delta
       /\ q5.feeDelta = feeDelta /\ q5.par = par /\ q5.chi = chi
       /\ q5.anc = anc /\ q5.desc = desc
  BY <1>21 DEF Fields
<1>23. chi = [x \in Txs |-> IF x \in Sources(t) \cap p.txs THEN p.chi[x] \cup {t} ELSE p.chi[x]]
  BY <1>4, <1>16, Zenon
<1>24. Entered(p, t, q5)
  BY <1>2, <1>4, <1>12, <1>14, <1>22, <1>23, Zenon DEF Entered
<1>25. Counted(p, t, q5)
  <2>1. q.feeDelta = [p.feeDelta EXCEPT ![t] = p.delta[t]]
    BY <1>2, <1>3
  <2>2. q5.anc = [p.anc EXCEPT ![t] = Total(q, SearchedAncestors(p, t) \cup {t})]
    BY <1>5, <1>20, <1>22, Zenon
  <2>3. q5.desc = [x \in Txs |-> IF x \in SearchedAncestors(p, t) \cup {t}
                                 THEN Plus(p.desc[x], Total(q, {t})) ELSE p.desc[x]]
    BY <1>5, <1>18, <1>22, Zenon
  <2>4. QED
    BY <2>1, <2>2, <2>3, Zenon DEF Counted
<1>26. QED
  BY <1>11, <1>24, <1>25, Zenon

\* The totals of a pool and of what its entries see after t has entered.
LEMMA EnteredSums ==
  ASSUME NEW p, Sound(p), Summed(p), NEW t \in Txs, t \notin p.txs,
         NEW q, Entered(p, t, q), Counted(p, t, q), Sound(q)
  PROVE  Summed(q)
<1>1. PICK w : /\ w.feeDelta = [p.feeDelta EXCEPT ![t] = p.delta[t]]
               /\ q.anc = [p.anc EXCEPT ![t] = Total(w, SearchedAncestors(p, t) \cup {t})]
               /\ q.desc = [x \in Txs |-> IF x \in SearchedAncestors(p, t) \cup {t}
                                          THEN Plus(p.desc[x], Total(w, {t})) ELSE p.desc[x]]
  BY DEF Counted
<1>2. /\ q.txs = p.txs \cup {t} /\ q.delta = p.delta
      /\ q.feeDelta = [p.feeDelta EXCEPT ![t] = p.delta[t]]
      /\ q.par = [p.par EXCEPT ![t] = Sources(t) \cap p.txs]
  BY DEF Entered
<1>3. /\ Dual(p.par, p.chi) /\ p.txs \in SUBSET Txs /\ p.feeDelta \in [Txs -> Int]
      /\ p.par[t] = {} /\ p.chi[t] = {}
  BY PoolLinks
<1>4. Dual(q.par, q.chi) /\ q.txs \in SUBSET Txs /\ q.feeDelta \in [Txs -> Int]
      /\ w.feeDelta \in [Txs -> Int]
  BY <1>1, <1>2, PoolLinks
<1>5. /\ p.par \in [Txs -> SUBSET Txs] /\ p.chi \in [Txs -> SUBSET Txs]
      /\ q.par \in [Txs -> SUBSET Txs] /\ q.chi \in [Txs -> SUBSET Txs]
  BY <1>3, <1>4 DEF Dual
<1>6. PICK P \in SUBSET p.txs : P = Sources(t) \cap p.txs
  OBVIOUS
<1>7. q.par[t] = P /\ \A x \in Txs : x # t => q.par[x] = p.par[x]
  BY <1>2, <1>5, <1>6
<1>8. PICK AN : AN = SearchedAncestors(p, t)
  OBVIOUS
<1>9. AN = Closure(p.par, P) /\ AN \in SUBSET p.txs
  <2>1. AN = Closure(p.par, P)
    BY <1>6, <1>8 DEF SearchedAncestors
  <2>2. \A x \in p.txs : p.par[x] \subseteq p.txs
    BY <1>3, PoolLinks
  <2>3. P \subseteq p.txs /\ p.txs \subseteq Txs
    BY <1>3
  <2>4. Closure(p.par, P) \subseteq p.txs
    BY <1>5, <2>2, <2>3, ClosureLeast
  <2>5. QED
    BY <2>1, <2>4
<1>10. ASSUME NEW x \in p.txs PROVE Closure(q.par, {x}) = Closure(p.par, {x})
  <2>1. PICK C \in SUBSET p.txs : C = Closure(p.par, {x})
    BY PoolClosure
  <2>2. PICK l \in [Txs -> SUBSET Txs] : l = p.par
    BY <1>5
  <2>3. PICK k \in [Txs -> SUBSET Txs] : k = q.par
    BY <1>5
  <2>4. PICK R \in SUBSET Txs : R = {x}
    BY <1>3
  <2>5. \A y \in C : k[y] = l[y]
    BY <1>3, <1>7, <2>2, <2>3
  <2>6. \A y \in Closure(l, R) : k[y] = l[y]
    BY <2>1, <2>2, <2>4, <2>5
  <2>7. Closure(k, R) = Closure(l, R)
    BY <2>6, ClosureSame
  <2>8. QED
    BY <2>2, <2>3, <2>4, <2>7
<1>11. Closure(q.par, {t}) = AN \cup {t}
  <2>1. \A y \in AN : q.par[y] = p.par[y]
    BY <1>3, <1>7, <1>9
  <2>2. P \in SUBSET Txs
    BY <1>3
  <2>3. Closure(q.par, P) = Closure(p.par, P)
    BY <1>5, <1>9, <2>1, <2>2, ClosureSame
  <2>4. Closure(q.par, {t}) = {t} \cup Closure(q.par, q.par[t])
    BY <1>5, ClosureOfOne
  <2>5. QED
    BY <1>7, <1>9, <2>3, <2>4
<1>12. ASSUME NEW x \in q.txs
       PROVE  /\ x # t => Closure(q.chi, {x}) = Closure(p.chi, {x}) \cup (IF x \in AN THEN {t} ELSE {})
              /\ x = t => Closure(q.chi, {x}) = {t}
  <2>1. x \in Txs /\ t \in Txs
    BY <1>4
  <2>2. ASSUME x = t PROVE Closure(q.chi, {x}) = {t}
    <3>1. q.chi[t] = {}
      <4>1. ASSUME NEW y \in q.chi[t] PROVE FALSE
        <5>1. y \in Txs /\ t \in q.par[y]
          BY <1>4, <1>5 DEF Dual
        <5>2. t \in p.par[y] \/ t \in P
          BY <1>7, <5>1
        <5>3. t \in p.par[y]
          BY <1>6, <5>2
        <5>4. y \in p.chi[t]
          BY <1>3, <5>1, <5>3 DEF Dual
        <5>5. QED
          BY <1>3, <5>4
      <4>2. QED
        BY <4>1
    <3>2. {t} \subseteq {t} /\ {t} \subseteq Txs /\ \A y \in {t} : q.chi[y] \subseteq {t}
      BY <3>1
    <3>3. Closure(q.chi, {t}) \subseteq {t}
      BY <1>5, <3>2, ClosureLeast
    <3>4. t \in Closure(q.chi, {t})
      BY <1>5, ClosureOfOne
    <3>5. QED
      BY <2>2, <3>3, <3>4
  <2>3. ASSUME x # t PROVE Closure(q.chi, {x}) = Closure(p.chi, {x}) \cup (IF x \in AN THEN {t} ELSE {})
    <3>1. x \in p.txs
      BY <1>2, <2>3
    <3>2. PICK E \in SUBSET q.txs : E = Closure(q.chi, {x})
      BY PoolClosure
    <3>3. PICK C \in SUBSET p.txs : C = Closure(p.chi, {x})
      BY <3>1, PoolClosure
    <3>4. ASSUME NEW y \in p.txs PROVE y \in E <=> y \in C
      <4>1. y \in Txs
        BY <1>3
      <4>2. x \in Closure(q.par, {y}) <=> y \in E
        BY <1>4, <2>1, <3>2, <4>1, ClosureDual
      <4>3. x \in Closure(p.par, {y}) <=> y \in C
        BY <1>3, <2>1, <3>3, <4>1, ClosureDual
      <4>4. QED
        BY <1>10, <4>2, <4>3
    <3>5. t \in E <=> x \in AN
      <4>1. x \in Closure(q.par, {t}) <=> t \in E
        BY <1>4, <2>1, <3>2, ClosureDual
      <4>2. QED
        BY <1>11, <2>3, <4>1
    <3>6. E = C \cup (IF x \in AN THEN {t} ELSE {})
      BY <1>2, <3>4, <3>5
    <3>7. QED
      BY <3>2, <3>3, <3>6
  <2>4. QED
    BY <2>2, <2>3
<1>13. ASSUME NEW S \in SUBSET Txs PROVE Total(w, S) = Total(q, S)
  <2>1. \A x \in S : w.feeDelta[x] = q.feeDelta[x]
    BY <1>1, <1>2
  <2>2. QED
    BY <1>4, <2>1, TotalSame
<1>14. ASSUME NEW S \in SUBSET p.txs PROVE Total(p, S) = Total(q, S) /\ S \in SUBSET Txs
  <2>1. S \in SUBSET Txs
    BY <1>3
  <2>2. \A x \in S : q.feeDelta[x] = p.feeDelta[x]
    BY <1>2, <1>3, <2>1
  <2>3. QED
    BY <1>3, <1>4, <2>1, <2>2, TotalSame
<1>15. /\ p.anc \in [Txs -> Amounts] /\ p.desc \in [Txs -> Amounts] /\ p.desc[t] = None
       /\ \A x \in p.txs : /\ p.feeDelta[x] = p.delta[x]
                           /\ p.anc[x] = Total(p, Closure(p.par, {x}))
                           /\ p.desc[x] = Total(p, Closure(p.chi, {x}))
       /\ \A x \in Txs \ p.txs : p.desc[x] = None
  BY DEF Summed
<1>16. PICK W \in SUBSET Txs : W = {t}
  OBVIOUS
<1>17. PICK V \in SUBSET Txs : V = AN \cup {t}
  BY <1>3, <1>9
<1>18. q.anc = [p.anc EXCEPT ![t] = Total(q, V)]
  BY <1>1, <1>8, <1>13, <1>17
<1>19. q.desc = [x \in Txs |-> IF x \in V THEN Plus(p.desc[x], Total(q, W)) ELSE p.desc[x]]
  <2>1. Total(w, W) = Total(q, W)
    BY <1>13
  <2>2. PICK m : m = Total(w, {t})
    OBVIOUS
  <2>3. m = Total(q, W)
    BY <1>16, <2>1, <2>2
  <2>4. q.desc = [x \in Txs |-> IF x \in V THEN Plus(p.desc[x], m) ELSE p.desc[x]]
    BY <1>1, <1>8, <1>17, <2>2, Zenon
  <2>5. QED
    BY <2>3, <2>4
<1>20. Total(q, V) \in Amounts /\ Total(q, W) \in Amounts
  BY <1>4, TotalFacts
<1>21. q.anc \in [Txs -> Amounts] /\ q.desc \in [Txs -> Amounts]
  <2>1. q.anc \in [Txs -> Amounts]
    BY <1>15, <1>18, <1>20
  <2>2. ASSUME NEW x \in Txs PROVE q.desc[x] \in Amounts
    <3>1. p.desc[x] \in Amounts
      BY <1>15
    <3>2. Plus(p.desc[x], Total(q, W)) \in Amounts
      BY <1>20, <3>1, AmountFacts
    <3>3. QED
      BY <1>19, <3>1, <3>2
  <2>3. QED
    BY <1>19, <2>1, <2>2
<1>22. ASSUME NEW x \in q.txs PROVE q.anc[x] = Total(q, Closure(q.par, {x}))
  <2>1. CASE x = t
    BY <1>11, <1>15, <1>17, <1>18, <2>1, ZenonT(40)
  <2>2. CASE x # t
    <3>1. x \in p.txs /\ x \in Txs
      BY <1>2, <1>3, <2>2
    <3>2. PICK C \in SUBSET p.txs : C = Closure(p.par, {x})
      BY <3>1, PoolClosure
    <3>3. q.anc[x] = p.anc[x] /\ p.anc[x] = Total(p, C)
      BY <1>15, <1>18, <2>2, <3>1, <3>2
    <3>4. QED
      BY <1>10, <1>14, <3>1, <3>2, <3>3
  <2>3. QED
    BY <2>1, <2>2
<1>23. ASSUME NEW x \in q.txs PROVE q.desc[x] = Total(q, Closure(q.chi, {x}))
  <2>1. x \in Txs
    BY <1>4
  <2>2. CASE x = t
    <3>1. q.desc[t] = Plus(None, Total(q, W))
      BY <1>15, <1>17, <1>19
    <3>2. Plus(None, Total(q, W)) = Total(q, W)
      BY <1>20, AmountFacts
    <3>3. QED
      BY <1>12, <1>16, <2>2, <3>1, <3>2
  <2>3. CASE x # t
    <3>1. x \in p.txs
      BY <1>2, <2>3
    <3>2. PICK C \in SUBSET p.txs : C = Closure(p.chi, {x})
      BY <3>1, PoolClosure
    <3>3. p.desc[x] = Total(q, C) /\ C \in SUBSET Txs /\ C \cap W = {}
      BY <1>14, <1>15, <1>16, <3>1, <3>2, ZenonT(40)
    <3>4. Closure(q.chi, {x}) = C \cup (IF x \in AN THEN {t} ELSE {})
      BY <1>12, <2>3, <3>2
    <3>5. CASE x \in AN
      <4>1. q.desc[x] = Plus(Total(q, C), Total(q, W))
        BY <1>17, <1>19, <2>1, <3>3, <3>5
      <4>2. Total(q, C \cup W) = Plus(Total(q, C), Total(q, W))
        BY <1>4, <3>3, TotalUnion
      <4>3. QED
        BY <1>16, <3>4, <3>5, <4>1, <4>2
    <3>6. CASE x \notin AN
      <4>1. q.desc[x] = p.desc[x]
        BY <1>17, <1>19, <2>1, <2>3, <3>6
      <4>2. QED
        BY <3>3, <3>4, <3>6, <4>1
    <3>7. QED
      BY <3>5, <3>6
  <2>4. QED
    BY <2>2, <2>3
<1>24. \A x \in q.txs : q.feeDelta[x] = q.delta[x]
  <2>1. SUFFICES ASSUME NEW x \in q.txs PROVE q.feeDelta[x] = q.delta[x]
    OBVIOUS
  <2>2. CASE x = t
    BY <1>2, <1>3, <2>2
  <2>3. CASE x # t
    BY <1>2, <1>3, <1>15, <2>3
  <2>4. QED
    BY <2>2, <2>3
<1>25. \A x \in Txs \ q.txs : q.desc[x] = None
  BY <1>2, <1>9, <1>15, <1>17, <1>19
<1>26. QED
  BY <1>21, <1>22, <1>23, <1>24, <1>25 DEF Summed

\* A transaction whose inputs are there, and spent by nobody else in the pool, fits in;
\* children that are already in the pool wait for their links to it.
LEMMA EnteredFit ==
  ASSUME NEW p, NEW A, NEW G, NEW X, Fit(p, A, A, G, X), NEW t \in Txs, t \notin p.txs,
         NEW q, Entered(p, t, q), Counted(p, t, q),
         \A o \in Spends(t) : o[1] \in p.txs \/ (o[1] \in G /\ \A u \in X : o \notin Spends(u)),
         \A x \in p.txs : Spends(x) \cap Spends(t) = {},
         \A a \in A : t \notin Sources(a)
  PROVE  Fit(q, A \cup {t}, A \cup {t}, G \ {t}, X)
<1>1. /\ Sound(p) /\ Linked(p.txs, p.par, A, A) /\ Live(p.txs, G, X) /\ Single(p.txs)
      /\ Summed(p)
  BY DEF Fit, Tied
<1>2. /\ Fields(q) /\ q.txs = p.txs \cup {t} /\ q.delta = p.delta
      /\ q.feeDelta = [p.feeDelta EXCEPT ![t] = p.delta[t]]
      /\ q.par = [p.par EXCEPT ![t] = Sources(t) \cap p.txs]
      /\ q.chi = [x \in Txs |-> IF x \in Sources(t) \cap p.txs THEN p.chi[x] \cup {t} ELSE p.chi[x]]
  BY DEF Entered
<1>3. /\ p.feeDelta \in [Txs -> Int] /\ p.delta \in [Txs -> Int]
      /\ p.par \in [Txs -> SUBSET Txs] /\ p.chi \in [Txs -> SUBSET Txs] /\ p.txs \in SUBSET Txs
      /\ \A x, y \in Txs : y \in p.par[x] <=> x \in p.chi[y]
      /\ \A x, y \in Txs : y \in p.par[x] => x \in p.txs /\ y \in p.txs /\ y \in Sources(x)
  BY <1>1 DEF Sound, SoundLinks
<1>4. t \notin Sources(t) /\ \A o \in Spends(t) : o[1] # t
  BY InputFacts
<1>5. /\ q.par[t] = Sources(t) \cap p.txs /\ \A x \in Txs \ {t} : q.par[x] = p.par[x]
      /\ \A x \in Txs : q.chi[x] = IF x \in Sources(t) \cap p.txs THEN p.chi[x] \cup {t} ELSE p.chi[x]
  BY <1>2, <1>3
<1>6. q.feeDelta \in [Txs -> Int] /\ q.delta \in [Txs -> Int]
  <2>1. p.delta[t] \in Int
    BY <1>3
  <2>2. QED
    BY <1>2, <1>3, <2>1
<1>7. q.txs \in SUBSET Txs /\ q.par \in [Txs -> SUBSET Txs] /\ q.chi \in [Txs -> SUBSET Txs]
  <2>1. q.txs \in SUBSET Txs
    BY <1>2, <1>3
  <2>2. q.par \in [Txs -> SUBSET Txs]
    <3>1. Sources(t) \cap p.txs \in SUBSET Txs
      BY <1>3
    <3>2. QED
      BY <1>2, <1>3, <3>1
  <2>3. q.chi \in [Txs -> SUBSET Txs]
    <3>1. ASSUME NEW x \in Txs PROVE q.chi[x] \in SUBSET Txs
      <4>1. p.chi[x] \subseteq Txs
        BY <1>3
      <4>2. QED
        BY <1>5, <4>1
    <3>2. q.chi = [x \in Txs |-> q.chi[x]]
      BY <1>2
    <3>3. QED
      BY <3>1, <3>2
  <2>4. QED
    BY <2>1, <2>2, <2>3
<1>8. ASSUME NEW x \in Txs, NEW y \in Txs PROVE y \in q.par[x] <=> x \in q.chi[y]
  <2>1. CASE x = t
    <3>1. t \notin p.chi[y]
      BY <1>3
    <3>2. y \in q.par[t] <=> y \in Sources(t) \cap p.txs
      BY <1>5
    <3>3. t \in q.chi[y] <=> y \in Sources(t) \cap p.txs
      BY <1>5, <3>1
    <3>4. QED
      BY <2>1, <3>2, <3>3
  <2>2. CASE x # t
    <3>1. y \in q.par[x] <=> y \in p.par[x]
      BY <1>5, <2>2
    <3>2. x \in q.chi[y] <=> x \in p.chi[y]
      BY <1>5, <2>2
    <3>3. QED
      BY <1>3, <3>1, <3>2
  <2>3. QED
    BY <2>1, <2>2
<1>9. ASSUME NEW x \in Txs, NEW y \in Txs, y \in q.par[x]
      PROVE  x \in q.txs /\ y \in q.txs /\ y \in Sources(x)
  <2>1. CASE x = t
    BY <1>2, <1>5, <1>9, <2>1
  <2>2. CASE x # t
    <3>1. y \in p.par[x]
      BY <1>5, <1>9, <2>2
    <3>2. QED
      BY <1>2, <1>3, <3>1
  <2>3. QED
    BY <2>1, <2>2
<1>10. Sound(q)
  <2>1. SoundLinks(q.txs, q.par, q.chi)
    BY <1>7, <1>8, <1>9 DEF SoundLinks
  <2>2. QED
    BY <1>2, <1>6, <2>1 DEF Sound
<1>11. ASSUME NEW x \in q.txs, NEW y \in q.txs, y \in Sources(x)
       PROVE  y \in q.par[x] \/ (y \in A \cup {t} /\ x \notin A \cup {t})
  <2>1. CASE x = t
    BY <1>2, <1>4, <1>5, <1>11, <2>1
  <2>2. CASE x # t /\ y = t
    BY <1>11, <2>2
  <2>3. CASE x # t /\ y # t
    <3>1. x \in p.txs /\ y \in p.txs /\ x \in Txs
      BY <1>2, <1>3, <2>3
    <3>2. y \in p.par[x] \/ (y \in A /\ x \notin A)
      BY <1>1, <1>11, <3>1 DEF Linked
    <3>3. QED
      BY <1>5, <2>3, <3>1, <3>2
  <2>4. QED
    BY <2>1, <2>2, <2>3
<1>12. Linked(q.txs, q.par, A \cup {t}, A \cup {t})
  BY <1>11 DEF Linked
<1>13. ASSUME NEW x \in q.txs, NEW o \in Spends(x)
       PROVE  o[1] \in q.txs \/ (o[1] \in G \ {t} /\ \A u \in X : o \notin Spends(u))
  <2>1. o[1] \in p.txs \/ (o[1] \in G /\ \A u \in X : o \notin Spends(u))
    <3>1. CASE x = t
      BY <3>1
    <3>2. CASE x # t
      BY <1>1, <1>2, <3>2 DEF Live
    <3>3. QED
      BY <3>1, <3>2
  <2>2. QED
    BY <1>2, <2>1
<1>14. Live(q.txs, G \ {t}, X)
  BY <1>13 DEF Live
<1>15. Single(q.txs)
  BY <1>1, <1>2 DEF Single
<1>16. Summed(q)
  BY <1>1, <1>10, EnteredSums
<1>17. QED
  BY <1>10, <1>12, <1>14, <1>15, <1>16 DEF Fit, Tied

\* A transaction whose parents are not conflicts only replaces what it does not descend
\* from: ancestors by parent links and descendants by child links are the same relation.
LEMMA ParentsStay ==
  ASSUME NEW p, Sound(p), NEW t, SearchedAncestors(p, t) \cap Conflicts(p, t) = {}
  PROVE  Sources(t) \cap CalculateDescendants(p, Conflicts(p, t)) = {}
<1>1. /\ p.txs \in SUBSET Txs /\ p.par \in [Txs -> SUBSET Txs] /\ p.chi \in [Txs -> SUBSET Txs]
      /\ \A x, y \in Txs : y \in p.par[x] <=> x \in p.chi[y]
      /\ \A x, y \in Txs : y \in p.par[x] => x \in p.txs /\ y \in p.txs /\ y \in Sources(x)
  BY DEF Sound, SoundLinks
<1>2. PICK up \in [Txs -> SUBSET Txs] : up = p.par
  BY <1>1
<1>3. PICK down \in [Txs -> SUBSET Txs] : down = p.chi
  BY <1>1
<1>4. PICK S \in SUBSET Txs : S = Sources(t) \cap p.txs
  BY <1>1
<1>5. PICK R : R = Closure(up, S)
  OBVIOUS
<1>6. R \in SUBSET Txs /\ S \subseteq R /\ \A x \in R : up[x] \subseteq R
  BY <1>5, ClosureFacts
<1>7. R = SearchedAncestors(p, t)
  BY <1>2, <1>4, <1>5 DEF SearchedAncestors
<1>8. PICK T : T = Conflicts(p, t)
  OBVIOUS
<1>9. T \subseteq p.txs
  BY <1>8 DEF Conflicts, NextTx
<1>10. PICK D : D = p.txs \ R
  OBVIOUS
<1>11. T \subseteq D /\ D \subseteq Txs
  BY <1>1, <1>7, <1>8, <1>9, <1>10
<1>12. ASSUME NEW x \in D, NEW y \in down[x] PROVE y \in D
  <2>1. x \in Txs /\ y \in Txs
    BY <1>11, <1>12
  <2>2. x \in up[y] /\ y \in p.txs
    BY <1>1, <1>2, <1>3, <2>1
  <2>3. y \notin R
    BY <1>6, <1>10, <2>2
  <2>4. QED
    BY <1>10, <2>2, <2>3
<1>13. Closure(down, T) \subseteq D
  BY <1>11, <1>12, ClosureLeast
<1>14. CalculateDescendants(p, T) = Closure(down, T)
  BY <1>3 DEF CalculateDescendants
<1>15. Sources(t) \cap D = {}
  BY <1>4, <1>6, <1>10
<1>16. QED
  BY <1>8, <1>13, <1>14, <1>15

\* q is p with t in the place of what t replaces.
Replaced(p, t, q) ==
  /\ q.txs = (p.txs \ CalculateDescendants(p, Conflicts(p, t))) \cup {t}
  /\ q.feeDelta[t] = p.delta[t] /\ \A x \in q.txs \ {t} : q.par[x] \subseteq p.par[x]

\* An acceptable transaction fits in after its conflicts have left.
LEMMA AcceptedFit ==
  ASSUME NEW p, NEW A, NEW G, NEW b \in Blocks, Fit(p, A, A, G, InChain(b)), Base(b) \subseteq G,
         NEW t \in Txs, Acceptable(p, b, t),
         CalculateDescendants(p, Conflicts(p, t)) \cap A = {},
         \A a \in A : t \notin Sources(a)
  PROVE  /\ Fit(Accepted(p, t), A \cup {t}, A \cup {t}, G \ {t}, InChain(b))
         /\ Replaced(p, t, Accepted(p, t))
<1>1. PICK T : T = Conflicts(p, t)
  OBVIOUS
<1>2. PICK S : S = CalculateDescendants(p, T)
  OBVIOUS
<1>3. PICK e : e = RemoveStaged(p, S, FALSE)
  OBVIOUS
<1>4. PICK q : q = addUnchecked(e, t)
  OBVIOUS
<1>5. q = Accepted(p, t)
  BY <1>1, <1>2, <1>3, <1>4 DEF Accepted
<1>6. Sound(p) /\ p.txs \in SUBSET Txs
  BY DEF Fit, Tied, Sound, SoundLinks
<1>7. T \in SUBSET p.txs
  BY <1>1 DEF Conflicts, NextTx
<1>8. S \in SUBSET p.txs /\ T \subseteq S
  BY <1>2, <1>6, <1>7, DescendantsFacts
<1>9. Pruned(p, T, A, A, G, InChain(b), e)
  <2>1. CalculateDescendants(p, T) \cap A = {}
    BY <1>1
  <2>2. Pruned(p, T, A, A, G, InChain(b), RemoveStaged(p, CalculateDescendants(p, T), FALSE))
    BY <1>7, <2>1, DescendantsCut
  <2>3. QED
    BY <1>2, <1>3, <2>2
<1>10. Fit(e, A, A, G, InChain(b)) /\ e.txs \subseteq p.txs
  BY <1>9 DEF Pruned, Less
<1>11. e.txs = p.txs \ S /\ e.delta = p.delta
  <2>1. S \in SUBSET Txs
    BY <1>6, <1>8
  <2>2. Cut(p, S, e)
    BY <1>3, <1>6, <2>1, StagedSound
  <2>3. QED
    BY <2>2 DEF Cut
<1>12. Fields(e) /\ e.feeDelta \in [Txs -> Int]
  BY <1>10 DEF Fit, Tied, Sound
<1>13. Entered(e, t, q) /\ Counted(e, t, q)
  BY <1>4, <1>12, AddFields
<1>14. t \notin e.txs
  BY <1>10 DEF Acceptable
<1>15. Sources(t) \cap S = {}
  <2>1. SearchedAncestors(p, t) \cap Conflicts(p, t) = {}
    BY DEF Acceptable, MayReplace
  <2>2. QED
    BY <1>1, <1>2, <1>6, <2>1, ParentsStay
<1>16. ASSUME NEW o \in Spends(t)
       PROVE  o[1] \in e.txs \/ (o[1] \in G /\ \A u \in InChain(b) : o \notin Spends(u))
  <2>1. o[1] \in p.txs \/ HaveCoin(b, o)
    BY DEF Acceptable, InputPresent
  <2>2. CASE o[1] \in p.txs
    <3>1. o[1] \notin S
      BY <1>15 DEF Sources
    <3>2. QED
      BY <1>11, <2>2, <3>1
  <2>3. CASE HaveCoin(b, o)
    BY <2>3 DEF HaveCoin
  <2>4. QED
    BY <2>1, <2>2, <2>3
<1>17. ASSUME NEW x \in e.txs PROVE Spends(x) \cap Spends(t) = {}
  <2>1. x \in p.txs /\ x \notin T
    BY <1>8, <1>11
  <2>2. QED
    BY <1>1, <2>1 DEF Conflicts, NextTx
<1>18. Fit(q, A \cup {t}, A \cup {t}, G \ {t}, InChain(b))
  BY <1>10, <1>13, <1>14, <1>16, <1>17, EnteredFit
<1>19. q.txs = (p.txs \ S) \cup {t}
  BY <1>11, <1>13 DEF Entered
<1>20. q.feeDelta[t] = p.delta[t]
  BY <1>11, <1>12, <1>13 DEF Entered
<1>21. ASSUME NEW x \in q.txs \ {t} PROVE q.par[x] \subseteq p.par[x]
  <2>1. x \in e.txs /\ x \in Txs
    BY <1>6, <1>11, <1>19
  <2>2. e.par[x] \subseteq p.par[x]
    BY <1>9, <2>1 DEF Pruned, Less
  <2>3. e.par \in [Txs -> SUBSET Txs]
    BY <1>10 DEF Fit, Tied, Sound, SoundLinks
  <2>4. q.par[x] = e.par[x]
    BY <1>13, <2>1, <2>3 DEF Entered
  <2>5. QED
    BY <2>2, <2>4
<1>22. Replaced(p, t, q)
  BY <1>1, <1>2, <1>19, <1>20, <1>21 DEF Replaced
<1>23. QED
  BY <1>5, <1>18, <1>22

\* What is confirmed is not accepted again: its inputs are spent, and their sources are
\* in the chain and not in the pool.
LEMMA NotConfirmed ==
  ASSUME NEW p, NEW b \in Blocks, p.txs \in SUBSET Txs, p.txs \cap InChain(b) = {},
         NEW t \in Txs, Acceptable(p, b, t)
  PROVE  t \notin InChain(b)
<1> SUFFICES ASSUME t \in InChain(b) PROVE FALSE
  OBVIOUS
<1>1. PICK o \in Spends(t) : o[1] \in Sources(t)
  BY InputFacts
<1>2. o[1] \in p.txs
  BY DEF Acceptable, InputPresent, HaveCoin
<1>3. o[1] \in Base(b)
  BY <1>1, ChainValid
<1>4. o[1] \in InChain(b)
  BY <1>2, <1>3, InChainFacts
<1>5. QED
  BY <1>2, <1>4

\* Acceptance keeps a pool at rest at rest.
LEMMA AcceptedRest ==
  ASSUME NEW p, NEW b \in Blocks, Rest(p, b), NEW t \in Txs, Acceptable(p, b, t)
  PROVE  Rest(Accepted(p, t), b) /\ Replaced(p, t, Accepted(p, t))
<1>1. /\ Fit(p, {}, {}, Base(b), InChain(b)) /\ p.txs \cap InChain(b) = {}
      /\ \A x \in p.txs : InTime(b, x)
  BY DEF Rest
<1>2. Live(p.txs, Base(b), InChain(b)) /\ p.txs \in SUBSET Txs
  BY <1>1 DEF Fit, Tied, Sound, SoundLinks
<1>3. t \notin InChain(b)
  BY <1>1, <1>2, NotConfirmed
<1>4. PICK q : q = Accepted(p, t)
  OBVIOUS
<1>5. Fit(q, {t}, {t}, Base(b) \ {t}, InChain(b)) /\ Replaced(p, t, q)
  <2>1. PICK A : A = {}
    OBVIOUS
  <2>2. Fit(p, A, A, Base(b), InChain(b))
    BY <1>1, <2>1
  <2>3. Base(b) \subseteq Base(b) /\ CalculateDescendants(p, Conflicts(p, t)) \cap A = {}
    BY <2>1
  <2>4. \A a \in A : t \notin Sources(a)
    BY <2>1
  <2>5. /\ Fit(q, A \cup {t}, A \cup {t}, Base(b) \ {t}, InChain(b))
        /\ Replaced(p, t, q)
    BY <1>4, <2>2, <2>3, <2>4, AcceptedFit
  <2>6. A \cup {t} = {t}
    BY <2>1
  <2>7. QED
    BY <2>5, <2>6
<1>6. q.txs \subseteq p.txs \cup {t}
  BY <1>5 DEF Replaced
<1>7. ASSUME NEW x \in q.txs PROVE t \notin Sources(x)
  <2>1. CASE x = t
    BY <2>1, InputFacts
  <2>2. CASE x # t
    <3>1. x \in p.txs /\ x \in Txs
      BY <1>2, <1>6, <2>2
    <3>2. ASSUME NEW o \in Spends(x), o[1] = t PROVE FALSE
      <4>1. t \in p.txs \/ t \in Base(b)
        BY <1>2, <3>1, <3>2 DEF Live
      <4>2. t \notin p.txs
        BY DEF Acceptable
      <4>3. QED
        BY <1>3, <4>1, <4>2, InChainFacts
    <3>3. QED
      BY <3>2 DEF Sources
  <2>3. QED
    BY <2>1, <2>2
<1>8. Linked(q.txs, q.par, {}, {})
  BY <1>5, <1>7 DEF Fit, Tied, Linked
<1>9. Fit(q, {}, {}, Base(b), InChain(b))
  <2>1. Live(q.txs, Base(b), InChain(b))
    BY <1>5 DEF Fit, Tied, Live
  <2>2. QED
    BY <1>5, <1>8, <2>1 DEF Fit, Tied
<1>10. q.txs \cap InChain(b) = {}
  BY <1>1, <1>3, <1>6
<1>11. InTime(b, t)
  BY DEF InTime, Acceptable
<1>12. \A x \in q.txs : InTime(b, x)
  BY <1>1, <1>6, <1>11
<1>13. Rest(q, b)
  BY <1>9, <1>10, <1>12 DEF Rest
<1>14. QED
  BY <1>4, <1>5, <1>13

-----------------------------------------------------------------------------
(* A block is connected.                                                   *)

\* Only mapDeltas changes.
Cleared(p, x, q) ==
  /\ Fields(q) /\ q.txs = p.txs /\ q.feeDelta = p.feeDelta /\ q.par = p.par /\ q.chi = p.chi
  /\ q.anc = p.anc /\ q.desc = p.desc /\ q.delta = [p.delta EXCEPT ![x] = 0]

\* The members after ClearPrioritisation.
LEMMA ClearFields ==
  ASSUME NEW p, Fields(p), NEW x
  PROVE  Cleared(p, x, ClearPrioritisation(p, x))
<1>1. PICK q : q = ClearPrioritisation(p, x)
  OBVIOUS
<1>2. PICK delta : delta = [p.delta EXCEPT ![x] = 0]
  OBVIOUS
<1>3. q = [p EXCEPT !.delta = delta]
  BY <1>1, <1>2, Zenon DEF ClearPrioritisation
<1>4. q = [txs |-> p.txs, feeDelta |-> p.feeDelta, anc |-> p.anc, desc |-> p.desc,
           par |-> p.par, chi |-> p.chi, delta |-> delta]
  BY <1>3 DEF Fields
<1>5. /\ Fields(q) /\ q.txs = p.txs /\ q.feeDelta = p.feeDelta /\ q.par = p.par /\ q.chi = p.chi
      /\ q.anc = p.anc /\ q.desc = p.desc /\ q.delta = delta
  BY <1>4 DEF Fields
<1>6. Cleared(p, x, q)
  BY <1>2, <1>5 DEF Cleared
<1>7. QED
  BY <1>1, <1>6

\* The links and the sums do not depend on mapDeltas.
LEMMA ClearedSound ==
  ASSUME NEW p, Sound(p), NEW x, NEW q, Cleared(p, x, q)
  PROVE  /\ Sound(q)
         /\ \A S \in SUBSET Txs : Total(q, S) = Total(p, S)
<1>1. /\ Fields(q) /\ q.txs = p.txs /\ q.feeDelta = p.feeDelta /\ q.par = p.par /\ q.chi = p.chi
      /\ q.delta = [p.delta EXCEPT ![x] = 0]
  BY DEF Cleared
<1>2. p.delta \in [Txs -> Int] /\ p.feeDelta \in [Txs -> Int]
  BY DEF Sound
<1>3. q.delta \in [Txs -> Int]
  <2>1. PICK d \in [Txs -> Int] : d = p.delta
    BY <1>2
  <2>2. q.delta = [y \in Txs |-> IF y = x THEN 0 ELSE d[y]]
    BY <1>1, <2>1
  <2>3. QED
    BY <2>2
<1>4. Sound(q)
  BY <1>1, <1>2, <1>3 DEF Sound
<1>5. ASSUME NEW S \in SUBSET Txs PROVE Total(q, S) = Total(p, S)
  <2>1. q.feeDelta \in [Txs -> Int] /\ \A y \in S : q.feeDelta[y] = p.feeDelta[y]
    BY <1>1, <1>2
  <2>2. QED
    BY <1>2, <2>1, TotalSame
<1>6. QED
  BY <1>4, <1>5

\* When nobody waits for it, mapDeltas may change.
LEMMA ClearFit ==
  ASSUME NEW p, NEW A, NEW B, NEW G, NEW X, Fit(p, A, B, G, X), NEW x, x \notin p.txs
  PROVE  /\ Fit(ClearPrioritisation(p, x), A, B, G, X) /\ Less(p, ClearPrioritisation(p, x))
         /\ ClearPrioritisation(p, x).txs = p.txs
<1>1. PICK q : q = ClearPrioritisation(p, x)
  OBVIOUS
<1>2. Sound(p) /\ Fields(p) /\ Summed(p) /\ p.delta \in [Txs -> Int]
  BY DEF Fit, Tied, Sound
<1>3. Cleared(p, x, q)
  BY <1>1, <1>2, ClearFields
<1>4. /\ Fields(q) /\ q.txs = p.txs /\ q.feeDelta = p.feeDelta /\ q.par = p.par /\ q.chi = p.chi
      /\ q.anc = p.anc /\ q.desc = p.desc /\ q.delta = [p.delta EXCEPT ![x] = 0]
  BY <1>3 DEF Cleared
<1>5. Sound(q) /\ \A S \in SUBSET Txs : Total(q, S) = Total(p, S)
  BY <1>2, <1>3, ClearedSound
<1>6. p.txs \in SUBSET Txs
  BY <1>2, PoolLinks
<1>7. Summed(q)
  <2>1. ASSUME NEW y \in q.txs
        PROVE  /\ q.feeDelta[y] = q.delta[y] /\ q.anc[y] = Total(q, Closure(q.par, {y}))
               /\ q.desc[y] = Total(q, Closure(q.chi, {y}))
    <3>1. y \in p.txs /\ y # x /\ y \in Txs
      BY <1>4, <1>6
    <3>2. q.delta[y] = p.delta[y]
      BY <1>2, <1>4, <3>1
    <3>3. PICK C \in SUBSET p.txs : C = Closure(p.par, {y})
      BY <1>2, <3>1, PoolClosure
    <3>4. PICK D \in SUBSET p.txs : D = Closure(p.chi, {y})
      BY <1>2, <3>1, PoolClosure
    <3>5. p.feeDelta[y] = p.delta[y] /\ p.anc[y] = Total(p, C) /\ p.desc[y] = Total(p, D)
      BY <1>2, <3>1, <3>3, <3>4 DEF Summed
    <3>6. Total(q, C) = Total(p, C) /\ Total(q, D) = Total(p, D)
      BY <1>5, <1>6
    <3>7. QED
      BY <1>4, <3>2, <3>3, <3>4, <3>5, <3>6
  <2>2. /\ q.anc \in [Txs -> Amounts] /\ q.desc \in [Txs -> Amounts]
        /\ \A y \in Txs \ q.txs : q.desc[y] = None
    BY <1>2, <1>4 DEF Summed
  <2>3. QED
    BY <2>1, <2>2 DEF Summed
<1>8. Fit(q, A, B, G, X) /\ Less(p, q)
  BY <1>4, <1>5, <1>7 DEF Fit, Tied, Less
<1>9. QED
  BY <1>1, <1>4, <1>8

\* A removal may as well come first.
LEMMA ClearStaged ==
  ASSUME NEW p, Sound(p), NEW x, NEW S \in SUBSET Txs
  PROVE  RemoveStaged(ClearPrioritisation(p, x), S, FALSE)
         = ClearPrioritisation(RemoveStaged(p, S, FALSE), x)
<1>1. PICK c : c = ClearPrioritisation(p, x)
  OBVIOUS
<1>2. PICK r : r = RemoveStaged(p, S, FALSE)
  OBVIOUS
<1>3. PICK a : a = RemoveStaged(c, S, FALSE)
  OBVIOUS
<1>4. PICK b : b = ClearPrioritisation(r, x)
  OBVIOUS
<1>5. Cleared(p, x, c)
  BY <1>1, ClearFields DEF Sound
<1>6. Sound(c) /\ \A V \in SUBSET Txs : Total(c, V) = Total(p, V)
  BY <1>5, ClearedSound
<1>7. /\ Fields(r) /\ r.txs = p.txs \ S /\ r.delta = p.delta
      /\ r.feeDelta = [y \in Txs |-> IF y \in S THEN 0 ELSE p.feeDelta[y]]
      /\ r.par = [y \in Txs |-> IF y \in S THEN {} ELSE p.par[y] \ {z \in S : y \in p.chi[z]}]
      /\ r.chi = [y \in Txs |-> IF y \in S THEN {} ELSE p.chi[y] \ {z \in S : y \in p.par[z]}]
      /\ r.anc = StagedAnc(p, S, FALSE) /\ r.desc = StagedDesc(p, S)
  <2>1. Staged(p, S, FALSE, r)
    BY <1>2, StagedFields DEF Sound
  <2>2. QED
    BY <2>1 DEF Staged
<1>8. /\ Fields(a) /\ a.txs = c.txs \ S /\ a.delta = c.delta
      /\ a.feeDelta = [y \in Txs |-> IF y \in S THEN 0 ELSE c.feeDelta[y]]
      /\ a.par = [y \in Txs |-> IF y \in S THEN {} ELSE c.par[y] \ {z \in S : y \in c.chi[z]}]
      /\ a.chi = [y \in Txs |-> IF y \in S THEN {} ELSE c.chi[y] \ {z \in S : y \in c.par[z]}]
      /\ a.anc = StagedAnc(c, S, FALSE) /\ a.desc = StagedDesc(c, S)
  <2>1. Staged(c, S, FALSE, a)
    BY <1>3, <1>6, StagedFields DEF Sound
  <2>2. QED
    BY <2>1 DEF Staged
<1>9. /\ Fields(b) /\ b.txs = r.txs /\ b.feeDelta = r.feeDelta /\ b.par = r.par /\ b.chi = r.chi
      /\ b.anc = r.anc /\ b.desc = r.desc /\ b.delta = [r.delta EXCEPT ![x] = 0]
  <2>1. Cleared(r, x, b)
    BY <1>4, <1>7, ClearFields
  <2>2. QED
    BY <2>1 DEF Cleared
<1>10. /\ c.txs = p.txs /\ c.feeDelta = p.feeDelta /\ c.par = p.par /\ c.chi = p.chi
       /\ c.anc = p.anc /\ c.desc = p.desc /\ c.delta = [p.delta EXCEPT ![x] = 0]
  BY <1>5 DEF Cleared
<1>11. StagedAnc(c, S, FALSE) = StagedAnc(p, S, FALSE)
  <2>1. \A v : StagedAnc(v, S, FALSE) = [y \in Txs |-> IF y \in S THEN None ELSE v.anc[y]]
    BY DEF StagedAnc
  <2>2. QED
    BY <1>10, <2>1
<1>12. StagedDesc(c, S) = StagedDesc(p, S)
  <2>1. ASSUME NEW y \in Txs
        PROVE  Total(c, {z \in S : y \in LinkedAncestors(c, z)})
               = Total(p, {z \in S : y \in LinkedAncestors(p, z)})
    <3>1. \A z : LinkedAncestors(c, z) = LinkedAncestors(p, z)
      BY <1>10 DEF LinkedAncestors
    <3>2. PICK V \in SUBSET Txs : V = {z \in S : y \in LinkedAncestors(p, z)}
      OBVIOUS
    <3>3. V = {z \in S : y \in LinkedAncestors(c, z)}
      BY <3>1, <3>2
    <3>4. Total(c, V) = Total(p, V)
      BY <1>6
    <3>5. QED
      BY <3>2, <3>3, <3>4
  <2>2. QED
    BY <1>10, <2>1 DEF StagedDesc
<1>13. a.par = r.par /\ a.chi = r.chi /\ a.feeDelta = r.feeDelta
  BY <1>7, <1>8, <1>10
<1>14. /\ a.txs = b.txs /\ a.feeDelta = b.feeDelta /\ a.par = b.par /\ a.chi = b.chi
       /\ a.anc = b.anc /\ a.desc = b.desc /\ a.delta = b.delta
  <2>1. a.delta = b.delta
    BY <1>7, <1>8, <1>9, <1>10
  <2>2. a.txs = b.txs
    BY <1>7, <1>8, <1>9, <1>10
  <2>3. QED
    BY <1>7, <1>8, <1>9, <1>11, <1>12, <1>13, <2>1, <2>2
<1>15. a = b
  BY <1>8, <1>9, <1>14 DEF Fields
<1>16. QED
  BY <1>1, <1>2, <1>3, <1>4, <1>15

\* Whoever spends o goes.
LEMMA ConflictCut ==
  ASSUME NEW p, NEW G, NEW X, Fit(p, {}, {}, G, X), NEW t, t \notin p.txs, NEW o
  PROVE  /\ Fit(removeConflict(p, t, o), {}, {}, G, X) /\ Less(p, removeConflict(p, t, o))
         /\ \A u \in removeConflict(p, t, o).txs : o \notin Spends(u)
<1>1. CASE NextTx(p, o) \subseteq {t}
  <2>1. removeConflict(p, t, o) = p
    BY <1>1 DEF removeConflict
  <2>2. \A u \in p.txs : o \notin Spends(u)
    BY <1>1 DEF NextTx
  <2>3. QED
    BY <2>1, <2>2, LessSame
<1>2. CASE ~(NextTx(p, o) \subseteq {t})
  <2>1. PICK x : x = CHOOSE y \in NextTx(p, o) : y # t
    OBVIOUS
  <2>2. x \in NextTx(p, o)
    BY <1>2, <2>1
  <2>3. PICK e : e = removeRecursive(p, x)
    OBVIOUS
  <2>4. PICK q : q = ClearPrioritisation(e, x)
    OBVIOUS
  <2>5. q = removeConflict(p, t, o)
    <3>1. PICK c : c = ClearPrioritisation(p, x)
      OBVIOUS
    <3>2. Sound(p)
      BY DEF Fit, Tied
    <3>3. Fields(p) /\ x \in p.txs
      BY <2>2, <3>2 DEF Sound, NextTx
    <3>4. c.txs = p.txs /\ c.chi = p.chi
      BY <3>1, <3>3, ClearFields DEF Cleared
    <3>5. PICK S : S = CalculateDescendants(p, {x})
      OBVIOUS
    <3>6. S \in SUBSET Txs
      <4>1. p.txs \in SUBSET Txs /\ Closure(p.chi, {x}) \in SUBSET p.txs
        BY <3>2, <3>3, PoolLinks, PoolClosure
      <4>2. QED
        BY <3>5, <4>1 DEF CalculateDescendants
    <3>7. e = RemoveStaged(p, S, FALSE)
      BY <2>3, <3>3, <3>5 DEF removeRecursive
    <3>8. removeRecursive(c, x) = RemoveStaged(c, S, FALSE)
      BY <3>3, <3>4, <3>5 DEF removeRecursive, CalculateDescendants
    <3>9. RemoveStaged(c, S, FALSE) = q
      BY <2>4, <3>1, <3>2, <3>6, <3>7, ClearStaged
    <3>10. removeConflict(p, t, o) = removeRecursive(c, x)
      BY <1>2, <2>1, <3>1 DEF removeConflict
    <3>11. QED
      BY <3>8, <3>9, <3>10
  <2>6. Fit(e, {}, {}, G \ {x}, X) /\ Less(p, e) /\ x \notin e.txs
    BY <2>3, RecursiveCutLinked
  <2>7. Fit(q, {}, {}, G \ {x}, X) /\ Less(e, q) /\ x \notin q.txs
    BY <2>4, <2>6, ClearFit
  <2>8. Fit(q, {}, {}, G, X)
    <3>1. G \ {x} \subseteq G /\ X \subseteq X
      OBVIOUS
    <3>2. QED
      BY <2>7, <3>1, FitWeaker
  <2>9. Less(p, q)
    BY <2>6, <2>7, LessLess
  <2>10. ASSUME NEW u \in q.txs, o \in Spends(u) PROVE FALSE
    <3>1. u \in p.txs /\ u # x
      BY <2>7, <2>9 DEF Less
    <3>2. x \in p.txs /\ o \in Spends(x)
      BY <2>2 DEF NextTx
    <3>3. Single(p.txs)
      BY DEF Fit, Tied
    <3>4. QED
      BY <2>10, <3>1, <3>2, <3>3 DEF Single
  <2>11. QED
    BY <2>5, <2>8, <2>9, <2>10
<1>3. QED
  BY <1>1, <1>2

\* Nobody spends an input of t any more.
LEMMA ConflictsCut ==
  ASSUME NEW p, NEW G, NEW X, Fit(p, {}, {}, G, X), NEW t \in Txs, t \notin p.txs
  PROVE  /\ Fit(removeConflicts(p, t), {}, {}, G, X) /\ Less(p, removeConflicts(p, t))
         /\ \A u \in removeConflicts(p, t).txs : Spends(u) \cap Spends(t) = {}
<1>1. PICK K \in Nat : K = Len(Inputs[t])
  BY InputFacts
<1>2. PICK f : ConflictRun(p, t, f)
  BY InputFacts, ConflictSteps
<1>3. /\ f[0] = p /\ removeConflicts(p, t) = f[K]
      /\ \A i \in 1..K : f[i] = removeConflict(f[i - 1], t, Inputs[t][i])
  BY <1>1, <1>2 DEF ConflictRun
<1> DEFINE OK(n) == /\ Fit(f[n], {}, {}, G, X) /\ Less(p, f[n])
                    /\ \A i \in 1..n : \A u \in f[n].txs : Inputs[t][i] \notin Spends(u)
           N == {n \in 0..K : OK(n)}
<1>4. 0 \in N
  BY <1>3, LessSame
<1>5. ASSUME NEW n \in N, n < K PROVE n + 1 \in N
  <2>1. n \in Nat /\ n + 1 \in 1..K /\ n + 1 \in 0..K /\ n + 1 - 1 = n
    BY <1>5
  <2>2. PICK e : e = f[n]
    OBVIOUS
  <2>3. PICK o : o = Inputs[t][n + 1]
    OBVIOUS
  <2>4. PICK q : q = f[n + 1]
    OBVIOUS
  <2>5. q = removeConflict(e, t, o)
    BY <1>3, <2>1, <2>2, <2>3, <2>4
  <2>6. /\ Fit(e, {}, {}, G, X) /\ Less(p, e)
        /\ \A i \in 1..n : \A u \in e.txs : Inputs[t][i] \notin Spends(u)
    BY <1>5, <2>2
  <2>7. t \notin e.txs
    BY <2>6 DEF Less
  <2>8. /\ Fit(q, {}, {}, G, X) /\ Less(e, q) /\ \A u \in q.txs : o \notin Spends(u)
    BY <2>5, <2>6, <2>7, ConflictCut
  <2>9. Less(p, q)
    BY <2>6, <2>8, LessLess
  <2>10. ASSUME NEW i \in 1..(n + 1), NEW u \in q.txs PROVE Inputs[t][i] \notin Spends(u)
    <3>1. CASE i = n + 1
      BY <2>3, <2>8, <3>1
    <3>2. CASE i # n + 1
      <4>1. i \in 1..n
        BY <2>1, <3>2
      <4>2. u \in e.txs
        BY <2>8 DEF Less
      <4>3. QED
        BY <2>6, <4>1, <4>2
    <3>3. QED
      BY <3>1, <3>2
  <2>11. OK(n + 1)
    BY <2>4, <2>8, <2>9, <2>10
  <2>12. QED
    BY <2>1, <2>11
<1>6. N \in SUBSET (0..K)
  OBVIOUS
<1>7. N = 0..K
  <2> HIDE DEF N
  <2> QED BY <1>4, <1>5, <1>6, UpTo
<1>8. OK(K)
  <2>1. K \in N
    BY <1>7
  <2>2. QED
    BY <2>1
<1>9. \A u \in f[K].txs : Spends(u) \cap Spends(t) = {}
  <2>1. Spends(t) = {Inputs[t][i] : i \in 1..K}
    BY <1>1, InputFacts
  <2>2. QED
    BY <1>8, <2>1
<1>10. QED
  BY <1>3, <1>8, <1>9

\* A transaction is confirmed: its children spend outputs of the chain from now on, and
\* nobody spends what it spends.
LEMMA ConfirmedFit ==
  ASSUME NEW p, NEW G, NEW X, Fit(p, {}, {}, G, X), NEW t \in Txs, \A u \in X : t \notin Sources(u),
         Sources(t) \cap p.txs = {}
  PROVE  /\ Fit(Confirmed(p, t), {}, {}, G \cup {t}, X \cup {t}) /\ Less(p, Confirmed(p, t))
         /\ t \notin Confirmed(p, t).txs
<1>1. PICK e : e = IF t \in p.txs THEN RemoveStaged(p, {t}, TRUE) ELSE p
  OBVIOUS
<1>2. PICK d : d = removeConflicts(e, t)
  OBVIOUS
<1>3. PICK q : q = ClearPrioritisation(d, t)
  OBVIOUS
<1>4. q = Confirmed(p, t)
  BY <1>1, <1>2, <1>3 DEF Confirmed
<1>5. /\ Sound(p) /\ Linked(p.txs, p.par, {}, {}) /\ Live(p.txs, G, X) /\ Single(p.txs)
      /\ p.txs \in SUBSET Txs /\ Summed(p)
  BY DEF Fit, Tied, Sound, SoundLinks
<1>6. Fit(e, {}, {}, G \cup {t}, X) /\ Less(p, e) /\ t \notin e.txs
  <2>1. CASE t \in p.txs
    <3>1. PICK S : S = {t}
      OBVIOUS
    <3>2. S \in SUBSET Txs
      BY <3>1
    <3>3. e = RemoveStaged(p, S, TRUE)
      BY <1>1, <2>1, <3>1
    <3>4. Cut(p, S, e)
      BY <1>5, <3>2, <3>3, StagedSound
    <3>5. Sound(e) /\ Linked(e.txs, e.par, {}, {}) /\ Single(e.txs)
      BY <1>5, <3>2, <3>4, CutLinked
    <3>6. /\ e.txs = p.txs \ {t}
          /\ \A x \in Txs \ {t} : e.feeDelta[x] = p.feeDelta[x] /\ e.par[x] \subseteq p.par[x]
      BY <3>1, <3>4 DEF Cut
    <3>7. ASSUME NEW x \in e.txs, NEW o \in Spends(x)
          PROVE  o[1] \in e.txs \/ (o[1] \in G \cup {t} /\ \A u \in X : o \notin Spends(u))
      <4>1. o[1] \in p.txs \/ (o[1] \in G /\ \A u \in X : o \notin Spends(u))
        BY <1>5, <3>6 DEF Live
      <4>2. o[1] = t => \A u \in X : o \notin Spends(u)
        BY DEF Sources
      <4>3. QED
        BY <3>6, <4>1, <4>2
    <3>8. Live(e.txs, G \cup {t}, X)
      BY <3>7 DEF Live
    <3>9. Less(p, e)
      BY <1>5, <3>6 DEF Less
    <3>10. Summed(e)
      <4>1. p.par[t] = {}
        <5>1. \A y \in Txs : y \in p.par[t] => y \in p.txs /\ y \in Sources(t)
          BY <1>5 DEF Sound, SoundLinks
        <5>2. p.par[t] \subseteq Txs
          BY <1>5 DEF Sound, SoundLinks
        <5>3. QED
          BY <5>1, <5>2
      <4>2. QED
        BY <1>5, <2>1, <3>1, <3>3, <4>1, SourceSums
    <3>11. QED
      BY <3>5, <3>6, <3>8, <3>9, <3>10 DEF Fit, Tied
  <2>2. CASE t \notin p.txs
    <3>1. e = p
      BY <1>1, <2>2
    <3>2. Fit(p, {}, {}, G \cup {t}, X)
      <4>1. G \subseteq G \cup {t} /\ X \subseteq X
        OBVIOUS
      <4>2. QED
        BY <4>1, FitWeaker
    <3>3. QED
      BY <2>2, <3>1, <3>2, LessSame
  <2>3. QED
    BY <2>1, <2>2
<1>7. /\ Fit(d, {}, {}, G \cup {t}, X) /\ Less(e, d)
      /\ \A u \in d.txs : Spends(u) \cap Spends(t) = {}
  BY <1>2, <1>6, ConflictsCut
<1>8. Live(d.txs, G \cup {t}, X \cup {t})
  BY <1>7 DEF Fit, Tied, Live
<1>9. Fit(d, {}, {}, G \cup {t}, X \cup {t})
  BY <1>7, <1>8 DEF Fit, Tied
<1>10. Fit(q, {}, {}, G \cup {t}, X \cup {t}) /\ Less(d, q)
  <2>1. t \notin d.txs
    BY <1>6, <1>7 DEF Less
  <2>2. QED
    BY <1>3, <1>9, <2>1, ClearFit
<1>11. Less(p, q)
  <2>1. Less(p, d)
    BY <1>6, <1>7, LessLess
  <2>2. QED
    BY <1>10, <2>1, LessLess
<1>12. t \notin q.txs
  <2>1. Less(e, q)
    BY <1>7, <1>10, LessLess
  <2>2. QED
    BY <1>6, <2>1 DEF Less
<1>13. QED
  BY <1>4, <1>10, <1>11, <1>12

\* A transaction of a block is no source of those before it.
LEMMA EarlierSources ==
  ASSUME NEW b \in Blocks \ {0}, NEW i \in 1..Len(Vtx[b]),
         NEW u \in InChain(Parent[b]) \cup Earlier(b, i)
  PROVE  Vtx[b][i] \notin Sources(u)
<1>1. PICK t : t = Vtx[b][i]
  OBVIOUS
<1>2. t \in Txs /\ t \notin InChain(Parent[b]) \cup Earlier(b, i)
  BY <1>1, BlockFacts
<1>3. Parent[b] \in Blocks
  BY TreeFacts
<1>4. t \notin Base(Parent[b])
  BY <1>2, <1>3, InChainFacts
<1>5. CASE u \in InChain(Parent[b])
  <2>1. Sources(u) \subseteq Base(Parent[b])
    BY <1>3, <1>5, ChainValid
  <2>2. QED
    BY <1>1, <1>4, <2>1
<1>6. CASE u \in Earlier(b, i)
  <2>1. Len(Vtx[b]) \in Nat
    BY VtxFacts
  <2>2. PICK j \in 1..(i - 1) : u = Vtx[b][j]
    BY <1>6 DEF Earlier
  <2>3. j \in 1..Len(Vtx[b]) /\ 1..(j - 1) \subseteq 1..(i - 1)
    BY <2>1
  <2>4. Earlier(b, j) \subseteq Earlier(b, i)
    BY <2>3 DEF Earlier
  <2>5. \A o \in Spends(u) : o[1] \in Base(Parent[b]) \cup Earlier(b, j)
    BY <2>2, <2>3, BlockFacts
  <2>6. QED
    BY <1>1, <1>2, <1>4, <2>4, <2>5 DEF Sources
<1>7. QED
  BY <1>5, <1>6

\* removeForBlock.
LEMMA BlockFit ==
  ASSUME NEW b \in Blocks \ {0}, NEW p, NEW G, Fit(p, {}, {}, G, InChain(Parent[b])),
         p.txs \cap InChain(Parent[b]) = {}
  PROVE  /\ Fit(removeForBlock(p, Vtx[b]), {}, {}, G \cup ToSet(Vtx[b]), InChain(b))
         /\ Less(p, removeForBlock(p, Vtx[b]))
         /\ removeForBlock(p, Vtx[b]).txs \cap ToSet(Vtx[b]) = {}
<1>1. PICK K \in Nat : K = Len(Vtx[b])
  BY VtxFacts
<1>2. PICK f : ConfirmedRun(p, Vtx[b], f)
  BY VtxFacts, ConfirmedSteps
<1>3. /\ f[0] = p /\ removeForBlock(p, Vtx[b]) = f[K]
      /\ \A i \in 1..K : f[i] = Confirmed(f[i - 1], Vtx[b][i])
  BY <1>1, <1>2 DEF ConfirmedRun
<1>4. PICK X : X = InChain(Parent[b])
  OBVIOUS
<1> DEFINE Before(n) == Earlier(b, n + 1)
           OK(n) == /\ Fit(f[n], {}, {}, G \cup Before(n), X \cup Before(n)) /\ Less(p, f[n])
                    /\ f[n].txs \cap Before(n) = {}
           N == {n \in 0..K : OK(n)}
<1>5. 0 \in N
  <2>1. Before(0) = {}
    <3>1. 1..(0 + 1 - 1) = {}
      OBVIOUS
    <3>2. QED
      BY <3>1 DEF Earlier
  <2>2. G \cup Before(0) = G /\ X \cup Before(0) = X
    BY <2>1
  <2>3. OK(0)
    <3> HIDE DEF Before
    <3> QED BY <1>3, <1>4, <2>1, <2>2, LessSame
  <2>4. QED
    BY <2>3
<1>6. ASSUME NEW n \in N, n < K PROVE n + 1 \in N
  <2>1. n \in Nat /\ n + 1 \in 1..K /\ n + 1 \in 0..K /\ n + 1 - 1 = n
    BY <1>6
  <2>2. PICK i \in 1..K : i = n + 1
    BY <2>1
  <2>3. PICK t : t = Vtx[b][i]
    OBVIOUS
  <2>4. PICK e : e = f[n]
    OBVIOUS
  <2>5. PICK q : q = f[i]
    OBVIOUS
  <2>6. q = Confirmed(e, t)
    BY <1>3, <2>1, <2>2, <2>3, <2>4, <2>5
  <2>7. PICK E : E = Earlier(b, i)
    OBVIOUS
  <2>8. Fit(e, {}, {}, G \cup E, X \cup E) /\ Less(p, e) /\ e.txs \cap E = {}
    BY <1>6, <2>2, <2>4, <2>7
  <2>9. i \in 1..Len(Vtx[b])
    BY <1>1
  <2>10. t \in Txs /\ Earlier(b, i + 1) = E \cup {t}
    BY <2>3, <2>7, <2>9, BlockFacts
  <2>11. \A u \in X \cup E : t \notin Sources(u)
    BY <1>4, <2>3, <2>7, <2>9, EarlierSources
  <2>12. Sources(t) \cap e.txs = {}
    <3>1. Parent[b] \in Blocks
      BY TreeFacts
    <3>2. e.txs \in SUBSET Txs /\ e.txs \subseteq p.txs
      BY <2>8 DEF Fit, Tied, Sound, SoundLinks, Less
    <3>3. ASSUME NEW y \in Sources(t), y \in e.txs PROVE FALSE
      <4>1. PICK o \in Spends(t) : y = o[1]
        BY <2>10, InputFacts
      <4>2. y \in Base(Parent[b]) \cup E
        BY <2>3, <2>7, <2>9, <4>1, BlockFacts
      <4>3. y \in InChain(Parent[b]) \cup E
        BY <3>1, <3>2, <3>3, <4>2, InChainFacts
      <4>4. QED
        BY <2>8, <3>2, <3>3, <4>3
    <3>4. QED
      BY <3>3
  <2>13. /\ Fit(q, {}, {}, (G \cup E) \cup {t}, (X \cup E) \cup {t}) /\ Less(e, q)
         /\ t \notin q.txs
    BY <2>6, <2>8, <2>10, <2>11, <2>12, ConfirmedFit
  <2>14. PICK D : D = Earlier(b, i + 1)
    OBVIOUS
  <2>15. (G \cup E) \cup {t} = G \cup D /\ (X \cup E) \cup {t} = X \cup D
    BY <2>10, <2>14
  <2>16. Fit(q, {}, {}, G \cup D, X \cup D)
    BY <2>13, <2>15
  <2>17. Less(p, q)
    BY <2>8, <2>13, LessLess
  <2>18. q.txs \cap D = {}
    <3>1. q.txs \subseteq e.txs
      BY <2>13 DEF Less
    <3>2. QED
      BY <2>8, <2>10, <2>13, <2>14, <3>1
  <2>19. OK(i)
    BY <2>5, <2>14, <2>16, <2>17, <2>18
  <2>20. QED
    BY <2>1, <2>2, <2>19
<1>7. N \in SUBSET (0..K)
  OBVIOUS
<1>8. N = 0..K
  <2> HIDE DEF N
  <2> QED BY <1>5, <1>6, <1>7, UpTo
<1>9. OK(K)
  <2>1. K \in N
    <3> HIDE DEF N
    <3> QED BY <1>8
  <2>2. QED
    BY <2>1
<1>10. Before(K) = ToSet(Vtx[b])
  <2>1. K + 1 - 1 = K
    OBVIOUS
  <2>2. ToSet(Vtx[b]) = {Vtx[b][j] : j \in 1..K}
    BY <1>1, VtxFacts
  <2>3. QED
    BY <2>1, <2>2 DEF Earlier
<1>11. X \cup ToSet(Vtx[b]) = InChain(b)
  BY <1>4, InChainStep
<1> HIDE DEF Before
<1>12. QED
  BY <1>3, <1>9, <1>10, <1>11

-----------------------------------------------------------------------------
(* disconnectpool.                                                         *)

\* No element of the queue twice, and none that an earlier transaction of the chain,
\* which comes later in the queue, spends.
Orderly(s) == \A i, j \in 1..Len(s) :
  i < j => s[i] # s[j] /\ (s[j] \in Txs => s[i] \notin Sources(s[j]))

\* The elements of a sequence.
LEMMA SetOfSeq ==
  ASSUME NEW S, NEW s \in Seq(S)
  PROVE  /\ Len(s) \in Nat /\ DOMAIN s = 1..Len(s) /\ ToSet(s) = {s[i] : i \in 1..Len(s)}
         /\ \A i \in 1..Len(s) : s[i] \in S
BY DEF ToSet

\* u is q with the elements of w after it.
Joined(q, w, u) == /\ u \in Seq(Int) /\ Len(u) = Len(q) + Len(w)
                   /\ \A i \in 1..Len(q) : u[i] = q[i]
                   /\ \A i \in 1..Len(w) : u[Len(q) + i] = w[i]

\* That is a concatenation.
LEMMA JoinedFacts ==
  ASSUME NEW q \in Seq(Int), NEW w \in Seq(Int)
  PROVE  Joined(q, w, q \o w)
<1>1. PICK m \in Nat : m = Len(q)
  OBVIOUS
<1>2. PICK n \in Nat : n = Len(w)
  OBVIOUS
<1>3. q \o w \in Seq(Int) /\ Len(q \o w) = m + n
  BY <1>1, <1>2
<1>4. \A i \in 1..m : (q \o w)[i] = q[i]
  BY <1>1, <1>2
<1>5. ASSUME NEW i \in 1..n PROVE (q \o w)[m + i] = w[i]
  <2>1. m + i \in 1..(m + n) /\ ~(m + i <= m) /\ m + i - m = i
    OBVIOUS
  <2>2. PICK k \in 1..(m + n) : k = m + i
    BY <2>1
  <2>3. (q \o w)[k] = w[k - m]
    BY <1>1, <1>2, <2>1, <2>2
  <2>4. QED
    BY <2>1, <2>2, <2>3
<1>6. QED
  BY <1>1, <1>2, <1>3, <1>4, <1>5 DEF Joined

\* u is q with the elements of v, last one first, and c.
Added(q, v, c, u) == /\ u \in Seq(Int) /\ Len(u) = Len(q) + Len(v) + 1
                     /\ \A i \in 1..Len(q) : u[i] = q[i]
                     /\ \A i \in 1..Len(v) : u[Len(q) + i] = v[Len(v) - i + 1]
                     /\ u[Len(q) + Len(v) + 1] = c

\* What DisconnectTip adds to the queue.
LEMMA AddedFacts ==
  ASSUME NEW q \in Seq(Int), NEW v \in Seq(Int), NEW c \in Int
  PROVE  Added(q, v, c, q \o Reverse(v) \o <<c>>)
<1>1. PICK u : u = q \o Reverse(v) \o <<c>>
  OBVIOUS
<1>2. Len(q) \in Nat /\ Len(v) \in Nat
  OBVIOUS
<1>3. PICK w : w = Reverse(v)
  OBVIOUS
<1>4. w \in Seq(Int) /\ Len(w) = Len(v) /\ \A i \in 1..Len(v) : w[i] = v[Len(v) - i + 1]
  <2>1. w = [i \in 1..Len(v) |-> v[(Len(v) - i) + 1]]
    BY <1>3 DEF Reverse
  <2>2. \A i \in 1..Len(v) : (Len(v) - i) + 1 \in 1..Len(v)
    BY <1>2
  <2>3. \A i \in 1..Len(v) : v[(Len(v) - i) + 1] \in Int
    BY <2>2
  <2>4. QED
    BY <1>2, <2>1, <2>3
<1>5. PICK x : x = q \o w
  OBVIOUS
<1>6. /\ x \in Seq(Int) /\ Len(x) = Len(q) + Len(v)
      /\ \A i \in 1..Len(q) : x[i] = q[i]
      /\ \A i \in 1..Len(v) : x[Len(q) + i] = w[i]
  <2>1. Joined(q, w, x)
    BY <1>4, <1>5, JoinedFacts
  <2>2. QED
    BY <1>4, <2>1 DEF Joined
<1>7. u = x \o <<c>>
  BY <1>1, <1>3, <1>5
<1>8. <<c>> \in Seq(Int) /\ Len(<<c>>) = 1 /\ <<c>>[1] = c
  OBVIOUS
<1>9. /\ u \in Seq(Int) /\ Len(u) = Len(x) + 1
      /\ \A i \in 1..Len(x) : u[i] = x[i]
      /\ u[Len(x) + 1] = c
  <2>1. PICK y \in Seq(Int) : y = <<c>> /\ Len(y) = 1 /\ y[1] = c
    BY <1>8
  <2>2. Joined(x, y, u)
    BY <1>6, <1>7, <2>1, JoinedFacts
  <2>3. 1 \in 1..Len(y)
    BY <2>1
  <2>4. QED
    BY <2>1, <2>2, <2>3 DEF Joined
<1>10. \A i \in 1..Len(q) : u[i] = q[i]
  <2>1. \A i \in 1..Len(q) : i \in 1..Len(x)
    BY <1>2, <1>6
  <2>2. QED
    BY <1>6, <1>9, <2>1
<1>11. ASSUME NEW i \in 1..Len(v) PROVE u[Len(q) + i] = v[Len(v) - i + 1]
  <2>1. Len(q) + i \in 1..Len(x)
    BY <1>2, <1>6
  <2>2. QED
    BY <1>4, <1>6, <1>9, <2>1
<1>12. Len(u) = Len(q) + Len(v) + 1 /\ u[Len(q) + Len(v) + 1] = c
  BY <1>6, <1>9
<1>13. Added(q, v, c, u)
  BY <1>9, <1>10, <1>11, <1>12 DEF Added
<1>14. QED
  BY <1>1, <1>13

\* The queue with the transactions of block b, last one first, and its coinbase.
LEMMA AddedOrderly ==
  ASSUME NEW b \in Blocks \ {0}, NEW q \in Seq(Int), Orderly(q), ToSet(q) \cap Base(b) = {},
         NEW u, u = q \o Reverse(Vtx[b]) \o <<-b>>
  PROVE  u \in Seq(Int) /\ Orderly(u) /\ ToSet(u) = ToSet(q) \cup ToSet(Vtx[b]) \cup {-b}
<1>1. PICK v \in Seq(Txs) : v = Vtx[b]
  BY VtxFacts
<1>2. v \in Seq(Int)
  <2>1. Txs \subseteq Int
    BY TxFacts
  <2>2. \A i \in 1..Len(v) : v[i] \in Txs
    OBVIOUS
  <2>3. \A i \in 1..Len(v) : v[i] \in Int
    BY <2>1, <2>2
  <2>4. v = [i \in 1..Len(v) |-> v[i]] /\ Len(v) \in Nat
    OBVIOUS
  <2>5. PICK k \in Nat : k = Len(v)
    BY <2>4
  <2>6. [i \in 1..k |-> v[i]] \in Seq(Int)
    BY <2>3, <2>5
  <2>7. QED
    BY <2>4, <2>5, <2>6
<1>3. b \in Nat /\ b # 0 /\ -b \in Int
  BY TreeFacts
<1>4. PICK m \in Nat : m = Len(q)
  OBVIOUS
<1>5. PICK n \in Nat : n = Len(v)
  OBVIOUS
<1>6. /\ u \in Seq(Int) /\ Len(u) = m + n + 1
      /\ \A i \in 1..m : u[i] = q[i]
      /\ \A i \in 1..n : u[m + i] = v[n - i + 1]
      /\ u[m + n + 1] = -b
  <2>1. PICK c \in Int : c = -b
    BY <1>3
  <2>2. u = q \o Reverse(v) \o <<c>>
    BY <1>1, <2>1
  <2>3. Added(q, v, c, u)
    BY <1>2, <2>2, AddedFacts
  <2>4. QED
    BY <1>4, <1>5, <2>1, <2>3 DEF Added
<1>7. ToSet(q) = {q[i] : i \in 1..m} /\ ToSet(v) = {v[i] : i \in 1..n}
  <2>1. DOMAIN q = 1..m /\ DOMAIN v = 1..n
    BY <1>4, <1>5
  <2>2. QED
    BY <2>1 DEF ToSet
<1>8. \A x \in ToSet(v) : x \in Txs /\ x \in Base(b) /\ Sources(x) \subseteq Base(b)
  <2>1. ToSet(v) \subseteq InChain(b) /\ ToSet(v) \subseteq Txs
    BY <1>1, InChainStep, VtxFacts
  <2>2. QED
    BY <2>1, ChainValid, InChainFacts
<1>9. -b \in Base(b) /\ -b \notin Txs
  <2>1. -b \in Base(b)
    BY InChainStep
  <2>2. \A x \in Txs : x \in Nat
    BY TxFacts
  <2>3. ~(-b \in Nat)
    BY <1>3
  <2>4. QED
    BY <2>1, <2>2, <2>3
\* Where an element is: in the old queue, in the block, or last.
<1>10. ASSUME NEW i \in 1..(m + n + 1)
       PROVE  \/ i \in 1..m /\ u[i] = q[i] /\ u[i] \in ToSet(q)
              \/ /\ i > m /\ i <= m + n
                 /\ \E a \in 1..n : a = m + n + 1 - i /\ u[i] = v[a] /\ u[i] \in ToSet(v)
              \/ i = m + n + 1 /\ u[i] = -b
  <2>1. CASE i <= m
    <3>1. i \in 1..m
      BY <2>1
    <3>2. QED
      BY <1>6, <1>7, <3>1
  <2>2. CASE i > m /\ i <= m + n
    <3>1. PICK k \in 1..n : i = m + k
      <4>1. i - m \in 1..n /\ i = m + (i - m)
        BY <2>2
      <4>2. QED
        BY <4>1
    <3>2. u[i] = v[n - k + 1]
      BY <1>6, <3>1
    <3>3. n - k + 1 \in 1..n /\ n - k + 1 = m + n + 1 - i
      BY <3>1
    <3>4. u[i] \in ToSet(v)
      BY <1>7, <3>2, <3>3
    <3>5. QED
      BY <2>2, <3>2, <3>3, <3>4
  <2>3. CASE i = m + n + 1
    BY <1>6, <2>3
  <2>4. i <= m \/ (i > m /\ i <= m + n) \/ i = m + n + 1
    OBVIOUS
  <2>5. QED
    BY <2>1, <2>2, <2>3, <2>4
<1>11. ASSUME NEW i \in 1..(m + n + 1), NEW j \in 1..(m + n + 1), i < j
       PROVE  u[i] # u[j] /\ (u[j] \in Txs => u[i] \notin Sources(u[j]))
  <2>1. CASE j \in 1..m
    <3>1. i \in 1..m /\ u[i] = q[i] /\ u[j] = q[j]
      <4>1. i \in 1..m
        BY <1>11, <2>1
      <4>2. QED
        BY <1>6, <2>1, <4>1
    <3>2. q[i] # q[j] /\ (q[j] \in Txs => q[i] \notin Sources(q[j]))
      BY <1>4, <1>11, <2>1, <3>1 DEF Orderly
    <3>3. QED
      BY <3>1, <3>2
  <2>2. CASE j = m + n + 1 /\ u[j] = -b
    <3>1. u[j] \notin Txs
      BY <1>9, <2>2
    <3>2. u[i] \in ToSet(q) \/ u[i] \in ToSet(v)
      <4>1. i # m + n + 1
        BY <1>11, <2>2
      <4>2. QED
        BY <1>10, <4>1
    <3>3. u[i] # -b
      BY <1>8, <1>9, <3>2
    <3>4. QED
      BY <2>2, <3>1, <3>3
  <2>3. CASE /\ j > m /\ j <= m + n
             /\ \E a \in 1..n : a = m + n + 1 - j /\ u[j] = v[a] /\ u[j] \in ToSet(v)
    <3>1. PICK c \in 1..n : c = m + n + 1 - j /\ u[j] = v[c] /\ u[j] \in ToSet(v)
      BY <2>3
    <3>2. u[j] \in Base(b) /\ Sources(u[j]) \subseteq Base(b)
      BY <1>8, <3>1
    <3>3. CASE u[i] \in ToSet(q)
      BY <3>2, <3>3
    <3>4. CASE \E a \in 1..n : a = m + n + 1 - i /\ u[i] = v[a] /\ u[i] \in ToSet(v)
      <4>1. PICK a \in 1..n : a = m + n + 1 - i /\ u[i] = v[a]
        BY <3>4
      <4>2. c \in 1..(a - 1)
        <5>1. a \in Int /\ c \in Int /\ i \in Int /\ j \in Int /\ c >= 1
          BY <3>1, <4>1
        <5>2. c < a
          BY <1>11, <3>1, <4>1, <5>1
        <5>3. QED
          BY <5>1, <5>2
      <4>3. v[c] \in Earlier(b, a)
        BY <1>1, <4>2 DEF Earlier
      <4>4. a \in 1..Len(Vtx[b])
        BY <1>1, <1>5
      <4>5. v[a] \notin Earlier(b, a)
        BY <1>1, <4>4, BlockFacts
      <4>6. v[a] \notin Sources(v[c])
        BY <1>1, <4>3, <4>4, EarlierSources
      <4>7. QED
        BY <3>1, <4>1, <4>3, <4>5, <4>6
    <3>5. i # m + n + 1
      <4>1. i \in Int /\ j \in Int /\ i < j /\ j <= m + n
        BY <1>11, <2>3
      <4>2. QED
        BY <4>1
    <3>6. QED
      BY <1>10, <3>3, <3>4, <3>5
  <2>4. QED
    BY <1>10, <2>1, <2>2, <2>3
<1>12. Orderly(u)
  BY <1>6, <1>11 DEF Orderly
<1>13. ToSet(u) = {u[i] : i \in 1..(m + n + 1)}
  <2>1. DOMAIN u = 1..(m + n + 1)
    BY <1>6
  <2>2. QED
    BY <2>1 DEF ToSet
<1>14. ToSet(u) \subseteq ToSet(q) \cup ToSet(v) \cup {-b}
  BY <1>10, <1>13
<1>15. ToSet(q) \cup ToSet(v) \cup {-b} \subseteq ToSet(u)
  <2>1. ASSUME NEW i \in 1..m PROVE q[i] \in ToSet(u)
    <3>1. i \in 1..(m + n + 1)
      OBVIOUS
    <3>2. QED
      BY <1>6, <1>13, <3>1
  <2>2. ASSUME NEW a \in 1..n PROVE v[a] \in ToSet(u)
    <3>1. PICK k \in 1..n : k = n - a + 1
      OBVIOUS
    <3>2. n - k + 1 = a /\ m + k \in 1..(m + n + 1)
      BY <3>1
    <3>3. u[m + k] = v[a]
      BY <1>6, <3>2
    <3>4. QED
      BY <1>13, <3>2, <3>3
  <2>3. -b \in ToSet(u)
    <3>1. m + n + 1 \in 1..(m + n + 1)
      OBVIOUS
    <3>2. QED
      BY <1>6, <1>13, <3>1
  <2>4. QED
    BY <1>7, <2>1, <2>2, <2>3
<1>16. QED
  BY <1>1, <1>6, <1>12, <1>14, <1>15

\* A queue without its first elements.
LEMMA RestOfQueue ==
  ASSUME NEW s \in Seq(Int), Orderly(s), NEW k \in 1..Len(s), NEW r, r = SubSeq(s, k + 1, Len(s))
  PROVE  /\ r \in Seq(Int) /\ Orderly(r) /\ ToSet(r) \subseteq ToSet(s)
         /\ ToSet(s) \subseteq ToSet(r) \cup {s[i] : i \in 1..k}
<1>1. PICK n \in Nat : n = Len(s)
  OBVIOUS
<1>2. r \in Seq(Int) /\ Len(r) = n - k /\ \A i \in 1..(n - k) : r[i] = s[k + i]
  BY <1>1
<1>3. ToSet(s) = {s[i] : i \in 1..n} /\ ToSet(r) = {r[i] : i \in 1..(n - k)}
  <2>1. DOMAIN s = 1..n /\ DOMAIN r = 1..(n - k)
    BY <1>1, <1>2
  <2>2. QED
    BY <2>1 DEF ToSet
<1>4. \A i \in 1..(n - k) : k + i \in 1..n
  BY <1>1
<1>5. ToSet(r) \subseteq ToSet(s)
  BY <1>2, <1>3, <1>4
<1>6. ASSUME NEW i \in 1..n, i \notin 1..k PROVE s[i] \in ToSet(r)
  <2>1. PICK j \in 1..(n - k) : i = k + j
    <3>1. i - k \in 1..(n - k) /\ i = k + (i - k)
      BY <1>1, <1>6
    <3>2. QED
      BY <3>1
  <2>2. QED
    BY <1>2, <1>3, <2>1
<1>7. ASSUME NEW i \in 1..(n - k), NEW j \in 1..(n - k), i < j
      PROVE  r[i] # r[j] /\ (r[j] \in Txs => r[i] \notin Sources(r[j]))
  <2>1. k + i < k + j
    BY <1>7
  <2>2. k + i \in 1..Len(s) /\ k + j \in 1..Len(s)
    BY <1>1, <1>4
  <2>3. s[k + i] # s[k + j] /\ (s[k + j] \in Txs => s[k + i] \notin Sources(s[k + j]))
    BY <2>1, <2>2 DEF Orderly
  <2>4. QED
    BY <1>2, <2>3
<1>8. Orderly(r)
  BY <1>2, <1>7 DEF Orderly
<1>9. ToSet(s) \subseteq ToSet(r) \cup {s[i] : i \in 1..k}
  BY <1>3, <1>6
<1>10. QED
  BY <1>2, <1>5, <1>8, <1>9

\* Forget takes the transactions of a block out.
LEMMA ForgetFacts ==
  ASSUME NEW s \in Seq(Int), Orderly(s), NEW vtx
  PROVE  /\ Forget(s, vtx) \in Seq(Int) /\ Orderly(Forget(s, vtx))
         /\ ToSet(Forget(s, vtx)) = ToSet(s) \ ToSet(vtx)
<1>1. PICK K \in Nat : K = Len(s)
  OBVIOUS
<1>2. PICK f : ForgetRun(s, vtx, f)
  BY <1>1, ForgetSteps
<1>3. PICK V : V = ToSet(vtx)
  OBVIOUS
<1>4. /\ f[0] = <<>> /\ Forget(s, vtx) = f[K]
      /\ \A i \in 1..K : f[i] = IF s[i] \in V THEN f[i - 1] ELSE Append(f[i - 1], s[i])
  BY <1>1, <1>2, <1>3 DEF ForgetRun
<1> DEFINE OK(n) == /\ f[n] \in Seq(Int) /\ Orderly(f[n])
                    /\ ToSet(f[n]) = {s[i] : i \in 1..n} \ V
           N == {n \in 0..K : OK(n)}
<1>5. 0 \in N
  <2>1. <<>> \in Seq(Int) /\ ToSet(<<>>) = {} /\ Orderly(<<>>)
    BY DEF ToSet, Orderly
  <2>2. {s[i] : i \in 1..0} = {}
    OBVIOUS
  <2>3. OK(0)
    BY <1>4, <2>1, <2>2
  <2>4. QED
    BY <2>3
<1>6. ASSUME NEW n \in N, n < K PROVE n + 1 \in N
  <2>1. n \in Nat /\ n + 1 \in 1..K /\ n + 1 \in 0..K /\ n + 1 - 1 = n
    BY <1>6
  <2>2. PICK e : e = f[n]
    OBVIOUS
  <2>3. PICK x : x = s[n + 1]
    OBVIOUS
  <2>4. PICK q : q = f[n + 1]
    OBVIOUS
  <2>5. q = IF x \in V THEN e ELSE Append(e, x)
    BY <1>4, <2>1, <2>2, <2>3, <2>4
  <2>6. e \in Seq(Int) /\ Orderly(e) /\ ToSet(e) = {s[i] : i \in 1..n} \ V
    BY <1>6, <2>2
  <2>7. x \in Int
    BY <1>1, <2>1, <2>3
  <2>8. {s[i] : i \in 1..(n + 1)} = {s[i] : i \in 1..n} \cup {x}
    <3>1. 1..(n + 1) = 1..n \cup {n + 1}
      BY <2>1
    <3>2. QED
      BY <2>3, <3>1
  <2>9. CASE x \in V
    <3>1. q = e
      BY <2>5, <2>9
    <3>2. ToSet(q) = {s[i] : i \in 1..(n + 1)} \ V
      BY <2>6, <2>8, <2>9, <3>1
    <3>3. OK(n + 1)
      BY <2>4, <2>6, <3>1, <3>2
    <3>4. QED
      BY <2>1, <3>3
  <2>10. CASE x \notin V
    <3>1. PICK m \in Nat : m = Len(e)
      BY <2>6
    <3>2. /\ q \in Seq(Int) /\ Len(q) = m + 1 /\ q[m + 1] = x
          /\ \A i \in 1..m : q[i] = e[i]
      BY <2>5, <2>6, <2>7, <2>10, <3>1
    <3>3. ToSet(e) = {e[i] : i \in 1..m} /\ ToSet(q) = {q[i] : i \in 1..(m + 1)}
      <4>1. DOMAIN e = 1..m /\ DOMAIN q = 1..(m + 1)
        BY <2>6, <3>1, <3>2
      <4>2. QED
        BY <4>1 DEF ToSet
    <3>4. ToSet(q) = ToSet(e) \cup {x}
      <4>1. 1..(m + 1) = 1..m \cup {m + 1}
        BY <3>1
      <4>2. ToSet(q) = {q[i] : i \in 1..m} \cup {x}
        BY <3>2, <3>3, <4>1
      <4>3. {q[i] : i \in 1..m} = {e[i] : i \in 1..m}
        BY <3>2
      <4>4. QED
        BY <3>3, <4>2, <4>3
    <3>5. ToSet(q) = {s[i] : i \in 1..(n + 1)} \ V
      BY <2>6, <2>8, <2>10, <3>4
    <3>6. ASSUME NEW i \in 1..(m + 1), NEW j \in 1..(m + 1), i < j
          PROVE  q[i] # q[j] /\ (q[j] \in Txs => q[i] \notin Sources(q[j]))
      <4>1. i \in 1..m /\ q[i] = e[i]
        <5>1. i \in 1..m
          BY <3>6
        <5>2. QED
          BY <3>2, <5>1
      <4>2. CASE j \in 1..m
        BY <2>6, <3>1, <3>2, <3>6, <4>1, <4>2 DEF Orderly
      <4>3. CASE j = m + 1
        <5>1. e[i] \in ToSet(e)
          BY <3>3, <4>1
        <5>2. PICK k \in 1..n : e[i] = s[k]
          BY <2>6, <5>1
        <5>3. k \in 1..Len(s) /\ n + 1 \in 1..Len(s) /\ k < n + 1
          BY <1>1, <2>1
        <5>4. s[k] # s[n + 1] /\ (s[n + 1] \in Txs => s[k] \notin Sources(s[n + 1]))
          BY <5>3 DEF Orderly
        <5>5. QED
          BY <2>3, <3>2, <4>1, <4>3, <5>2, <5>4
      <4>4. j \in 1..m \/ j = m + 1
        OBVIOUS
      <4>5. QED
        BY <4>2, <4>3, <4>4
    <3>7. Orderly(q)
      BY <3>2, <3>6 DEF Orderly
    <3>8. OK(n + 1)
      BY <2>4, <3>2, <3>5, <3>7
    <3>9. QED
      BY <2>1, <3>8
  <2>11. QED
    BY <2>9, <2>10
<1>7. N \in SUBSET (0..K)
  OBVIOUS
<1>8. N = 0..K
  <2> HIDE DEF N
  <2> QED BY <1>5, <1>6, <1>7, UpTo
<1>9. OK(K)
  <2>1. K \in N
    <3> HIDE DEF N
    <3> QED BY <1>8
  <2>2. QED
    BY <2>1
<1>10. ToSet(s) = {s[i] : i \in 1..K}
  BY <1>1, SetOfSeq
<1>11. QED
  BY <1>3, <1>4, <1>9, <1>10

-----------------------------------------------------------------------------
(* The chain moves.                                                        *)

\* A state on the way from tip T: what the queue holds may be spent; what was in the
\* chain of T or is in that of the tip is not in the pool.
OnTheWay(s, T) ==
  /\ s = [tip |-> s.tip, pool |-> s.pool, queued |-> s.queued]
  /\ s.tip \in Blocks /\ s.queued \in Seq(Int) /\ Orderly(s.queued)
  /\ ToSet(s.queued) \subseteq Base(T)
  /\ Fit(s.pool, {}, {}, Base(s.tip) \cup ToSet(s.queued), InChain(s.tip))
  /\ s.pool.txs \cap InChain(s.tip) = {} /\ s.pool.txs \cap InChain(T) = {}

\* On the way down, still in the chain of T, above which the queue is from.
Down(s, T) == OnTheWay(s, T) /\ s.tip \in ChainOf(T) /\ ToSet(s.queued) \cap Base(s.tip) = {}

\* removeRecursive for each element of a sequence: none is a source of coins any more.
LEMMA RemoveAllFit ==
  ASSUME NEW p, NEW G, NEW X, Fit(p, {}, {}, G, X), NEW s, Len(s) \in Nat
  PROVE  /\ Fit(InTurn(removeRecursive, p, s), {}, {}, G \ {s[i] : i \in 1..Len(s)}, X)
         /\ Less(p, InTurn(removeRecursive, p, s))
<1>1. PICK K \in Nat : K = Len(s)
  OBVIOUS
<1>2. PICK f : RemoveRun(p, s, f)
  BY RemoveSteps
<1>3. /\ f[0] = p /\ InTurn(removeRecursive, p, s) = f[K]
      /\ \A i \in 1..K : f[i] = removeRecursive(f[i - 1], s[i])
  BY <1>1, <1>2 DEF RemoveRun
<1> DEFINE Gone(n) == {s[i] : i \in 1..n}
           OK(n) == Fit(f[n], {}, {}, G \ Gone(n), X) /\ Less(p, f[n])
           N == {n \in 0..K : OK(n)}
<1>4. 0 \in N
  <2>1. G \ Gone(0) = G
    <3>1. Gone(0) = {}
      OBVIOUS
    <3>2. QED
      BY <3>1
  <2>2. OK(0)
    <3> HIDE DEF Gone
    <3> QED BY <1>3, <2>1, LessSame
  <2>3. QED
    BY <2>2
<1>5. ASSUME NEW n \in N, n < K PROVE n + 1 \in N
  <2>1. n \in Nat /\ n + 1 \in 1..K /\ n + 1 \in 0..K /\ n + 1 - 1 = n
    BY <1>5
  <2>2. PICK e : e = f[n]
    OBVIOUS
  <2>3. PICK t : t = s[n + 1]
    OBVIOUS
  <2>4. PICK q : q = f[n + 1]
    OBVIOUS
  <2>5. q = removeRecursive(e, t)
    BY <1>3, <2>1, <2>2, <2>3, <2>4
  <2>6. PICK H : H = G \ Gone(n)
    OBVIOUS
  <2>7. Fit(e, {}, {}, H, X) /\ Less(p, e)
    BY <1>5, <2>2, <2>6
  <2>8. Fit(q, {}, {}, H \ {t}, X) /\ Less(e, q)
    BY <2>5, <2>7, RecursiveCutLinked
  <2>9. H \ {t} = G \ Gone(n + 1)
    <3>1. 1..(n + 1) = 1..n \cup {n + 1}
      BY <2>1
    <3>2. Gone(n + 1) = Gone(n) \cup {t}
      BY <2>3, <3>1
    <3> HIDE DEF Gone
    <3>3. QED
      BY <2>6, <3>2
  <2>10. Less(p, q)
    BY <2>7, <2>8, LessLess
  <2>11. OK(n + 1)
    <3> HIDE DEF Gone
    <3> QED BY <2>4, <2>8, <2>9, <2>10
  <2>12. QED
    BY <2>1, <2>11
<1>6. N \in SUBSET (0..K)
  OBVIOUS
<1>7. N = 0..K
  <2> HIDE DEF N
  <2> QED BY <1>4, <1>5, <1>6, UpTo
<1>8. K \in N
  <2> HIDE DEF N
  <2> QED BY <1>7
<1>9. OK(K)
  BY <1>8
<1>10. QED
  BY <1>1, <1>3, <1>9

\* Dropping the first elements of the queue.
LEMMA TrimmedDown ==
  ASSUME NEW s, NEW T, Down(s, T)
  PROVE  Down(Trimmed(s), T) /\ Trimmed(s).tip = s.tip
<1>1. /\ s = [tip |-> s.tip, pool |-> s.pool, queued |-> s.queued]
      /\ s.tip \in Blocks /\ s.queued \in Seq(Int) /\ Orderly(s.queued)
      /\ ToSet(s.queued) \subseteq Base(T)
      /\ Fit(s.pool, {}, {}, Base(s.tip) \cup ToSet(s.queued), InChain(s.tip))
      /\ s.pool.txs \cap InChain(s.tip) = {} /\ s.pool.txs \cap InChain(T) = {}
      /\ s.tip \in ChainOf(T) /\ ToSet(s.queued) \cap Base(s.tip) = {}
  BY DEF Down, OnTheWay
<1>2. PICK x \in Int : x = Len(s.queued) - MaxDisconnected
  <2>1. PICK n \in Nat : n = Len(s.queued)
    BY <1>1
  <2>2. PICK m \in Nat : m = MaxDisconnected
    BY MempoolAssumption
  <2>3. n - m \in Int
    OBVIOUS
  <2>4. QED
    BY <2>1, <2>2, <2>3
<1>3. CASE x <= 0
  <2>1. Trimmed(s) = s
    BY <1>2, <1>3 DEF Trimmed
  <2>2. QED
    BY <2>1
<1>4. CASE ~(x <= 0)
  <2>1. PICK q \in Seq(Int) : q = s.queued
    BY <1>1
  <2>2. x \in 1..Len(q)
    <3>1. MaxDisconnected \in Nat /\ Len(q) \in Nat
      BY MempoolAssumption
    <3>2. QED
      BY <1>2, <1>4, <2>1, <3>1
  <2>3. PICK d : d = SubSeq(q, 1, x)
    OBVIOUS
  <2>4. Len(d) \in Nat /\ {d[i] : i \in 1..Len(d)} = {q[i] : i \in 1..x}
    <3>1. Len(d) = x /\ \A i \in 1..x : d[i] = q[i]
      BY <2>2, <2>3
    <3>2. {d[i] : i \in 1..x} = {q[i] : i \in 1..x}
      BY <3>1
    <3>3. x \in Nat
      BY <2>2
    <3>4. QED
      BY <3>1, <3>2, <3>3
  <2>5. PICK r : r = SubSeq(q, x + 1, Len(q))
    OBVIOUS
  <2>6. /\ r \in Seq(Int) /\ Orderly(r) /\ ToSet(r) \subseteq ToSet(q)
        /\ ToSet(q) \subseteq ToSet(r) \cup {q[i] : i \in 1..x}
    BY <1>1, <2>1, <2>2, <2>5, RestOfQueue
  <2>7. PICK p : p = InTurn(removeRecursive, s.pool, d)
    OBVIOUS
  <2>8. PICK G : G = Base(s.tip) \cup ToSet(q)
    OBVIOUS
  <2>9. PICK H : H = G \ {q[i] : i \in 1..x}
    OBVIOUS
  <2>10. Fit(p, {}, {}, H, InChain(s.tip)) /\ Less(s.pool, p)
    <3>1. Fit(s.pool, {}, {}, G, InChain(s.tip))
      BY <1>1, <2>1, <2>8
    <3>2. /\ Fit(p, {}, {}, G \ {d[i] : i \in 1..Len(d)}, InChain(s.tip))
          /\ Less(s.pool, p)
      BY <2>4, <2>7, <3>1, RemoveAllFit
    <3>3. QED
      BY <2>4, <2>9, <3>2
  <2>11. PICK z : z = Trimmed(s)
    OBVIOUS
  <2>12. z = [tip |-> s.tip, pool |-> p, queued |-> r]
    <3>1. z = [s EXCEPT !.pool = InTurn(removeRecursive, @, SubSeq(s.queued, 1, x)),
                        !.queued = SubSeq(@, x + 1, Len(@))]
      BY <1>2, <1>4, <2>11, Zenon DEF Trimmed
    <3>2. z = [s EXCEPT !.pool = p, !.queued = r]
      BY <2>1, <2>3, <2>5, <2>7, <3>1, Zenon
    <3>3. QED
      BY <1>1, <3>2
  <2>13. z.tip = s.tip /\ z.pool = p /\ z.queued = r
    BY <2>12
  <2>14. Fit(p, {}, {}, Base(s.tip) \cup ToSet(r), InChain(s.tip))
    <3>1. H \subseteq Base(s.tip) \cup ToSet(r) /\ InChain(s.tip) \subseteq InChain(s.tip)
      BY <2>6, <2>8, <2>9
    <3>2. QED
      BY <2>10, <3>1, FitWeaker
  <2>15. p.txs \cap InChain(s.tip) = {} /\ p.txs \cap InChain(T) = {}
    BY <1>1, <2>10 DEF Less
  <2>16. ToSet(r) \subseteq Base(T) /\ ToSet(r) \cap Base(s.tip) = {}
    BY <1>1, <2>1, <2>6
  <2>17. OnTheWay(z, T)
    BY <1>1, <2>6, <2>12, <2>13, <2>14, <2>15, <2>16 DEF OnTheWay
  <2>18. Down(z, T)
    BY <1>1, <2>13, <2>16, <2>17 DEF Down
  <2>19. QED
    BY <2>11, <2>13, <2>18
<1>5. QED
  BY <1>3, <1>4

\* DisconnectTip: what the pool spends of the block is in the queue from now on.
LEMMA DisconnectDown ==
  ASSUME NEW s, NEW T \in Blocks, Down(s, T), s.tip # 0
  PROVE  Down(DisconnectTip(s), T) /\ DisconnectTip(s).tip = Parent[s.tip]
<1>1. /\ s = [tip |-> s.tip, pool |-> s.pool, queued |-> s.queued]
      /\ s.tip \in Blocks /\ s.queued \in Seq(Int) /\ Orderly(s.queued)
      /\ ToSet(s.queued) \subseteq Base(T)
      /\ Fit(s.pool, {}, {}, Base(s.tip) \cup ToSet(s.queued), InChain(s.tip))
      /\ s.pool.txs \cap InChain(s.tip) = {} /\ s.pool.txs \cap InChain(T) = {}
      /\ s.tip \in ChainOf(T) /\ ToSet(s.queued) \cap Base(s.tip) = {}
  BY DEF Down, OnTheWay
<1>2. PICK b \in Blocks \ {0} : b = s.tip
  BY <1>1
<1>3. PICK a : a = Parent[b]
  OBVIOUS
<1>4. a \in Blocks /\ a \in Nat /\ b \in Nat /\ a < b
  BY <1>3, TreeFacts
<1>5. PICK u : u = s.queued \o Reverse(Vtx[b]) \o <<-b>>
  OBVIOUS
<1>6. /\ u \in Seq(Int) /\ Orderly(u) /\ ToSet(u) = ToSet(s.queued) \cup ToSet(Vtx[b]) \cup {-b}
  BY <1>1, <1>2, <1>5, AddedOrderly
<1>7. PICK z : z = [s EXCEPT !.tip = Parent[@],
                             !.queued = @ \o Reverse(Vtx[s.tip]) \o <<-s.tip>>]
  BY Zenon
<1>8. z = [tip |-> a, pool |-> s.pool, queued |-> u]
  <2>1. z = [s EXCEPT !.tip = a, !.queued = u]
    BY <1>2, <1>3, <1>5, <1>7, Zenon
  <2>2. QED
    BY <1>1, <2>1
<1>9. z.tip = a /\ z.pool = s.pool /\ z.queued = u
  BY <1>8
<1>10. DisconnectTip(s) = Trimmed(z)
  BY <1>7, Zenon DEF DisconnectTip
<1>11. /\ InChain(b) = InChain(a) \cup ToSet(Vtx[b])
       /\ Base(b) = Base(a) \cup ToSet(Vtx[b]) \cup {-b}
  BY <1>3, InChainStep
<1>12. b \in ChainOf(T) /\ a \in ChainOf(T)
  <2>1. ChainOf(b) \subseteq ChainOf(T) /\ a \in ChainOf(a) /\ ChainOf(b) = {b} \cup ChainOf(a)
    BY <1>1, <1>2, <1>3, <1>4, ChainFacts, ChainStep
  <2>2. QED
    BY <1>1, <1>2, <2>1
<1>13. Fit(s.pool, {}, {}, Base(a) \cup ToSet(u), InChain(a))
  <2>1. PICK G : G = Base(s.tip) \cup ToSet(s.queued)
    OBVIOUS
  <2>2. PICK H : H = Base(a) \cup ToSet(u)
    OBVIOUS
  <2>3. G \subseteq H /\ InChain(a) \subseteq InChain(s.tip)
    BY <1>2, <1>6, <1>11, <2>1, <2>2
  <2>4. Fit(s.pool, {}, {}, G, InChain(s.tip))
    BY <1>1, <2>1
  <2>5. Fit(s.pool, {}, {}, H, InChain(a))
    BY <2>3, <2>4, FitWeaker
  <2>6. QED
    BY <2>2, <2>5
<1>14. ToSet(u) \subseteq Base(T)
  <2>1. Base(b) \subseteq Base(T)
    BY <1>12, InChainFacts
  <2>2. QED
    BY <1>1, <1>6, <1>11, <2>1
<1>15. ToSet(u) \cap Base(a) = {}
  <2>1. ToSet(s.queued) \cap Base(a) = {}
    BY <1>1, <1>2, <1>11
  <2>2. ASSUME NEW t \in ToSet(Vtx[b]) PROVE t \notin Base(a)
    <3>1. ToSet(Vtx[b]) = {Vtx[b][i] : i \in 1..Len(Vtx[b])}
      BY <1>2, VtxFacts
    <3>2. PICK i \in 1..Len(Vtx[b]) : t = Vtx[b][i]
      BY <2>2, <3>1
    <3>3. t \in Txs /\ t \notin InChain(a)
      BY <1>3, <3>2, BlockFacts
    <3>4. QED
      BY <1>4, <3>3, InChainFacts
  <2>3. -b \notin Base(a)
    <3>1. -b < 0 /\ -(-b) = b
      BY <1>4
    <3>2. -b \in Base(a) => b \in ChainOf(a)
      BY <1>4, <3>1, InChainFacts
    <3>3. b \notin ChainOf(a)
      <4>1. \A c \in ChainOf(a) : c <= a
        BY <1>4, ChainFacts
      <4>2. QED
        BY <1>4, <4>1
    <3>4. QED
      BY <3>2, <3>3
  <2>4. QED
    BY <1>6, <2>1, <2>2, <2>3
<1>16. s.pool.txs \cap InChain(a) = {}
  BY <1>1, <1>2, <1>11
<1>17. OnTheWay(z, T)
  BY <1>1, <1>4, <1>6, <1>8, <1>9, <1>13, <1>14, <1>16 DEF OnTheWay
<1>18. Down(z, T)
  BY <1>9, <1>12, <1>15, <1>17 DEF Down
<1>19. Down(Trimmed(z), T) /\ Trimmed(z).tip = a
  BY <1>9, <1>18, TrimmedDown
<1>20. QED
  BY <1>2, <1>3, <1>10, <1>19

\* Blocks are disconnected down to one in the chain of b.
LEMMA DisconnectedDown ==
  ASSUME NEW s, NEW T \in Blocks, Down(s, T), NEW b \in Blocks
  PROVE  Down(Disconnected(s, b), T) /\ Disconnected(s, b).tip \in ChainOf(b)
<1>1. s.tip \in Blocks
  BY DEF Down, OnTheWay
<1>2. PICK K \in Nat : K = Height[s.tip]
  BY <1>1, HeightFacts
<1>3. PICK f : DownRun(s, b, f)
  BY <1>2, DownSteps
<1>4. /\ f[0] = s /\ Disconnected(s, b) = f[K]
      /\ \A i \in 1..K : f[i] = IF f[i - 1].tip \in ChainOf(b) THEN f[i - 1]
                                ELSE DisconnectTip(f[i - 1])
  BY <1>2, <1>3 DEF DownRun
<1> DEFINE OK(n) == /\ Down(f[n], T)
                    /\ f[n].tip \in ChainOf(b) \/ Height[f[n].tip] = K - n
           N == {n \in 0..K : OK(n)}
<1>5. 0 \in N
  BY <1>2, <1>4
<1>6. ASSUME NEW n \in N, n < K PROVE n + 1 \in N
  <2>1. n \in Nat /\ n + 1 \in 1..K /\ n + 1 \in 0..K /\ n + 1 - 1 = n
    BY <1>6
  <2>2. PICK e : e = f[n]
    OBVIOUS
  <2>3. PICK q : q = f[n + 1]
    OBVIOUS
  <2>4. q = IF e.tip \in ChainOf(b) THEN e ELSE DisconnectTip(e)
    BY <1>4, <2>1, <2>2, <2>3
  <2>5. Down(e, T) /\ (e.tip \in ChainOf(b) \/ Height[e.tip] = K - n)
    BY <1>6, <2>2
  <2>6. CASE e.tip \in ChainOf(b)
    <3>1. q = e
      BY <2>4, <2>6
    <3>2. OK(n + 1)
      BY <2>3, <2>5, <2>6, <3>1
    <3>3. QED
      BY <2>1, <3>2
  <2>7. CASE e.tip \notin ChainOf(b)
    <3>1. e.tip # 0 /\ e.tip \in Blocks
      BY <2>5, <2>7, ChainFacts DEF Down, OnTheWay
    <3>2. Down(q, T) /\ q.tip = Parent[e.tip]
      BY <2>4, <2>5, <2>7, <3>1, DisconnectDown
    <3>3. Height[e.tip] = Height[Parent[e.tip]] + 1 /\ Parent[e.tip] \in Blocks
      BY <3>1, TreeFacts
    <3>4. Height[Parent[e.tip]] \in Nat
      BY <3>3, HeightFacts
    <3>5. Height[q.tip] = K - (n + 1)
      BY <2>1, <2>5, <2>7, <3>2, <3>3, <3>4
    <3>6. OK(n + 1)
      BY <2>3, <3>2, <3>5
    <3>7. QED
      BY <2>1, <3>6
  <2>8. QED
    BY <2>6, <2>7
<1>7. N \in SUBSET (0..K)
  OBVIOUS
<1>8. N = 0..K
  <2> HIDE DEF N
  <2> QED BY <1>5, <1>6, <1>7, UpTo
<1>9. K \in N
  <2> HIDE DEF N
  <2> QED BY <1>8
<1>10. OK(K)
  BY <1>9
<1>11. f[K].tip \in ChainOf(b)
  <2>1. CASE Height[f[K].tip] = K - K
    <3>1. PICK x \in Blocks : x = f[K].tip
      BY <1>10 DEF Down, OnTheWay
    <3>2. Height[x] = 0
      BY <2>1, <3>1
    <3>3. x = 0
      <4>1. CASE x # 0
        <5>1. Height[x] = Height[Parent[x]] + 1 /\ Parent[x] \in Blocks
          BY <4>1, TreeFacts
        <5>2. Height[Parent[x]] \in Nat
          BY <5>1, HeightFacts
        <5>3. QED
          BY <3>2, <5>1, <5>2
      <4>2. QED
        BY <4>1
    <3>4. QED
      BY <3>1, <3>3, ChainFacts
  <2>2. QED
    BY <1>10, <2>1
<1>12. QED
  BY <1>4, <1>10, <1>11

\* ConnectTip: what the pool spends of the block, if from the queue, is in the chain.
LEMMA ConnectUp ==
  ASSUME NEW s, NEW T, OnTheWay(s, T), NEW b \in Blocks \ {0}, s.tip = Parent[b]
  PROVE  OnTheWay(ConnectTip(s, b), T) /\ ConnectTip(s, b).tip = b
<1>1. /\ s = [tip |-> s.tip, pool |-> s.pool, queued |-> s.queued]
      /\ s.tip \in Blocks /\ s.queued \in Seq(Int) /\ Orderly(s.queued)
      /\ ToSet(s.queued) \subseteq Base(T)
      /\ Fit(s.pool, {}, {}, Base(s.tip) \cup ToSet(s.queued), InChain(s.tip))
      /\ s.pool.txs \cap InChain(s.tip) = {} /\ s.pool.txs \cap InChain(T) = {}
  BY DEF OnTheWay
<1>2. PICK p : p = removeForBlock(s.pool, Vtx[b])
  OBVIOUS
<1>3. PICK r : r = Forget(s.queued, Vtx[b])
  OBVIOUS
<1>4. PICK V : V = ToSet(Vtx[b])
  OBVIOUS
<1>5. PICK z : z = ConnectTip(s, b)
  OBVIOUS
<1>6. z = [tip |-> b, pool |-> p, queued |-> r]
  BY <1>2, <1>3, <1>5 DEF ConnectTip
<1>7. z.tip = b /\ z.pool = p /\ z.queued = r
  BY <1>6
<1>8. r \in Seq(Int) /\ Orderly(r) /\ ToSet(r) = ToSet(s.queued) \ V
  BY <1>1, <1>3, <1>4, ForgetFacts
<1>9. PICK G : G = Base(s.tip) \cup ToSet(s.queued)
  OBVIOUS
<1>10. /\ Fit(p, {}, {}, G \cup V, InChain(b)) /\ Less(s.pool, p) /\ p.txs \cap V = {}
  <2>1. Fit(s.pool, {}, {}, G, InChain(Parent[b])) /\ s.pool.txs \cap InChain(Parent[b]) = {}
    BY <1>1, <1>9
  <2>2. QED
    BY <1>2, <1>4, <2>1, BlockFit
<1>11. /\ InChain(b) = InChain(s.tip) \cup V
       /\ Base(b) = Base(s.tip) \cup V \cup {-b}
  BY <1>4, InChainStep
<1>12. Fit(p, {}, {}, Base(b) \cup ToSet(r), InChain(b))
  <2>1. PICK H : H = Base(b) \cup ToSet(r)
    OBVIOUS
  <2>2. G \cup V \subseteq H /\ InChain(b) \subseteq InChain(b)
    BY <1>8, <1>9, <1>11, <2>1
  <2>3. Fit(p, {}, {}, H, InChain(b))
    BY <1>10, <2>2, FitWeaker
  <2>4. QED
    BY <2>1, <2>3
<1>13. p.txs \cap InChain(b) = {} /\ p.txs \cap InChain(T) = {}
  <2>1. p.txs \subseteq s.pool.txs
    BY <1>10 DEF Less
  <2>2. QED
    BY <1>1, <1>10, <1>11, <2>1
<1>14. ToSet(r) \subseteq Base(T)
  BY <1>1, <1>8
<1>15. OnTheWay(z, T)
  BY <1>6, <1>7, <1>8, <1>12, <1>13, <1>14 DEF OnTheWay
<1>16. QED
  BY <1>5, <1>7, <1>15

\* Blocks are connected up to b.
LEMMA ConnectedUp ==
  ASSUME NEW s, NEW T, OnTheWay(s, T), NEW b \in Blocks, s.tip \in ChainOf(b)
  PROVE  OnTheWay(Connected(s, b), T) /\ Connected(s, b).tip = b
<1> DEFINE Solves(f) == f = [x \in Blocks |-> IF x \in ChainOf(s.tip) THEN s
                                              ELSE ConnectTip(f[Parent[x]], x)]
           F == CHOOSE f : Solves(f)
<1>1. s.tip \in Blocks
  BY DEF OnTheWay
<1>2. \E f : Solves(f)
  <2>1. PICK k : k = <<"Connect", s>>
    BY Zenon
  <2>2. \A x, v : TreeStep(k, x, v) = IF x \in ChainOf(s.tip) THEN s ELSE ConnectTip(v, x)
    BY <2>1 DEF TreeStep
  <2>3. 0 \in ChainOf(s.tip)
    BY <1>1, ChainFacts
  <2>4. \A v, w : TreeStep(k, 0, v) = TreeStep(k, 0, w)
    BY <2>2, <2>3
  <2>5. PICK f : f = [x \in Blocks |-> TreeStep(k, x, f[Parent[x]])]
    BY <2>4, TreeStepsExist
  <2>6. Solves(f)
    BY <2>2, <2>5
  <2>7. QED
    <3> HIDE DEF Solves
    <3> QED BY <2>6
<1>3. Solves(F)
  <2> HIDE DEF Solves
  <2> QED BY <1>2, Zenon
<1>4. Connected(s, b) = F[b]
  BY DEF Connected
<1> HIDE DEF F
<1>5. \A x \in Blocks : F[x] = IF x \in ChainOf(s.tip) THEN s ELSE ConnectTip(F[Parent[x]], x)
  BY <1>3
<1> DEFINE OK(x) == s.tip \in ChainOf(x) => OnTheWay(F[x], T) /\ F[x].tip = x
           S == {x \in Blocks : OK(x)}
<1> HIDE DEF Solves
<1>6. ASSUME NEW x \in Blocks, x \in ChainOf(s.tip) PROVE OK(x)
  <2>1. SUFFICES ASSUME s.tip \in ChainOf(x) PROVE OnTheWay(F[x], T) /\ F[x].tip = x
    OBVIOUS
  <2>2. s.tip <= x /\ x <= s.tip /\ x \in Nat /\ s.tip \in Nat
    BY <1>1, <1>6, <2>1, ChainFacts, TreeFacts
  <2>3. x = s.tip
    BY <2>2
  <2>4. F[x] = s
    BY <1>5, <1>6
  <2>5. QED
    BY <2>3, <2>4
<1>7. 0 \in S
  <2>1. 0 \in Blocks /\ 0 \in ChainOf(s.tip)
    BY <1>1, ChainFacts, TreeFacts
  <2>2. OK(0)
    BY <1>6, <2>1
  <2>3. QED
    BY <2>1, <2>2
<1>8. ASSUME NEW x \in Blocks \ {0}, Parent[x] \in S PROVE x \in S
  <2>1. CASE x \in ChainOf(s.tip)
    BY <1>6, <2>1
  <2>2. CASE x \notin ChainOf(s.tip)
    <3>1. SUFFICES ASSUME s.tip \in ChainOf(x) PROVE OnTheWay(F[x], T) /\ F[x].tip = x
      OBVIOUS
    <3>2. s.tip # x
      BY <1>1, <2>2, ChainFacts
    <3>3. s.tip \in ChainOf(Parent[x])
      BY <3>1, <3>2, ChainStep
    <3>4. OnTheWay(F[Parent[x]], T) /\ F[Parent[x]].tip = Parent[x]
      BY <1>8, <3>3
    <3>5. F[x] = ConnectTip(F[Parent[x]], x)
      BY <1>5, <2>2
    <3>6. QED
      BY <3>4, <3>5, ConnectUp
  <2>3. QED
    BY <2>1, <2>2
<1>9. S \in SUBSET Blocks
  OBVIOUS
<1>10. S = Blocks
  <2> HIDE DEF S
  <2> QED BY <1>7, <1>8, <1>9, TreeInduction
<1>11. OK(b)
  BY <1>10
<1>12. QED
  BY <1>4, <1>11

-----------------------------------------------------------------------------
(* UpdateMempoolForReorg: transactions come back.                          *)

\* What came back, each after its parents: u is their order in pool p.
InOrder(u) == \A i, j \in 1..Len(u) : i < j => u[i] # u[j] /\ u[j] \notin Sources(u[i])
\* Those that never left are not yet linked to parents that came back.
Waiting(p, A) == \A x \in p.txs \ A : p.par[x] \cap A = {}

\* While the rest of the queue from the chain of T is to come back, with tip b: those in
\* update came back, and no other pool transaction was ever in the chain of T.
Back(r, rest, b, T) ==
  /\ r = [pool |-> r.pool, update |-> r.update] /\ r.update \in Seq(Txs)
  /\ ToSet(r.update) \subseteq InChain(T) /\ rest \subseteq Base(T)
  /\ Fit(r.pool, ToSet(r.update), ToSet(r.update), Base(b) \cup rest, InChain(b))
  /\ (r.pool.txs \ ToSet(r.update)) \cap InChain(T) = {}
  /\ r.pool.txs \cap InChain(b) = {}
  /\ InOrder(r.update) /\ Waiting(r.pool, ToSet(r.update))
  /\ \A q \in rest : q \notin ToSet(r.update) /\ \A a \in ToSet(r.update) : q \notin Sources(a)

\* What came back has no parent among those that never left: the parents of a
\* transaction of the chain are in the chain.
LEMMA NoParentsOutside ==
  ASSUME NEW r, NEW rest, NEW b, NEW T \in Blocks, Back(r, rest, b, T),
         NEW x \in r.pool.txs \ ToSet(r.update)
  PROVE  r.pool.chi[x] \cap ToSet(r.update) = {}
<1>1. Sound(r.pool) /\ ToSet(r.update) \subseteq InChain(T) /\ x \notin InChain(T)
  BY DEF Back, Fit, Tied
<1>2. /\ r.pool.txs \in SUBSET Txs /\ r.pool.chi \in [Txs -> SUBSET Txs]
      /\ \A u, v \in Txs : v \in r.pool.par[u] <=> u \in r.pool.chi[v]
      /\ \A u, v \in Txs : v \in r.pool.par[u] => u \in r.pool.txs /\ v \in r.pool.txs /\ v \in Sources(u)
  BY <1>1 DEF Sound, SoundLinks
<1>3. ASSUME NEW y \in r.pool.chi[x], y \in ToSet(r.update) PROVE FALSE
  <2>1. x \in Txs /\ y \in Txs
    BY <1>2, <1>3
  <2>2. x \in Sources(y)
    BY <1>2, <1>3, <2>1
  <2>3. x \in Base(T)
    BY <1>1, <1>3, <2>2, ChainValid
  <2>4. QED
    BY <1>1, <2>1, <2>3, InChainFacts
<1>4. QED
  BY <1>3

\* One comes back, or goes for good with what spends it.
LEMMA ReaddBack ==
  ASSUME NEW r, NEW rest, NEW b \in Blocks, NEW T \in Blocks, Back(r, rest, b, T),
         NEW t \in Int, NEW left, rest = left \cup {t}, t \notin left,
         \A q \in left : t \in Txs => q \notin Sources(t), NEW add
  PROVE  Back(Readd(r, t, b, add), left, b, T)
<1>1. PICK A : A = ToSet(r.update)
  OBVIOUS
<1>2. PICK p : p = r.pool
  OBVIOUS
<1>3. PICK G : G = Base(b) \cup rest
  OBVIOUS
<1>4. PICK H : H = Base(b) \cup left
  OBVIOUS
<1>5. /\ r = [pool |-> p, update |-> r.update] /\ r.update \in Seq(Txs)
      /\ A \subseteq InChain(T) /\ rest \subseteq Base(T)
      /\ Fit(p, A, A, G, InChain(b))
      /\ (p.txs \ A) \cap InChain(T) = {} /\ p.txs \cap InChain(b) = {}
      /\ InOrder(r.update) /\ Waiting(p, A)
      /\ \A q \in rest : q \notin A /\ \A a \in A : q \notin Sources(a)
  BY <1>1, <1>2, <1>3 DEF Back
<1>6. G \ {t} \subseteq H /\ InChain(b) \subseteq InChain(b)
  BY <1>3, <1>4
<1>7. Sound(p) /\ p.txs \in SUBSET Txs
  BY <1>5 DEF Fit, Tied, Sound, SoundLinks
<1>8. \A x \in p.txs \ A : p.chi[x] \cap A = {}
  BY <1>1, <1>2, NoParentsOutside
<1>9. PICK z : z = Readd(r, t, b, add)
  OBVIOUS
<1>10. CASE add /\ t > 0 /\ Acceptable(r.pool, b, t)
  <2>1. z = [pool |-> Accepted(p, t), update |-> Append(r.update, t)]
    BY <1>2, <1>9, <1>10 DEF Readd
  <2>2. PICK e : e = Accepted(p, t)
    OBVIOUS
  <2>3. PICK w : w = Append(r.update, t)
    OBVIOUS
  <2>4. z = [pool |-> z.pool, update |-> z.update] /\ z.pool = e /\ z.update = w
    BY <2>1, <2>2, <2>3
  <2>5. t \in InChain(T) /\ t \in Txs /\ t \notin A
    <3>1. t \in Base(T) /\ t \notin A
      BY <1>5
    <3>2. \A a \in ChainOf(T) : a \in Nat
      BY ChainFacts, TreeFacts
    <3>3. t \in InChain(T)
      BY <1>10, <3>1, <3>2 DEF Base
    <3>4. QED
      BY <3>1, <3>3, InChainFacts
  <2>6. \A a \in A : t \notin Sources(a)
    BY <1>5
  <2>7. w \in Seq(Txs) /\ ToSet(w) = A \cup {t} /\ InOrder(w)
    <3>1. PICK u \in Seq(Txs) : u = r.update
      BY <1>5
    <3>2. PICK n \in Nat : n = Len(u)
      BY <3>1
    <3>3. w = Append(u, t) /\ Len(w) = n + 1 /\ w \in Seq(Txs)
      BY <2>3, <2>5, <3>1, <3>2
    <3>4. \A i \in 1..n : w[i] = u[i]
      BY <3>2, <3>3
    <3>5. w[n + 1] = t
      BY <3>2, <3>3
    <3>6. ToSet(u) = {u[i] : i \in 1..n} /\ ToSet(w) = {w[i] : i \in 1..(n + 1)}
      <4>1. ToSet(u) = {u[i] : i \in 1..n}
        BY <3>2, SetOfSeq
      <4>2. PICK x \in Seq(Txs) : x = w
        BY <3>3
      <4>3. ToSet(x) = {x[i] : i \in 1..Len(x)}
        BY SetOfSeq
      <4>4. QED
        BY <3>3, <4>1, <4>2, <4>3
    <3>7. 1..(n + 1) = 1..n \cup {n + 1}
      OBVIOUS
    <3>8. ToSet(w) = ToSet(u) \cup {t}
      BY <3>4, <3>5, <3>6, <3>7
    <3>9. ASSUME NEW i \in 1..Len(w), NEW j \in 1..Len(w), i < j
          PROVE  w[i] # w[j] /\ w[j] \notin Sources(w[i])
      <4>1. i \in 1..n /\ (j \in 1..n \/ j = n + 1)
        BY <3>3, <3>9
      <4>2. w[i] = u[i] /\ u[i] \in A
        BY <1>1, <3>1, <3>4, <3>6, <4>1
      <4>3. CASE j \in 1..n
        <5>1. w[j] = u[j]
          BY <3>4, <4>3
        <5>2. u[i] # u[j] /\ u[j] \notin Sources(u[i])
          BY <1>5, <3>1, <3>2, <3>9, <4>1, <4>3 DEF InOrder
        <5>3. QED
          BY <4>2, <5>1, <5>2
      <4>4. CASE j = n + 1
        BY <2>5, <2>6, <3>5, <4>2, <4>4
      <4>5. QED
        BY <4>1, <4>3, <4>4
    <3>10. InOrder(w)
      BY <3>9 DEF InOrder
    <3>11. QED
      BY <1>1, <3>1, <3>3, <3>8, <3>10
  <2>8. CalculateDescendants(p, Conflicts(p, t)) \cap A = {}
    <3>1. PICK C : C = Conflicts(p, t)
      OBVIOUS
    <3>2. C \subseteq p.txs
      BY <3>1 DEF Conflicts, NextTx
    <3>3. ASSUME NEW c \in C, c \in A PROVE FALSE
      <4>1. Spends(c) \cap Spends(t) # {}
        BY <3>1, <3>3 DEF Conflicts, NextTx
      <4>2. c \in InChain(T) /\ c # t
        BY <1>5, <2>5, <3>3
      <4>3. Single(InChain(T))
        BY ChainValid
      <4>4. QED
        BY <2>5, <4>1, <4>2, <4>3 DEF Single
    <3>4. C \in SUBSET (p.txs \ A)
      BY <3>2, <3>3
    <3>5. CalculateDescendants(p, C) \cap A = {}
      BY <1>7, <1>8, <3>4, DescendantsOutside
    <3>6. QED
      BY <3>1, <3>5
  <2>9. Acceptable(p, b, t)
    BY <1>2, <1>10
  <2>10. /\ Fit(e, A \cup {t}, A \cup {t}, G \ {t}, InChain(b))
         /\ Replaced(p, t, e)
    <3>1. Base(b) \subseteq G
      BY <1>3
    <3>2. QED
      BY <1>5, <2>2, <2>5, <2>8, <2>6, <2>9, <3>1, AcceptedFit
  <2>11. Fit(e, A \cup {t}, A \cup {t}, H, InChain(b))
    <3>1. PICK D : D = A \cup {t}
      OBVIOUS
    <3>2. PICK K : K = G \ {t}
      OBVIOUS
    <3>3. Fit(e, D, D, K, InChain(b))
      BY <2>10, <3>1, <3>2
    <3>4. Fit(e, D, D, H, InChain(b))
      BY <1>6, <3>2, <3>3, FitWeaker
    <3>5. QED
      BY <3>1, <3>4
  <2>12. e.txs \subseteq p.txs \cup {t} /\ \A x \in e.txs \ {t} : e.par[x] \subseteq p.par[x]
    BY <2>10 DEF Replaced
  <2>13. t \notin InChain(b)
    BY <1>5, <1>7, <2>5, <2>9, NotConfirmed
  <2>14. e.txs \cap InChain(b) = {} /\ (e.txs \ (A \cup {t})) \cap InChain(T) = {}
    BY <1>5, <2>12, <2>13
  <2>15. \A q \in left : q \notin A \cup {t} /\ \A a \in A \cup {t} : q \notin Sources(a)
    BY <1>5, <2>5
  <2>16. A \cup {t} \subseteq InChain(T) /\ left \subseteq Base(T)
    BY <1>5, <2>5
  <2>17. ASSUME NEW x \in e.txs \ (A \cup {t}) PROVE e.par[x] \cap (A \cup {t}) = {}
    <3>1. x \in p.txs \ A /\ e.par[x] \subseteq p.par[x]
      BY <2>12
    <3>2. p.par[x] \cap A = {}
      BY <1>5, <3>1 DEF Waiting
    <3>3. t \notin p.par[x]
      <4>1. t \notin p.txs
        BY <2>9 DEF Acceptable
      <4>2. p.par[x] \subseteq p.txs
        BY <1>7, <3>1, PoolLinks
      <4>3. QED
        BY <4>1, <4>2
    <3>4. QED
      BY <3>1, <3>2, <3>3
  <2>18. Waiting(e, A \cup {t})
    BY <2>17 DEF Waiting
  <2>19. Back(z, left, b, T)
    BY <1>4, <2>4, <2>7, <2>11, <2>14, <2>15, <2>16, <2>18 DEF Back
  <2>20. QED
    BY <1>9, <2>19
<1>11. CASE ~(add /\ t > 0 /\ Acceptable(r.pool, b, t))
  <2>1. PICK e : e = removeRecursive(p, t)
    OBVIOUS
  <2>2. z = [pool |-> e, update |-> r.update]
    <3>1. z = [r EXCEPT !.pool = removeRecursive(r.pool, t)]
      BY <1>9, <1>11, Zenon DEF Readd
    <3>2. z = [r EXCEPT !.pool = e]
      BY <1>2, <2>1, <3>1, Zenon
    <3>3. QED
      BY <1>5, <3>2
  <2>3. z = [pool |-> z.pool, update |-> z.update] /\ z.pool = e /\ z.update = r.update
    BY <2>2
  <2>4. PICK S : S = Recursively(p, t)
    OBVIOUS
  <2>5. S \in SUBSET (p.txs \ A)
    <3>1. t \notin A /\ \A a \in A : t \notin Sources(a)
      BY <1>5
    <3>2. QED
      BY <2>4, <3>1 DEF Recursively, Children
  <2>6. CalculateDescendants(p, S) \cap A = {}
    BY <1>7, <1>8, <2>5, DescendantsOutside
  <2>7. Fit(e, A, A, G \ {t}, InChain(b)) /\ Less(p, e)
    <3>1. CalculateDescendants(p, Recursively(p, t)) \cap A = {}
      BY <2>4, <2>6
    <3>2. QED
      BY <1>5, <2>1, <3>1, RecursiveCut
  <2>8. Fit(e, A, A, H, InChain(b))
    <3>1. PICK K : K = G \ {t}
      OBVIOUS
    <3>2. Fit(e, A, A, K, InChain(b))
      BY <2>7, <3>1
    <3>3. QED
      BY <1>6, <3>1, <3>2, FitWeaker
  <2>9. e.txs \subseteq p.txs /\ \A x \in e.txs : e.par[x] \subseteq p.par[x]
    BY <2>7 DEF Less
  <2>10. e.txs \cap InChain(b) = {} /\ (e.txs \ A) \cap InChain(T) = {}
    BY <1>5, <2>9
  <2>11. \A q \in left : q \notin A /\ \A a \in A : q \notin Sources(a)
    BY <1>5
  <2>12. left \subseteq Base(T)
    BY <1>5
  <2>13. Waiting(e, A)
    BY <1>5, <2>9 DEF Waiting
  <2>14. Back(z, left, b, T)
    BY <1>1, <1>4, <1>5, <2>3, <2>8, <2>10, <2>11, <2>12, <2>13 DEF Back
  <2>15. QED
    BY <1>9, <2>14
<1>12. QED
  BY <1>10, <1>11

\* v is s backwards.
Backwards(s, v) == /\ Len(v) \in Nat /\ Len(v) = Len(s)
                   /\ \A i \in 1..Len(v) : v[i] = s[Len(v) - i + 1]

\* Reverse does that, with the same elements.
LEMMA ReverseFacts ==
  ASSUME NEW S, NEW s \in Seq(S)
  PROVE  /\ Backwards(s, Reverse(s)) /\ ToSet(Reverse(s)) = ToSet(s) /\ Reverse(s) \in Seq(S)
<1>1. PICK K \in Nat : K = Len(s)
  OBVIOUS
<1>2. PICK v : v = Reverse(s)
  OBVIOUS
<1>3. v = [i \in 1..K |-> s[(K - i) + 1]]
  BY <1>1, <1>2 DEF Reverse
<1>4. \A i \in 1..K : (K - i) + 1 \in 1..K
  OBVIOUS
<1>5. \A i \in 1..K : s[(K - i) + 1] \in S
  BY <1>1, <1>4
<1>6. v \in Seq(S) /\ Len(v) = K
  BY <1>3, <1>5
<1>7. \A i \in 1..K : v[i] = s[K - i + 1]
  BY <1>3
<1>8. ToSet(v) = {v[i] : i \in 1..K} /\ ToSet(s) = {s[i] : i \in 1..K}
  BY <1>1, <1>6, SetOfSeq
<1>9. \A i \in 1..K : s[i] = v[K - i + 1]
  <2>1. ASSUME NEW i \in 1..K PROVE s[i] = v[K - i + 1]
    <3>1. i \in Int /\ K - i + 1 \in 1..K /\ K - (K - i + 1) + 1 = i
      OBVIOUS
    <3>2. QED
      BY <1>7, <3>1
  <2>2. QED
    BY <2>1
<1>10. ToSet(v) \subseteq ToSet(s)
  BY <1>4, <1>7, <1>8
<1>11. ToSet(s) \subseteq ToSet(v)
  BY <1>4, <1>8, <1>9
<1>12. QED
  BY <1>1, <1>2, <1>6, <1>7, <1>10, <1>11 DEF Backwards

\* All come back, from the oldest to the youngest.
LEMMA ReaddAllBack ==
  ASSUME NEW s, NEW T \in Blocks, OnTheWay(s, T), NEW add
  PROVE  Back(ReaddAll([pool |-> s.pool, update |-> <<>>], Reverse(s.queued), s.tip, add),
              {}, s.tip, T)
<1>1. PICK b \in Blocks : b = s.tip
  BY DEF OnTheWay
<1>2. PICK q \in Seq(Int) : q = s.queued
  BY DEF OnTheWay
<1>3. /\ Orderly(q) /\ ToSet(q) \subseteq Base(T)
      /\ Fit(s.pool, {}, {}, Base(b) \cup ToSet(q), InChain(b))
      /\ s.pool.txs \cap InChain(b) = {} /\ s.pool.txs \cap InChain(T) = {}
  BY <1>1, <1>2 DEF OnTheWay
<1>4. PICK v : v = Reverse(q)
  OBVIOUS
<1>5. Backwards(q, v) /\ ToSet(v) = ToSet(q) /\ v \in Seq(Int)
  BY <1>4, ReverseFacts
<1>6. PICK K \in Nat : K = Len(v)
  BY <1>5 DEF Backwards
<1>7. PICK r : r = [pool |-> s.pool, update |-> <<>>]
  OBVIOUS
<1>8. PICK f : ReaddRun(r, v, b, add, f)
  BY <1>6, ReaddSteps
<1>9. /\ f[0] = r /\ ReaddAll(r, v, b, add) = f[K]
      /\ \A i \in 1..K : f[i] = Readd(f[i - 1], v[i], b, add)
  BY <1>6, <1>8 DEF ReaddRun
<1>10. ToSet(v) = {v[i] : i \in 1..K}
  BY <1>5, <1>6, SetOfSeq
<1>11. \A i, j \in 1..K : i < j => v[i] # v[j] /\ (v[i] \in Txs => v[j] \notin Sources(v[i]))
  <2>1. ASSUME NEW i \in 1..K, NEW j \in 1..K, i < j
        PROVE  v[i] # v[j] /\ (v[i] \in Txs => v[j] \notin Sources(v[i]))
    <3>1. PICK m : m = K - i + 1
      OBVIOUS
    <3>2. PICK n : n = K - j + 1
      OBVIOUS
    <3>3. i \in Int /\ j \in Int
      OBVIOUS
    <3>4. m \in 1..K /\ n \in 1..K /\ n < m
      BY <2>1, <3>1, <3>2, <3>3
    <3>5. K = Len(q) /\ v[i] = q[m] /\ v[j] = q[n]
      BY <1>5, <1>6, <3>1, <3>2 DEF Backwards
    <3>6. QED
      BY <1>3, <3>4, <3>5 DEF Orderly
  <2>2. QED
    BY <2>1
<1> DEFINE Rem(n) == {v[i] : i \in (n + 1)..K}
           OK(n) == Back(f[n], Rem(n), b, T)
           N == {n \in 0..K : OK(n)}
<1>12. Rem(0) = ToSet(q)
  <2>1. (0 + 1)..K = 1..K
    OBVIOUS
  <2>2. QED
    BY <1>5, <1>10, <2>1
<1>13. Rem(K) = {}
  <2>1. (K + 1)..K = {}
    OBVIOUS
  <2>2. QED
    BY <2>1
<1>14. ASSUME NEW n \in 0..K, n < K
       PROVE  /\ Rem(n) = Rem(n + 1) \cup {v[n + 1]} /\ v[n + 1] \notin Rem(n + 1)
              /\ \A x \in Rem(n + 1) : v[n + 1] \in Txs => x \notin Sources(v[n + 1])
  <2>1. n \in Nat /\ n + 1 \in 1..K
    BY <1>14
  <2>2. (n + 1)..K = ((n + 1) + 1)..K \cup {n + 1}
    BY <2>1
  <2>3. Rem(n) = Rem(n + 1) \cup {v[n + 1]}
    BY <2>2
  <2>4. \A j \in ((n + 1) + 1)..K : j \in 1..K /\ n + 1 < j
    BY <2>1
  <2>5. QED
    BY <1>11, <2>1, <2>3, <2>4
<1>15. 0 \in N
  <2>1. Back(r, ToSet(q), b, T)
    <3>1. r = [pool |-> r.pool, update |-> r.update] /\ r.pool = s.pool /\ r.update = <<>>
      BY <1>7
    <3>2. <<>> \in Seq(Txs) /\ ToSet(<<>>) = {}
      BY DEF ToSet
    <3>3. InOrder(r.update) /\ Waiting(r.pool, {})
      BY <3>1 DEF InOrder, Waiting
    <3>4. QED
      BY <1>3, <3>1, <3>2, <3>3 DEF Back
  <2>2. OK(0)
    <3> HIDE DEF Rem
    <3> QED BY <1>9, <1>12, <2>1
  <2>3. QED
    BY <2>2
<1>16. ASSUME NEW n \in N, n < K PROVE n + 1 \in N
  <2>1. n \in 0..K /\ n \in Nat /\ n + 1 \in 1..K /\ n + 1 \in 0..K /\ n + 1 - 1 = n
    BY <1>16
  <2>2. PICK e : e = f[n]
    OBVIOUS
  <2>3. PICK t \in Int : t = v[n + 1]
    BY <1>5, <1>6, <2>1
  <2>4. PICK R : R = Rem(n)
    OBVIOUS
  <2>5. PICK L : L = Rem(n + 1)
    OBVIOUS
  <2>6. /\ R = L \cup {t} /\ t \notin L
        /\ \A x \in L : t \in Txs => x \notin Sources(t)
    <3> HIDE DEF Rem
    <3> QED BY <1>14, <1>16, <2>1, <2>3, <2>4, <2>5
  <2>7. Back(e, R, b, T)
    BY <1>16, <2>2, <2>4
  <2>8. Back(Readd(e, t, b, add), L, b, T)
    BY <2>6, <2>7, ReaddBack
  <2>9. f[n + 1] = Readd(e, t, b, add)
    BY <1>9, <2>1, <2>2, <2>3
  <2>10. OK(n + 1)
    <3> HIDE DEF Rem
    <3> QED BY <2>5, <2>8, <2>9
  <2>11. QED
    BY <2>1, <2>10
<1>17. N \in SUBSET (0..K)
  OBVIOUS
<1>18. N = 0..K
  <2> HIDE DEF N
  <2> QED BY <1>15, <1>16, <1>17, UpTo
<1>19. K \in N
  <2> HIDE DEF N
  <2> QED BY <1>18
<1>20. OK(K)
  BY <1>19
<1>21. Back(f[K], {}, b, T)
  <2> HIDE DEF Rem
  <2> QED BY <1>13, <1>20
<1>22. QED
  BY <1>1, <1>2, <1>4, <1>7, <1>9, <1>21

-----------------------------------------------------------------------------
(* UpdateMempoolForReorg: links to children that were there before.        *)

\* The links when none misses, of a pool that A came back to: all that the inputs say.
\* Parents of what came back had to come back as well.
Whole(txs, par, chi, A) ==
  /\ SoundLinks(txs, par, chi) /\ \A x, y \in txs : y \in Sources(x) => y \in par[x]
  /\ \A x \in txs \ A : chi[x] \cap A = {}

\* On the way to them: the links from outside A to parents in R miss.
Missing(p, txs, R, A) ==
  /\ Sound(p) /\ p.txs = txs /\ Linked(txs, p.par, R, A)
  /\ \A x \in txs \ A : p.par[x] \cap R = {}

\* There are such links.
LEMMA WholeExists ==
  ASSUME NEW p, NEW A, NEW txs, Missing(p, txs, A, A), \A x \in txs \ A : p.chi[x] \cap A = {}
  PROVE  \E par, chi : Whole(txs, par, chi, A)
<1>1. /\ txs \in SUBSET Txs /\ \A x, y \in Txs : y \in p.par[x] <=> x \in p.chi[y]
      /\ Linked(txs, p.par, A, A)
  BY DEF Missing, Sound, SoundLinks
<1>2. PICK par : par = [x \in Txs |-> IF x \in txs THEN Sources(x) \cap txs ELSE {}]
  BY Zenon
<1>3. PICK chi : chi = [x \in Txs |-> IF x \in txs THEN {z \in txs : x \in Sources(z)} ELSE {}]
  BY Zenon
<1>4. /\ \A x, y \in Txs : y \in par[x] <=> x \in txs /\ y \in txs /\ y \in Sources(x)
      /\ \A x, y \in Txs : x \in chi[y] <=> x \in txs /\ y \in txs /\ y \in Sources(x)
  BY <1>2, <1>3
<1>5. par \in [Txs -> SUBSET Txs] /\ chi \in [Txs -> SUBSET Txs]
  <2>1. \A x \in Txs : (IF x \in txs THEN Sources(x) \cap txs ELSE {}) \in SUBSET Txs
    BY <1>1
  <2>2. \A x \in Txs : (IF x \in txs THEN {z \in txs : x \in Sources(z)} ELSE {}) \in SUBSET Txs
    BY <1>1
  <2>3. QED
    BY <1>2, <1>3, <2>1, <2>2
<1>6. SoundLinks(txs, par, chi)
  BY <1>1, <1>4, <1>5 DEF SoundLinks
<1>7. \A x, y \in txs : y \in Sources(x) => y \in par[x]
  BY <1>1, <1>4
<1>8. ASSUME NEW x \in txs \ A, NEW z \in chi[x], z \in A PROVE FALSE
  <2>1. x \in Txs /\ z \in Txs
    BY <1>1, <1>5, <1>8
  <2>2. z \in txs /\ x \in Sources(z)
    BY <1>4, <1>8, <2>1
  <2>3. x \in p.par[z]
    BY <1>1, <1>8, <2>2 DEF Linked
  <2>4. QED
    BY <1>1, <1>8, <2>1, <2>3
<1>9. Whole(txs, par, chi, A)
  BY <1>6, <1>7, <1>8 DEF Whole
<1>10. QED
  BY <1>9

\* What they are like.
LEMMA WholeFacts ==
  ASSUME NEW txs, NEW par, NEW chi, NEW A, Whole(txs, par, chi, A)
  PROVE  /\ Dual(par, chi) /\ txs \in SUBSET Txs
         /\ par \in [Txs -> SUBSET Txs] /\ chi \in [Txs -> SUBSET Txs]
         /\ \A x \in Txs : par[x] \subseteq txs /\ chi[x] \subseteq txs
         /\ \A x \in Txs \ txs : par[x] = {} /\ chi[x] = {}
         /\ \A x, y \in txs : y \in Sources(x) <=> y \in par[x]
         /\ \A x \in txs \ A : chi[x] \subseteq txs \ A
         /\ \A x \in txs \cap A : par[x] \subseteq A
<1>1. /\ par \in [Txs -> SUBSET Txs] /\ chi \in [Txs -> SUBSET Txs] /\ txs \in SUBSET Txs
      /\ \A x, y \in Txs : y \in par[x] <=> x \in chi[y]
      /\ \A x, y \in Txs : y \in par[x] => x \in txs /\ y \in txs /\ y \in Sources(x)
      /\ \A x \in txs \ A : chi[x] \cap A = {}
  BY DEF Whole, SoundLinks
<1>2. ASSUME NEW x \in Txs PROVE par[x] \subseteq txs /\ chi[x] \subseteq txs
  <2>1. par[x] \subseteq Txs /\ chi[x] \subseteq Txs
    BY <1>1
  <2>2. QED
    BY <1>1, <2>1
<1>3. ASSUME NEW x \in Txs \ txs PROVE par[x] = {} /\ chi[x] = {}
  <2>1. par[x] \subseteq Txs /\ chi[x] \subseteq Txs
    BY <1>1
  <2>2. QED
    BY <1>1, <2>1
<1>4. \A x, y \in txs : y \in Sources(x) <=> y \in par[x]
  BY <1>1 DEF Whole
<1>5. ASSUME NEW x \in txs \cap A, NEW y \in par[x] PROVE y \in A
  <2>1. x \in Txs /\ y \in Txs /\ y \in txs /\ x \in chi[y]
    BY <1>1, <1>2, <1>5
  <2>2. QED
    BY <1>1, <1>5, <2>1
<1>6. Dual(par, chi)
  BY <1>1 DEF Dual
<1>7. \A x \in txs \ A : chi[x] \subseteq txs \ A
  BY <1>1, <1>2
<1>8. QED
  BY <1>1, <1>2, <1>3, <1>4, <1>5, <1>6, <1>7

\* What they reach.
LEMMA WholeClosure ==
  ASSUME NEW txs, NEW par, NEW chi, NEW A, Whole(txs, par, chi, A), NEW x \in txs
  PROVE  /\ Closure(par, {x}) \in SUBSET txs /\ Closure(chi, {x}) \in SUBSET txs
         /\ x \in Closure(par, {x}) /\ x \in Closure(chi, {x})
         /\ x \in A => Closure(par, {x}) \subseteq A
         /\ x \notin A => Closure(chi, {x}) \subseteq txs \ A
<1>1. /\ par \in [Txs -> SUBSET Txs] /\ chi \in [Txs -> SUBSET Txs] /\ txs \in SUBSET Txs
      /\ \A y \in Txs : par[y] \subseteq txs /\ chi[y] \subseteq txs
      /\ \A y \in txs \ A : chi[y] \subseteq txs \ A
      /\ \A y \in txs \cap A : par[y] \subseteq A
  BY WholeFacts
<1>2. {x} \subseteq txs /\ txs \subseteq Txs /\ x \in Txs
  BY <1>1
<1>3. Closure(par, {x}) \subseteq txs
  BY <1>1, <1>2, ClosureLeast
<1>4. Closure(chi, {x}) \subseteq txs
  BY <1>1, <1>2, ClosureLeast
<1>5. ASSUME x \in A PROVE Closure(par, {x}) \subseteq A
  <2>1. PICK D : D = txs \cap A
    OBVIOUS
  <2>2. {x} \subseteq D /\ D \subseteq Txs /\ \A y \in D : par[y] \subseteq D
    BY <1>1, <1>2, <1>5, <2>1
  <2>3. Closure(par, {x}) \subseteq D
    BY <1>1, <2>2, ClosureLeast
  <2>4. QED
    BY <2>1, <2>3
<1>6. ASSUME x \notin A PROVE Closure(chi, {x}) \subseteq txs \ A
  <2>1. PICK D : D = txs \ A
    OBVIOUS
  <2>2. {x} \subseteq D /\ D \subseteq Txs /\ \A y \in D : chi[y] \subseteq D
    BY <1>1, <1>2, <1>6, <2>1
  <2>3. Closure(chi, {x}) \subseteq D
    BY <1>1, <2>2, ClosureLeast
  <2>4. QED
    BY <2>1, <2>3
<1>7. QED
  BY <1>1, <1>2, <1>3, <1>4, <1>5, <1>6, ClosureOfOne

\* Which of them x has while those to R miss.
Now(p, par, chi, R, A, x) == /\ p.par[x] = IF x \in A THEN par[x] ELSE par[x] \ R
                             /\ p.chi[x] = IF x \in R THEN chi[x] \cap A ELSE chi[x]

\* It has these, and no other.
LEMMA LinksNow ==
  ASSUME NEW p, NEW txs, NEW R, NEW A, Missing(p, txs, R, A), R \subseteq A,
         NEW par, NEW chi, Whole(txs, par, chi, A), NEW x \in txs
  PROVE  Now(p, par, chi, R, A, x)
<1>1. /\ p.par \in [Txs -> SUBSET Txs] /\ p.chi \in [Txs -> SUBSET Txs]
      /\ \A y, z \in Txs : z \in p.par[y] <=> y \in p.chi[z]
      /\ \A y, z \in Txs : z \in p.par[y] => y \in txs /\ z \in txs /\ z \in Sources(y)
      /\ \A y \in txs \ A : p.par[y] \cap R = {}
      /\ \A y, z \in txs : z \in Sources(y) => z \in p.par[y] \/ (z \in R /\ y \notin A)
  BY DEF Missing, Sound, SoundLinks, Linked
<1>2. /\ Dual(par, chi) /\ txs \in SUBSET Txs
      /\ \A y \in Txs : par[y] \subseteq txs /\ chi[y] \subseteq txs
      /\ \A y, z \in txs : z \in Sources(y) <=> z \in par[y]
      /\ \A y \in txs \ A : chi[y] \subseteq txs \ A
  BY WholeFacts
<1>3. ASSUME NEW y \in txs, NEW z \in txs
      PROVE  z \in p.par[y] <=> z \in par[y] /\ (y \in A \/ z \notin R)
  <2>1. y \in Txs /\ z \in Txs
    BY <1>2
  <2>2. QED
    BY <1>1, <1>2, <2>1
<1>4. x \in Txs /\ p.par[x] \subseteq txs /\ p.chi[x] \subseteq txs
  <2>1. x \in Txs
    BY <1>2
  <2>2. p.par[x] \subseteq Txs /\ p.chi[x] \subseteq Txs
    BY <1>1, <2>1
  <2>3. QED
    BY <1>1, <2>1, <2>2
<1>5. p.par[x] = IF x \in A THEN par[x] ELSE par[x] \ R
  BY <1>2, <1>3, <1>4
<1>6. ASSUME NEW z \in txs PROVE z \in p.chi[x] <=> z \in chi[x] /\ (z \in A \/ x \notin R)
  <2>1. z \in Txs
    BY <1>2
  <2>2. (z \in p.chi[x] <=> x \in p.par[z]) /\ (z \in chi[x] <=> x \in par[z])
    BY <1>1, <1>2, <1>4, <2>1 DEF Dual
  <2>3. QED
    BY <1>3, <2>2
<1>7. p.chi[x] = IF x \in R THEN chi[x] \cap A ELSE chi[x]
  BY <1>2, <1>4, <1>6
<1>8. QED
  BY <1>5, <1>7 DEF Now

-----------------------------------------------------------------------------
(* UpdateMempoolForReorg: totals with children that were there before.     *)

\* The totals while the links to the children of R outside A are not followed: what came
\* back counts its ancestors and, once it is out of R, all its descendants.
AncHalf(par, A, R, x) == IF x \in A THEN Closure(par, {x}) ELSE Closure(par, {x}) \ R
DescHalf(chi, A, R, x) == IF x \in R THEN Closure(chi, {x}) \cap A ELSE Closure(chi, {x})
Half(p, par, chi, A, R) ==
  /\ p.anc \in [Txs -> Amounts] /\ p.desc \in [Txs -> Amounts]
  /\ \A x \in p.txs : /\ p.feeDelta[x] = p.delta[x]
                      /\ p.anc[x] = Total(p, AncHalf(par, A, R, x))
                      /\ p.desc[x] = Total(p, DescHalf(chi, A, R, x))
  /\ \A x \in Txs \ p.txs : p.desc[x] = None

\* At first nothing came back below its children.
LEMMA HalfFirst ==
  ASSUME NEW p, NEW txs, NEW A, Missing(p, txs, A, A), Summed(p),
         NEW par, NEW chi, Whole(txs, par, chi, A)
  PROVE  Half(p, par, chi, A, A)
<1>1. /\ par \in [Txs -> SUBSET Txs] /\ chi \in [Txs -> SUBSET Txs] /\ txs \in SUBSET Txs
      /\ \A y \in Txs : par[y] \subseteq txs /\ chi[y] \subseteq txs
      /\ \A y \in txs \ A : chi[y] \subseteq txs \ A
      /\ \A y \in txs \cap A : par[y] \subseteq A
  BY WholeFacts
<1>2. PICK up \in [Txs -> SUBSET Txs] : up = p.par
  BY DEF Missing, Sound, SoundLinks
<1>3. PICK down \in [Txs -> SUBSET Txs] : down = p.chi
  BY DEF Missing, Sound, SoundLinks
<1>4. p.txs = txs
  BY DEF Missing
<1>5. ASSUME NEW y \in txs
      PROVE  /\ up[y] = IF y \in A THEN par[y] ELSE par[y] \ A
             /\ down[y] = IF y \in A THEN chi[y] \cap A ELSE chi[y]
  <2>1. A \subseteq A
    OBVIOUS
  <2>2. Now(p, par, chi, A, A, y)
    BY <2>1, LinksNow
  <2>3. QED
    BY <1>2, <1>3, <2>2 DEF Now
<1>6. ASSUME NEW x \in txs
      PROVE  Closure(up, {x}) = AncHalf(par, A, A, x) /\ Closure(down, {x}) = DescHalf(chi, A, A, x)
  <2>1. x \in Txs
    BY <1>1
  <2>2. Closure(par, {x}) \in SUBSET txs /\ Closure(chi, {x}) \in SUBSET txs
    BY WholeClosure
  <2>3. PICK P \in SUBSET txs : P = Closure(par, {x})
    BY <2>2
  <2>4. PICK C \in SUBSET txs : C = Closure(chi, {x})
    BY <2>2
  <2>5. PICK U \in SUBSET Txs : U = Closure(up, {x})
    BY <2>1, ClosureFacts
  <2>6. PICK D \in SUBSET Txs : D = Closure(down, {x})
    BY <2>1, ClosureFacts
  <2>7. x \in P /\ (\A y \in P : par[y] \subseteq P) /\ x \in C /\ (\A y \in C : chi[y] \subseteq C)
    BY <1>1, <2>1, <2>3, <2>4, ClosureOfOne
  <2>8. x \in U /\ (\A y \in U : up[y] \subseteq U) /\ x \in D /\ (\A y \in D : down[y] \subseteq D)
    BY <2>1, <2>5, <2>6, ClosureOfOne
  <2>9. CASE x \in A
    <3>1. P \subseteq A
      BY <2>3, <2>9, WholeClosure, ZenonT(40)
    <3>2. U = P
      <4>1. \A y \in P : up[y] = par[y]
        BY <1>5, <3>1
      <4>2. {x} \in SUBSET Txs
        BY <2>1
      <4>3. QED
        BY <1>1, <2>3, <2>5, <4>1, <4>2, ClosureSame, ZenonT(40)
    <3>3. D \subseteq C \cap A
      <4>1. PICK E : E = C \cap A
        OBVIOUS
      <4>2. {x} \subseteq E /\ E \subseteq Txs
        BY <1>1, <2>7, <2>9, <4>1
      <4>3. \A y \in E : down[y] \subseteq E
        BY <1>5, <2>7, <4>1
      <4>4. D \subseteq E
        BY <2>6, <4>2, <4>3, ClosureLeast
      <4>5. QED
        BY <4>1, <4>4
    <3>4. D \subseteq txs
      BY <3>3
    <3>5. C \subseteq D \cup (txs \ A)
      <4>1. PICK E : E = D \cup (txs \ A)
        OBVIOUS
      <4>2. {x} \subseteq E /\ E \subseteq Txs
        BY <1>1, <2>8, <4>1
      <4>3. ASSUME NEW y \in E PROVE chi[y] \subseteq E
        <5>1. CASE y \in txs \ A
          BY <1>1, <4>1, <5>1
        <5>2. CASE y \notin txs \ A
          <6>1. y \in D /\ y \in A /\ y \in txs
            BY <3>4, <4>1, <4>3, <5>2
          <6>2. down[y] = chi[y] \cap A /\ down[y] \subseteq D /\ chi[y] \subseteq txs
            BY <1>1, <1>5, <2>8, <6>1
          <6>3. QED
            BY <4>1, <6>2
        <5>3. QED
          BY <5>1, <5>2
      <4>4. C \subseteq E
        BY <1>1, <2>4, <4>2, <4>3, ClosureLeast
      <4>5. QED
        BY <4>1, <4>4
    <3>6. D = C \cap A
      BY <3>3, <3>5
    <3>7. QED
      BY <2>3, <2>4, <2>5, <2>6, <2>9, <3>2, <3>6 DEF AncHalf, DescHalf
  <2>10. CASE x \notin A
    <3>1. C \subseteq txs \ A
      BY <2>4, <2>10, WholeClosure, ZenonT(40)
    <3>2. D = C
      <4>1. \A y \in C : down[y] = chi[y]
        BY <1>5, <3>1
      <4>2. {x} \in SUBSET Txs
        BY <2>1
      <4>3. QED
        BY <1>1, <2>4, <2>6, <4>1, <4>2, ClosureSame, ZenonT(40)
    <3>3. U \subseteq P \ A
      <4>1. PICK E : E = P \ A
        OBVIOUS
      <4>2. {x} \subseteq E /\ E \subseteq Txs
        BY <1>1, <2>7, <2>10, <4>1
      <4>3. ASSUME NEW y \in E PROVE up[y] \subseteq E
        <5>1. y \in txs /\ y \notin A /\ par[y] \subseteq P
          BY <2>7, <4>1
        <5>2. up[y] = par[y] \ A
          BY <1>5, <5>1
        <5>3. QED
          BY <4>1, <5>1, <5>2
      <4>4. U \subseteq E
        BY <2>5, <4>2, <4>3, ClosureLeast
      <4>5. QED
        BY <4>1, <4>4
    <3>4. U \subseteq txs
      BY <3>3
    <3>5. P \subseteq U \cup (txs \cap A)
      <4>1. PICK E : E = U \cup (txs \cap A)
        OBVIOUS
      <4>2. {x} \subseteq E /\ E \subseteq Txs
        BY <1>1, <2>8, <4>1
      <4>3. ASSUME NEW y \in E PROVE par[y] \subseteq E
        <5>1. CASE y \in txs \cap A
          <6>1. par[y] \subseteq A /\ par[y] \subseteq txs
            BY <1>1, <5>1
          <6>2. QED
            BY <4>1, <6>1
        <5>2. CASE y \notin txs \cap A
          <6>1. y \in U /\ y \notin A /\ y \in txs
            BY <3>4, <4>1, <4>3, <5>2
          <6>2. up[y] = par[y] \ A /\ up[y] \subseteq U /\ par[y] \subseteq txs
            BY <1>1, <1>5, <2>8, <6>1
          <6>3. QED
            BY <4>1, <6>2
        <5>3. QED
          BY <5>1, <5>2
      <4>4. P \subseteq E
        BY <1>1, <2>3, <4>2, <4>3, ClosureLeast
      <4>5. QED
        BY <4>1, <4>4
    <3>6. U = P \ A
      BY <3>3, <3>5
    <3>7. QED
      BY <2>3, <2>4, <2>5, <2>6, <2>10, <3>2, <3>6 DEF AncHalf, DescHalf
  <2>11. QED
    BY <2>9, <2>10
<1>7. /\ p.anc \in [Txs -> Amounts] /\ p.desc \in [Txs -> Amounts]
      /\ \A x \in p.txs : /\ p.feeDelta[x] = p.delta[x]
                          /\ p.anc[x] = Total(p, Closure(up, {x}))
                          /\ p.desc[x] = Total(p, Closure(down, {x}))
      /\ \A x \in Txs \ p.txs : p.desc[x] = None
  BY <1>2, <1>3 DEF Summed
<1>8. QED
  BY <1>4, <1>6, <1>7 DEF Half

\* At last all is counted.
LEMMA HalfLast ==
  ASSUME NEW p, NEW txs, NEW A, Missing(p, txs, {}, A),
         NEW par, NEW chi, Whole(txs, par, chi, A), Half(p, par, chi, A, {})
  PROVE  Summed(p)
<1>1. /\ par \in [Txs -> SUBSET Txs] /\ chi \in [Txs -> SUBSET Txs]
      /\ \A x \in Txs \ txs : par[x] = {} /\ chi[x] = {}
  BY WholeFacts
<1>2. Sound(p) /\ p.txs = txs
  BY DEF Missing
<1>3. ASSUME NEW x \in txs PROVE p.par[x] = par[x] /\ p.chi[x] = chi[x]
  <2>1. PICK R : R = {}
    OBVIOUS
  <2>2. Missing(p, txs, R, A)
    BY <2>1
  <2>3. R \subseteq A
    BY <2>1
  <2>4. Now(p, par, chi, R, A, x)
    BY <2>2, <2>3, LinksNow
  <2>5. QED
    BY <2>1, <2>4 DEF Now
<1>4. PICK up \in [Txs -> SUBSET Txs] : up = p.par
  BY <1>2, PoolLinks DEF Dual
<1>5. PICK down \in [Txs -> SUBSET Txs] : down = p.chi
  BY <1>2, PoolLinks DEF Dual
<1>6. ASSUME NEW x \in Txs PROVE up[x] = par[x] /\ down[x] = chi[x]
  <2>1. CASE x \in txs
    BY <1>4, <1>5, <1>3, <2>1
  <2>2. CASE x \notin txs
    BY <1>1, <1>2, <1>4, <1>5, <2>2, PoolLinks, ZenonT(40)
  <2>3. QED
    BY <2>1, <2>2
<1>7. up = par /\ down = chi
  BY <1>1, <1>6
<1>8. \A x : AncHalf(par, A, {}, x) = Closure(par, {x}) /\ DescHalf(chi, A, {}, x) = Closure(chi, {x})
  BY DEF AncHalf, DescHalf
<1>9. QED
  BY <1>4, <1>5, <1>7, <1>8 DEF Half, Summed

\* What UpdateForDescendants finds.
Found(s, t, block) ==
  LET p == s.pool
      cached == DOMAIN s.cache
      open == [x \in Txs |-> p.chi[x] \ cached]
      visited == Closure(open, p.chi[t])
      known == UNION {s.cache[c] : c \in cached \cap UNION {p.chi[x] : x \in visited}}
  IN (visited \cup known) \ block

\* The cache holds the descendants outside A.
Cached(c, chi, txs, A, R) ==
  /\ DOMAIN c \subseteq (txs \cap A) \ R
  /\ \A x \in DOMAIN c : c[x] = Closure(chi, {x}) \ A

\* Below t no link misses, and the cache is right.
Followed(s, chi, A, t) ==
  /\ s.pool.chi \in [Txs -> SUBSET Txs]
  /\ \A x \in Closure(chi, {t}) : s.pool.chi[x] = chi[x]
  /\ \A c \in DOMAIN s.cache : s.cache[c] = Closure(chi, {c}) \ A

\* It finds all descendants outside A, although it does not go through cached children.
LEMMA FoundAll ==
  ASSUME NEW s, NEW A, NEW chi \in [Txs -> SUBSET Txs], NEW t \in Txs, t \in A,
         Followed(s, chi, A, t)
  PROVE  Found(s, t, A) = Closure(chi, {t}) \ A
<1>1. PICK links \in [Txs -> SUBSET Txs] : links = s.pool.chi
  BY DEF Followed
<1>2. PICK cached : cached = DOMAIN s.cache
  OBVIOUS
<1>3. PICK open \in [Txs -> SUBSET Txs] : \A x \in Txs : open[x] = links[x] \ cached
  <2>1. PICK f : f = [x \in Txs |-> links[x] \ cached]
    BY Zenon
  <2>2. \A x \in Txs : links[x] \ cached \in SUBSET Txs
    OBVIOUS
  <2>3. f \in [Txs -> SUBSET Txs]
    BY <2>1, <2>2
  <2>4. QED
    BY <2>1, <2>3
<1>4. PICK V \in SUBSET Txs : V = Closure(open, links[t])
  BY ClosureFacts
<1>5. links[t] \subseteq V /\ \A x \in V : open[x] \subseteq V
  <2>1. links[t] \in SUBSET Txs
    OBVIOUS
  <2>2. QED
    BY <1>4, <2>1, ClosureFacts
<1>6. PICK K : K = cached \cap UNION {links[x] : x \in V}
  OBVIOUS
<1>7. PICK U : U = UNION {s.cache[c] : c \in K}
  OBVIOUS
<1>8. \A u : u \in U <=> \E c \in K : u \in s.cache[c]
  BY <1>7
<1>9. Found(s, t, A) = (V \cup U) \ A
  <2>1. [x \in Txs |-> s.pool.chi[x] \ DOMAIN s.cache] = open
    <3>1. open = [x \in Txs |-> links[x] \ cached]
      BY <1>3
    <3>2. QED
      BY <1>1, <1>2, <3>1, Zenon
  <2>2. Found(s, t, A)
        = (Closure(open, s.pool.chi[t])
           \cup UNION {s.cache[c] : c \in DOMAIN s.cache
                         \cap UNION {s.pool.chi[x] : x \in Closure(open, s.pool.chi[t])}}) \ A
    BY <2>1, Zenon DEF Found
  <2>3. Closure(open, s.pool.chi[t]) = V
    BY <1>1, <1>4
  <2>4. DOMAIN s.cache \cap UNION {s.pool.chi[x] : x \in V} = K
    BY <1>1, <1>2, <1>6, Zenon
  <2>5. Found(s, t, A) = (V \cup UNION {s.cache[c] : c \in K}) \ A
    BY <2>2, <2>3, <2>4, Zenon
  <2>6. QED
    BY <1>7, <2>5, Zenon
<1>10. PICK D \in SUBSET Txs : D = Closure(chi, {t})
  BY ClosureFacts
<1>11. /\ t \in D /\ \A y \in D : chi[y] \subseteq D
       /\ \A y \in D : Closure(chi, {y}) \subseteq D
       /\ \A x \in D : links[x] = chi[x]
  BY <1>1, <1>10, ClosureOfOne DEF Followed
<1>12. V \subseteq D
  <2>1. links[t] \subseteq D /\ D \subseteq Txs
    BY <1>11
  <2>2. \A x \in D : open[x] \subseteq D
    BY <1>3, <1>11
  <2>3. QED
    BY <1>4, <2>1, <2>2, ClosureLeast
<1>13. \A c \in K : c \in D /\ c \in cached
  <2>1. ASSUME NEW c \in K PROVE c \in D /\ c \in cached
    <3>1. PICK x \in V : c \in links[x]
      BY <1>6
    <3>2. links[x] \subseteq D
      BY <1>11, <1>12, <3>1
    <3>3. QED
      BY <1>6, <3>1, <3>2
  <2>2. QED
    BY <2>1
<1>14. ASSUME NEW c \in K PROVE Closure(chi, {c}) \subseteq D /\ s.cache[c] = Closure(chi, {c}) \ A
  BY <1>2, <1>11, <1>13 DEF Followed
<1>15. U \subseteq D
  <2>1. ASSUME NEW u \in U PROVE u \in D
    <3>1. PICK c \in K : u \in s.cache[c]
      BY <1>8
    <3>2. QED
      BY <1>14, <3>1
  <2>2. QED
    BY <2>1
<1>16. PICK E : E = {t} \cup V \cup UNION {Closure(chi, {c}) : c \in K}
  OBVIOUS
<1>17. \A z : z \in E <=> z = t \/ z \in V \/ \E c \in K : z \in Closure(chi, {c})
  BY <1>16
<1>18. D \subseteq E
  <2>1. {t} \subseteq E /\ E \subseteq Txs
    BY <1>14, <1>17
  <2>2. ASSUME NEW y \in E PROVE chi[y] \subseteq E
    <3>1. CASE y = t
      <4>1. chi[t] = links[t]
        BY <1>11
      <4>2. QED
        BY <1>5, <1>17, <3>1, <4>1
    <3>2. CASE y \in V
      <4>1. chi[y] = links[y]
        BY <1>11, <1>12, <3>2
      <4>2. ASSUME NEW z \in chi[y] PROVE z \in E
        <5>1. CASE z \in cached
          <6>1. z \in K
            BY <1>6, <3>2, <4>1, <4>2, <5>1
          <6>2. z \in Txs
            BY <1>13, <6>1
          <6>3. z \in Closure(chi, {z})
            BY <6>2, ClosureOfOne
          <6>4. QED
            BY <1>17, <6>1, <6>3
        <5>2. CASE z \notin cached
          <6>1. z \in open[y]
            BY <1>3, <3>2, <4>1, <4>2, <5>2
          <6>2. QED
            BY <1>5, <1>17, <3>2, <6>1
        <5>3. QED
          BY <5>1, <5>2
      <4>3. QED
        BY <4>2
    <3>3. CASE y \notin {t} \cup V
      <4>1. PICK c \in K : y \in Closure(chi, {c})
        BY <1>17, <2>2, <3>3
      <4>2. c \in Txs
        BY <1>13, <4>1
      <4>3. chi[y] \subseteq Closure(chi, {c})
        BY <4>1, <4>2, ClosureOfOne
      <4>4. QED
        BY <1>17, <4>1, <4>3
    <3>4. QED
      BY <3>1, <3>2, <3>3
  <2>3. QED
    BY <1>10, <2>1, <2>2, ClosureLeast
<1>19. D \ A \subseteq V \cup U
  <2>1. ASSUME NEW x \in D, x \notin A, x \notin V PROVE x \in U
    <3>1. PICK c \in K : x \in Closure(chi, {c})
      BY <1>17, <1>18, <2>1
    <3>2. x \in s.cache[c]
      BY <1>14, <2>1, <3>1
    <3>3. QED
      BY <1>8, <3>1, <3>2
  <2>2. QED
    BY <2>1
<1>20. (V \cup U) \ A = D \ A
  BY <1>12, <1>15, <1>19
<1>21. QED
  BY <1>9, <1>10, <1>20

\* z is s after t and its descendants new have counted each other.
Updated(s, t, new, z) ==
  /\ Fields(z.pool) /\ z.pool.txs = s.pool.txs /\ z.pool.feeDelta = s.pool.feeDelta
  /\ z.pool.delta = s.pool.delta /\ z.pool.par = s.pool.par /\ z.pool.chi = s.pool.chi
  /\ z.pool.desc = [s.pool.desc EXCEPT ![t] = Plus(s.pool.desc[t], Total(s.pool, new))]
  /\ z.pool.anc = [x \in Txs |-> IF x \in new THEN Plus(s.pool.anc[x], Total(s.pool, {t}))
                                 ELSE s.pool.anc[x]]
  /\ z = [pool |-> z.pool, cache |-> z.cache]
  /\ z.cache = [x \in DOMAIN s.cache \cup (IF new = {} THEN {} ELSE {t}) |->
                  IF x = t THEN new ELSE s.cache[x]]

\* The members after UpdateForDescendants.
LEMMA UpdatedFields ==
  ASSUME NEW s, Fields(s.pool), NEW t, NEW block
  PROVE  Updated(s, t, Found(s, t, block), UpdateForDescendants(s, t, block))
<1>1. PICK p : p = s.pool
  OBVIOUS
<1>2. PICK new : new = Found(s, t, block)
  OBVIOUS
<1>3. PICK c : c = [x \in DOMAIN s.cache \cup (IF new = {} THEN {} ELSE {t}) |->
                      IF x = t THEN new ELSE s.cache[x]]
  BY Zenon
<1>4. UpdateForDescendants(s, t, block)
        = [pool |-> [p EXCEPT !.desc[t] = Plus(@, Total(p, new)),
                              !.anc = [x \in Txs |-> IF x \in new THEN Plus(@[x], Total(p, {t})) ELSE @[x]]],
           cache |-> c]
  BY <1>1, <1>2, <1>3, Zenon DEF UpdateForDescendants, Found
<1>5. PICK desc : desc = [p.desc EXCEPT ![t] = Plus(p.desc[t], Total(p, new))]
  OBVIOUS
<1>6. PICK anc : anc = [x \in Txs |-> IF x \in new THEN Plus(p.anc[x], Total(p, {t})) ELSE p.anc[x]]
  BY Zenon
<1>7. PICK p1 : p1 = [p EXCEPT !.desc = desc]
  OBVIOUS
<1>8. p1 = [txs |-> p.txs, feeDelta |-> p.feeDelta, anc |-> p.anc, desc |-> desc,
            par |-> p.par, chi |-> p.chi, delta |-> p.delta]
  BY <1>1, <1>7 DEF Fields
<1>9. PICK p2 : p2 = [p1 EXCEPT !.anc = anc]
  OBVIOUS
<1>10. p2 = [txs |-> p.txs, feeDelta |-> p.feeDelta, anc |-> anc, desc |-> desc,
             par |-> p.par, chi |-> p.chi, delta |-> p.delta]
  BY <1>8, <1>9
<1>11. PICK z : z = UpdateForDescendants(s, t, block)
  OBVIOUS
<1>12. z = [pool |-> p2, cache |-> c]
  BY <1>4, <1>5, <1>6, <1>7, <1>9, <1>11, Zenon
<1>13. z.pool = p2 /\ z.cache = c /\ z = [pool |-> z.pool, cache |-> z.cache]
  BY <1>12
<1>14. /\ Fields(p2) /\ p2.txs = p.txs /\ p2.feeDelta = p.feeDelta /\ p2.delta = p.delta
       /\ p2.par = p.par /\ p2.chi = p.chi /\ p2.anc = anc /\ p2.desc = desc
  BY <1>10 DEF Fields
<1>15. Updated(s, t, new, z)
  BY <1>1, <1>3, <1>5, <1>6, <1>13, <1>14 DEF Updated
<1>16. QED
  BY <1>2, <1>11, <1>15

\* What is not below R has the links it will have.
LEMMA LinksBelow ==
  ASSUME NEW p, NEW txs, NEW L, NEW A, Missing(p, txs, L, A), L \subseteq A,
         NEW par, NEW chi, Whole(txs, par, chi, A), NEW x \in txs, x \notin L
  PROVE  p.chi[x] = chi[x]
<1>1. Now(p, par, chi, L, A, x)
  BY LinksNow
<1>2. QED
  BY <1>1 DEF Now

\* What t counts when it leaves R: all its descendants outside A, none of them above L.
Below(s, txs, chi, A, L, t) ==
  /\ t \in Closure(chi, {t}) /\ Closure(chi, {t}) \subseteq txs \ L
  /\ Found(s, t, A) = Closure(chi, {t}) \ A

\* UpdateForDescendants gives that, for none of them waits for links.
LEMMA BelowFacts ==
  ASSUME NEW s, NEW txs, NEW A, NEW L, L \subseteq A, NEW t \in txs, t \in A, t \notin L,
         Missing(s.pool, txs, L, A), NEW par, NEW chi, Whole(txs, par, chi, A),
         \A x \in txs \ L : chi[x] \cap L = {}, NEW R, Cached(s.cache, chi, txs, A, R)
  PROVE  Below(s, txs, chi, A, L, t)
<1>1. /\ chi \in [Txs -> SUBSET Txs] /\ txs \in SUBSET Txs
      /\ \A x \in Txs : par[x] \subseteq txs /\ chi[x] \subseteq txs
  BY WholeFacts
<1>2. t \in Txs
  BY <1>1
<1>3. PICK p : p = s.pool
  OBVIOUS
<1>4. p.chi \in [Txs -> SUBSET Txs] /\ Missing(p, txs, L, A)
  BY <1>3 DEF Missing, Sound, SoundLinks
<1>5. PICK C : C = Closure(chi, {t})
  OBVIOUS
<1>6. t \in C /\ C \subseteq txs \ L
  <2>1. PICK E : E = txs \ L
    OBVIOUS
  <2>2. {t} \subseteq E /\ E \subseteq Txs /\ \A x \in E : chi[x] \subseteq E
    BY <1>1, <2>1
  <2>3. C \subseteq E
    BY <1>1, <1>5, <2>2, ClosureLeast
  <2>4. QED
    BY <1>1, <1>2, <1>5, <2>1, <2>3, ClosureOfOne
<1>7. ASSUME NEW x \in C PROVE p.chi[x] = chi[x]
  <2>1. x \in txs /\ x \notin L
    BY <1>6
  <2>2. QED
    BY <1>4, <2>1, LinksBelow
<1>8. \A c \in DOMAIN s.cache : s.cache[c] = Closure(chi, {c}) \ A
  BY DEF Cached
<1>9. s.pool.chi \in [Txs -> SUBSET Txs]
  BY <1>3, <1>4
<1>10. \A x \in Closure(chi, {t}) : s.pool.chi[x] = chi[x]
  BY <1>3, <1>5, <1>7
<1>11. Found(s, t, A) = Closure(chi, {t}) \ A
  <2>1. Followed(s, chi, A, t)
    BY <1>8, <1>9, <1>10 DEF Followed
  <2>2. QED
    BY <1>1, <1>2, <2>1, FoundAll
<1>12. QED
  BY <1>5, <1>6, <1>11 DEF Below

\* The totals after t has left R.
LEMMA HalfStep ==
  ASSUME NEW s, NEW txs, NEW A, NEW R, R \subseteq A, NEW t \in txs, t \in R,
         NEW L, L = R \ {t}, Missing(s.pool, txs, L, A),
         NEW par, NEW chi, Whole(txs, par, chi, A), \A x \in txs \ L : chi[x] \cap L = {},
         Half(s.pool, par, chi, A, R), Cached(s.cache, chi, txs, A, R),
         NEW new, new = Found(s, t, A), NEW z, Updated(s, t, new, z)
  PROVE  Half(z.pool, par, chi, A, L) /\ Cached(z.cache, chi, txs, A, L)
<1>1. /\ Dual(par, chi) /\ txs \in SUBSET Txs
      /\ par \in [Txs -> SUBSET Txs] /\ chi \in [Txs -> SUBSET Txs]
      /\ \A x \in Txs : par[x] \subseteq txs /\ chi[x] \subseteq txs
  BY WholeFacts
<1>2. t \in Txs /\ t \in A
  BY <1>1
<1>3. PICK p : p = s.pool
  OBVIOUS
<1>4. PICK q : q = z.pool
  OBVIOUS
<1>5. /\ p.txs = txs /\ p.feeDelta \in [Txs -> Int] /\ p.chi \in [Txs -> SUBSET Txs]
  BY <1>3 DEF Missing, Sound, SoundLinks
<1>6. /\ q.txs = txs /\ q.feeDelta = p.feeDelta /\ q.delta = p.delta
      /\ q.desc = [p.desc EXCEPT ![t] = Plus(p.desc[t], Total(p, new))]
      /\ q.anc = [x \in Txs |-> IF x \in new THEN Plus(p.anc[x], Total(p, {t})) ELSE p.anc[x]]
  BY <1>3, <1>4, <1>5 DEF Updated
<1>7. /\ p.anc \in [Txs -> Amounts] /\ p.desc \in [Txs -> Amounts]
      /\ \A x \in txs : /\ p.feeDelta[x] = p.delta[x]
                        /\ p.anc[x] = Total(p, AncHalf(par, A, R, x))
                        /\ p.desc[x] = Total(p, DescHalf(chi, A, R, x))
      /\ \A x \in Txs \ txs : p.desc[x] = None
  BY <1>3, <1>5 DEF Half
<1>8. PICK C : C = Closure(chi, {t})
  OBVIOUS
<1>9. t \notin L /\ L \subseteq A
  OBVIOUS
<1>10. t \in C /\ C \subseteq txs \ L /\ new = C \ A
  <2>1. Below(s, txs, chi, A, L, t)
    BY <1>2, <1>9, BelowFacts
  <2>2. QED
    BY <1>8, <2>1 DEF Below
<1>11. ASSUME NEW S \in SUBSET Txs PROVE Total(q, S) = Total(p, S)
  BY <1>5, <1>6, TotalSame
<1>12. C \in SUBSET Txs /\ new \in SUBSET Txs
  BY <1>1, <1>10
<1>13. ASSUME NEW x \in txs PROVE q.desc[x] = Total(q, DescHalf(chi, A, L, x))
  <2>1. x \in Txs
    BY <1>1
  <2>2. PICK D \in SUBSET Txs : D = Closure(chi, {x})
    BY <1>1, <2>1, ClosureFacts
  <2>3. CASE x = t
    <3>1. DescHalf(chi, A, L, x) = C
      BY <1>8, <2>3 DEF DescHalf
    <3>2. PICK I \in SUBSET Txs : I = C \cap A
      BY <1>12
    <3>3. p.desc[t] = Total(p, I)
      BY <1>7, <1>8, <3>2 DEF DescHalf
    <3>4. q.desc[x] = Plus(Total(p, I), Total(p, new))
      BY <1>2, <1>6, <1>7, <2>3, <3>3
    <3>5. I \cap new = {} /\ I \cup new = C
      BY <1>10, <3>2
    <3>6. Total(p, I \cup new) = Plus(Total(p, I), Total(p, new))
      BY <1>5, <1>12, <3>5, TotalUnion
    <3>7. Total(q, C) = Total(p, C)
      BY <1>11, <1>12
    <3>8. QED
      BY <3>1, <3>4, <3>5, <3>6, <3>7
  <2>4. CASE x # t
    <3>1. PICK I \in SUBSET Txs : I = DescHalf(chi, A, R, x)
      BY <2>2 DEF DescHalf
    <3>2. DescHalf(chi, A, L, x) = I
      BY <2>4, <3>1 DEF DescHalf
    <3>3. q.desc[x] = p.desc[x]
      BY <1>6, <1>7, <2>1, <2>4
    <3>4. p.desc[x] = Total(p, I)
      BY <1>7, <3>1
    <3>5. Total(q, I) = Total(p, I)
      BY <1>11
    <3>6. QED
      BY <3>2, <3>3, <3>4, <3>5
  <2>5. QED
    BY <2>3, <2>4
<1>14. ASSUME NEW x \in txs PROVE q.anc[x] = Total(q, AncHalf(par, A, L, x))
  <2>1. x \in Txs
    BY <1>1
  <2>2. PICK P \in SUBSET Txs : P = Closure(par, {x})
    BY <1>1, <2>1, ClosureFacts
  <2>3. t \in P <=> x \in C
    BY <1>1, <1>2, <1>8, <2>1, <2>2, ClosureDual
  <2>4. PICK I \in SUBSET Txs : I = AncHalf(par, A, R, x)
    BY <2>2 DEF AncHalf
  <2>5. p.anc[x] = Total(p, I)
    BY <1>7, <2>4
  <2>6. CASE x \in new
    <3>1. x \notin A /\ t \in P
      BY <1>10, <2>3, <2>6
    <3>2. PICK T \in SUBSET Txs : T = {t}
      BY <1>2
    <3>3. I = P \ R /\ AncHalf(par, A, L, x) = P \ L
      BY <2>2, <2>4, <3>1 DEF AncHalf
    <3>4. I \cap T = {} /\ I \cup T = P \ L
      BY <3>1, <3>2, <3>3
    <3>5. q.anc[x] = Plus(Total(p, I), Total(p, T))
      BY <1>6, <2>1, <2>5, <2>6, <3>2
    <3>6. Total(p, I \cup T) = Plus(Total(p, I), Total(p, T))
      BY <1>5, <3>4, TotalUnion
    <3>7. Total(q, I \cup T) = Total(p, I \cup T)
      BY <1>11
    <3>8. QED
      BY <3>3, <3>4, <3>5, <3>6, <3>7
  <2>7. CASE x \notin new
    <3>1. x \in A \/ t \notin P
      BY <1>10, <2>3, <2>7
    <3>2. AncHalf(par, A, L, x) = I
      BY <2>2, <2>4, <3>1 DEF AncHalf
    <3>3. q.anc[x] = p.anc[x]
      BY <1>6, <2>1, <2>7
    <3>4. Total(q, I) = Total(p, I)
      BY <1>11
    <3>5. QED
      BY <2>5, <3>2, <3>3, <3>4
  <2>8. QED
    BY <2>6, <2>7
<1>15. q.anc \in [Txs -> Amounts] /\ q.desc \in [Txs -> Amounts]
  <2>1. PICK T \in SUBSET Txs : T = {t}
    BY <1>2
  <2>2. PICK a \in Amounts : a = Total(p, T)
    BY <1>5, TotalFacts
  <2>3. PICK b \in Amounts : b = Total(p, new)
    BY <1>5, <1>12, TotalFacts
  <2>4. ASSUME NEW x \in Txs PROVE q.anc[x] \in Amounts
    <3>1. p.anc[x] \in Amounts
      BY <1>7
    <3>2. Plus(p.anc[x], a) \in Amounts
      BY <2>2, <3>1, AmountFacts
    <3>3. q.anc[x] = IF x \in new THEN Plus(p.anc[x], a) ELSE p.anc[x]
      BY <1>6, <2>1, <2>2
    <3>4. CASE x \in new
      BY <3>2, <3>3, <3>4
    <3>5. CASE x \notin new
      BY <3>1, <3>3, <3>5
    <3>6. QED
      BY <3>4, <3>5
  <2>5. q.anc = [x \in Txs |-> q.anc[x]]
    BY <1>6
  <2>6. q.anc \in [Txs -> Amounts]
    BY <2>4, <2>5
  <2>7. p.desc[t] \in Amounts
    BY <1>2, <1>7
  <2>8. Plus(p.desc[t], b) \in Amounts
    BY <2>3, <2>7, AmountFacts
  <2>9. q.desc \in [Txs -> Amounts]
    <3>1. PICK e : e = Plus(p.desc[t], b)
      OBVIOUS
    <3>2. q.desc = [p.desc EXCEPT ![t] = e]
      BY <1>6, <2>3, <3>1
    <3>3. e \in Amounts /\ p.desc \in [Txs -> Amounts]
      BY <1>7, <2>8, <3>1
    <3>4. QED
      BY <3>2, <3>3
  <2>10. QED
    BY <2>6, <2>9
<1>16. \A x \in Txs \ txs : q.desc[x] = None
  BY <1>6, <1>7
<1>17. \A x \in txs : q.feeDelta[x] = q.delta[x]
  BY <1>6, <1>7
<1>18. Half(q, par, chi, A, L)
  BY <1>6, <1>13, <1>14, <1>15, <1>16, <1>17 DEF Half
<1>19. Cached(z.cache, chi, txs, A, L)
  <2>1. PICK c : c = z.cache
    OBVIOUS
  <2>2. PICK old : old = DOMAIN s.cache
    OBVIOUS
  <2>3. PICK now : now = old \cup (IF new = {} THEN {} ELSE {t})
    OBVIOUS
  <2>4. c = [x \in now |-> IF x = t THEN new ELSE s.cache[x]]
    BY <2>1, <2>2, <2>3, Zenon DEF Updated
  <2>5. old \subseteq (txs \cap A) \ R /\ \A x \in old : s.cache[x] = Closure(chi, {x}) \ A
    BY <2>2 DEF Cached
  <2>6. DOMAIN c = now /\ \A x \in now : c[x] = IF x = t THEN new ELSE s.cache[x]
    BY <2>4
  <2>7. now \subseteq (txs \cap A) \ L /\ \A x \in now : x = t \/ x \in old
    BY <1>2, <2>3, <2>5
  <2>8. ASSUME NEW x \in now PROVE c[x] = Closure(chi, {x}) \ A
    <3>1. CASE x = t
      BY <1>8, <1>10, <2>6, <3>1
    <3>2. CASE x # t
      BY <2>5, <2>6, <2>7, <3>2
    <3>3. QED
      BY <3>1, <3>2
  <2>9. QED
    BY <2>1, <2>6, <2>7, <2>8 DEF Cached
<1>20. QED
  BY <1>4, <1>18, <1>19

-----------------------------------------------------------------------------
(* UpdateTransactionsFromBlock: the links and the totals together.         *)

\* q is p with the links between t and its children outside block.
Bound(p, t, block, q) ==
  /\ Fields(q) /\ q.txs = p.txs /\ q.feeDelta = p.feeDelta /\ q.delta = p.delta
  /\ q.anc = p.anc /\ q.desc = p.desc
  /\ q.chi = [p.chi EXCEPT ![t] = @ \cup (Children(p, t) \ block)]
  /\ q.par = [x \in Txs |-> IF x \in Children(p, t) \ block THEN p.par[x] \cup {t} ELSE p.par[x]]

\* The members after LinkChildren.
LEMMA LinkFields ==
  ASSUME NEW p, Fields(p), NEW t, NEW block
  PROVE  Bound(p, t, block, LinkChildren(p, t, block))
<1>1. PICK new : new = Children(p, t) \ block
  OBVIOUS
<1>2. PICK chi : chi = [p.chi EXCEPT ![t] = p.chi[t] \cup new]
  OBVIOUS
<1>3. PICK par : par = [x \in Txs |-> IF x \in new THEN p.par[x] \cup {t} ELSE p.par[x]]
  BY Zenon
<1>4. PICK p1 : p1 = [p EXCEPT !.chi = chi]
  OBVIOUS
<1>5. p1 = [txs |-> p.txs, feeDelta |-> p.feeDelta, anc |-> p.anc, desc |-> p.desc,
            par |-> p.par, chi |-> chi, delta |-> p.delta]
  BY <1>4 DEF Fields
<1>6. PICK p2 : p2 = [p1 EXCEPT !.par = par]
  OBVIOUS
<1>7. p2 = [txs |-> p.txs, feeDelta |-> p.feeDelta, anc |-> p.anc, desc |-> p.desc,
            par |-> par, chi |-> chi, delta |-> p.delta]
  BY <1>5, <1>6
<1>8. LinkChildren(p, t, block) = p2
  BY <1>1, <1>2, <1>3, <1>4, <1>6, Zenon DEF LinkChildren
<1>9. /\ Fields(p2) /\ p2.txs = p.txs /\ p2.feeDelta = p.feeDelta /\ p2.delta = p.delta
      /\ p2.anc = p.anc /\ p2.desc = p.desc /\ p2.chi = chi /\ p2.par = par
  BY <1>7 DEF Fields
<1>10. Bound(p, t, block, p2)
  BY <1>1, <1>2, <1>3, <1>9 DEF Bound
<1>11. QED
  BY <1>8, <1>10

\* What was missing to t is there.
LEMMA BoundTied ==
  ASSUME NEW p, NEW R, NEW A, NEW G, NEW X, Tied(p, R, A, G, X), NEW t \in p.txs,
         NEW q, Bound(p, t, A, q), NEW L, L = R \ {t}
  PROVE  Tied(q, L, A, G, X) /\ \A x \in p.txs : q.par[x] \subseteq p.par[x] \cup {t}
<1>1. /\ Sound(p) /\ Linked(p.txs, p.par, R, A) /\ Live(p.txs, G, X) /\ Single(p.txs)
  BY DEF Tied
<1>2. /\ p.feeDelta \in [Txs -> Int] /\ p.delta \in [Txs -> Int]
      /\ p.par \in [Txs -> SUBSET Txs] /\ p.chi \in [Txs -> SUBSET Txs] /\ p.txs \in SUBSET Txs
      /\ \A x, y \in Txs : y \in p.par[x] <=> x \in p.chi[y]
      /\ \A x, y \in Txs : y \in p.par[x] => x \in p.txs /\ y \in p.txs /\ y \in Sources(x)
  BY <1>1 DEF Sound, SoundLinks
<1>3. PICK new : new = Children(p, t) \ A
  OBVIOUS
<1>4. /\ Fields(q) /\ q.txs = p.txs /\ q.feeDelta = p.feeDelta /\ q.delta = p.delta
      /\ q.chi = [p.chi EXCEPT ![t] = p.chi[t] \cup new]
      /\ q.par = [x \in Txs |-> IF x \in new THEN p.par[x] \cup {t} ELSE p.par[x]]
  BY <1>3 DEF Bound
<1>5. /\ t \in Txs /\ new \subseteq p.txs /\ new \subseteq Txs
      /\ \A x \in new : t \in Sources(x)
      /\ \A x \in p.txs : t \in Sources(x) => x \in new \/ x \in A
  BY <1>2, <1>3 DEF Children
<1>6. /\ \A x \in Txs : q.par[x] = IF x \in new THEN p.par[x] \cup {t} ELSE p.par[x]
      /\ q.chi[t] = p.chi[t] \cup new /\ \A x \in Txs \ {t} : q.chi[x] = p.chi[x]
  BY <1>2, <1>4, <1>5
<1>7. q.par \in [Txs -> SUBSET Txs] /\ q.chi \in [Txs -> SUBSET Txs]
  <2>1. ASSUME NEW x \in Txs PROVE q.par[x] \in SUBSET Txs
    <3>1. p.par[x] \subseteq Txs
      BY <1>2
    <3>2. QED
      BY <1>5, <1>6, <3>1
  <2>2. q.par = [x \in Txs |-> q.par[x]]
    BY <1>4
  <2>3. p.chi[t] \cup new \in SUBSET Txs
    <3>1. p.chi[t] \subseteq Txs
      BY <1>2, <1>5
    <3>2. QED
      BY <1>5, <3>1
  <2>4. q.chi \in [Txs -> SUBSET Txs]
    BY <1>2, <1>4, <2>3
  <2>5. q.par \in [Txs -> SUBSET Txs]
    BY <2>1, <2>2
  <2>6. QED
    BY <2>4, <2>5
<1>8. ASSUME NEW x \in Txs, NEW y \in Txs PROVE y \in q.par[x] <=> x \in q.chi[y]
  <2>1. CASE y = t
    <3>1. y \in q.par[x] <=> x \in new \/ y \in p.par[x]
      BY <1>6, <2>1
    <3>2. x \in q.chi[y] <=> x \in new \/ x \in p.chi[y]
      BY <1>6, <2>1
    <3>3. QED
      BY <1>2, <3>1, <3>2
  <2>2. CASE y # t
    <3>1. y \in q.par[x] <=> y \in p.par[x]
      BY <1>6, <2>2
    <3>2. x \in q.chi[y] <=> x \in p.chi[y]
      BY <1>6, <2>2
    <3>3. QED
      BY <1>2, <3>1, <3>2
  <2>3. QED
    BY <2>1, <2>2
<1>9. ASSUME NEW x \in Txs, NEW y \in Txs, y \in q.par[x]
      PROVE  x \in q.txs /\ y \in q.txs /\ y \in Sources(x)
  <2>1. CASE y \in p.par[x]
    BY <1>2, <1>4, <2>1
  <2>2. CASE y \notin p.par[x]
    <3>1. x \in new /\ y = t
      BY <1>6, <1>9, <2>2
    <3>2. QED
      BY <1>4, <1>5, <3>1
  <2>3. QED
    BY <2>1, <2>2
<1>10. Sound(q)
  <2>1. q.txs \in SUBSET Txs
    BY <1>2, <1>4
  <2>2. SoundLinks(q.txs, q.par, q.chi)
    BY <1>7, <1>8, <1>9, <2>1 DEF SoundLinks
  <2>3. q.feeDelta \in [Txs -> Int] /\ q.delta \in [Txs -> Int]
    BY <1>2, <1>4
  <2>4. QED
    BY <1>4, <2>2, <2>3 DEF Sound
<1>11. ASSUME NEW x \in q.txs, NEW y \in q.txs, y \in Sources(x)
       PROVE  y \in q.par[x] \/ (y \in R \ {t} /\ x \notin A)
  <2>1. x \in p.txs /\ y \in p.txs /\ x \in Txs
    BY <1>2, <1>4
  <2>2. y \in p.par[x] \/ (y \in R /\ x \notin A)
    BY <1>1, <1>11, <2>1 DEF Linked
  <2>3. CASE y \in p.par[x]
    BY <1>6, <2>1, <2>3
  <2>4. CASE y \in R /\ x \notin A
    <3>1. CASE y = t
      <4>1. x \in new
        BY <1>5, <1>11, <2>1, <2>4, <3>1
      <4>2. QED
        BY <1>6, <2>1, <3>1, <4>1
    <3>2. CASE y # t
      BY <2>4, <3>2
    <3>3. QED
      BY <3>1, <3>2
  <2>5. QED
    BY <2>2, <2>3, <2>4
<1>12. Linked(q.txs, q.par, L, A)
  BY <1>11 DEF Linked
<1>13. Live(q.txs, G, X) /\ Single(q.txs)
  BY <1>1, <1>4
<1>14. \A x \in p.txs : q.par[x] \subseteq p.par[x] \cup {t}
  BY <1>2, <1>6
<1>15. QED
  BY <1>10, <1>12, <1>13, <1>14 DEF Tied

\* What misses beside that misses on.
LEMMA BoundMissing ==
  ASSUME NEW p, NEW txs, NEW R, NEW A, Missing(p, txs, R, A), NEW G, NEW X, Tied(p, R, A, G, X),
         NEW t \in txs, NEW q, Bound(p, t, A, q), NEW L, L = R \ {t}
  PROVE  Tied(q, L, A, G, X) /\ Missing(q, txs, L, A)
<1>1. p.txs = txs /\ \A x \in txs \ A : p.par[x] \cap R = {}
  BY DEF Missing
<1>2. Tied(q, L, A, G, X) /\ \A x \in txs : q.par[x] \subseteq p.par[x] \cup {t}
  BY <1>1, BoundTied
<1>3. Sound(q) /\ q.txs = txs /\ Linked(txs, q.par, L, A)
  BY <1>1, <1>2 DEF Tied, Bound
<1>4. ASSUME NEW x \in txs \ A PROVE q.par[x] \cap L = {}
  BY <1>1, <1>2
<1>5. QED
  BY <1>2, <1>3, <1>4 DEF Missing

\* The totals do not depend on the links that are there, only on those there will be.
LEMMA HalfSame ==
  ASSUME NEW p, NEW txs, NEW R, NEW A, Missing(p, txs, R, A),
         NEW par, NEW chi, Whole(txs, par, chi, A), Half(p, par, chi, A, R),
         NEW q, q.txs = p.txs, q.feeDelta = p.feeDelta, q.delta = p.delta,
         q.anc = p.anc, q.desc = p.desc
  PROVE  Half(q, par, chi, A, R)
<1>1. p.txs = txs /\ p.feeDelta \in [Txs -> Int]
  BY DEF Missing, Sound
<1>2. txs \in SUBSET Txs /\ par \in [Txs -> SUBSET Txs] /\ chi \in [Txs -> SUBSET Txs]
  BY WholeFacts
<1>3. ASSUME NEW S \in SUBSET Txs PROVE Total(q, S) = Total(p, S)
  BY <1>1, TotalSame
<1>4. ASSUME NEW x \in txs
      PROVE  /\ Total(q, AncHalf(par, A, R, x)) = Total(p, AncHalf(par, A, R, x))
             /\ Total(q, DescHalf(chi, A, R, x)) = Total(p, DescHalf(chi, A, R, x))
  <2>1. Closure(par, {x}) \in SUBSET Txs /\ Closure(chi, {x}) \in SUBSET Txs
    BY <1>2, WholeClosure
  <2>2. PICK I \in SUBSET Txs : I = AncHalf(par, A, R, x)
    BY <2>1 DEF AncHalf
  <2>3. PICK J \in SUBSET Txs : J = DescHalf(chi, A, R, x)
    BY <2>1 DEF DescHalf
  <2>4. Total(q, I) = Total(p, I) /\ Total(q, J) = Total(p, J)
    BY <1>3
  <2>5. QED
    BY <2>2, <2>3, <2>4
<1>5. /\ q.anc \in [Txs -> Amounts] /\ q.desc \in [Txs -> Amounts]
      /\ \A x \in q.txs : /\ q.feeDelta[x] = q.delta[x]
                          /\ q.anc[x] = Total(p, AncHalf(par, A, R, x))
                          /\ q.desc[x] = Total(p, DescHalf(chi, A, R, x))
      /\ \A x \in Txs \ q.txs : q.desc[x] = None
  BY DEF Half
<1>6. \A x \in q.txs : /\ q.feeDelta[x] = q.delta[x]
                       /\ q.anc[x] = Total(q, AncHalf(par, A, R, x))
                       /\ q.desc[x] = Total(q, DescHalf(chi, A, R, x))
  BY <1>1, <1>4, <1>5
<1>7. QED
  BY <1>5, <1>6 DEF Half

\* On the way: links to R are missing, and are not counted.
Linking(s, txs, R, A, G, X, par, chi) ==
  /\ s = [pool |-> s.pool, cache |-> s.cache]
  /\ Tied(s.pool, R, A, G, X) /\ Missing(s.pool, txs, R, A)
  /\ Half(s.pool, par, chi, A, R) /\ Cached(s.cache, chi, txs, A, R)

\* A transaction that is no longer in the pool is left out.
LEMMA SkipStep ==
  ASSUME NEW s, NEW txs, NEW R, NEW A, NEW G, NEW X, NEW par, NEW chi,
         Linking(s, txs, R, A, G, X, par, chi), Whole(txs, par, chi, A),
         NEW t, t \notin txs, NEW L, L = R \ {t}
  PROVE  Linking(s, txs, L, A, G, X, par, chi)
<1>1. PICK p : p = s.pool
  OBVIOUS
<1>2. /\ s = [pool |-> s.pool, cache |-> s.cache] /\ Tied(p, R, A, G, X)
      /\ Missing(p, txs, R, A) /\ Half(p, par, chi, A, R) /\ Cached(s.cache, chi, txs, A, R)
  BY <1>1 DEF Linking
<1>3. p.txs = txs /\ Linked(txs, p.par, R, A) /\ \A x \in txs \ A : p.par[x] \cap R = {}
  BY <1>2 DEF Missing
<1>4. Linked(txs, p.par, L, A)
  BY <1>3 DEF Linked
<1>5. Tied(p, L, A, G, X) /\ Missing(p, txs, L, A)
  BY <1>2, <1>3, <1>4 DEF Tied, Missing
<1>6. ASSUME NEW x \in txs
      PROVE  AncHalf(par, A, L, x) = AncHalf(par, A, R, x) /\ DescHalf(chi, A, L, x) = DescHalf(chi, A, R, x)
  <2>1. Closure(par, {x}) \subseteq txs
    BY WholeClosure
  <2>2. QED
    BY <2>1 DEF AncHalf, DescHalf
<1>7. Half(p, par, chi, A, L)
  BY <1>2, <1>3, <1>6 DEF Half
<1>8. Cached(s.cache, chi, txs, A, L)
  BY <1>2 DEF Cached
<1>9. QED
  BY <1>1, <1>2, <1>5, <1>7, <1>8 DEF Linking

\* One transaction of it.
LEMMA UpdateStep ==
  ASSUME NEW s, NEW txs, NEW R, NEW A, R \subseteq A, NEW G, NEW X, NEW par, NEW chi,
         Linking(s, txs, R, A, G, X, par, chi), Whole(txs, par, chi, A), NEW t \in R,
         NEW L, L = R \ {t}, \A x \in txs \ L : chi[x] \cap L = {}
  PROVE  Linking(UpdateFromBlock(s, t, A), txs, L, A, G, X, par, chi)
<1>1. /\ s = [pool |-> s.pool, cache |-> s.cache] /\ Tied(s.pool, R, A, G, X)
      /\ Missing(s.pool, txs, R, A) /\ Half(s.pool, par, chi, A, R)
      /\ Cached(s.cache, chi, txs, A, R)
  BY DEF Linking
<1>2. s.pool.txs = txs
  BY <1>1 DEF Missing
<1>3. PICK z : z = UpdateFromBlock(s, t, A)
  OBVIOUS
<1>4. CASE t \notin txs
  <2>1. z = s
    BY <1>2, <1>3, <1>4 DEF UpdateFromBlock
  <2>2. Linking(s, txs, L, A, G, X, par, chi)
    BY <1>4, SkipStep
  <2>3. QED
    BY <1>3, <2>1, <2>2
<1>5. CASE t \in txs
  <2>1. PICK p : p = LinkChildren(s.pool, t, A)
    OBVIOUS
  <2>2. PICK r : r = [s EXCEPT !.pool = p]
    OBVIOUS
  <2>3. r = [pool |-> p, cache |-> s.cache] /\ r.pool = p /\ r.cache = s.cache
    BY <1>1, <2>2
  <2>4. z = UpdateForDescendants(r, t, A)
    BY <1>2, <1>3, <1>5, <2>1, <2>2, Zenon DEF UpdateFromBlock
  <2>5. Bound(s.pool, t, A, p)
    BY <1>1, <2>1, LinkFields DEF Tied, Sound
  <2>6. Tied(p, L, A, G, X) /\ Missing(p, txs, L, A)
    BY <1>1, <1>5, <2>5, BoundMissing
  <2>7. Half(p, par, chi, A, R)
    BY <1>1, <2>5, HalfSame DEF Bound
  <2>8. PICK new : new = Found(r, t, A)
    OBVIOUS
  <2>9. Updated(r, t, new, z)
    <3>1. Fields(r.pool)
      BY <2>3, <2>5 DEF Bound
    <3>2. QED
      BY <2>4, <2>8, <3>1, UpdatedFields
  <2>10. Half(z.pool, par, chi, A, L) /\ Cached(z.cache, chi, txs, A, L)
    <3>1. Missing(r.pool, txs, L, A) /\ Half(r.pool, par, chi, A, R) /\ Cached(r.cache, chi, txs, A, R)
      BY <1>1, <2>3, <2>6, <2>7
    <3>2. QED
      BY <1>5, <2>8, <2>9, <3>1, HalfStep
  <2>11. PICK q : q = z.pool
    OBVIOUS
  <2>12. /\ Fields(q) /\ q.txs = p.txs /\ q.feeDelta = p.feeDelta /\ q.delta = p.delta
         /\ q.par = p.par /\ q.chi = p.chi /\ z = [pool |-> z.pool, cache |-> z.cache]
    BY <2>3, <2>9, <2>11 DEF Updated
  <2>13. Sound(q)
    BY <2>6, <2>12 DEF Tied, Sound
  <2>14. Tied(q, L, A, G, X) /\ Missing(q, txs, L, A)
    BY <2>6, <2>12, <2>13 DEF Tied, Missing
  <2>15. Linking(z, txs, L, A, G, X, par, chi)
    BY <2>10, <2>11, <2>12, <2>14 DEF Linking
  <2>16. QED
    BY <1>3, <2>15
<1>6. QED
  BY <1>4, <1>5

\* All of it, from the youngest to the oldest: no link misses, and all is counted.
LEMMA UpdateFit ==
  ASSUME NEW p, NEW h \in Seq(Txs), NEW G, NEW X, Fit(p, ToSet(h), ToSet(h), G, X),
         InOrder(h), Waiting(p, ToSet(h)),
         \A x \in p.txs \ ToSet(h) : p.chi[x] \cap ToSet(h) = {}
  PROVE  /\ Fit(UpdateTransactionsFromBlock(p, h), {}, {}, G, X)
         /\ UpdateTransactionsFromBlock(p, h).txs = p.txs
<1>1. PICK A : A = ToSet(h)
  OBVIOUS
<1>2. PICK v : v = Reverse(h)
  OBVIOUS
<1>3. Backwards(h, v) /\ ToSet(v) = A /\ v \in Seq(Txs)
  BY <1>1, <1>2, ReverseFacts
<1>4. PICK K \in Nat : K = Len(v)
  BY <1>3
<1>5. ToSet(v) = {v[i] : i \in 1..K}
  BY <1>3, <1>4, SetOfSeq
<1>6. PICK c : c = [x \in {} |-> {}]
  BY Zenon
<1>7. PICK r : r = [pool |-> p, cache |-> c]
  OBVIOUS
<1>8. PICK f : UpdateRun(r, v, A, f)
  BY <1>4, UpdateSteps
<1>9. /\ f[0] = r /\ UpdateAll(r, v, A) = f[K]
      /\ \A i \in 1..K : f[i] = UpdateFromBlock(f[i - 1], v[i], A)
  BY <1>4, <1>8 DEF UpdateRun
<1>10. UpdateTransactionsFromBlock(p, h) = f[K].pool
  <2>1. UpdateTransactionsFromBlock(p, h)
        = UpdateAll([pool |-> p, cache |-> [x \in {} |-> {}]], Reverse(h), ToSet(h)).pool
    BY Zenon DEF UpdateTransactionsFromBlock, UpdateAll
  <2>2. [pool |-> p, cache |-> [x \in {} |-> {}]] = r
    BY <1>6, <1>7, Zenon
  <2>3. QED
    BY <1>1, <1>2, <1>9, <2>1, <2>2, Zenon
<1>11. PICK txs : txs = p.txs
  OBVIOUS
<1>12. /\ Tied(p, A, A, G, X) /\ Summed(p) /\ Missing(p, txs, A, A)
       /\ \A x \in txs \ A : p.chi[x] \cap A = {}
  BY <1>1, <1>11 DEF Fit, Tied, Waiting, Missing
<1>13. PICK par, chi : Whole(txs, par, chi, A)
  BY <1>12, WholeExists
<1>14. \A i, j \in 1..K : i < j => v[i] # v[j] /\ v[i] \notin Sources(v[j])
  <2>1. ASSUME NEW i \in 1..K, NEW j \in 1..K, i < j
        PROVE  v[i] # v[j] /\ v[i] \notin Sources(v[j])
    <3>1. PICK m : m = K - i + 1
      OBVIOUS
    <3>2. PICK n : n = K - j + 1
      OBVIOUS
    <3>3. i \in Int /\ j \in Int
      OBVIOUS
    <3>4. m \in 1..K /\ n \in 1..K /\ n < m
      BY <2>1, <3>1, <3>2, <3>3
    <3>5. K = Len(h) /\ v[i] = h[m] /\ v[j] = h[n]
      BY <1>3, <1>4, <3>1, <3>2 DEF Backwards
    <3>6. h[n] # h[m] /\ h[m] \notin Sources(h[n])
      BY <3>4, <3>5 DEF InOrder
    <3>7. QED
      BY <3>5, <3>6
  <2>2. QED
    BY <2>1
<1> DEFINE Rem(n) == {v[i] : i \in (n + 1)..K}
           OK(n) == Linking(f[n], txs, Rem(n), A, G, X, par, chi)
           N == {n \in 0..K : OK(n)}
<1>15. Rem(0) = A
  <2>1. (0 + 1)..K = 1..K
    OBVIOUS
  <2>2. QED
    BY <1>3, <1>5, <2>1
<1>16. Rem(K) = {}
  <2>1. (K + 1)..K = {}
    OBVIOUS
  <2>2. QED
    BY <2>1
<1>17. ASSUME NEW n \in 0..K, n < K
       PROVE  /\ Rem(n + 1) = Rem(n) \ {v[n + 1]} /\ v[n + 1] \in Rem(n) /\ Rem(n) \subseteq A
  <2>1. n \in Nat /\ n + 1 \in 1..K
    BY <1>17
  <2>2. (n + 1)..K = ((n + 1) + 1)..K \cup {n + 1}
    BY <2>1
  <2>3. Rem(n) = Rem(n + 1) \cup {v[n + 1]}
    BY <2>2
  <2>4. \A j \in ((n + 1) + 1)..K : j \in 1..K /\ n + 1 < j
    BY <2>1
  <2>5. v[n + 1] \notin Rem(n + 1)
    BY <1>14, <2>1, <2>4
  <2>6. \A j \in (n + 1)..K : j \in 1..K
    BY <2>1
  <2>7. Rem(n) \subseteq A
    BY <1>3, <1>5, <2>6
  <2>8. QED
    BY <2>3, <2>5, <2>7
<1>18. ASSUME NEW n \in 0..K, NEW x \in txs \ Rem(n), NEW y \in chi[x], y \in Rem(n) PROVE FALSE
  <2>1. /\ chi \in [Txs -> SUBSET Txs] /\ txs \in SUBSET Txs
        /\ \A u \in txs \ A : chi[u] \subseteq txs \ A
        /\ Dual(par, chi) /\ \A u \in Txs : par[u] \subseteq txs /\ chi[u] \subseteq txs
        /\ \A u, w \in txs : w \in Sources(u) <=> w \in par[u]
    BY <1>13, WholeFacts
  <2>2. n \in Int /\ n >= 0
    OBVIOUS
  <2>3. PICK j \in (n + 1)..K : y = v[j]
    BY <1>18
  <2>4. j \in Int /\ j \in 1..K /\ n < j
    BY <2>2, <2>3
  <2>5. y \in A
    BY <1>3, <1>5, <2>3, <2>4
  <2>6. x \in txs /\ x \in Txs /\ y \in txs /\ y \in Txs
    BY <1>18, <2>1
  <2>7. x \in A
    BY <1>18, <2>1, <2>5, <2>6
  <2>8. x \in Sources(y)
    BY <1>18, <2>1, <2>6 DEF Dual
  <2>9. PICK i \in 1..K : x = v[i]
    BY <1>3, <1>5, <2>7
  <2>10. i \in Int /\ i <= n
    <3>1. i \in Int
      OBVIOUS
    <3>2. i \notin (n + 1)..K
      BY <1>18, <2>9
    <3>3. QED
      BY <2>2, <3>1, <3>2
  <2>11. i < j
    BY <2>2, <2>4, <2>10
  <2>12. QED
    BY <1>14, <2>3, <2>4, <2>8, <2>9, <2>11
<1>19. 0 \in N
  <2>1. r = [pool |-> r.pool, cache |-> r.cache] /\ r.pool = p /\ r.cache = c
    BY <1>7
  <2>2. Half(p, par, chi, A, A)
    BY <1>12, <1>13, HalfFirst
  <2>3. Cached(c, chi, txs, A, A)
    BY <1>6 DEF Cached
  <2>4. Linking(r, txs, A, A, G, X, par, chi)
    BY <1>12, <2>1, <2>2, <2>3 DEF Linking
  <2>5. OK(0)
    <3> HIDE DEF Rem
    <3> QED BY <1>9, <1>15, <2>4
  <2>6. QED
    BY <2>5
<1>20. ASSUME NEW n \in N, n < K PROVE n + 1 \in N
  <2>1. n \in 0..K /\ n \in Nat /\ n + 1 \in 1..K /\ n + 1 \in 0..K /\ n + 1 - 1 = n
    BY <1>20
  <2>2. PICK e : e = f[n]
    OBVIOUS
  <2>3. PICK t : t = v[n + 1]
    OBVIOUS
  <2>4. PICK R : R = Rem(n)
    OBVIOUS
  <2>5. PICK L : L = Rem(n + 1)
    OBVIOUS
  <2>6. R \subseteq A /\ t \in R /\ L = R \ {t}
    <3> HIDE DEF Rem
    <3> QED BY <1>17, <1>20, <2>1, <2>3, <2>4, <2>5
  <2>7. \A x \in txs \ L : chi[x] \cap L = {}
    <3> HIDE DEF Rem
    <3> QED BY <1>18, <2>1, <2>5
  <2>8. Linking(e, txs, R, A, G, X, par, chi)
    BY <1>20, <2>2, <2>4
  <2>9. Linking(UpdateFromBlock(e, t, A), txs, L, A, G, X, par, chi)
    BY <1>13, <2>6, <2>7, <2>8, UpdateStep
  <2>10. f[n + 1] = UpdateFromBlock(e, t, A)
    BY <1>9, <2>1, <2>2, <2>3
  <2>11. OK(n + 1)
    <3> HIDE DEF Rem
    <3> QED BY <2>5, <2>9, <2>10
  <2>12. QED
    BY <2>1, <2>11
<1>21. N \in SUBSET (0..K)
  OBVIOUS
<1>22. N = 0..K
  <2> HIDE DEF N
  <2> QED BY <1>19, <1>20, <1>21, UpTo
<1>23. K \in N
  <2> HIDE DEF N
  <2> QED BY <1>22
<1>24. OK(K)
  BY <1>23
<1>25. Linking(f[K], txs, {}, A, G, X, par, chi)
  <2> HIDE DEF Rem
  <2> QED BY <1>16, <1>24
<1>26. PICK q : q = f[K].pool
  OBVIOUS
<1>27. Tied(q, {}, A, G, X) /\ Missing(q, txs, {}, A) /\ Half(q, par, chi, A, {})
  BY <1>25, <1>26 DEF Linking
<1>28. Summed(q) /\ q.txs = txs
  BY <1>13, <1>27, HalfLast DEF Missing
<1>29. Linked(q.txs, q.par, {}, {})
  BY <1>27 DEF Tied, Linked
<1>30. Fit(q, {}, {}, G, X)
  BY <1>27, <1>28, <1>29 DEF Fit, Tied
<1>31. QED
  BY <1>10, <1>11, <1>26, <1>28, <1>30

\* removeForReorg takes out what is too early for the next block.
LEMMA ReorgRest ==
  ASSUME NEW p, NEW b, Fit(p, {}, {}, Base(b), InChain(b)), p.txs \cap InChain(b) = {}
  PROVE  Rest(removeForReorg(p, b), b)
<1>1. PICK T : T = {t \in p.txs : \/ ~Final(b, t)
                                  \/ /\ \E s \in Sources(t) : s < 0
                                     /\ \E o \in Spends(t) : /\ o[1] \notin p.txs
                                                             /\ ~HaveCoin(b, o) \/ ~Mature(b, o)}
  OBVIOUS
<1>2. PICK q : q = RemoveStaged(p, CalculateDescendants(p, T), FALSE)
  OBVIOUS
<1>3. q = removeForReorg(p, b)
  BY <1>1, <1>2, Zenon DEF removeForReorg
<1>4. T \in SUBSET p.txs
  BY <1>1
<1>5. Pruned(p, T, {}, {}, Base(b), InChain(b), q)
  BY <1>2, <1>4, DescendantsCutLinked
<1>6. /\ Fit(q, {}, {}, Base(b), InChain(b)) /\ q.txs \subseteq p.txs /\ T \cap q.txs = {}
  BY <1>5 DEF Pruned, Less
<1>7. p.txs \subseteq Txs
  BY DEF Fit, Tied, Sound, SoundLinks
<1>8. ASSUME NEW x \in q.txs PROVE InTime(b, x)
  <2>1. x \in p.txs /\ x \notin T /\ x \in Txs
    BY <1>6, <1>7
  <2>2. Final(b, x)
    BY <1>1, <2>1
  <2>3. ASSUME NEW o \in Spends(x), ~Mature(b, o) PROVE FALSE
    <3>1. o[1] < 0 /\ o[1] \in Sources(x)
      BY <2>3 DEF Mature, Sources
    <3>2. o[1] \notin p.txs
      <4>1. \A n \in Nat : ~(n < 0)
        OBVIOUS
      <4>2. \A n \in p.txs : ~(n < 0)
        BY <1>7, <4>1, TxFacts
      <4>3. QED
        BY <3>1, <4>2
    <3>3. QED
      BY <1>1, <2>1, <2>3, <3>1, <3>2
  <2>4. QED
    BY <2>2, <2>3 DEF InTime
<1>9. QED
  BY <1>3, <1>6, <1>8 DEF Rest

\* Everything together leads to a pool at rest.
LEMMA ReaddedRest ==
  ASSUME NEW s, NEW T \in Blocks, OnTheWay(s, T), NEW add,
         NEW q \in UpdateMempoolForReorg(s, add)
  PROVE  Rest(q, s.tip)
<1>1. PICK b : b = s.tip
  OBVIOUS
<1>2. PICK v : v = Reverse(s.queued)
  OBVIOUS
<1>3. PICK m : m = [pool |-> s.pool, update |-> <<>>]
  OBVIOUS
<1>4. PICK r : r = ReaddAll(m, v, b, add)
  OBVIOUS
<1>5. Back(r, {}, b, T)
  BY <1>1, <1>2, <1>3, <1>4, ReaddAllBack
<1>6. PICK p : p = UpdateTransactionsFromBlock(r.pool, r.update)
  OBVIOUS
<1>7. p = Readded(s, add)
  BY <1>1, <1>2, <1>3, <1>4, <1>6, Zenon DEF Readded, ReaddAll, InTurn
<1>8. /\ r.update \in Seq(Txs) /\ r.pool.txs \cap InChain(b) = {}
      /\ Fit(r.pool, ToSet(r.update), ToSet(r.update), Base(b), InChain(b))
  <2>1. Base(b) \cup {} = Base(b)
    OBVIOUS
  <2>2. QED
    BY <1>5, <2>1 DEF Back
<1>9. Fit(p, {}, {}, Base(b), InChain(b)) /\ p.txs = r.pool.txs
  <2>1. PICK e : e = r.pool
    OBVIOUS
  <2>2. PICK h \in Seq(Txs) : h = r.update
    BY <1>8
  <2>3. Fit(e, ToSet(h), ToSet(h), Base(b), InChain(b))
    BY <1>8, <2>1, <2>2
  <2>4. InOrder(h) /\ Waiting(e, ToSet(h))
    BY <1>5, <2>1, <2>2 DEF Back
  <2>5. \A x \in e.txs \ ToSet(h) : e.chi[x] \cap ToSet(h) = {}
    BY <1>5, <2>1, <2>2, NoParentsOutside
  <2>6. PICK G : G = Base(b)
    OBVIOUS
  <2>7. PICK X : X = InChain(b)
    OBVIOUS
  <2>8. PICK z : z = UpdateTransactionsFromBlock(e, h)
    OBVIOUS
  <2>9. Fit(e, ToSet(h), ToSet(h), G, X)
    BY <2>3, <2>6, <2>7
  <2>10. Fit(z, {}, {}, G, X) /\ z.txs = e.txs
    BY <2>4, <2>5, <2>8, <2>9, UpdateFit
  <2>11. QED
    BY <1>6, <2>1, <2>2, <2>6, <2>7, <2>8, <2>10
<1>10. PICK z : z = removeForReorg(p, b)
  OBVIOUS
<1>11. Rest(z, b)
  BY <1>8, <1>9, <1>10, ReorgRest
<1>12. q \in LimitMempoolSize(z)
  BY <1>1, <1>7, <1>10 DEF UpdateMempoolForReorg
<1>13. QED
  BY <1>1, <1>11, <1>12, LimitRest

-----------------------------------------------------------------------------
(* The steps.                                                              *)

\* No transactions: nothing to show.
LEMMA EmptyRest == Rest(EmptyPool, 0)
<1>1. PICK none : none = [t \in Txs |-> None]
  BY Zenon
<1>2. PICK zero : zero = [t \in Txs |-> 0]
  BY Zenon
<1>3. PICK no : no = [t \in Txs |-> {}]
  BY Zenon
<1>4. PICK p : p = EmptyPool
  OBVIOUS
<1>5. p = [txs |-> {}, feeDelta |-> zero, anc |-> none, desc |-> none,
           par |-> no, chi |-> no, delta |-> zero]
  BY <1>1, <1>2, <1>3, <1>4, Zenon DEF EmptyPool
<1>6. /\ Fields(p) /\ p.txs = {} /\ p.feeDelta = zero /\ p.delta = zero
      /\ p.par = no /\ p.chi = no /\ p.anc = none /\ p.desc = none
  BY <1>5 DEF Fields
<1>7. zero \in [Txs -> Int] /\ no \in [Txs -> SUBSET Txs] /\ \A x \in Txs : no[x] = {}
  BY <1>2, <1>3
<1>8. SoundLinks(p.txs, p.par, p.chi)
  BY <1>6, <1>7 DEF SoundLinks
<1>9. Sound(p)
  BY <1>6, <1>7, <1>8 DEF Sound
<1>10. Linked(p.txs, p.par, {}, {}) /\ Live(p.txs, Base(0), InChain(0)) /\ Single(p.txs)
  BY <1>6 DEF Linked, Live, Single
<1>11. Summed(p)
  <2>1. None \in Amounts
    BY DEF None, Amounts
  <2>2. none \in [Txs -> Amounts] /\ \A x \in Txs : none[x] = None
    BY <1>1, <2>1
  <2>3. QED
    BY <1>6, <2>2 DEF Summed
<1>12. QED
  BY <1>4, <1>6, <1>9, <1>10, <1>11 DEF Rest, Fit, Tied

\* A block more makes no transaction early.
LEMMA LaterInTime ==
  ASSUME NEW b \in Blocks \ {0}, NEW p, Rest(p, Parent[b]), NEW x \in p.txs
  PROVE  InTime(b, x)
<1>1. PICK a \in Blocks : a = Parent[b]
  BY TreeFacts
<1>2. PICK h \in Nat : h = Height[a]
  BY HeightFacts
<1>3. Height[b] = h + 1
  BY <1>1, <1>2, TreeFacts
<1>4. InTime(a, x) /\ Live(p.txs, Base(a), InChain(a)) /\ p.txs \subseteq Txs
  BY <1>1 DEF Rest, Fit, Tied, Sound, SoundLinks
<1>5. Final(b, x)
  <2>1. PICK l \in Nat : l = LockTime[x]
    BY <1>4, MempoolAssumption
  <2>2. l < h + 1
    BY <1>2, <1>4, <2>1 DEF InTime, Final
  <2>3. l < h + 1 + 1
    BY <2>2
  <2>4. QED
    BY <1>3, <2>1, <2>3 DEF Final
<1>6. ASSUME NEW o \in Spends(x), o[1] < 0 PROVE Height[b] + 1 - Height[-o[1]] >= Maturity
  <2>1. o[1] \notin p.txs
    <3>1. \A n \in Nat : ~(n < 0)
      OBVIOUS
    <3>2. \A n \in p.txs : ~(n < 0)
      BY <1>4, <3>1, TxFacts
    <3>3. QED
      BY <1>6, <3>2
  <2>2. o[1] \in Base(a)
    BY <1>4, <2>1 DEF Live
  <2>3. -o[1] \in Blocks
    BY <1>6, <2>2, InChainFacts
  <2>4. PICK g \in Nat : g = Height[-o[1]]
    BY <2>3, HeightFacts
  <2>5. PICK m \in Nat : m = Maturity
    BY MempoolAssumption
  <2>6. h + 1 - g >= m
    BY <1>2, <1>4, <1>6, <2>4, <2>5 DEF InTime, Mature
  <2>7. h + 1 + 1 - g >= m
    BY <2>6
  <2>8. QED
    BY <1>3, <2>4, <2>5, <2>7
<1>7. QED
  BY <1>5, <1>6 DEF InTime, Mature

\* A block is connected to the tip.
LEMMA ConnectRest ==
  ASSUME NEW b \in Blocks \ {0}, NEW p, Rest(p, Parent[b])
  PROVE  Rest(removeForBlock(p, Vtx[b]), b)
<1>1. PICK q : q = removeForBlock(p, Vtx[b])
  OBVIOUS
<1>2. PICK V : V = ToSet(Vtx[b])
  OBVIOUS
<1>3. PICK a : a = Parent[b]
  OBVIOUS
<1>4. Fit(p, {}, {}, Base(a), InChain(a)) /\ p.txs \cap InChain(a) = {}
  BY <1>3 DEF Rest
<1>5. Fit(q, {}, {}, Base(a) \cup V, InChain(b)) /\ Less(p, q) /\ q.txs \cap V = {}
  BY <1>1, <1>2, <1>3, <1>4, BlockFit
<1>6. InChain(b) = InChain(a) \cup V /\ Base(b) = Base(a) \cup V \cup {-b}
  BY <1>2, <1>3, InChainStep
<1>7. Fit(q, {}, {}, Base(b), InChain(b))
  <2>1. PICK G : G = Base(a) \cup V
    OBVIOUS
  <2>2. G \subseteq Base(b) /\ InChain(b) \subseteq InChain(b)
    BY <1>6, <2>1
  <2>3. Fit(q, {}, {}, G, InChain(b))
    BY <1>5, <2>1
  <2>4. QED
    BY <2>2, <2>3, FitWeaker
<1>8. q.txs \subseteq p.txs
  BY <1>5 DEF Less
<1>9. q.txs \cap InChain(b) = {}
  BY <1>4, <1>5, <1>6, <1>8
<1>10. \A x \in q.txs : InTime(b, x)
  BY <1>8, LaterInTime
<1>11. QED
  BY <1>1, <1>7, <1>9, <1>10 DEF Rest

\* Blocks are disconnected, others connected, and transactions come back.
LEMMA ReorganizeRest ==
  ASSUME NEW s, NEW T \in Blocks, s = [tip |-> T, pool |-> s.pool, queued |-> <<>>],
         Rest(s.pool, T), NEW b \in Blocks, NEW add,
         NEW q \in UpdateMempoolForReorg(Connected(Disconnected(s, b), b), add)
  PROVE  Rest(q, b)
<1>1. s.tip = T /\ s.queued = <<>>
  OBVIOUS
<1>2. <<>> \in Seq(Int) /\ ToSet(<<>>) = {} /\ Orderly(<<>>)
  BY DEF ToSet, Orderly
<1>3. /\ Fit(s.pool, {}, {}, Base(T), InChain(T)) /\ s.pool.txs \cap InChain(T) = {}
  BY DEF Rest
<1>4. T \in ChainOf(T)
  BY ChainFacts
<1>5. OnTheWay(s, T)
  <2>1. Base(T) \cup {} = Base(T)
    OBVIOUS
  <2>2. QED
    BY <1>1, <1>2, <1>3, <2>1 DEF OnTheWay
<1>6. Down(s, T)
  BY <1>1, <1>2, <1>4, <1>5 DEF Down
<1>7. PICK d : d = Disconnected(s, b)
  OBVIOUS
<1>8. Down(d, T) /\ d.tip \in ChainOf(b)
  BY <1>6, <1>7, DisconnectedDown
<1>9. PICK c : c = Connected(d, b)
  OBVIOUS
<1>10. OnTheWay(c, T) /\ c.tip = b
  BY <1>8, <1>9, ConnectedUp DEF Down
<1>11. q \in UpdateMempoolForReorg(c, add)
  BY <1>7, <1>9
<1>12. Rest(q, c.tip)
  BY <1>10, <1>11, ReaddedRest
<1>13. QED
  BY <1>10, <1>12

\* q is p with priority d for t, which is in the pool.
Prioritised(p, t, d, q) ==
  /\ q.txs = p.txs /\ q.par = p.par /\ q.chi = p.chi
  /\ q.delta = [p.delta EXCEPT ![t] = d] /\ q.feeDelta = [p.feeDelta EXCEPT ![t] = d]
  /\ q.desc = [x \in Txs |-> IF x \in LinkedAncestors(p, t) \cup {t}
                             THEN Plus(p.desc[x], [n |-> 0, fee |-> d - p.delta[t]]) ELSE p.desc[x]]
  /\ q.anc = [x \in Txs |-> IF x \in CalculateDescendants(p, {t})
                            THEN Plus(p.anc[x], [n |-> 0, fee |-> d - p.delta[t]]) ELSE p.anc[x]]

\* Each total that counts t changes with it, and no other.
LEMMA PrioritisedSums ==
  ASSUME NEW p, Sound(p), Summed(p), NEW t \in p.txs, NEW d \in Int, NEW q, Prioritised(p, t, d, q)
  PROVE  Summed(q)
<1>1. /\ p.feeDelta \in [Txs -> Int] /\ p.delta \in [Txs -> Int] /\ p.txs \in SUBSET Txs
  BY DEF Sound, SoundLinks
<1>2. PICK par \in [Txs -> SUBSET Txs] : par = p.par
  BY PoolLinks DEF Dual
<1>3. PICK chi \in [Txs -> SUBSET Txs] : chi = p.chi
  BY PoolLinks DEF Dual
<1>4. Dual(par, chi) /\ \A x \in Txs : par[x] \subseteq p.txs /\ chi[x] \subseteq p.txs
  BY <1>2, <1>3, PoolLinks
<1>5. t \in Txs
  BY <1>1
<1>6. /\ p.anc \in [Txs -> Amounts] /\ p.desc \in [Txs -> Amounts]
      /\ \A x \in p.txs : /\ p.feeDelta[x] = p.delta[x]
                          /\ p.anc[x] = Total(p, Closure(par, {x}))
                          /\ p.desc[x] = Total(p, Closure(chi, {x}))
      /\ \A x \in Txs \ p.txs : p.desc[x] = None
  BY <1>2, <1>3 DEF Summed
<1>7. PICK more : more = [n |-> 0, fee |-> d - p.feeDelta[t]]
  OBVIOUS
<1>8. more \in Amounts
  <2>1. p.feeDelta[t] \in Int
    BY <1>1, <1>5
  <2>2. QED
    BY <1>7, <2>1 DEF Amounts
<1>9. PICK U \in SUBSET Txs : U = Closure(par, {t})
  BY <1>5, ClosureOfOne
<1>10. PICK D \in SUBSET Txs : D = Closure(chi, {t})
  BY <1>5, ClosureOfOne
<1>11. LinkedAncestors(p, t) \cup {t} = U /\ CalculateDescendants(p, {t}) = D
  <2>1. U = {t} \cup Closure(par, par[t])
    BY <1>5, <1>9, ClosureOfOne
  <2>2. QED
    BY <1>2, <1>3, <1>10, <2>1 DEF LinkedAncestors, CalculateDescendants
<1>12. /\ q.txs = p.txs /\ q.par = par /\ q.chi = chi
       /\ q.delta = [p.delta EXCEPT ![t] = d] /\ q.feeDelta = [p.feeDelta EXCEPT ![t] = d]
  BY <1>2, <1>3 DEF Prioritised
<1>13. q.desc = [x \in Txs |-> IF x \in U THEN Plus(p.desc[x], more) ELSE p.desc[x]]
  BY <1>6, <1>7, <1>11, Zenon DEF Prioritised
<1>14. q.anc = [x \in Txs |-> IF x \in D THEN Plus(p.anc[x], more) ELSE p.anc[x]]
  BY <1>6, <1>7, <1>11, Zenon DEF Prioritised
<1>15. ASSUME NEW S \in SUBSET Txs
       PROVE  Total(q, S) = IF t \in S THEN Plus(Total(p, S), more) ELSE Total(p, S)
  <2>1. p.feeDelta \in [Txs -> Int]
    BY <1>1
  <2>2. q.feeDelta = [p.feeDelta EXCEPT ![t] = d]
    BY <1>12
  <2>3. Changed(p, q, t, d, S)
    BY <1>5, <2>1, <2>2, TotalChanged
  <2>4. QED
    BY <1>7, <2>3 DEF Changed
<1>16. ASSUME NEW x \in p.txs
       PROVE  /\ q.feeDelta[x] = q.delta[x] /\ q.anc[x] = Total(q, Closure(par, {x}))
              /\ q.desc[x] = Total(q, Closure(chi, {x}))
  <2>1. x \in Txs
    BY <1>1
  <2>2. PICK P \in SUBSET Txs : P = Closure(par, {x})
    BY <2>1, ClosureOfOne
  <2>3. PICK C \in SUBSET Txs : C = Closure(chi, {x})
    BY <2>1, ClosureOfOne
  <2>4. t \in P <=> x \in D
    BY <1>4, <1>5, <1>10, <2>1, <2>2, ClosureDual
  <2>5. t \in C <=> x \in U
    BY <1>4, <1>5, <1>9, <2>1, <2>3, ClosureDual
  <2>6. p.anc[x] = Total(p, P) /\ p.desc[x] = Total(p, C)
    BY <1>6, <2>2, <2>3
  <2>7. q.anc[x] = IF t \in P THEN Plus(Total(p, P), more) ELSE Total(p, P)
    BY <1>14, <2>1, <2>4, <2>6
  <2>8. q.desc[x] = IF t \in C THEN Plus(Total(p, C), more) ELSE Total(p, C)
    BY <1>13, <2>1, <2>5, <2>6
  <2>9. q.anc[x] = Total(q, P) /\ q.desc[x] = Total(q, C)
    BY <1>15, <2>7, <2>8
  <2>10. q.feeDelta[x] = q.delta[x]
    BY <1>1, <1>5, <1>6, <1>12, <2>1, ZenonT(40)
  <2>11. QED
    BY <2>2, <2>3, <2>9, <2>10
<1>17. q.anc \in [Txs -> Amounts] /\ q.desc \in [Txs -> Amounts]
  <2>1. ASSUME NEW x \in Txs
        PROVE  /\ (IF x \in U THEN Plus(p.desc[x], more) ELSE p.desc[x]) \in Amounts
               /\ (IF x \in D THEN Plus(p.anc[x], more) ELSE p.anc[x]) \in Amounts
    <3>1. p.anc[x] \in Amounts /\ p.desc[x] \in Amounts
      BY <1>6
    <3>2. Plus(p.anc[x], more) \in Amounts /\ Plus(p.desc[x], more) \in Amounts
      BY <1>8, <3>1, AmountFacts
    <3>3. QED
      BY <3>1, <3>2
  <2>2. QED
    BY <1>13, <1>14, <2>1
<1>18. ASSUME NEW x \in Txs \ p.txs PROVE q.desc[x] = None
  <2>1. U \subseteq p.txs
    <3>1. {t} \subseteq p.txs /\ p.txs \subseteq Txs
      BY <1>1
    <3>2. QED
      BY <1>4, <1>9, <3>1, ClosureLeast
  <2>2. QED
    BY <1>6, <1>13, <2>1
<1>19. QED
  BY <1>12, <1>16, <1>17, <1>18 DEF Summed

\* A priority for what is not in the pool changes no total.
LEMMA OtherPrioritised ==
  ASSUME NEW p, Sound(p), Summed(p), NEW t \in Txs, t \notin p.txs, NEW d, NEW q,
         q.txs = p.txs, q.par = p.par, q.chi = p.chi, q.anc = p.anc, q.desc = p.desc,
         q.feeDelta = p.feeDelta, q.delta = [p.delta EXCEPT ![t] = d]
  PROVE  Summed(q)
<1>1. /\ p.feeDelta \in [Txs -> Int] /\ p.delta \in [Txs -> Int] /\ p.txs \in SUBSET Txs
  BY DEF Sound, SoundLinks
<1>2. PICK par \in [Txs -> SUBSET Txs] : par = p.par
  BY PoolLinks DEF Dual
<1>3. PICK chi \in [Txs -> SUBSET Txs] : chi = p.chi
  BY PoolLinks DEF Dual
<1>4. /\ p.anc \in [Txs -> Amounts] /\ p.desc \in [Txs -> Amounts]
      /\ \A x \in p.txs : /\ p.feeDelta[x] = p.delta[x]
                          /\ p.anc[x] = Total(p, Closure(par, {x}))
                          /\ p.desc[x] = Total(p, Closure(chi, {x}))
      /\ \A x \in Txs \ p.txs : p.desc[x] = None
  BY <1>2, <1>3 DEF Summed
<1>5. ASSUME NEW S \in SUBSET Txs PROVE Total(q, S) = Total(p, S)
  BY <1>1, TotalSame
<1>6. ASSUME NEW x \in p.txs
      PROVE  /\ q.feeDelta[x] = q.delta[x] /\ q.anc[x] = Total(q, Closure(par, {x}))
             /\ q.desc[x] = Total(q, Closure(chi, {x}))
  <2>1. x \in Txs /\ x # t
    BY <1>1
  <2>2. PICK P \in SUBSET Txs : P = Closure(par, {x})
    BY <2>1, ClosureOfOne
  <2>3. PICK C \in SUBSET Txs : C = Closure(chi, {x})
    BY <2>1, ClosureOfOne
  <2>4. Total(q, P) = Total(p, P) /\ Total(q, C) = Total(p, C)
    BY <1>5
  <2>5. q.feeDelta[x] = q.delta[x]
    BY <1>1, <1>4, <2>1
  <2>6. QED
    BY <1>4, <2>2, <2>3, <2>4, <2>5
<1>7. QED
  BY <1>2, <1>3, <1>4, <1>6 DEF Summed

\* Priorities do not bear on links, inputs and times.
LEMMA PrioritisedRest ==
  ASSUME NEW b, NEW p, Rest(p, b), NEW q, Fields(q), q.txs = p.txs, q.par = p.par, q.chi = p.chi,
         q.feeDelta \in [Txs -> Int], q.delta \in [Txs -> Int], Summed(q)
  PROVE  Rest(q, b) /\ q.txs = p.txs
<1>1. Sound(q)
  BY DEF Rest, Fit, Tied, Sound
<1>2. QED
  BY <1>1 DEF Rest, Fit, Tied

\* Priorities change fees and totals.
LEMMA PrioritiseRest ==
  ASSUME NEW b, Rest(pool, b), NEW t \in Txs, NEW d \in Int, PrioritiseTransaction(t, d)
  PROVE  Rest(pool', b) /\ pool'.txs = pool.txs
<1>1. PICK e : e = pool
  OBVIOUS
<1>2. /\ Fit(e, {}, {}, Base(b), InChain(b)) /\ e.txs \cap InChain(b) = {}
      /\ Rest(e, b)
  BY <1>1 DEF Rest
<1>3. Fields(e) /\ e.feeDelta \in [Txs -> Int] /\ e.delta \in [Txs -> Int]
  BY <1>2 DEF Fit, Tied, Sound
<1>4. PICK delta : delta = [e.delta EXCEPT ![t] = d]
  OBVIOUS
<1>5. PICK feeDelta : feeDelta = [e.feeDelta EXCEPT ![t] = d]
  OBVIOUS
<1>6. delta \in [Txs -> Int] /\ feeDelta \in [Txs -> Int]
  BY <1>3, <1>4, <1>5
<1>7. PICK p : p = [e EXCEPT !.delta = delta]
  OBVIOUS
<1>8. p = [txs |-> e.txs, feeDelta |-> e.feeDelta, anc |-> e.anc, desc |-> e.desc,
           par |-> e.par, chi |-> e.chi, delta |-> delta]
  BY <1>3, <1>7 DEF Fields
<1>9. PICK more : more = [n |-> 0, fee |-> d - e.delta[t]]
  OBVIOUS
<1>10. PICK desc : desc = [x \in Txs |-> IF x \in LinkedAncestors(p, t) \cup {t}
                                         THEN Plus(p.desc[x], more) ELSE p.desc[x]]
  BY Zenon
<1>11. PICK anc : anc = [x \in Txs |-> IF x \in CalculateDescendants(p, {t})
                                       THEN Plus(p.anc[x], more) ELSE p.anc[x]]
  BY Zenon
<1>12. PICK p1 : p1 = [p EXCEPT !.feeDelta = feeDelta]
  OBVIOUS
<1>13. p1 = [txs |-> e.txs, feeDelta |-> feeDelta, anc |-> e.anc, desc |-> e.desc,
             par |-> e.par, chi |-> e.chi, delta |-> delta]
  BY <1>8, <1>12
<1>14. PICK p2 : p2 = [p1 EXCEPT !.desc = desc]
  OBVIOUS
<1>15. p2 = [txs |-> e.txs, feeDelta |-> feeDelta, anc |-> e.anc, desc |-> desc,
             par |-> e.par, chi |-> e.chi, delta |-> delta]
  BY <1>13, <1>14
<1>16. PICK p3 : p3 = [p2 EXCEPT !.anc = anc]
  OBVIOUS
<1>17. p3 = [txs |-> e.txs, feeDelta |-> feeDelta, anc |-> anc, desc |-> desc,
             par |-> e.par, chi |-> e.chi, delta |-> delta]
  BY <1>15, <1>16
<1>18. p.feeDelta = e.feeDelta
  BY <1>8
<1>19. pool' = IF t \notin pool.txs THEN p ELSE p3
  BY <1>1, <1>4, <1>5, <1>7, <1>9, <1>10, <1>11, <1>12, <1>14, <1>16, <1>18, ZenonT(30)
     DEF PrioritiseTransaction
<1>20. PICK q : q = pool'
  OBVIOUS
<1>21. CASE t \notin e.txs
  <2>1. /\ q = p /\ Fields(q) /\ q.txs = e.txs /\ q.par = e.par /\ q.chi = e.chi /\ q.anc = e.anc
        /\ q.desc = e.desc /\ q.feeDelta = e.feeDelta /\ q.delta = delta
    BY <1>1, <1>8, <1>19, <1>20, <1>21 DEF Fields
  <2>2. Summed(q)
    BY <1>2, <1>3, <1>4, <1>21, <2>1, OtherPrioritised DEF Fit, Tied
  <2>3. QED
    BY <1>2, <1>3, <1>6, <2>1, <2>2, PrioritisedRest, <1>1, <1>20
<1>22. CASE t \in e.txs
  <2>1. /\ q = p3 /\ Fields(q) /\ q.txs = e.txs /\ q.par = e.par /\ q.chi = e.chi /\ q.anc = anc
        /\ q.desc = desc /\ q.feeDelta = feeDelta /\ q.delta = delta
    BY <1>1, <1>17, <1>19, <1>20, <1>22 DEF Fields
  <2>2. Summed(q)
    <3>1. /\ p.par = e.par /\ p.chi = e.chi /\ p.anc = e.anc /\ p.desc = e.desc
      BY <1>8
    <3>2. /\ LinkedAncestors(p, t) = LinkedAncestors(e, t)
          /\ CalculateDescendants(p, {t}) = CalculateDescendants(e, {t})
      BY <3>1 DEF LinkedAncestors, CalculateDescendants
    <3>3. Prioritised(e, t, d, q)
      BY <1>4, <1>5, <1>9, <1>10, <1>11, <2>1, <3>1, <3>2, Zenon DEF Prioritised
    <3>4. QED
      BY <1>2, <1>22, <3>3, PrioritisedSums DEF Fit, Tied
  <2>3. QED
    BY <1>2, <1>3, <1>6, <2>1, <2>2, PrioritisedRest, <1>1, <1>20
<1>23. QED
  BY <1>21, <1>22

\* A transaction is accepted: it alone enters, in the place of what it replaces.
LEMMA AcceptRest ==
  ASSUME Inv, NEW t \in Txs, AcceptToMemoryPool(t)
  PROVE  \E p : /\ Replaced(pool, t, p) /\ Rest(pool', tip) /\ Less(p, pool')
<1>1. PICK p : p = Accepted(pool, t)
  OBVIOUS
<1>2. tip \in Blocks /\ Rest(pool, tip) /\ Acceptable(pool, tip, t)
  BY DEF Inv, AcceptToMemoryPool
<1>3. Rest(p, tip) /\ Replaced(pool, t, p)
  BY <1>1, <1>2, AcceptedRest
<1>4. pool' \in LimitMempoolSize(p)
  BY <1>1 DEF AcceptToMemoryPool
<1>5. Rest(pool', tip) /\ Less(p, pool')
  BY <1>3, <1>4, LimitRest
<1>6. QED
  BY <1>3, <1>5

-----------------------------------------------------------------------------
(* The theorems.                                                           *)

\* The invariant: whatever is accepted, replaced, prioritised, confirmed, disconnected
\* and put back, the pool is at rest after every operation.
THEOREM Invariance == Spec => []Inv
<1>1. Init => Inv
  BY EmptyRest, TreeFacts DEF Init, Inv
<1>2. Inv /\ [Next]_vars => Inv'
  <2> SUFFICES ASSUME Inv, [Next]_vars PROVE Inv'
    OBVIOUS
  <2>1. tip \in Blocks /\ Rest(pool, tip)
    BY DEF Inv
  <2>2. ASSUME NEW t \in Txs, AcceptToMemoryPool(t) PROVE Inv'
    <3>1. Rest(pool', tip)
      BY <2>2, AcceptRest
    <3>2. tip' = tip
      BY <2>2 DEF AcceptToMemoryPool
    <3>3. QED
      BY <2>1, <3>1, <3>2 DEF Inv
  <2>3. ASSUME NEW t \in Txs, NEW d \in Deltas[t], PrioritiseTransaction(t, d) PROVE Inv'
    <3>1. d \in Int
      BY MempoolAssumption
    <3>2. Rest(pool', tip)
      BY <2>1, <2>3, <3>1, PrioritiseRest
    <3>3. tip' = tip
      BY <2>3 DEF PrioritiseTransaction
    <3>4. QED
      BY <2>1, <3>2, <3>3 DEF Inv
  <2>4. ASSUME NEW b \in Blocks, ConnectBlock(b) PROVE Inv'
    <3>1. b # 0 /\ Parent[b] = tip /\ pool' = ConnectTip(Start, b).pool /\ tip' = b
      BY <2>4 DEF ConnectBlock
    <3>2. Start.pool = pool
      BY DEF Start
    <3>3. pool' = removeForBlock(pool, Vtx[b])
      BY <3>1, <3>2 DEF ConnectTip
    <3>4. Rest(pool', b)
      BY <2>1, <3>1, <3>3, ConnectRest
    <3>5. QED
      BY <3>1, <3>4 DEF Inv
  <2>5. ASSUME NEW b \in Blocks, NEW add \in BOOLEAN, Reorganize(b, add) PROVE Inv'
    <3>1. PICK s : s = Start
      OBVIOUS
    <3>2. s = [tip |-> tip, pool |-> s.pool, queued |-> <<>>] /\ s.pool = pool
      BY <3>1 DEF Start
    <3>3. pool' \in UpdateMempoolForReorg(Connected(Disconnected(s, b), b), add) /\ tip' = b
      BY <2>5, <3>1 DEF Reorganize
    <3>4. Rest(pool', b)
      BY <2>1, <3>2, <3>3, ReorganizeRest
    <3>5. QED
      BY <3>3, <3>4 DEF Inv
  <2>6. CASE UNCHANGED vars
    BY <2>1, <2>6 DEF Inv, vars
  <2>7. QED
    BY <2>2, <2>3, <2>4, <2>5, <2>6 DEF Next
<1>3. QED
  BY <1>1, <1>2, PTL DEF Spec

\* The values of the members; what the totals are is TotalsCorrect.
THEOREM TypeCorrect == Spec => []TypeOK
<1>1. Inv => TypeOK
  <2> SUFFICES ASSUME Inv PROVE TypeOK
    OBVIOUS
  <2>1. tip \in Blocks /\ Sound(pool)
    BY DEF Inv, Rest, Fit, Tied
  <2>2. /\ pool.feeDelta \in [Txs -> Int] /\ pool.delta \in [Txs -> Int]
        /\ pool.txs \in SUBSET Txs /\ pool.par \in [Txs -> SUBSET Txs]
        /\ pool.chi \in [Txs -> SUBSET Txs]
    BY <2>1 DEF Sound, SoundLinks
  <2>3. QED
    BY <2>1, <2>2 DEF TypeOK
<1>2. QED
  BY <1>1, Invariance, PTL

\* mapLinks mirrors the inputs in both directions, although a parent may come back from a
\* disconnected block after its children.
THEOREM LinksCorrect == Spec => []LinksMirrorInputs
<1>1. Inv => LinksMirrorInputs
  <2> SUFFICES ASSUME Inv, NEW t \in pool.txs
               PROVE  pool.par[t] = Sources(t) \cap pool.txs /\ pool.chi[t] = Children(pool, t)
    BY DEF LinksMirrorInputs
  <2>1. Sound(pool) /\ Linked(pool.txs, pool.par, {}, {})
    BY DEF Inv, Rest, Fit, Tied
  <2>2. /\ pool.txs \in SUBSET Txs /\ pool.par \in [Txs -> SUBSET Txs]
        /\ pool.chi \in [Txs -> SUBSET Txs]
        /\ \A x, y \in Txs : y \in pool.par[x] <=> x \in pool.chi[y]
        /\ \A x, y \in Txs : y \in pool.par[x] => x \in pool.txs /\ y \in pool.txs /\ y \in Sources(x)
    BY <2>1 DEF Sound, SoundLinks
  <2>3. t \in Txs /\ pool.par[t] \subseteq Txs /\ pool.chi[t] \subseteq Txs
    BY <2>2
  <2>4. \A x, y \in pool.txs : y \in Sources(x) => y \in pool.par[x]
    BY <2>1 DEF Linked
  <2>5. pool.par[t] = Sources(t) \cap pool.txs
    BY <2>2, <2>3, <2>4
  <2>6. pool.chi[t] = Children(pool, t)
    BY <2>2, <2>3, <2>4 DEF Children
  <2>7. QED
    BY <2>5, <2>6
<1>2. QED
  BY <1>1, Invariance, PTL

\* What the links reach is what the inputs reach.
LEMMA TrueClosure ==
  ASSUME Sound(pool), Linked(pool.txs, pool.par, {}, {}), NEW x \in pool.txs,
         NEW par \in [Txs -> SUBSET Txs], par = pool.par
  PROVE  TrueAncestors(x) \cup {x} = Closure(par, {x})
<1>1. /\ pool.txs \in SUBSET Txs
      /\ \A y, z \in Txs : z \in par[y] => y \in pool.txs /\ z \in pool.txs /\ z \in Sources(y)
      /\ \A y, z \in pool.txs : z \in Sources(y) => z \in par[y]
  BY DEF Sound, SoundLinks, Linked
<1>2. PICK f : f = [y \in Txs |-> Sources(y) \cap pool.txs]
  BY Zenon
<1>3. f \in [Txs -> SUBSET Txs] /\ \A y \in Txs : f[y] = Sources(y) \cap pool.txs
  <2>1. \A y \in Txs : Sources(y) \cap pool.txs \in SUBSET Txs
    BY <1>1
  <2>2. QED
    BY <1>2, <2>1
<1>4. x \in Txs
  BY <1>1
<1>5. ASSUME NEW y \in pool.txs PROVE f[y] = par[y]
  <2>1. y \in Txs /\ par[y] \subseteq Txs
    BY <1>1
  <2>2. QED
    BY <1>1, <1>3, <2>1
<1>6. Closure(par, {x}) \subseteq pool.txs
  <2>1. \A y \in pool.txs : par[y] \subseteq pool.txs
    BY <1>1
  <2>2. {x} \subseteq pool.txs /\ pool.txs \subseteq Txs
    BY <1>1
  <2>3. QED
    BY <2>1, <2>2, ClosureLeast
<1>7. Closure(f, {x}) = Closure(par, {x})
  <2>1. \A y \in Closure(par, {x}) : f[y] = par[y]
    BY <1>5, <1>6
  <2>2. {x} \in SUBSET Txs
    BY <1>4
  <2>3. QED
    BY <1>3, <2>1, <2>2, ClosureSame
<1>8. Closure(f, {x}) = {x} \cup Closure(f, f[x])
  BY <1>3, <1>4, ClosureOfOne
<1>9. TrueAncestors(x) = Closure(f, f[x])
  <2>1. f[x] = Sources(x) \cap pool.txs
    BY <1>3, <1>4
  <2>2. QED
    BY <1>2, <2>1, Zenon DEF TrueAncestors
<1>10. QED
  BY <1>7, <1>8, <1>9

\* The totals are the sums that the inputs say, after any sequence of acceptances,
\* priorities, evictions, blocks and reorganisations.
THEOREM TotalsCorrect == Spec => []TotalsAreSums
<1>1. Inv => TotalsAreSums
  <2> SUFFICES ASSUME Inv, NEW t \in pool.txs
               PROVE  /\ pool.feeDelta[t] = pool.delta[t]
                      /\ pool.anc[t] = Total(pool, TrueAncestors(t) \cup {t})
                      /\ pool.desc[t] = Total(pool, {x \in pool.txs : t \in TrueAncestors(x)} \cup {t})
    BY DEF TotalsAreSums
  <2>1. Sound(pool) /\ Linked(pool.txs, pool.par, {}, {}) /\ Summed(pool)
    BY DEF Inv, Rest, Fit, Tied
  <2>2. PICK par \in [Txs -> SUBSET Txs] : par = pool.par
    BY <2>1, PoolLinks DEF Dual
  <2>3. PICK chi \in [Txs -> SUBSET Txs] : chi = pool.chi
    BY <2>1, PoolLinks DEF Dual
  <2>4. /\ Dual(par, chi) /\ pool.txs \in SUBSET Txs
        /\ \A x \in Txs : par[x] \subseteq pool.txs /\ chi[x] \subseteq pool.txs
    BY <2>1, <2>2, <2>3, PoolLinks
  <2>5. /\ pool.feeDelta[t] = pool.delta[t] /\ pool.anc[t] = Total(pool, Closure(par, {t}))
        /\ pool.desc[t] = Total(pool, Closure(chi, {t}))
    BY <2>1, <2>2, <2>3 DEF Summed
  <2>6. ASSUME NEW x \in pool.txs PROVE TrueAncestors(x) \cup {x} = Closure(par, {x})
    BY <2>1, <2>2, TrueClosure
  <2>7. {x \in pool.txs : t \in TrueAncestors(x)} \cup {t} = Closure(chi, {t})
    <3>1. PICK D : D = Closure(chi, {t})
      OBVIOUS
    <3>2. {t} \subseteq pool.txs /\ pool.txs \subseteq Txs /\ t \in Txs
      BY <2>4
    <3>3. D \subseteq pool.txs
      BY <2>4, <3>1, <3>2, ClosureLeast
    <3>4. t \in D
      BY <3>1, <3>2, ClosureOfOne
    <3>5. ASSUME NEW x \in pool.txs, x # t PROVE t \in TrueAncestors(x) <=> x \in D
      <4>1. x \in Txs
        BY <3>2
      <4>2. t \in Closure(par, {x}) <=> x \in D
        BY <2>4, <3>1, <3>2, <4>1, ClosureDual
      <4>3. QED
        BY <2>6, <3>5, <4>2
    <3>6. QED
      BY <3>1, <3>3, <3>4, <3>5
  <2>8. QED
    BY <2>5, <2>6, <2>7
<1>2. QED
  BY <1>1, Invariance, PTL

\* Every pool transaction could be in the next block after its ancestors, at any time and
\* after any reorganisation.
THEOREM PoolStaysMineable == Spec => []PoolMineable
<1>1. Inv => PoolMineable
  <2> SUFFICES ASSUME Inv, NEW t \in pool.txs
               PROVE  /\ t \notin InChain(tip) /\ Final(tip, t)
                      /\ \A o \in Spends(t) : /\ InputPresent(pool, tip, o) /\ Mature(tip, o)
                                              /\ NextTx(pool, o) = {t}
    BY DEF PoolMineable
  <2>1. /\ Live(pool.txs, Base(tip), InChain(tip)) /\ Single(pool.txs)
        /\ pool.txs \cap InChain(tip) = {} /\ InTime(tip, t)
    BY DEF Inv, Rest, Fit, Tied
  <2>2. ASSUME NEW o \in Spends(t)
        PROVE  InputPresent(pool, tip, o) /\ Mature(tip, o) /\ NextTx(pool, o) = {t}
    <3>1. InputPresent(pool, tip, o)
      BY <2>1 DEF Live, InputPresent, HaveCoin
    <3>2. Mature(tip, o)
      BY <2>1 DEF InTime
    <3>3. NextTx(pool, o) = {t}
      BY <2>1 DEF Single, NextTx
    <3>4. QED
      BY <3>1, <3>2, <3>3
  <2>3. QED
    BY <2>1, <2>2 DEF InTime
<1>2. QED
  BY <1>1, Invariance, PTL

\* A transaction only replaces others when it pays for all that leave with them.
THEOREM ReplacementsPay == Spec => ReplacementPays
<1> DEFINE Body == \A t \in pool'.txs \ pool.txs :
                     LET replaced == CalculateDescendants(pool, Conflicts(pool, t))
                     IN tip' = tip /\ replaced # {} =>
                          /\ pool'.txs \cap replaced = {}
                          /\ ModifiedFee(pool', t) >= Fees(pool, replaced) + IncrementalFee
<1>1. Inv /\ [Next]_vars => [Body]_vars
  <2> SUFFICES ASSUME Inv, Next, NEW t \in pool'.txs \ pool.txs, NEW D,
                      D = CalculateDescendants(pool, Conflicts(pool, t)), tip' = tip, D # {}
               PROVE  /\ pool'.txs \cap D = {}
                      /\ ModifiedFee(pool', t) >= Fees(pool, D) + IncrementalFee
    OBVIOUS
  <2>1. tip \in Blocks /\ Rest(pool, tip) /\ Sound(pool)
    BY DEF Inv, Rest, Fit, Tied
  <2>2. ASSUME NEW u \in Txs, AcceptToMemoryPool(u)
        PROVE  /\ pool'.txs \cap D = {}
               /\ ModifiedFee(pool', t) >= Fees(pool, D) + IncrementalFee
    <3>1. PICK p : Replaced(pool, u, p) /\ Less(p, pool')
      BY <2>2, AcceptRest
    <3>2. /\ p.txs = (pool.txs \ CalculateDescendants(pool, Conflicts(pool, u))) \cup {u}
          /\ p.feeDelta[u] = pool.delta[u] /\ pool'.txs \subseteq p.txs
          /\ \A x \in pool'.txs : pool'.feeDelta[x] = p.feeDelta[x]
      BY <3>1 DEF Replaced, Less
    <3>3. t = u
      BY <3>2
    <3>4. PICK C : C = Conflicts(pool, t)
      OBVIOUS
    <3>5. C \in SUBSET pool.txs
      BY <3>4 DEF Conflicts, NextTx
    <3>6. D \in SUBSET pool.txs
      BY <2>1, <3>4, <3>5, DescendantsFacts
    <3>7. pool'.txs \cap D = {}
      BY <3>2, <3>3, <3>6
    <3>8. C # {}
      <4>1. PICK down \in [Txs -> SUBSET Txs] : down = pool.chi
        BY <2>1 DEF Sound, SoundLinks
      <4>2. PICK E : E = {}
        OBVIOUS
      <4>3. Closure(down, E) \subseteq E
        BY <4>2, ClosureLeast
      <4>4. D = Closure(down, C)
        BY <3>4, <4>1 DEF CalculateDescendants
      <4>5. QED
        BY <4>2, <4>3, <4>4
    <3>9. Fee[t] + pool.delta[t] >= Fees(pool, D) + IncrementalFee
      <4>1. MayReplace(pool, t)
        BY <2>2, <3>3 DEF AcceptToMemoryPool, Acceptable
      <4>2. Fee[t] + pool.delta[t] >= ConflictingFees(pool, t) + IncrementalFee
        BY <3>4, <3>8, <4>1 DEF MayReplace
      <4>3. ConflictingFees(pool, t) = Fees(pool, D)
        BY DEF ConflictingFees
      <4>4. QED
        BY <4>2, <4>3
    <3>10. pool'.feeDelta[t] = pool.delta[t]
      BY <3>2, <3>3
    <3>11. QED
      BY <3>7, <3>9, <3>10 DEF ModifiedFee
  <2>3. ASSUME NEW u \in Txs, NEW d \in Deltas[u], PrioritiseTransaction(u, d) PROVE FALSE
    <3>1. d \in Int
      BY MempoolAssumption
    <3>2. QED
      BY <2>1, <2>3, <3>1, PrioritiseRest
  <2>4. ASSUME NEW b \in Blocks, ConnectBlock(b) PROVE FALSE
    <3>1. b # 0 /\ Parent[b] = b
      BY <2>4 DEF ConnectBlock
    <3>2. Parent[b] < b /\ b \in Nat
      BY <3>1, TreeFacts
    <3>3. QED
      BY <3>1, <3>2
  <2>5. ASSUME NEW b \in Blocks, NEW add \in BOOLEAN, Reorganize(b, add) PROVE FALSE
    <3>1. tip \notin ChainOf(b) /\ b = tip
      BY <2>5 DEF Reorganize
    <3>2. QED
      BY <3>1, ChainFacts
  <2>6. QED
    BY <2>2, <2>3, <2>4, <2>5 DEF Next
<1>2. QED
  BY <1>1, Invariance, PTL DEF Spec, ReplacementPays

=============================================================================
