---------------------------- MODULE CoinsDBProofs ----------------------------
(***************************************************************************)
(* Proofs about CoinsDB, for every block tree, every set of outpoints and  *)
(* every assignment of created and spent outpoints to blocks.              *)
(***************************************************************************)
EXTENDS CoinsDB, WellFoundedInduction, TLAPS

-----------------------------------------------------------------------------
(* The block tree and the coins of its chains.                             *)

\* A set that holds the genesis block and every block whose parent it holds
\* holds every block: the lowest block outside would have its parent inside.
LEMMA TreeInduction ==
  ASSUME NEW S \in SUBSET Blocks, Genesis \in S,
         \A b \in Blocks \ {Genesis} : Parent[b] \in S => b \in S
  PROVE  S = Blocks
<1> SUFFICES ASSUME Blocks \ S # {} PROVE FALSE
  OBVIOUS
<1> DEFINE H == {Height[b] : b \in Blocks \ S}
<1>1. H \in SUBSET Nat /\ H # {}
  BY TreeAssumption
<1> HIDE DEF H
<1>2. PICK h \in H : \A y \in H : ~(<<y, h>> \in OpToRel(<, Nat))
  BY <1>1, NatLessThanWellFounded, WFMin
<1>3. \A y \in H : ~(y < h)
  BY <1>1, <1>2 DEF OpToRel
<1>4. PICK b \in Blocks \ S : Height[b] = h
  BY DEF H
<1>5. b \in Blocks \ {Genesis}
  OBVIOUS
<1>6. /\ Parent[b] \in Blocks /\ Height[b] = Height[Parent[b]] + 1
      /\ Height[Parent[b]] \in Nat
  BY <1>5, TreeAssumption
<1>7. Parent[b] \notin S
  BY <1>4, <1>5
<1>8. Height[Parent[b]] \in H
  BY <1>6, <1>7 DEF H
<1>9. QED
  BY <1>3, <1>4, <1>6, <1>8

\* What the walks along pprev rely on: a chain contains its block and genesis,
\* it contains the chains of its blocks, height grows along it, and of two of
\* its blocks the lower one is an ancestor of the other.
ChainOK(b) ==
  /\ b \in Anc[b] /\ Genesis \in Anc[b]
  /\ \A a \in Anc[b] : Anc[a] \subseteq Anc[b] /\ (a = b \/ Height[a] < Height[b])
  /\ \A a, c \in Anc[b] : Height[a] <= Height[c] => a \in Anc[c]

\* Every block has a proper chain.
LEMMA ChainsOK == \A b \in Blocks : ChainOK(b)
<1>1. ASSUME NEW b \in Blocks \ {Genesis}, ChainOK(Parent[b])
      PROVE  ChainOK(b)
  <2> DEFINE p == Parent[b]
  <2>1. /\ p \in Blocks /\ Anc[b] = {b} \cup Anc[p] /\ Anc[p] \subseteq Blocks
        /\ Height[b] = Height[p] + 1
    BY TreeAssumption
  <2>2. Height \in [Blocks -> Nat]
    BY TreeAssumption
  <2>3. \A a \in Anc[p] : Height[a] < Height[b]
    BY <1>1, <2>1, <2>2 DEF ChainOK
  <2>4. \A a \in Anc[b] : Anc[a] \subseteq Anc[b] /\ (a = b \/ Height[a] < Height[b])
    BY <1>1, <2>1, <2>3 DEF ChainOK
  <2>5. ASSUME NEW a \in Anc[b], NEW c \in Anc[b], Height[a] <= Height[c]
        PROVE  a \in Anc[c]
    <3>1. CASE c = b
      BY <3>1
    <3>2. CASE c # b /\ a # b
      BY <1>1, <2>1, <2>5, <3>2 DEF ChainOK
    <3>3. CASE c # b /\ a = b
      BY <2>1, <2>2, <2>3, <2>5, <3>3
    <3>4. QED
      BY <3>1, <3>2, <3>3
  <2>6. QED
    BY <1>1, <2>1, <2>4, <2>5 DEF ChainOK
<1>2. ChainOK(Genesis)
  BY TreeAssumption DEF ChainOK
<1> DEFINE S == {b \in Blocks : ChainOK(b)}
<1>3. S \in SUBSET Blocks /\ Genesis \in S
  BY <1>2, TreeAssumption
<1>4. \A b \in Blocks \ {Genesis} : Parent[b] \in S => b \in S
  BY <1>1
<1> HIDE DEF S
<1>5. S = Blocks
  BY <1>3, <1>4, TreeInduction
<1>6. QED
  BY <1>5 DEF S

\* The same facts, ready for use.
LEMMA Tree ==
  /\ Genesis \in Blocks /\ Anc[Genesis] = {Genesis} /\ None \notin Blocks
  /\ \A b \in Blocks : /\ Anc[b] \subseteq Blocks /\ Height[b] \in Nat
                        /\ b \in Anc[b] /\ Genesis \in Anc[b]
                        /\ \A a \in Anc[b] : Anc[a] \subseteq Anc[b]
  /\ \A b \in Blocks \ {Genesis} : /\ Parent[b] \in Blocks
                                    /\ Height[b] = Height[Parent[b]] + 1
                                    /\ Anc[b] = {b} \cup Anc[Parent[b]]
  BY TreeAssumption, ChainsOK DEF ChainOK

\* Two blocks that are ancestors of one another are the same.
LEMMA SameBlock ==
  ASSUME NEW a \in Blocks, NEW b \in Blocks, a \in Anc[b], b \in Anc[a]
  PROVE  a = b
<1>1. Height[a] \in Nat /\ Height[b] \in Nat
  BY Tree
<1>2. /\ a = b \/ Height[a] < Height[b]
      /\ b = a \/ Height[b] < Height[a]
  BY ChainsOK DEF ChainOK
<1>3. QED
  BY <1>1, <1>2

\* The lowest block of a chain above one of its blocks is a child of that block.
LEMMA NextOnChain ==
  ASSUME NEW t \in Blocks, NEW p \in Anc[t], NEW b \in Anc[t] \ Anc[p],
         \A d \in Anc[t] \ Anc[p] : Height[b] <= Height[d]
  PROVE  b \in Blocks \ {Genesis} /\ Parent[b] = p
<1>1. b \in Blocks \ {Genesis} /\ p \in Blocks
  BY Tree
<1>2. /\ Parent[b] \in Blocks /\ Height[b] = Height[Parent[b]] + 1
      /\ Height[Parent[b]] \in Nat /\ Height[p] \in Nat /\ Height[b] \in Nat
      /\ Anc[b] = {b} \cup Anc[Parent[b]] /\ Anc[b] \subseteq Anc[t]
      /\ Parent[b] \in Anc[Parent[b]] /\ p \in Anc[p]
  BY <1>1, Tree
<1>3. Parent[b] \in Anc[p]
  BY <1>2
<1>4. p \in Anc[b]
  <2>1. Height[p] <= Height[b] \/ Height[b] <= Height[p]
    BY <1>2
  <2>2. QED
    BY <2>1, ChainsOK DEF ChainOK
<1>5. p \in Anc[Parent[b]]
  BY <1>2, <1>4
<1>6. QED
  BY <1>1, <1>2, <1>3, <1>5, SameBlock

\* Only the genesis block creates coins of height 0.
LEMMA ZeroIsGenesis ==
  ASSUME NEW b \in Blocks, NEW o \in Outpoints, Utxo[b][o] = 0
  PROVE  o \in Creates[Genesis]
<1> DEFINE S == {d \in Blocks : Utxo[d][o] = 0 => o \in Creates[Genesis]}
<1>1. S \in SUBSET Blocks
  OBVIOUS
<1>2. Genesis \in S
  BY BlockAssumption, Tree DEF Connected, NoCoins
<1>3. ASSUME NEW d \in Blocks \ {Genesis}, Parent[d] \in S PROVE d \in S
  <2>1. Utxo[d] = Connected(d, Utxo[Parent[d]]) /\ Height[d] \in Nat /\ Height[d] # 0
        /\ NoCoin \notin Nat
    <3>1. Height[d] = Height[Parent[d]] + 1 /\ Height[Parent[d]] \in Nat
      BY Tree
    <3>2. QED
      BY <3>1, BlockAssumption
  <2>2. Utxo[d][o] = 0 => Utxo[Parent[d]][o] = 0
    BY <2>1 DEF Connected
  <2>3. QED
    BY <1>3, <2>2
<1> HIDE DEF S
<1>4. S = Blocks
  BY <1>1, <1>2, <1>3, TreeInduction
<1>5. QED
  BY <1>4 DEF S

\* The coins of two neighbouring blocks: equal but for what the block creates
\* and spends.
LEMMA CoinsOfBlock ==
  ASSUME NEW b \in Blocks \ {Genesis}, NEW o \in Outpoints
  PROVE  /\ o \in Spends[b] => Utxo[b][o] = NoCoin
         /\ o \in Creates[b] \ Spends[b] => Utxo[b][o] = Height[b]
         /\ o \notin Creates[b] \cup Spends[b] => Utxo[b][o] = Utxo[Parent[b]][o]
         /\ o \in Creates[b] => Utxo[Parent[b]][o] = NoCoin
<1>1. Utxo[b] = Connected(b, Utxo[Parent[b]])
  BY BlockAssumption
<1>2. o \in Creates[b] => Utxo[Parent[b]][o] = NoCoin
  BY BlockAssumption
<1>3. QED
  BY <1>1, <1>2 DEF Connected

\* Connecting and disconnecting a block stay within the type of coins.
LEMMA CoinTypes ==
  ASSUME NEW coins \in [Outpoints -> Coin], NEW b \in Blocks
  PROVE  /\ NoCoins \in [Outpoints -> Coin] /\ Utxo[b] \in [Outpoints -> Coin]
         /\ Connected(b, coins) \in [Outpoints -> Coin]
         /\ b # Genesis => Disconnected(b, coins) \in [Outpoints -> Coin]
<1>1. Height[b] \in Coin /\ NoCoin \in Coin
  BY DEF Coin
<1>2. \A d \in Blocks : Utxo[d] \in [Outpoints -> Coin]
  BY BlockAssumption
<1>3. Connected(b, coins) \in [Outpoints -> Coin]
  BY <1>1 DEF Connected
<1>4. ASSUME b # Genesis PROVE Disconnected(b, coins) \in [Outpoints -> Coin]
  <2>1. Parent[b] \in Blocks
    BY <1>4, Tree
  <2>2. \A o \in Outpoints : UndoCoin(b, o) \in Coin
    BY <1>1, <1>2, <2>1 DEF UndoCoin
  <2>3. QED
    BY <1>1, <2>2 DEF Disconnected
<1>5. QED
  BY <1>1, <1>2, <1>3, <1>4 DEF NoCoins

-----------------------------------------------------------------------------
(* The inductive invariant, in three layers.                               *)

\* What DB_HEAD_BLOCKS says of the process: a running node has none, a replay
\* leads to the block they name, and so does the flush after it.
PhaseOK ==
  /\ phase = "run" => heads = <<>>
  /\ phase = "replay" => heads # <<>> /\ heads[1] = tip
  /\ FlushContinuesReplay
  /\ phase \in {"flush", "replay"} => tip \in Blocks

\* Every block the chainstate database refers to is in the block index
\* database with all its ancestors, and a flush is only begun to such a block.
Durable(b) == b \in durable \cup {None}
Closed(S) == \A b \in S : Anc[b] \subseteq S
DurableOK ==
  /\ durable \subseteq index /\ Closed(index) /\ Closed(durable)
  /\ Durable(best) /\ (heads # <<>> => Durable(heads[1]) /\ Durable(heads[2]))
  /\ phase = "run" => tip \in index \cup {None}
  /\ phase = "flush" => Durable(tip)

BaseInv == TypeOK /\ PhaseOK /\ DurableOK

\* The coins after a block, or before the first one.
CoinsAfter(b) == IF b = None THEN NoCoins ELSE Utxo[b]

\* A node that did not start from an empty database has a tip for ever.
Seeded ==
  ~FreshStart => /\ best # None \/ heads # <<>>
                 /\ heads # <<>> => heads[2] # None
                 /\ phase = "run" => tip # None
                 /\ phase = "replay" => pos # None

\* During a replay every coin is that of the block reached or already that of
\* the new tip; a flush writes the coins of its tip.
CoinsOK ==
  /\ CoinsMatchTip /\ DatabaseBetweenHeads
  /\ phase = "flush" => mem = CoinsAfter(tip)
  /\ phase = "replay" =>
       \A o \in Outpoints : mem[o] = CoinsAfter(pos)[o] \/ mem[o] = CoinsAfter(tip)[o]

\* The replay of a first flush leaves out the genesis block, which is right
\* only if that block creates no coin.
GenesisHarmless == FreshStart => Creates[Genesis] = {}

CoinsInv == GenesisHarmless /\ BaseInv /\ Seeded /\ CoinsOK

\* ApplyTxInUndo cannot restore a coin of height 0.
GenesisUnspent == \A b \in Blocks : Spends[b] \cap Creates[Genesis] = {}

CleanInv == GenesisUnspent /\ CoinsInv /\ NeverStuck

-----------------------------------------------------------------------------
(* First layer: types, phases and the block index database, whatever the   *)
(* coins are.                                                              *)

\* The base invariant holds initially.
LEMMA InitBase == Init => BaseInv
<1> SUFFICES ASSUME Init PROVE BaseInv
  OBVIOUS
<1>1. Genesis \in Blocks /\ Anc[Genesis] = {Genesis} /\ None \notin Blocks
  BY Tree
<1>2. db \in [Outpoints -> Coin] /\ mem \in [Outpoints -> Coin]
  <2>1. NoCoins \in [Outpoints -> Coin]
    BY DEF NoCoins, Coin
  <2>2. Utxo[Genesis] \in [Outpoints -> Coin]
    BY <1>1, BlockAssumption
  <2>3. QED
    BY <2>1, <2>2 DEF Init
<1>3. best \in {Genesis, None} /\ tip = best
  BY DEF Init
<1>4. TypeOK
  BY <1>1, <1>2, <1>3 DEF Init, TypeOK
<1>5. PhaseOK
  BY DEF Init, PhaseOK, FlushContinuesReplay
<1>6. DurableOK
  BY <1>1, <1>3 DEF Init, DurableOK, Durable, Closed
<1>7. QED
  BY <1>4, <1>5, <1>6 DEF BaseInv

\* In a replay the old branch never reaches down to the genesis block.
LEMMA OldBranchAboveGenesis ==
  ASSUME TypeOK, tip \in Blocks, OldBranch # {}
  PROVE  pos \in Blocks \ {Genesis}
<1>1. pos \in Blocks /\ Anc[pos] \ Anc[tip] # {}
  BY DEF OldBranch, TypeOK
<1>2. QED
  BY <1>1, Tree

\* Every step keeps the base invariant.
LEMMA NextBase == BaseInv /\ [Next]_vars => BaseInv'
<1> SUFFICES ASSUME BaseInv, [Next]_vars PROVE BaseInv'
  OBVIOUS
<1>0. TypeOK /\ PhaseOK /\ DurableOK
  BY DEF BaseInv
<1>1. ASSUME NEW b \in Blocks, AcceptBlock(b) PROVE BaseInv'
  <2>1. TypeOK' /\ PhaseOK'
    BY <1>0, <1>1 DEF AcceptBlock, TypeOK, PhaseOK, FlushContinuesReplay
  <2>2. Closed(index)'
    BY <1>0, <1>1, Tree DEF AcceptBlock, DurableOK, Closed
  <2>3. DurableOK'
    BY <1>0, <1>1, <2>2 DEF AcceptBlock, DurableOK, Closed, Durable
  <2>4. QED
    BY <2>1, <2>3 DEF BaseInv
<1>2. ASSUME NEW b \in Blocks, ConnectTip(b) PROVE BaseInv'
  <2>1. mem' \in [Outpoints -> Coin]
    BY <1>0, <1>2, CoinTypes DEF ConnectTip, TypeOK
  <2>2. TypeOK' /\ PhaseOK'
    BY <1>0, <1>2, <2>1 DEF ConnectTip, TypeOK, PhaseOK, FlushContinuesReplay
  <2>3. DurableOK'
    BY <1>0, <1>2 DEF ConnectTip, DurableOK, Closed, Durable
  <2>4. QED
    BY <2>2, <2>3 DEF BaseInv
<1>3. CASE DisconnectTip
  <2>1. tip \in Blocks \ {Genesis} /\ phase = "run"
    BY <1>0, <1>3 DEF DisconnectTip, TypeOK
  <2>2. CASE phase' = "failed" /\ UNCHANGED <<mem, tip>>
    <3>1. TypeOK' /\ PhaseOK'
      BY <1>0, <1>3, <2>2 DEF DisconnectTip, TypeOK, PhaseOK, FlushContinuesReplay
    <3>2. DurableOK'
      BY <1>0, <1>3, <2>2 DEF DisconnectTip, DurableOK, Closed, Durable
    <3>3. QED
      BY <3>1, <3>2 DEF BaseInv
  <2>3. CASE mem' = Disconnected(tip, mem) /\ tip' = Parent[tip] /\ UNCHANGED phase
    <3>1. mem' \in [Outpoints -> Coin] /\ Parent[tip] \in Blocks
      BY <1>0, <2>1, <2>3, CoinTypes, Tree DEF TypeOK
    <3>2. TypeOK' /\ PhaseOK'
      BY <1>0, <1>3, <2>1, <2>3, <3>1 DEF DisconnectTip, TypeOK, PhaseOK, FlushContinuesReplay
    <3>3. Parent[tip] \in index
      <4>1. tip \in index /\ Anc[tip] \subseteq index
        BY <1>0, <2>1, Tree DEF DurableOK, Closed
      <4>2. QED
        BY <2>1, <4>1, Tree
    <3>4. DurableOK'
      BY <1>0, <1>3, <2>1, <2>3, <3>3 DEF DisconnectTip, DurableOK, Closed, Durable
    <3>5. QED
      BY <3>2, <3>4 DEF BaseInv
  <2>4. QED
    BY <1>3, <2>2, <2>3 DEF DisconnectTip
<1>4. CASE WriteBlockIndex
  <2>1. TypeOK' /\ PhaseOK'
    BY <1>0, <1>4 DEF WriteBlockIndex, TypeOK, PhaseOK, FlushContinuesReplay
  <2>2. DurableOK'
    BY <1>0, <1>4 DEF WriteBlockIndex, DurableOK, Closed, Durable
  <2>3. QED
    BY <2>1, <2>2 DEF BaseInv
<1>5. CASE FlushStateToDisk
  <2>1. TypeOK' /\ PhaseOK'
    BY <1>0, <1>5 DEF FlushStateToDisk, TypeOK, PhaseOK, FlushContinuesReplay
  <2>2. DurableOK'
    BY <1>0, <1>5 DEF FlushStateToDisk, DurableOK, Closed, Durable
  <2>3. QED
    BY <2>1, <2>2 DEF BaseInv
<1>6. ASSUME NEW S \in SUBSET Outpoints, WritePartialBatch(S) PROVE BaseInv'
  <2>1. tip \in Blocks /\ phase = "flush"
    BY <1>0, <1>6 DEF WritePartialBatch, PhaseOK
  <2>2. OldTip \in Blocks \cup {None} /\ Durable(OldTip)
    <3>1. CASE best # None
      BY <1>0, <3>1 DEF OldTip, TypeOK, DurableOK
    <3>2. CASE best = None /\ heads # <<>>
      BY <1>0, <3>2 DEF OldTip, TypeOK, DurableOK
    <3>3. CASE best = None /\ heads = <<>>
      BY <3>3 DEF OldTip, Durable
    <3>4. QED
      BY <3>1, <3>2, <3>3
  <2>3. /\ heads' = <<tip, OldTip>> /\ heads' # <<>>
        /\ heads'[1] = tip /\ heads'[2] = OldTip
    BY <1>6 DEF WritePartialBatch
  <2>4. db' \in [Outpoints -> Coin]
    BY <1>0, <1>6 DEF WritePartialBatch, TypeOK
  <2>5. TypeOK'
    BY <1>0, <1>6, <2>1, <2>2, <2>3, <2>4 DEF WritePartialBatch, TypeOK
  <2>6. PhaseOK'
    BY <1>0, <1>6, <2>1, <2>3 DEF WritePartialBatch, PhaseOK, FlushContinuesReplay
  <2>7. DurableOK'
    BY <1>0, <1>6, <2>1, <2>2, <2>3 DEF WritePartialBatch, DurableOK, Closed, Durable
  <2>8. QED
    BY <2>5, <2>6, <2>7 DEF BaseInv
<1>7. CASE WriteFinalBatch
  <2>1. tip \in Blocks /\ phase = "flush"
    BY <1>0, <1>7 DEF WriteFinalBatch, PhaseOK
  <2>2. TypeOK' /\ PhaseOK'
    BY <1>0, <1>7, <2>1 DEF WriteFinalBatch, TypeOK, PhaseOK, FlushContinuesReplay
  <2>3. DurableOK'
    BY <1>0, <1>7, <2>1 DEF WriteFinalBatch, DurableOK, Closed, Durable
  <2>4. QED
    BY <2>2, <2>3 DEF BaseInv
<1>8. CASE Crash
  <2>1. NoCoins \in [Outpoints -> Coin]
    BY DEF NoCoins, Coin
  <2>2. TypeOK' /\ PhaseOK'
    BY <1>0, <1>8, <2>1 DEF Crash, TypeOK, PhaseOK, FlushContinuesReplay
  <2>3. DurableOK'
    BY <1>0, <1>8 DEF Crash, DurableOK, Closed, Durable
  <2>4. QED
    BY <2>2, <2>3 DEF BaseInv
<1>9. CASE Startup
  <2>1. CASE heads = <<>>
    <3>1. TypeOK' /\ PhaseOK'
      BY <1>0, <1>9, <2>1 DEF Startup, TypeOK, PhaseOK, FlushContinuesReplay
    <3>2. DurableOK'
      BY <1>0, <1>9, <2>1 DEF Startup, DurableOK, Closed, Durable
    <3>3. QED
      BY <3>1, <3>2 DEF BaseInv
  <2>2. CASE heads # <<>>
    <3>1. heads[1] \in Blocks /\ heads[2] \in Blocks \cup {None}
      BY <1>0, <2>2 DEF TypeOK
    <3>2. TypeOK' /\ PhaseOK'
      BY <1>0, <1>9, <2>2, <3>1 DEF Startup, TypeOK, PhaseOK, FlushContinuesReplay
    <3>3. DurableOK'
      BY <1>0, <1>9, <2>2 DEF Startup, DurableOK, Closed, Durable
    <3>4. QED
      BY <3>2, <3>3 DEF BaseInv
  <2>3. QED
    BY <2>1, <2>2
<1>10. CASE RollbackBlock
  <2>1. tip \in Blocks /\ phase = "replay" /\ OldBranch # {}
    BY <1>0, <1>10 DEF RollbackBlock, PhaseOK
  <2>2. pos \in Blocks \ {Genesis} /\ Parent[pos] \in Blocks
    BY <1>0, <2>1, OldBranchAboveGenesis, Tree
  <2>3. Disconnected(pos, mem) \in [Outpoints -> Coin]
    BY <1>0, <2>2, CoinTypes DEF TypeOK
  <2>4. TypeOK' /\ PhaseOK'
    BY <1>0, <1>10, <2>1, <2>2, <2>3
    DEF RollbackBlock, TypeOK, PhaseOK, FlushContinuesReplay
  <2>5. DurableOK'
    BY <1>0, <1>10, <2>1 DEF RollbackBlock, DurableOK, Closed, Durable
  <2>6. QED
    BY <2>4, <2>5 DEF BaseInv
<1>11. ASSUME NEW b \in Blocks, RollforwardBlock(b) PROVE BaseInv'
  <2>1. mem' \in [Outpoints -> Coin]
    BY <1>0, <1>11, CoinTypes DEF RollforwardBlock, TypeOK
  <2>2. TypeOK' /\ PhaseOK'
    BY <1>0, <1>11, <2>1 DEF RollforwardBlock, TypeOK, PhaseOK, FlushContinuesReplay
  <2>3. DurableOK'
    BY <1>0, <1>11 DEF RollforwardBlock, DurableOK, Closed, Durable
  <2>4. QED
    BY <2>2, <2>3 DEF BaseInv
<1>12. CASE ReplayDone
  <2>1. phase = "replay" /\ heads # <<>> /\ heads[1] = tip /\ tip \in Blocks
    BY <1>0, <1>12 DEF ReplayDone, PhaseOK
  <2>2. TypeOK' /\ PhaseOK'
    BY <1>0, <1>12, <2>1 DEF ReplayDone, TypeOK, PhaseOK, FlushContinuesReplay
  <2>3. DurableOK'
    BY <1>0, <1>12, <2>1 DEF ReplayDone, DurableOK, Closed, Durable
  <2>4. QED
    BY <2>2, <2>3 DEF BaseInv
<1>13. CASE UNCHANGED vars
  BY <1>0, <1>13
  DEF vars, BaseInv, TypeOK, PhaseOK, FlushContinuesReplay, DurableOK, Closed, Durable
<1>14. QED
  BY <1>1, <1>2, <1>3, <1>4, <1>5, <1>6, <1>7, <1>8, <1>9, <1>10, <1>11, <1>12, <1>13
  DEF Next, Replay

\* The base invariant holds in every reachable state.
LEMMA BaseInvariance == Spec => []BaseInv
  BY InitBase, NextBase, PTL DEF Spec

\* The variables keep their types.
THEOREM TypeCorrect == Spec => []TypeOK
<1>1. BaseInv => TypeOK
  BY DEF BaseInv
<1>2. QED
  BY <1>1, BaseInvariance, PTL

\* CCoinsViewDB::BatchWrite's assert(old_heads[0] == hashBlock) never fails: a
\* flush that finds DB_HEAD_BLOCKS leads to the block that they name.
THEOREM ReplayFlushesFirst == Spec => []FlushContinuesReplay
<1>1. BaseInv => FlushContinuesReplay
  BY DEF BaseInv, PhaseOK
<1>2. QED
  BY <1>1, BaseInvariance, PTL

-----------------------------------------------------------------------------
(* Second layer: the coins.                                                *)

\* Connecting a block on top of its parent's coins gives its own coins.
LEMMA ConnectCoins ==
  ASSUME NEW b \in Blocks \ {Genesis}, NEW coins \in [Outpoints -> Coin],
         NEW o \in Outpoints
  PROVE  /\ o \in Spends[b] \cup Creates[b] => Connected(b, coins)[o] = Utxo[b][o]
         /\ o \notin Spends[b] \cup Creates[b] =>
              Connected(b, coins)[o] = coins[o] /\ Utxo[b][o] = Utxo[Parent[b]][o]
  BY CoinsOfBlock DEF Connected

\* Disconnecting a block leaves its parent's coins, whatever was there for the
\* outpoints the block creates and spends.
LEMMA DisconnectCoins ==
  ASSUME NEW b \in Blocks \ {Genesis}, NEW coins \in [Outpoints -> Coin],
         NEW o \in Outpoints
  PROVE  /\ o \in Spends[b] \cup Creates[b] =>
              Disconnected(b, coins)[o] = Utxo[Parent[b]][o]
         /\ o \notin Spends[b] \cup Creates[b] =>
              Disconnected(b, coins)[o] = coins[o] /\ Utxo[b][o] = Utxo[Parent[b]][o]
  BY CoinsOfBlock DEF Disconnected, UndoCoin

\* Coins are functions on the outpoints.
LEMMA CoinsAfterType ==
  ASSUME NEW b \in Blocks \cup {None}
  PROVE  CoinsAfter(b) \in [Outpoints -> Coin]
  BY BlockAssumption DEF CoinsAfter, NoCoins, Coin

\* Initially the coins are those of the genesis block, or there are none.
LEMMA InitCoins == Init /\ GenesisHarmless => CoinsInv
<1> SUFFICES ASSUME Init, GenesisHarmless PROVE CoinsInv
  OBVIOUS
<1>1. Genesis # None
  BY Tree
<1>2. Seeded
  BY <1>1 DEF Init, Seeded
<1>3. CoinsOK
  BY <1>1 DEF Init, CoinsOK, CoinsMatchTip, DatabaseBetweenHeads
<1>4. QED
  BY <1>2, <1>3, InitBase DEF CoinsInv

\* The database, while neither it nor what it says of itself is written.
LEMMA DatabaseKept ==
  ASSUME DatabaseBetweenHeads, UNCHANGED <<db, best, heads>>
  PROVE  DatabaseBetweenHeads'
  BY DEF DatabaseBetweenHeads

\* The steps of a running node keep mem the coins of its tip.
LEMMA RunCoins ==
  ASSUME CoinsInv, phase = "run",
         \/ \E b \in Blocks : AcceptBlock(b) \/ ConnectTip(b)
         \/ DisconnectTip \/ WriteBlockIndex \/ FlushStateToDisk
  PROVE  Seeded' /\ CoinsOK'
<1>0. /\ TypeOK /\ Seeded /\ CoinsOK /\ DatabaseBetweenHeads
      /\ tip \in Blocks \cup {None} /\ mem = CoinsAfter(tip)
      /\ None \notin Blocks
  BY Tree DEF CoinsInv, BaseInv, TypeOK, CoinsOK, CoinsMatchTip, CoinsAfter
<1>1. ASSUME NEW b \in Blocks, AcceptBlock(b) PROVE Seeded' /\ CoinsOK'
  BY <1>0, <1>1
  DEF AcceptBlock, Seeded, CoinsOK, CoinsMatchTip, DatabaseBetweenHeads
<1>2. ASSUME NEW b \in Blocks, ConnectTip(b) PROVE Seeded' /\ CoinsOK'
  <2>1. mem' = Utxo[b]
    <3>1. CASE b = Genesis
      BY <1>0, <1>2, <3>1, BlockAssumption DEF ConnectTip, CoinsAfter
    <3>2. CASE b # Genesis
      <4>1. tip = Parent[b] /\ Parent[b] \in Blocks
        BY <1>2, <3>2, Tree DEF ConnectTip
      <4>2. mem = Utxo[Parent[b]]
        BY <1>0, <4>1 DEF CoinsAfter
      <4>3. QED
        BY <1>2, <3>2, <4>2, BlockAssumption DEF ConnectTip
    <3>3. QED
      BY <3>1, <3>2
  <2>2. Seeded'
    BY <1>0, <1>2 DEF ConnectTip, Seeded
  <2>3. DatabaseBetweenHeads'
    BY <1>0, <1>2, DatabaseKept DEF ConnectTip
  <2>4. CoinsOK'
    BY <1>0, <1>2, <2>1, <2>3 DEF ConnectTip, CoinsOK, CoinsMatchTip
  <2>5. QED
    BY <2>2, <2>4
<1>3. CASE DisconnectTip
  <2>1. tip \in Blocks \ {Genesis}
    BY <1>0, <1>3 DEF DisconnectTip
  <2>2. DatabaseBetweenHeads'
    BY <1>0, <1>3, DatabaseKept DEF DisconnectTip
  <2>3. CASE phase' = "failed" /\ UNCHANGED <<mem, tip>>
    BY <1>0, <1>3, <2>2, <2>3 DEF DisconnectTip, Seeded, CoinsOK, CoinsMatchTip
  <2>4. CASE mem' = Disconnected(tip, mem) /\ tip' = Parent[tip] /\ UNCHANGED phase
    <3>1. /\ Parent[tip] \in Blocks /\ mem = Utxo[tip] /\ mem \in [Outpoints -> Coin]
          /\ Utxo[Parent[tip]] \in [Outpoints -> Coin]
      BY <1>0, <2>1, Tree, BlockAssumption DEF CoinsAfter
    <3>2. \A o \in Outpoints : mem'[o] = Utxo[Parent[tip]][o]
      BY <2>1, <2>4, <3>1, DisconnectCoins
    <3>3. mem' \in [Outpoints -> Coin]
      BY <2>1, <2>4, <3>1, CoinTypes
    <3>4. mem' = Utxo[tip']
      BY <2>4, <3>1, <3>2, <3>3
    <3>5. Seeded'
      BY <1>0, <1>3, <2>4, <3>1 DEF DisconnectTip, Seeded
    <3>6. CoinsOK'
      BY <1>0, <1>3, <2>2, <2>4, <3>1, <3>4 DEF DisconnectTip, CoinsOK, CoinsMatchTip
    <3>7. QED
      BY <3>5, <3>6
  <2>5. QED
    BY <1>3, <2>3, <2>4 DEF DisconnectTip
<1>4. CASE WriteBlockIndex
  BY <1>0, <1>4
  DEF WriteBlockIndex, Seeded, CoinsOK, CoinsMatchTip, DatabaseBetweenHeads
<1>5. CASE FlushStateToDisk
  <2>1. DatabaseBetweenHeads'
    BY <1>0, <1>5, DatabaseKept DEF FlushStateToDisk
  <2>2. Seeded'
    BY <1>0, <1>5 DEF FlushStateToDisk, Seeded
  <2>3. CoinsOK'
    BY <1>0, <1>5, <2>1 DEF FlushStateToDisk, CoinsOK, CoinsMatchTip, CoinsAfter
  <2>4. QED
    BY <2>2, <2>3
<1>6. QED
  BY <1>1, <1>2, <1>3, <1>4, <1>5

\* The batches of a flush: the first one leaves the database between its best
\* block and the tip, later ones, also those of a flush that finishes an
\* interrupted one, between the same two heads.
LEMMA FlushCoins ==
  ASSUME CoinsInv,
         (\E S \in SUBSET Outpoints : WritePartialBatch(S)) \/ WriteFinalBatch
  PROVE  Seeded' /\ CoinsOK'
<1>0. /\ TypeOK /\ PhaseOK /\ Seeded /\ CoinsOK /\ DatabaseBetweenHeads
      /\ None \notin Blocks
  BY Tree DEF CoinsInv, BaseInv, CoinsOK
<1>1. phase = "flush" /\ tip \in Blocks
  BY <1>0 DEF WritePartialBatch, WriteFinalBatch, PhaseOK
<1>2. mem = Utxo[tip] /\ tip # None
  BY <1>0, <1>1 DEF CoinsOK, CoinsAfter
<1>3. ASSUME NEW S \in SUBSET Outpoints, WritePartialBatch(S) PROVE Seeded' /\ CoinsOK'
  <2>1. /\ heads' = <<tip, OldTip>> /\ heads' # <<>>
        /\ heads'[1] = tip /\ heads'[2] = OldTip /\ best' = None
        /\ UNCHANGED <<mem, tip, pos, phase>>
    BY <1>3 DEF WritePartialBatch
  <2>2. ASSUME NEW o \in Outpoints
        PROVE  db[o] = Utxo[tip][o] \/ db[o] = CoinsAfter(OldTip)[o]
    <3>1. CASE best # None
      <4>1. heads = <<>> /\ OldTip = best
        BY <1>0, <3>1 DEF DatabaseBetweenHeads, OldTip
      <4>2. QED
        BY <1>0, <3>1, <4>1 DEF DatabaseBetweenHeads, CoinsAfter
    <3>2. CASE best = None /\ heads # <<>>
      <4>1. OldTip = heads[2] /\ heads[1] = tip
        BY <1>0, <1>1, <3>2 DEF OldTip, PhaseOK, FlushContinuesReplay
      <4>2. QED
        BY <1>0, <3>2, <4>1 DEF DatabaseBetweenHeads, CoinsAfter, NoCoins
    <3>3. CASE best = None /\ heads = <<>>
      <4>1. OldTip = None
        BY <3>3 DEF OldTip
      <4>2. QED
        BY <1>0, <3>3, <4>1 DEF DatabaseBetweenHeads, CoinsAfter
    <3>4. QED
      BY <3>1, <3>2, <3>3
  <2>3. \A o \in Outpoints : db'[o] = Utxo[tip][o] \/ db'[o] = CoinsAfter(OldTip)[o]
    BY <1>2, <1>3, <2>2 DEF WritePartialBatch
  <2>4. DatabaseBetweenHeads'
    BY <2>1, <2>3 DEF DatabaseBetweenHeads, CoinsAfter, NoCoins
  <2>5. Seeded'
    <3>1. ~FreshStart => OldTip # None
      <4>1. CASE best # None
        BY <4>1 DEF OldTip
      <4>2. CASE best = None /\ heads # <<>>
        BY <1>0, <4>2 DEF OldTip, Seeded
      <4>3. CASE best = None /\ heads = <<>>
        BY <1>0, <4>3 DEF Seeded
      <4>4. QED
        BY <4>1, <4>2, <4>3
    <3>2. QED
      BY <1>0, <1>1, <2>1, <3>1 DEF Seeded
  <2>6. CoinsOK'
    BY <1>0, <1>1, <1>2, <2>1, <2>4 DEF CoinsOK, CoinsMatchTip, CoinsAfter
  <2>7. QED
    BY <2>5, <2>6
<1>4. CASE WriteFinalBatch
  <2>1. Seeded'
    BY <1>0, <1>2, <1>4 DEF WriteFinalBatch, Seeded
  <2>2. DatabaseBetweenHeads'
    BY <1>2, <1>4 DEF WriteFinalBatch, DatabaseBetweenHeads
  <2>3. CoinsOK'
    BY <1>0, <1>2, <1>4, <2>2 DEF WriteFinalBatch, CoinsOK, CoinsMatchTip
  <2>4. QED
    BY <2>1, <2>3
<1>5. QED
  BY <1>3, <1>4

\* A crash keeps the database; startup reads it.
LEMMA RestartCoins ==
  ASSUME CoinsInv, Crash \/ Startup
  PROVE  Seeded' /\ CoinsOK'
<1>0. TypeOK /\ Seeded /\ CoinsOK /\ DatabaseBetweenHeads /\ None \notin Blocks
  BY Tree DEF CoinsInv, BaseInv, CoinsOK
<1>1. DatabaseBetweenHeads'
  BY <1>0, DatabaseKept DEF Crash, Startup
<1>2. CASE Crash
  <2>1. Seeded'
    BY <1>0, <1>2 DEF Crash, Seeded
  <2>2. CoinsOK'
    BY <1>1, <1>2 DEF Crash, CoinsOK, CoinsMatchTip
  <2>3. QED
    BY <2>1, <2>2
<1>3. CASE Startup /\ heads = <<>>
  <2>1. /\ mem' = db /\ tip' = best /\ phase' \in {"run", "failed"}
        /\ UNCHANGED <<best, heads, pos>>
    BY <1>3 DEF Startup
  <2>2. Seeded'
    BY <1>0, <1>3, <2>1 DEF Seeded
  <2>3. CoinsMatchTip'
    BY <1>0, <1>3, <2>1 DEF DatabaseBetweenHeads, CoinsMatchTip
  <2>4. CoinsOK'
    BY <1>1, <2>1, <2>3 DEF CoinsOK
  <2>5. QED
    BY <2>2, <2>4
<1>4. CASE Startup /\ heads # <<>>
  <2>1. /\ mem' = db /\ tip' = heads[1] /\ pos' = heads[2] /\ phase' \in {"replay", "failed"}
        /\ UNCHANGED <<best, heads>>
    BY <1>4 DEF Startup
  <2>2. heads[1] \in Blocks
    BY <1>0, <1>4 DEF TypeOK
  <2>3. Seeded'
    BY <1>0, <1>4, <2>1 DEF Seeded
  <2>4. \A o \in Outpoints :
          mem'[o] = CoinsAfter(heads[2])[o] \/ mem'[o] = CoinsAfter(heads[1])[o]
    BY <1>0, <1>4, <2>1, <2>2 DEF DatabaseBetweenHeads, CoinsAfter, NoCoins
  <2>5. CoinsOK'
    BY <1>1, <2>1, <2>4 DEF CoinsOK, CoinsMatchTip, CoinsAfter
  <2>6. QED
    BY <2>3, <2>5
<1>5. QED
  BY <1>2, <1>3, <1>4

\* Undoing a block of the old branch: what is not yet that of the new tip goes
\* from the coin of the block to that of its parent.
LEMMA RollbackCoins ==
  ASSUME CoinsInv, RollbackBlock
  PROVE  Seeded' /\ CoinsOK'
<1>0. /\ TypeOK /\ PhaseOK /\ Seeded /\ CoinsOK /\ DatabaseBetweenHeads
      /\ None \notin Blocks
  BY Tree DEF CoinsInv, BaseInv, CoinsOK
<1>1. DatabaseBetweenHeads'
  BY <1>0, DatabaseKept DEF RollbackBlock
<1>2. phase = "replay" /\ tip \in Blocks /\ OldBranch # {}
  BY <1>0 DEF RollbackBlock, PhaseOK
<1>3. pos \in Blocks \ {Genesis} /\ Parent[pos] \in Blocks
  BY <1>0, <1>2, OldBranchAboveGenesis, Tree
<1>4. CASE phase' = "failed"
  BY <1>0, <1>1, <1>4 DEF RollbackBlock, Seeded, CoinsOK, CoinsMatchTip
<1>5. CASE phase' # "failed"
  <2>1. mem' = Disconnected(pos, mem) /\ pos' = Parent[pos] /\ UNCHANGED <<phase, tip>>
    BY <1>5 DEF RollbackBlock
  <2>2. ASSUME NEW o \in Outpoints
        PROVE  mem'[o] = Utxo[Parent[pos]][o] \/ mem'[o] = CoinsAfter(tip)[o]
    <3>1. mem[o] = Utxo[pos][o] \/ mem[o] = CoinsAfter(tip)[o]
      BY <1>0, <1>2, <1>3 DEF CoinsOK, CoinsAfter
    <3>2. mem \in [Outpoints -> Coin]
      BY <1>0 DEF TypeOK
    <3>3. QED
      BY <1>3, <2>1, <3>1, <3>2, DisconnectCoins
  <2>3. Seeded'
    BY <1>0, <1>2, <1>3, <2>1 DEF RollbackBlock, Seeded
  <2>4. CoinsOK'
    BY <1>0, <1>1, <1>2, <1>3, <2>1, <2>2 DEF CoinsOK, CoinsMatchTip, CoinsAfter
  <2>5. QED
    BY <2>3, <2>4
<1>6. QED
  BY <1>4, <1>5

\* The block the roll-forward starts from, when there was no old tip.
Reached == IF pos = None THEN Genesis ELSE pos

\* A replay that rolls forward stands on the chain of the new tip; with no old
\* tip it stands on a genesis block without coins.
LEMMA OnNewBranch ==
  ASSUME CoinsInv, phase = "replay", OldBranch = {}
  PROVE  /\ tip \in Blocks /\ Reached \in Anc[tip] /\ NewBranch = Anc[tip] \ Anc[Reached]
         /\ CoinsAfter(pos) = Utxo[Reached]
<1>0. /\ TypeOK /\ Seeded /\ GenesisHarmless /\ tip \in Blocks
      /\ Genesis \in Blocks /\ None \notin Blocks
  BY Tree DEF CoinsInv, BaseInv, PhaseOK
<1>1. CASE pos = None
  <2>1. Creates[Genesis] = {}
    BY <1>0, <1>1 DEF Seeded, GenesisHarmless
  <2>2. Utxo[Genesis] = NoCoins
    <3>1. Utxo[Genesis] = Connected(Genesis, NoCoins) /\ Spends[Genesis] = {}
      BY BlockAssumption
    <3>2. QED
      BY <2>1, <3>1 DEF Connected, NoCoins
  <2>3. QED
    BY <1>0, <1>1, <2>2, Tree DEF Reached, NewBranch, CoinsAfter
<1>2. CASE pos # None
  <2>1. pos \in Blocks /\ Anc[pos] \subseteq Anc[tip]
    BY <1>0, <1>2 DEF TypeOK, OldBranch
  <2>2. QED
    BY <1>0, <1>2, <2>1, Tree DEF Reached, NewBranch, CoinsAfter
<1>3. QED
  BY <1>1, <1>2

\* Redoing a block of the new branch.
LEMMA RollforwardCoins ==
  ASSUME CoinsInv, NEW b \in Blocks, RollforwardBlock(b)
  PROVE  Seeded' /\ CoinsOK'
<1>0. TypeOK /\ Seeded /\ CoinsOK /\ DatabaseBetweenHeads /\ None \notin Blocks
  BY Tree DEF CoinsInv, BaseInv, CoinsOK
<1>1. DatabaseBetweenHeads'
  BY <1>0, DatabaseKept DEF RollforwardBlock
<1>2. phase = "replay" /\ OldBranch = {}
  BY DEF RollforwardBlock
<1>3. /\ tip \in Blocks /\ Reached \in Anc[tip] /\ NewBranch = Anc[tip] \ Anc[Reached]
      /\ CoinsAfter(pos) = Utxo[Reached]
  BY <1>2, OnNewBranch
<1>4. b \in Blocks \ {Genesis} /\ Parent[b] = Reached
  BY <1>3, NextOnChain DEF RollforwardBlock
<1>5. mem' = Connected(b, mem) /\ pos' = b /\ UNCHANGED <<phase, tip>>
  BY DEF RollforwardBlock
<1>6. ASSUME NEW o \in Outpoints
      PROVE  mem'[o] = Utxo[b][o] \/ mem'[o] = CoinsAfter(tip)[o]
  <2>1. mem[o] = Utxo[Parent[b]][o] \/ mem[o] = CoinsAfter(tip)[o]
    BY <1>0, <1>2, <1>3, <1>4 DEF CoinsOK
  <2>2. mem \in [Outpoints -> Coin]
    BY <1>0 DEF TypeOK
  <2>3. QED
    BY <1>4, <1>5, <2>1, <2>2, ConnectCoins
<1>7. Seeded'
  BY <1>0, <1>2, <1>4, <1>5 DEF RollforwardBlock, Seeded
<1>8. CoinsOK'
  BY <1>0, <1>1, <1>2, <1>5, <1>6 DEF CoinsOK, CoinsMatchTip, CoinsAfter
<1>9. QED
  BY <1>7, <1>8

\* At the end of the replay every coin is that of the new tip.
LEMMA ReplayDoneCoins ==
  ASSUME CoinsInv, ReplayDone
  PROVE  Seeded' /\ CoinsOK'
<1>0. TypeOK /\ Seeded /\ CoinsOK /\ DatabaseBetweenHeads /\ None \notin Blocks
  BY Tree DEF CoinsInv, BaseInv, CoinsOK
<1>1. DatabaseBetweenHeads'
  BY <1>0, DatabaseKept DEF ReplayDone
<1>2. phase = "replay" /\ OldBranch = {} /\ NewBranch = {}
  BY DEF ReplayDone
<1>3. /\ tip \in Blocks /\ Reached \in Anc[tip] /\ NewBranch = Anc[tip] \ Anc[Reached]
      /\ CoinsAfter(pos) = Utxo[Reached]
  BY <1>2, OnNewBranch
<1>4. Reached \in Blocks /\ tip \in Anc[Reached]
  BY <1>2, <1>3, Tree
<1>5. Reached = tip
  BY <1>3, <1>4, SameBlock
<1>6. CoinsAfter(tip) = Utxo[tip] /\ Utxo[tip] \in [Outpoints -> Coin]
  BY <1>0, <1>3, BlockAssumption DEF CoinsAfter
<1>7. \A o \in Outpoints : mem[o] = Utxo[tip][o]
  BY <1>0, <1>2, <1>3, <1>5, <1>6 DEF CoinsOK
<1>8. mem = Utxo[tip]
  BY <1>0, <1>6, <1>7 DEF TypeOK
<1>9. Seeded'
  BY <1>0, <1>2 DEF ReplayDone, Seeded
<1>10. CoinsOK'
  BY <1>0, <1>1, <1>3, <1>8 DEF ReplayDone, CoinsOK, CoinsMatchTip, CoinsAfter
<1>11. QED
  BY <1>9, <1>10

\* Every step keeps the invariant of the coins.
LEMMA NextCoins == CoinsInv /\ [Next]_vars => CoinsInv'
<1> SUFFICES ASSUME CoinsInv, [Next]_vars PROVE CoinsInv'
  OBVIOUS
<1>1. BaseInv'
  BY NextBase DEF CoinsInv
<1>2. GenesisHarmless'
  BY DEF CoinsInv, GenesisHarmless
<1>3. Seeded' /\ CoinsOK'
  <2>1. CASE UNCHANGED vars
    BY <2>1
    DEF vars, CoinsInv, Seeded, CoinsOK, CoinsMatchTip, DatabaseBetweenHeads, CoinsAfter
  <2>2. CASE Next
    <3>1. ASSUME \/ \E b \in Blocks : AcceptBlock(b) \/ ConnectTip(b)
                 \/ DisconnectTip \/ WriteBlockIndex \/ FlushStateToDisk
          PROVE  phase = "run"
      BY <3>1 DEF AcceptBlock, ConnectTip, DisconnectTip, WriteBlockIndex, FlushStateToDisk
    <3>2. QED
      BY <2>2, <3>1, RunCoins, FlushCoins, RestartCoins, RollbackCoins, RollforwardCoins,
         ReplayDoneCoins
      DEF Next, Replay
  <2>3. QED
    BY <2>1, <2>2
<1>4. QED
  BY <1>1, <1>2, <1>3 DEF CoinsInv

\* The invariant of the coins holds in every reachable state.
LEMMA CoinsInvariance == Spec /\ GenesisHarmless => []CoinsInv
  BY InitCoins, NextCoins, PTL DEF Spec

\* After any sequence of crashes in flushes and in replays a running node holds
\* exactly the coins of its tip.
THEOREM CoinsRecovered == Spec /\ GenesisHarmless => []CoinsMatchTip
<1>1. CoinsInv => CoinsMatchTip
  BY DEF CoinsInv, CoinsOK
<1>2. QED
  BY <1>1, CoinsInvariance, PTL

\* DB_HEAD_BLOCKS always describes what is in the database, batch by batch.
THEOREM DatabaseStaysBetween == Spec /\ GenesisHarmless => []DatabaseBetweenHeads
<1>1. CoinsInv => DatabaseBetweenHeads
  BY DEF CoinsInv, CoinsOK
<1>2. QED
  BY <1>1, CoinsInvariance, PTL

-----------------------------------------------------------------------------
(* Third layer: nothing fails.                                             *)

\* The undo data of a block never holds a coin of height 0.
LEMMA UndoWorks ==
  ASSUME GenesisUnspent, NEW b \in Blocks \ {Genesis}, NEW coins
  PROVE  ~UndoFails(b, coins)
<1>1. /\ Parent[b] \in Blocks /\ Height[b] = Height[Parent[b]] + 1
      /\ Height[Parent[b]] \in Nat
  BY Tree
<1>2. Spends[b] \subseteq Outpoints
  BY BlockAssumption
<1>3. ASSUME NEW o \in Spends[b] PROVE UndoCoin(b, o) # 0
  <2>1. Utxo[Parent[b]][o] # 0
    BY <1>1, <1>2, ZeroIsGenesis DEF GenesisUnspent
  <2>2. QED
    BY <1>1, <2>1 DEF UndoCoin
<1>4. QED
  BY <1>3 DEF UndoFails

\* A node that holds the coins of its tip disconnects it cleanly.
LEMMA DisconnectsCleanly ==
  ASSUME NEW b \in Blocks \ {Genesis}
  PROVE  ~Unclean(b, Utxo[b])
<1>1. Spends[b] \subseteq Outpoints /\ Creates[b] \subseteq Outpoints
  BY BlockAssumption
<1>2. QED
  BY <1>1, CoinsOfBlock DEF Unclean

\* No step fails.
LEMMA NextClean == CleanInv /\ [Next]_vars => CleanInv'
<1> SUFFICES ASSUME CleanInv, [Next]_vars PROVE CleanInv'
  OBVIOUS
<1>1. CoinsInv' /\ GenesisUnspent'
  BY NextCoins DEF CleanInv, GenesisUnspent
<1>2. NeverStuck'
  <2>0. TypeOK /\ PhaseOK /\ DurableOK /\ CoinsMatchTip /\ GenesisUnspent /\ phase # "failed"
    BY DEF CleanInv, CoinsInv, BaseInv, CoinsOK, NeverStuck
  <2>1. CASE DisconnectTip
    <3>1. phase = "run" /\ tip \in Blocks \ {Genesis} /\ tip # None
      BY <2>0, <2>1 DEF DisconnectTip, TypeOK
    <3>2. mem = Utxo[tip]
      BY <2>0, <3>1 DEF CoinsMatchTip
    <3>3. ~UndoFails(tip, mem) /\ ~Unclean(tip, mem)
      BY <2>0, <3>1, <3>2, UndoWorks, DisconnectsCleanly
    <3>4. QED
      BY <2>1, <3>1, <3>3 DEF DisconnectTip, NeverStuck
  <2>2. CASE RollbackBlock
    <3>1. pos \in Blocks \ {Genesis} /\ phase = "replay"
      BY <2>0, <2>2, OldBranchAboveGenesis DEF RollbackBlock, PhaseOK
    <3>2. ~UndoFails(pos, mem)
      BY <2>0, <3>1, UndoWorks
    <3>3. QED
      BY <2>2, <3>1, <3>2 DEF RollbackBlock, NeverStuck
  <2>3. CASE Startup
    <3>1. best \in index \cup {None}
      BY <2>0 DEF DurableOK, Durable
    <3>2. heads # <<>> => heads[1] \in index /\ heads[2] \in index \cup {None}
      <4>1. heads # <<>> => heads[1] # None
        BY <2>0, Tree DEF TypeOK
      <4>2. QED
        BY <2>0, <4>1 DEF DurableOK, Durable
    <3>3. QED
      BY <2>3, <3>1, <3>2 DEF Startup, NeverStuck
  <2>4. CASE ~(DisconnectTip \/ RollbackBlock \/ Startup)
    <3>1. phase' = phase \/ phase' \in {"flush", "run", "down"}
      BY <2>4
      DEF Next, Replay, vars, AcceptBlock, ConnectTip, WriteBlockIndex, FlushStateToDisk,
          WritePartialBatch, WriteFinalBatch, Crash, RollforwardBlock, ReplayDone
    <3>2. QED
      BY <2>0, <3>1 DEF NeverStuck
  <2>5. QED
    BY <2>1, <2>2, <2>3, <2>4
<1>3. QED
  BY <1>1, <1>2 DEF CleanInv

\* The node never has to be rebuilt: every disconnection is clean, every undo of
\* a replay works, and every startup finds the blocks the database names, as
\* long as no block spends a coin of the genesis block.
THEOREM NeverNeedsReindex == Spec /\ GenesisHarmless /\ GenesisUnspent => []NeverStuck
<1>1. Init /\ GenesisHarmless /\ GenesisUnspent => CleanInv
  BY InitCoins DEF CleanInv, NeverStuck, Init
<1>2. CleanInv => NeverStuck
  BY DEF CleanInv
<1>3. QED
  BY <1>1, <1>2, NextClean, PTL DEF Spec
=============================================================================
