------------------------------- MODULE CoinsDB -------------------------------
(***************************************************************************)
(* The chainstate database across crashes (txdb.cpp, FlushStateToDisk,     *)
(* ReplayBlocks).  A flush of pcoinsTip is written in several batches, each*)
(* of them atomic; the first replaces DB_BEST_BLOCK by DB_HEAD_BLOCKS, the *)
(* last one does the reverse.  A node that finds DB_HEAD_BLOCKS at startup *)
(* rolls the old branch back and the new one forward over a database in    *)
(* which any part of the flush may be missing, and flushes again.          *)
(*                                                                         *)
(* A coin is represented by the height of the block that created it.  The  *)
(* transactions of a block are represented by the outpoints they create    *)
(* and spend: a block may spend what it creates, and one transaction may   *)
(* be in blocks of different height on two branches.                       *)
(***************************************************************************)
EXTENDS Integers, Sequences, FiniteSets

CONSTANTS Blocks, Genesis, Parent, Anc, Height,
          Outpoints,
          Creates,       \* spendable outputs of the transactions of a block
          Spends,        \* inputs of the transactions of a block
          Utxo,          \* the UTXO set after a block, by definition
          FreshStart,    \* start with an empty database
          NoCoin, None

Coin == {Height[b] : b \in Blocks} \cup {NoCoin}

\* Spending and adding the coins of a block, in ConnectBlock and in
\* RollforwardBlock: what happens to an outpoint does not depend on the
\* coin that is there.
Connected(b, coins) ==
  [o \in Outpoints |-> CASE o \in Spends[b] -> NoCoin
                         [] o \in Creates[b] \ Spends[b] -> Height[b]
                         [] OTHER -> coins[o]]

NoCoins == [o \in Outpoints |-> NoCoin]

ASSUME TreeAssumption ==
  /\ Genesis \in Blocks /\ None \notin Blocks
  /\ Parent \in [Blocks \ {Genesis} -> Blocks]
  /\ Anc \in [Blocks -> SUBSET Blocks] /\ Anc[Genesis] = {Genesis}
  /\ \A b \in Blocks \ {Genesis} : /\ b \notin Anc[Parent[b]]
                                   /\ Anc[b] = {b} \cup Anc[Parent[b]]
  /\ Height \in [Blocks -> Nat] /\ Height[Genesis] = 0
  /\ \A b \in Blocks \ {Genesis} : Height[b] = Height[Parent[b]] + 1

\* Blocks are valid: they spend coins that exist, and create outpoints that do
\* not exist in their chain (the heights in coinbases see to that).
ASSUME BlockAssumption ==
  /\ NoCoin \notin Nat
  /\ Creates \in [Blocks -> SUBSET Outpoints] /\ Spends \in [Blocks -> SUBSET Outpoints]
  /\ Utxo \in [Blocks -> [Outpoints -> Coin]]
  /\ Spends[Genesis] = {} /\ Utxo[Genesis] = Connected(Genesis, NoCoins)
  /\ \A b \in Blocks \ {Genesis} :
       /\ Utxo[b] = Connected(b, Utxo[Parent[b]])
       /\ \A o \in Creates[b] : Utxo[Parent[b]][o] = NoCoin
       /\ \A o \in Spends[b] \ Creates[b] : Utxo[Parent[b]][o] # NoCoin
  /\ FreshStart \in BOOLEAN

VARIABLES db,            \* the coins in the database
          best,          \* DB_BEST_BLOCK
          heads,         \* DB_HEAD_BLOCKS: <<>> or <<new tip, old tip>>
          durable,       \* blocks in the block index database, with undo data
          index,         \* mapBlockIndex
          mem,           \* pcoinsTip, or the cache of ReplayBlocks: all coins seen
          tip,           \* block mem stands for; the new tip during a replay
          pos,           \* block the replay has reached
          phase          \* what the process is doing

vars == <<db, best, heads, durable, index, mem, tip, pos, phase>>

TypeOK ==
  /\ db \in [Outpoints -> Coin] /\ mem \in [Outpoints -> Coin]
  /\ best \in Blocks \cup {None} /\ tip \in Blocks \cup {None} /\ pos \in Blocks \cup {None}
  /\ heads \in {<<>>} \cup (Blocks \X (Blocks \cup {None}))
  /\ durable \in SUBSET Blocks /\ index \in SUBSET Blocks
  /\ phase \in {"run", "flush", "replay", "down", "failed"}

Init ==
  /\ db = IF FreshStart THEN NoCoins ELSE Utxo[Genesis]
  /\ best = IF FreshStart THEN None ELSE Genesis
  /\ heads = <<>> /\ durable = {Genesis} /\ index = {Genesis}
  /\ mem = db /\ tip = best /\ pos = None /\ phase = "run"

-----------------------------------------------------------------------------
(* The running node.                                                       *)

\* AcceptBlock stores a block.
AcceptBlock(b) ==
  /\ phase = "run"
  /\ b \notin index /\ Parent[b] \in index
  /\ index' = index \cup {b}
  /\ UNCHANGED <<db, best, heads, durable, mem, tip, pos, phase>>

\* ConnectTip.
ConnectTip(b) ==
  /\ phase = "run"
  /\ b \in index
  /\ IF b = Genesis THEN tip = None ELSE tip = Parent[b]
  /\ mem' = Connected(b, mem)
  /\ tip' = b
  /\ UNCHANGED <<db, best, heads, durable, index, pos, phase>>

\* The coin that the undo data of block b holds for an outpoint it spends.
UndoCoin(b, o) == IF o \in Creates[b] THEN Height[b] ELSE Utxo[Parent[b]][o]

\* ApplyTxInUndo takes height 0 for missing metadata and looks for another
\* output of the transaction; the one transaction of height 0 has one output.
UndoFails(b, coins) ==
  \E o \in Spends[b] : UndoCoin(b, o) = 0 /\ coins[o] = NoCoin

\* Faulty variant: the outputs of the block stay.
DisconnectedKeepsOutputs(b, coins) ==
  [o \in Outpoints |-> IF o \in Spends[b] THEN UndoCoin(b, o) ELSE coins[o]]

\* DisconnectBlock when no undo fails.
Disconnected(b, coins) ==
  [o \in Outpoints |-> CASE o \in Creates[b] -> NoCoin
                         [] o \in Spends[b] \ Creates[b] -> UndoCoin(b, o)
                         [] OTHER -> coins[o]]

\* DisconnectBlock answers DISCONNECT_UNCLEAN: an output of the block is not
\* there as the block created it, or an input is there already.
Unclean(b, coins) ==
  \/ \E o \in Creates[b] \ Spends[b] : coins[o] # Height[b]
  \/ \E o \in Spends[b] : coins[o] # NoCoin

\* DisconnectTip, which takes nothing but DISCONNECT_OK.
DisconnectTip ==
  /\ phase = "run"
  /\ tip \notin {None, Genesis}
  /\ IF UndoFails(tip, mem) \/ Unclean(tip, mem)
     THEN phase' = "failed" /\ UNCHANGED <<mem, tip>>
     ELSE mem' = Disconnected(tip, mem) /\ tip' = Parent[tip] /\ UNCHANGED phase
  /\ UNCHANGED <<db, best, heads, durable, index, pos>>

\* FlushStateToDisk when only its periodic write of the block index is due.
WriteBlockIndex ==
  /\ phase = "run"
  /\ durable' = index
  /\ UNCHANGED <<db, best, heads, index, mem, tip, pos, phase>>

\* Faulty variant: the coins are written before the block index.
FlushCoinsFirst ==
  /\ phase = "run"
  /\ tip # None
  /\ phase' = "flush"
  /\ UNCHANGED <<db, best, heads, durable, index, mem, tip, pos>>

\* FlushStateToDisk when a full flush is due: blocks, undo data and the block
\* index go first, then pcoinsTip unless its best block is null.
FlushStateToDisk ==
  /\ phase = "run"
  /\ tip # None
  /\ durable' = index
  /\ phase' = "flush"
  /\ UNCHANGED <<db, best, heads, index, mem, tip, pos>>

\* Faulty variant: the heads of an interrupted flush are not looked at.
OldTipIsBest == best

\* old_tip of CCoinsViewDB::BatchWrite.
OldTip == CASE best # None -> best
            [] best = None /\ heads # <<>> -> heads[2]
            [] OTHER -> None

\* A batch of CCoinsViewDB::BatchWrite that is not the last one.  Entries of
\* the cache that the database agrees with make no difference.
WritePartialBatch(S) ==
  /\ phase = "flush"
  /\ S \subseteq {o \in Outpoints : db[o] # mem[o]}
  /\ S # {}
  /\ db' = [o \in Outpoints |-> IF o \in S THEN mem[o] ELSE db[o]]
  /\ best' = None
  /\ heads' = <<tip, OldTip>>
  /\ UNCHANGED <<durable, index, mem, tip, pos, phase>>

WriteFinalBatch ==
  /\ phase = "flush"
  /\ db' = mem
  /\ best' = tip
  /\ heads' = <<>>
  /\ phase' = "run"
  /\ UNCHANGED <<durable, index, mem, tip, pos>>

-----------------------------------------------------------------------------
(* Crashes and startup.                                                    *)

\* The process ends without flushing, at any point.
Crash ==
  /\ phase \notin {"down", "failed"}
  /\ phase' = "down"
  /\ index' = durable
  /\ mem' = NoCoins /\ tip' = None /\ pos' = None
  /\ UNCHANGED <<db, best, heads, durable>>

\* Faulty variant: the node starts on the old tip without a replay.
StartupOnOldTip ==
  /\ phase = "down"
  /\ mem' = db
  /\ tip' = IF heads = <<>> THEN best ELSE heads[2]
  /\ phase' = "run"
  /\ UNCHANGED <<db, best, heads, durable, index, pos>>

\* AppInitMain up to the beginning of ReplayBlocks, and LoadChainTip when there
\* is nothing to replay.
Startup ==
  /\ phase = "down"
  /\ mem' = db
  /\ IF heads = <<>>
     THEN /\ tip' = best
          /\ phase' = IF best \in index \cup {None} THEN "run" ELSE "failed"
          /\ UNCHANGED pos
     ELSE /\ tip' = heads[1]
          /\ pos' = heads[2]
          /\ phase' = IF heads[1] \in index /\ heads[2] \in index \cup {None}
                      THEN "replay" ELSE "failed"
  /\ UNCHANGED <<db, best, heads, durable, index>>

\* The blocks still to be rolled back, and those to be rolled forward.
OldBranch == IF pos = None THEN {} ELSE Anc[pos] \ Anc[tip]
NewBranch == IF pos = None THEN Anc[tip] \ {Genesis} ELSE Anc[tip] \ Anc[pos]

\* Faulty variant: the loop does not move to the parent.
RollbackStays ==
  /\ phase = "replay"
  /\ OldBranch # {}
  /\ mem' = Disconnected(pos, mem)
  /\ UNCHANGED <<db, best, heads, durable, index, tip, pos, phase>>

\* One iteration of "Rollback along the old branch": an unclean answer is what
\* a half-written flush leads to, and is accepted.
RollbackBlock ==
  /\ phase = "replay"
  /\ OldBranch # {}
  /\ IF UndoFails(pos, mem)
     THEN phase' = "failed" /\ UNCHANGED <<mem, pos>>
     ELSE mem' = Disconnected(pos, mem) /\ pos' = Parent[pos] /\ UNCHANGED phase
  /\ UNCHANGED <<db, best, heads, durable, index, tip>>

\* One iteration of "Roll forward from the forking point to the new tip".
RollforwardBlock(b) ==
  /\ phase = "replay"
  /\ OldBranch = {}
  /\ b \in NewBranch
  /\ \A d \in NewBranch : Height[b] <= Height[d]
  /\ mem' = Connected(b, mem)
  /\ pos' = b
  /\ UNCHANGED <<db, best, heads, durable, index, tip, phase>>

\* cache.Flush() at the end of ReplayBlocks.
ReplayDone ==
  /\ phase = "replay"
  /\ OldBranch = {} /\ NewBranch = {}
  /\ pos' = None
  /\ phase' = "flush"
  /\ UNCHANGED <<db, best, heads, durable, index, mem, tip>>

Replay == RollbackBlock \/ (\E b \in Blocks : RollforwardBlock(b)) \/ ReplayDone

Next ==
  \/ \E b \in Blocks : AcceptBlock(b) \/ ConnectTip(b)
  \/ DisconnectTip
  \/ WriteBlockIndex
  \/ FlushStateToDisk
  \/ \E S \in SUBSET Outpoints : WritePartialBatch(S)
  \/ WriteFinalBatch
  \/ Crash
  \/ Startup
  \/ Replay

Spec == Init /\ [][Next]_vars

\* A process that is not killed goes on with its startup and with its flush.
FairSpec == Spec /\ WF_vars(Startup) /\ WF_vars(Replay) /\ WF_vars(WriteFinalBatch)

-----------------------------------------------------------------------------
(* Properties.                                                             *)

\* Whatever part of whatever flush a crash cut off, a node that is running
\* holds exactly the coins of its tip.
CoinsMatchTip ==
  phase = "run" => mem = IF tip = None THEN NoCoins ELSE Utxo[tip]

\* While DB_HEAD_BLOCKS is there every coin in the database is that of the old
\* or that of the new tip; otherwise the database is the one of its best block.
DatabaseBetweenHeads ==
  IF heads = <<>> THEN db = IF best = None THEN NoCoins ELSE Utxo[best]
  ELSE /\ best = None
       /\ \A o \in Outpoints :
            \/ db[o] = Utxo[heads[1]][o]
            \/ db[o] = IF heads[2] = None THEN NoCoin ELSE Utxo[heads[2]][o]

\* Every disconnection is clean, no undo of a replay fails, and the best block
\* or both heads are in the block index at every startup: the node never has
\* to be rebuilt with -reindex-chainstate.
NeverStuck == phase # "failed"

\* BatchWrite asserts that a flush that follows an interrupted one leads to the
\* same block: only ReplayBlocks may flush first.
FlushContinuesReplay == phase = "flush" /\ heads # <<>> => heads[1] = tip

\* If crashes stop, the node comes back.
ComesBack == <>[][phase' # "down"]_vars => []<>(phase \in {"run", "flush"})
=============================================================================
