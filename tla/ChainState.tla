----------------------------- MODULE ChainState -----------------------------
(***************************************************************************)
(* CChainState (validation.cpp): the block index with its status flags,    *)
(* setBlockIndexCandidates, mapBlocksUnlinked, g_failed_blocks, and the    *)
(* state machine that keeps chainActive on the best usable chain.          *)
(*                                                                         *)
(* Every action is one region of the code that holds cs_main.  The points  *)
(* where the lock is not held are the interleaving points of the model:    *)
(* between the first CheckBlock of ProcessNewBlock and its AcceptBlock,    *)
(* between an update of the index and ActivateBestChain, and between two   *)
(* iterations of ActivateBestChain, which keeps pindexMostWork across them.*)
(*                                                                         *)
(* Left out: pruning (so BLOCK_HAVE_DATA and nTx # 0 coincide and the      *)
(* fMissingData branch of FindMostWorkChain is dead), failures of the disk *)
(* (AbortNode), and pindexBestInvalid and pindexBestHeader, which feed     *)
(* only warnings and header synchronisation.                               *)
(***************************************************************************)
EXTENDS Integers, FiniteSets

CONSTANTS Blocks,          \* block index entries; the number is the pointer
          Genesis,
          Parent,          \* pprev
          Anc,             \* a block with all its ancestors
          Height,          \* nHeight
          Work,            \* nChainWork
          BadContext,      \* blocks ContextualCheckBlock refuses
          BadConnect,      \* blocks ConnectBlock refuses (inputs, scripts, amounts)
          Signed,          \* blocks with a valid authorization signature
          AuthForkHeight,  \* authorizationForkHeight; 0 turns the rule off
          MinBlocksToKeep, \* MIN_BLOCKS_TO_KEEP
          MinChainWork,    \* nMinimumChainWork
          MinSequenceId,   \* numeric_limits<int32_t>::min()
          Threads,         \* message handler and RPC threads
          CarefulOperator, \* see Invalidate and Reconsider
          None             \* null pointer

ASSUME TreeAssumption ==
  /\ Blocks \subseteq Nat /\ IsFiniteSet(Blocks)
  /\ Genesis \in Blocks /\ None \notin Blocks
  /\ Parent \in [Blocks \ {Genesis} -> Blocks]
  /\ Anc \in [Blocks -> SUBSET Blocks] /\ Anc[Genesis] = {Genesis}
  /\ \A b \in Blocks \ {Genesis} : /\ b \notin Anc[Parent[b]]
                                   /\ Anc[b] = {b} \cup Anc[Parent[b]]
  /\ Height \in [Blocks -> Nat] /\ Height[Genesis] = 0
  /\ Work \in [Blocks -> Nat]
  /\ \A b \in Blocks \ {Genesis} : /\ Height[b] = Height[Parent[b]] + 1
                                   /\ Work[b] > Work[Parent[b]]

ASSUME RuleAssumption ==
  /\ BadContext \subseteq Blocks \ {Genesis} /\ BadConnect \subseteq Blocks \ {Genesis}
  /\ Signed \subseteq Blocks
  /\ AuthForkHeight \in Nat /\ MinBlocksToKeep \in Nat /\ MinChainWork \in Nat
  /\ MinSequenceId \in Int /\ MinSequenceId < 0
  /\ CarefulOperator \in BOOLEAN

VARIABLES index,        \* mapBlockIndex
          haveData,     \* BLOCK_HAVE_DATA (= BLOCK_VALID_TRANSACTIONS, = nTx # 0)
          linked,       \* nChainTx # 0
          scripts,      \* BLOCK_VALID_SCRIPTS
          failedValid,  \* BLOCK_FAILED_VALID
          failedChild,  \* BLOCK_FAILED_CHILD
          failedBlocks, \* g_failed_blocks
          candidates,   \* setBlockIndexCandidates
          unlinked,     \* second components of mapBlocksUnlinked
          dropped,      \* history: received while the parent was marked failed
          seqId,        \* nSequenceId
          nextSeq,      \* nBlockSequenceId
          reverseSeq,   \* nBlockReverseSequenceId
          preciousWork, \* nLastPreciousChainwork
          tip,          \* chainActive.Tip()
          pc,           \* "idle", "checked" (in ProcessNewBlock) or "abc"
          blk,          \* the thread's pblock, whose fChecked is set
          mostWork,     \* pindexMostWork of the thread's ActivateBestChain
          assertFailed  \* an assert() failed: the process has aborted

flags == <<failedValid, failedChild, failedBlocks>>
stored == <<index, haveData, linked, scripts, unlinked, dropped>>
sequence == <<seqId, nextSeq, reverseSeq, preciousWork>>
threads == <<pc, blk, mostWork>>
vars == <<flags, stored, sequence, candidates, tip, threads, assertFailed>>

Failed == failedValid \cup failedChild    \* BLOCK_FAILED_MASK

TypeOK ==
  /\ index \in SUBSET Blocks /\ haveData \in SUBSET Blocks
  /\ linked \in SUBSET Blocks /\ scripts \in SUBSET Blocks
  /\ failedValid \in SUBSET Blocks /\ failedChild \in SUBSET Blocks
  /\ failedBlocks \in SUBSET Blocks
  /\ candidates \in SUBSET Blocks /\ unlinked \in SUBSET Blocks
  /\ dropped \in SUBSET Blocks
  /\ seqId \in [Blocks -> Int] /\ nextSeq \in Int /\ reverseSeq \in Int
  /\ preciousWork \in Nat
  /\ tip \in Blocks
  /\ pc \in [Threads -> {"idle", "checked", "abc"}]
  /\ blk \in [Threads -> Blocks \cup {None}]
  /\ mostWork \in [Threads -> Blocks \cup {None}]
  /\ assertFailed \in BOOLEAN

\* A node that has just started and connected its genesis block.
Init ==
  /\ index = {Genesis} /\ haveData = {Genesis} /\ linked = {Genesis}
  /\ scripts = {Genesis} /\ unlinked = {} /\ dropped = {}
  /\ failedValid = {} /\ failedChild = {} /\ failedBlocks = {}
  /\ candidates = {Genesis} /\ tip = Genesis
  /\ seqId = [b \in Blocks |-> 0]
  /\ nextSeq = 1 /\ reverseSeq = -1 /\ preciousWork = 0
  /\ pc = [t \in Threads |-> "idle"]
  /\ blk = [t \in Threads |-> None] /\ mostWork = [t \in Threads |-> None]
  /\ assertFailed = FALSE

-----------------------------------------------------------------------------
(* Comparisons and checks.                                                 *)

\* Faulty variant: the order of arrival is ignored.
BetterByPointer(s, a, b) ==
  Work[a] > Work[b] \/ (Work[a] = Work[b] /\ a < b)

\* CBlockIndexWorkComparator()(b, a): a sorts after b when the sequence
\* numbers are s.
BetterBy(s, a, b) ==
  \/ Work[a] > Work[b]
  \/ /\ Work[a] = Work[b]
     /\ \/ s[a] < s[b]
        \/ s[a] = s[b] /\ a < b

Better(a, b) == BetterBy(seqId, a, b)

Best(S) == CHOOSE a \in S : \A b \in S : ~Better(b, a)

\* CheckBlock when the tip has height h: the signature is asked for by the
\* height of the tip, whatever block is being checked.  Where in the coinbase it
\* is looked for depends on the length of h + 1 in a script, which is the same
\* from the fork height of the main chain, 211680, up to 8388607.
CheckBlock(b, h) ==
  (AuthForkHeight > 0 /\ h + 1 >= AuthForkHeight) => b \in Signed

\* Faulty variants: nothing is deleted, or the tip is deleted as well.
PruneNothing(cands, s, c) == cands
PruneTipToo(cands, s, c) == {b \in cands : BetterBy(s, b, c)}

\* PruneBlockIndexCandidates for tip c.
Prune(cands, s, c) == {b \in cands : ~BetterBy(s, c, b)}

-----------------------------------------------------------------------------
(* Headers and blocks.                                                     *)

\* The blocks of g_failed_blocks that AcceptBlockHeader can meet below the
\* parent of a new header.
FailedBelow(b) ==
  IF b \notin index /\ Parent[b] \in index \ (Failed \cup scripts)
  THEN failedBlocks \cap Anc[Parent[b]] ELSE {}

\* AcceptBlockHeader answers true.
HeaderOk(b) == IF b \in index THEN b \notin Failed
               ELSE Parent[b] \in index \ Failed /\ FailedBelow(b) = {}

\* AcceptBlockHeader answers false.  Which block of FailedBelow it meets first
\* is a matter of pointer order: any.
RejectHeader(b) ==
  /\ ~HeaderOk(b)
  /\ IF FailedBelow(b) = {} THEN UNCHANGED <<failedChild, assertFailed>>
     ELSE \E f \in FailedBelow(b) :
            /\ assertFailed' = (f \notin failedValid)
            /\ failedChild' = IF f \in failedValid
                              THEN failedChild \cup (Anc[Parent[b]] \ Anc[f])
                              ELSE failedChild
  /\ UNCHANGED <<stored, sequence, failedValid, failedBlocks, candidates, tip>>

\* AddToBlockIndex, unless the block has an entry.
AddToBlockIndex(b) == index' = index \cup {b}

\* ProcessNewBlockHeaders with one header.
AcceptBlockHeader(b) ==
  /\ b \notin index
  /\ \/ /\ HeaderOk(b)
        /\ AddToBlockIndex(b)
        /\ UNCHANGED <<haveData, linked, scripts, unlinked, dropped, flags, sequence,
                       candidates, tip, assertFailed>>
     \/ RejectHeader(b)
  /\ UNCHANGED threads

\* ProcessNewBlock up to LOCK(cs_main): CheckBlock sets fChecked.
CheckNewBlock(t, b) ==
  /\ pc[t] = "idle"
  /\ CheckBlock(b, Height[tip])
  /\ pc' = [pc EXCEPT ![t] = "checked"]
  /\ blk' = [blk EXCEPT ![t] = b]
  /\ UNCHANGED <<stored, flags, sequence, candidates, tip, mostWork, assertFailed>>

\* AcceptBlock returns true without looking at the transactions of the block.
Skipped(b, requested) ==
  \/ b \in haveData
  \/ ~requested /\ \/ Work[b] < Work[tip]
                   \/ Height[b] > Height[tip] + MinBlocksToKeep
                   \/ Work[b] < MinChainWork

\* The orders in which ReceivedBlockTransactions may link a set of blocks:
\* parents before children, breadth first.  (Siblings go in the order in which
\* they entered mapBlocksUnlinked, which the model does not keep: any.)
LinkOrders(new) ==
  {rank \in [new -> 1 .. Cardinality(new)] :
     \A d, e \in new : /\ rank[d] = rank[e] => d = e
                       /\ Height[d] < Height[e] => rank[d] < rank[e]}

\* Faulty variant: the blocks that waited for b are forgotten.
NewlyLinkedAlone(b) == {b}

\* The block that arrived and the blocks that waited for it.
NewlyLinked(b) ==
  {b} \cup {d \in unlinked : b \in Anc[d] /\ (Anc[d] \ Anc[b]) \subseteq unlinked}

ReceivedBlockTransactions(b) ==
  /\ haveData' = haveData \cup {b}
  /\ \/ /\ Parent[b] \in linked
        /\ linked' = linked \cup NewlyLinked(b)
        /\ unlinked' = unlinked \ NewlyLinked(b)
        /\ nextSeq' = nextSeq + Cardinality(NewlyLinked(b))
        /\ \E rank \in LinkOrders(NewlyLinked(b)) :
             seqId' = [d \in Blocks |-> IF d \in NewlyLinked(b)
                                       THEN nextSeq - 1 + rank[d] ELSE seqId[d]]
        /\ candidates' = candidates \cup
                           {d \in NewlyLinked(b) : ~BetterBy(seqId', tip, d)}
        /\ UNCHANGED dropped
     \/ /\ Parent[b] \notin linked
        /\ unlinked' = IF Parent[b] \in Failed THEN unlinked ELSE unlinked \cup {b}
        /\ dropped' = IF Parent[b] \in Failed THEN dropped \cup {b} ELSE dropped
        /\ UNCHANGED <<linked, nextSeq, seqId, candidates>>
  /\ UNCHANGED <<scripts, reverseSeq, preciousWork, flags, tip, assertFailed>>

\* Leave ProcessNewBlock with an error.
GiveUp(t) == /\ pc' = [pc EXCEPT ![t] = "idle"]
             /\ blk' = [blk EXCEPT ![t] = None]
             /\ UNCHANGED mostWork

\* Go on to ActivateBestChain.
Activate(t) == pc' = [pc EXCEPT ![t] = "abc"] /\ UNCHANGED <<blk, mostWork>>

\* ProcessNewBlock from LOCK(cs_main) to the call of ActivateBestChain.
AcceptBlock(t, requested) ==
  LET b == blk[t] IN
  /\ pc[t] = "checked"
  /\ \/ RejectHeader(b) /\ GiveUp(t)
     \/ /\ HeaderOk(b)
        /\ AddToBlockIndex(b)
        /\ \/ /\ Skipped(b, requested)
              /\ UNCHANGED <<haveData, linked, scripts, unlinked, dropped, flags,
                             sequence, candidates, tip, assertFailed>>
              /\ Activate(t)
           \/ /\ ~Skipped(b, requested) /\ b \in BadContext
              /\ failedValid' = failedValid \cup {b}
              /\ UNCHANGED <<haveData, linked, scripts, unlinked, dropped, failedChild,
                             failedBlocks, sequence, candidates, tip, assertFailed>>
              /\ GiveUp(t)
           \/ /\ ~Skipped(b, requested) /\ b \notin BadContext
              /\ ReceivedBlockTransactions(b)
              /\ Activate(t)

-----------------------------------------------------------------------------
(* ActivateBestChain.                                                      *)

\* The blocks FindMostWorkChain walks from candidate c that are marked failed.
FailedOnPath(c) == (Anc[c] \ Anc[tip]) \cap Failed

\* Faulty variant: only the candidate itself is looked at.
UsableItself == {c \in candidates : c \notin Failed}

Usable == {c \in candidates : FailedOnPath(c) = {}}

\* The result of FindMostWorkChain, and the better candidates it drops first.
FindMostWorkChain == IF Usable = {} THEN None ELSE Best(Usable)
Dropped == {c \in candidates \ Usable :
              Usable # {} => Better(c, FindMostWorkChain)}

\* The part of the path to c above the first failed block that the walk meets:
\* these blocks become BLOCK_FAILED_CHILD and leave the candidates.
AboveFailed(c) == {a \in Anc[c] : \A x \in FailedOnPath(c) : Height[a] > Height[x]}
Poisoned == UNION {AboveFailed(c) : c \in Dropped}
\* The walk also removes that failed block itself.
MetFailed == {x \in Failed : \E c \in Dropped :
                /\ x \in FailedOnPath(c)
                /\ \A y \in FailedOnPath(c) : Height[y] <= Height[x]}

CandidatesFound == candidates \ (Poisoned \cup MetFailed)

\* Faulty variant: CheckBlock is not repeated for blocks read from disk.
ConnectOkUnchecked(t, b, m) == b \notin BadConnect

\* ConnectBlock of b on its parent, by a thread working towards m.  The block
\* the thread brought along keeps its fChecked; any other is read from disk.
ConnectOk(t, b, m) == /\ b \notin BadConnect
                      /\ \/ b = m /\ blk[t] = b
                         \/ CheckBlock(b, Height[Parent[b]])

\* Faulty variant: the lock is released after every block.
StopAtFirst(t, m) ==
  CHOOSE b \in Anc[m] \ Anc[tip] : \A d \in Anc[m] \ Anc[tip] : Height[b] <= Height[d]

\* The block at which ActivateBestChainStep stops: the first one of the path to
\* m that fails, that has more work than the old tip, or that is m.
StopAt(t, m) ==
  LET stops == {b \in Anc[m] \ Anc[tip] :
                  ~ConnectOk(t, b, m) \/ Work[b] > Work[tip] \/ b = m}
  IN CHOOSE b \in stops : \A d \in stops : Height[b] <= Height[d]

\* InvalidBlockFound for block b, and InvalidChainFound, which only warns.
InvalidBlockFound(b, cands) ==
  /\ failedValid' = failedValid \cup {b}
  /\ failedBlocks' = failedBlocks \cup {b}
  /\ candidates' = cands \ {b}

\* ActivateBestChainStep towards m.  Tip is disconnected down to the fork, then
\* blocks are connected; every one of them prunes the candidates.
ActivateBestChainStep(t, m, cands) ==
  LET reached == m \in Anc[tip] \/ ConnectOk(t, StopAt(t, m), m)
      last == CASE m \in Anc[tip] -> m
                [] m \notin Anc[tip] /\ reached -> StopAt(t, m)
                [] OTHER -> Parent[StopAt(t, m)]
      connected == Anc[last] \ Anc[tip]
      pruned == IF connected = {} THEN cands ELSE Prune(cands, seqId, last)
  IN /\ tip' = last
     /\ scripts' = scripts \cup (connected \ (failedValid \cup failedChild'))
     /\ assertFailed' = (pruned = {} /\ connected # {})
     /\ \/ /\ reached
           /\ candidates' = pruned
           /\ mostWork' = [mostWork EXCEPT ![t] = IF last = m THEN None ELSE m]
           /\ pc' = [pc EXCEPT ![t] = IF last = m THEN "idle" ELSE "abc"]
           /\ blk' = [blk EXCEPT ![t] = IF last = m THEN None ELSE blk[t]]
           /\ UNCHANGED <<failedValid, failedBlocks>>
        \/ /\ ~reached    \* pindexMostWork is forgotten
           /\ InvalidBlockFound(StopAt(t, m), pruned)
           /\ mostWork' = [mostWork EXCEPT ![t] = None]
           /\ UNCHANGED <<pc, blk>>

\* One iteration of ActivateBestChain.
ActivateBestChain(t) ==
  LET find == mostWork[t] = None
      m == IF find THEN FindMostWorkChain ELSE mostWork[t]
      cands == IF find THEN CandidatesFound ELSE candidates
  IN /\ pc[t] = "abc"
     /\ failedChild' = IF find THEN failedChild \cup Poisoned ELSE failedChild
     /\ \/ /\ m \in {None, tip}
           /\ candidates' = cands
           /\ pc' = [pc EXCEPT ![t] = "idle"]
           /\ blk' = [blk EXCEPT ![t] = None]
           /\ mostWork' = [mostWork EXCEPT ![t] = None]
           /\ UNCHANGED <<tip, scripts, failedValid, failedBlocks, assertFailed>>
        \/ m \notin {None, tip} /\ ActivateBestChainStep(t, m, cands)
     /\ UNCHANGED <<index, haveData, linked, unlinked, dropped, sequence>>

-----------------------------------------------------------------------------
(* preciousblock, invalidateblock and reconsiderblock.                     *)

\* CChainState::PreciousBlock.  A careful operator names only blocks that can
\* become the tip, and not after invalidating the tip of an earlier call.
PreciousBlock(t, b) ==
  LET from == IF Work[tip] > preciousWork THEN -1 ELSE reverseSeq
      s == [seqId EXCEPT ![b] = from]
      valid == b \in linked \ Failed
      cands == IF valid THEN Prune(candidates \cup {b}, s, tip) ELSE candidates \ {b}
  IN /\ pc[t] = "idle"
     /\ b \in index
     /\ Work[b] >= Work[tip]
     /\ CarefulOperator => valid /\ Anc[b] \cap Failed = {} /\ Work[tip] >= preciousWork
     /\ seqId' = s
     /\ reverseSeq' = IF from > MinSequenceId THEN from - 1 ELSE from
     /\ preciousWork' = Work[tip]
     /\ candidates' = cands
     /\ assertFailed' = (valid /\ cands = {})
     /\ Activate(t)
     /\ UNCHANGED <<stored, flags, nextSeq, tip>>

\* CChainState::InvalidateBlock and the call of ActivateBestChain that
\* invalidateblock makes after it.  A careful operator names only blocks whose
\* chain the node has.
InvalidateBlock(t, b) ==
  LET above == IF b \in Anc[tip] THEN Anc[tip] \ Anc[b] ELSE {}
  IN /\ pc[t] = "idle"
     /\ b \in index \ {Genesis}
     /\ CarefulOperator => b \in linked
     /\ tip' = IF b \in Anc[tip] THEN Parent[b] ELSE tip
     /\ failedChild' = failedChild \cup above
     /\ failedValid' = failedValid \cup {b}
     /\ failedBlocks' = failedBlocks \cup {b}
     /\ candidates' = (candidates \ (above \cup {b})) \cup
                        {d \in linked \ (failedValid' \cup failedChild') : ~Better(tip', d)}
     /\ Activate(t)
     /\ UNCHANGED <<stored, sequence, assertFailed>>

\* Faulty variant: descendants are forgotten.
NotValidItself(b) == {b}

\* The blocks at or above b that are not IsValid(), which ResetBlockFailureFlags
\* goes through: failed ones, and headers whose block has not come.
NotValidFrom(b) == {d \in index : b \in Anc[d] /\ d \notin haveData \ Failed}

\* CChainState::ResetBlockFailureFlags and the call of ActivateBestChain that
\* reconsiderblock makes after it.  A careful operator names the block that is
\* invalid, not one of its descendants.
ReconsiderBlock(t, b) ==
  LET cleared == NotValidFrom(b)
  IN /\ pc[t] = "idle"
     /\ b \in index
     /\ CarefulOperator => Anc[b] \cap Failed \subseteq {b}
     /\ failedValid' = failedValid \ (cleared \cup Anc[b])
     /\ failedChild' = failedChild \ (cleared \cup Anc[b])
     /\ failedBlocks' = failedBlocks \ cleared
     /\ candidates' = candidates \cup {d \in cleared \cap linked : Better(d, tip)}
     /\ Activate(t)
     /\ UNCHANGED <<stored, sequence, tip, assertFailed>>

-----------------------------------------------------------------------------
(* Restarts.                                                               *)

\* What LoadBlockIndex makes of the entries it reads: the marks of failed blocks
\* reach all their descendants, and the chains that are complete are linked.
MarkedFailed == {b \in index : Anc[b] \cap Failed # {}}
Complete == {b \in index : Anc[b] \subseteq haveData}

\* Sequence numbers are not on disk.
Unused == [b \in Blocks |-> 0]

\* What LoadChainTip leaves of the candidates LoadBlockIndex collects.
LoadedCandidates == Prune(Complete \ MarkedFailed, Unused, tip)

\* VerifyDB accepts the active chain (shorter here than -checkblocks): the node
\* does not start otherwise.
VerifyDB == \A b \in Anc[tip] \ {Genesis} : CheckBlock(b, Height[tip])

\* The node goes down after a flush and starts again: LoadBlockIndex, LoadChainTip,
\* VerifyDB, and then ActivateBestChain in the import thread t.  g_failed_blocks is
\* empty.  The new index entries are taken to be allocated in the old order.  A
\* thread that has only checked a block has left no trace, so that the restart is
\* the one before it checked.
Restart(t) ==
  /\ pc[t] # "checked" /\ VerifyDB
  /\ failedChild' = failedChild \cup (MarkedFailed \ Failed)
  /\ failedBlocks' = {}
  /\ linked' = Complete
  /\ unlinked' = {b \in haveData \ {Genesis} : Parent[b] \notin Complete}
  /\ dropped' = {}
  /\ candidates' = LoadedCandidates /\ assertFailed' = (LoadedCandidates = {})
  /\ seqId' = Unused /\ nextSeq' = 1 /\ reverseSeq' = -1 /\ preciousWork' = 0
  /\ pc' = [u \in Threads |-> IF u = t THEN "abc" ELSE "idle"]
  /\ blk' = [u \in Threads |-> None] /\ mostWork' = [u \in Threads |-> None]
  /\ UNCHANGED <<index, haveData, scripts, failedValid, tip>>

Next ==
  /\ ~assertFailed
  /\ \/ \E b \in Blocks \ {Genesis} : AcceptBlockHeader(b)
     \/ \E t \in Threads :
          \/ \E b \in Blocks \ {Genesis} : CheckNewBlock(t, b)
          \/ \E requested \in BOOLEAN : AcceptBlock(t, requested)
          \/ ActivateBestChain(t) \/ Restart(t)
          \/ \E b \in Blocks : \/ PreciousBlock(t, b)
                               \/ InvalidateBlock(t, b)
                               \/ ReconsiderBlock(t, b)

Spec == Init /\ [][Next]_vars

-----------------------------------------------------------------------------
(* Properties.                                                             *)

Active == Anc[tip]
Idle == \A t \in Threads : pc[t] # "abc"
InvalidAbove(b) == Anc[b] \cap failedValid # {}

\* More work, or the same work and received (or made precious) earlier.  Two
\* blocks that were made precious can carry the same number; the comparator
\* then falls back on pointers, which nobody can rely on.
Preferred(a, b) == Work[a] > Work[b] \/ (Work[a] = Work[b] /\ seqId[a] < seqId[b])

\* setBlockIndexCandidates holds every block that sorts at least as good as the
\* tip, has all its data and no invalid ancestor, once ActivateBestChain is done,
\* and at all times no block that sorts worse than the tip or whose chain is
\* incomplete (CheckBlockIndex).
CandidatesExact ==
  /\ Idle => /\ tip \in candidates
             /\ \A b \in linked : Preferred(b, tip) /\ ~InvalidAbove(b) => b \in candidates
  /\ \A b \in candidates : b \in linked /\ ~Better(tip, b)

\* A failure flag is never left on a block without an invalid ancestor
\* (CheckBlockIndex), so that no good chain is refused for a forgotten mark.
FailedHasInvalidAncestor == \A b \in Failed : InvalidAbove(b)

\* nChainTx is set exactly for the blocks whose whole chain was received, and a
\* received block that still waits for a parent is in mapBlocksUnlinked, from
\* where the parent's arrival will fetch it.  The exceptions, up to the next
\* restart, are the blocks that came while their parent was marked failed.
WaitingBlocksAreFound ==
  /\ linked = {b \in index : Anc[b] \subseteq haveData \ dropped}
  /\ unlinked = haveData \ (linked \cup dropped)

\* Every block of the active chain was connected and carries no failure flag.
ActiveChainValid == Active \subseteq scripts \ Failed

\* "The result is either failure or an activated best chain": when no thread is
\* inside ActivateBestChain, no chain that the node has in full and that is not
\* known to be invalid sorts better than the active one.
ActivatedBest ==
  Idle => \A b \in linked : Anc[b] \cap Failed = {} => ~Preferred(b, tip)

\* Every active block from the fork height on carries the signature.
AuthorizedChain ==
  AuthForkHeight > 0 => \A b \in Active : Height[b] >= AuthForkHeight => b \in Signed

\* None of the assertions of validation.cpp fails.
NoAssertFails == ~assertFailed

\* The active chain loses work only in a step that finds or declares a block
\* invalid.
WorkLossNeedsInvalidBlock ==
  [][Work[tip'] < Work[tip] => failedValid' # failedValid]_vars

\* An iteration of ActivateBestChain after which the thread stays in the loop
\* has gained work or found a new invalid block, so the loop ends: there are
\* finitely many blocks, and the next iteration cannot lose the gain.
ActivationProgresses ==
  [][\A t \in Threads : pc[t] = "abc" /\ pc'[t] = "abc" /\ ActivateBestChain(t) =>
       \/ Work[tip'] > Work[tip]
       \/ failedValid' # failedValid]_vars

\* What CheckBlock says of a block does not depend on the tip ("These are checks
\* that are independent of context"): blocks of the active chain pass it when
\* they are read again, as VerifyDB does.
ActiveChainRechecks == \A b \in Active \ {Genesis} : CheckBlock(b, Height[tip])
=============================================================================
