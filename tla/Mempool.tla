------------------------------ MODULE Mempool -------------------------------
(***************************************************************************)
(* CTxMemPool (txmempool.cpp) with the code that feeds it (validation.cpp):*)
(* AcceptToMemoryPool with replacement, the removals when a block is       *)
(* connected, and UpdateMempoolForReorg, which puts the transactions of    *)
(* disconnected blocks back below children that are already in the pool.   *)
(* Everything happens under cs_main and the lock of the pool, so an        *)
(* operation is one step.                                                  *)
(*                                                                         *)
(* Transactions are numbers, parents smaller than children.  An outpoint   *)
(* is <<source, index>> where the source is a transaction, -b for the      *)
(* coinbase of block b, or 0 for the coins of the chain below the model.   *)
(* All transactions have size 1; the totals of sizes and signature         *)
(* operations are updated with the counts and left out.  mapNextTx is the  *)
(* relation between outpoints and the pool transactions that spend them.   *)
(***************************************************************************)
EXTENDS Integers, Sequences, FiniteSets, FiniteSetsExt, SequencesExt

CONSTANTS Txs,                \* transactions, a set of positive numbers
          Inputs,             \* Inputs[t]: the outpoints t spends, in order
          Fee,                \* Fee[t]
          Replaceable,        \* transactions that signal replaceability
          NonStandard,        \* accepted in blocks only
          LockTime,           \* LockTime[t]: nLockTime, a height
          Blocks,             \* blocks, numbers; 0 is the root
          Parent, Height,     \* of a block
          Vtx,                \* Vtx[b]: the transactions of b, in order
          Deltas,             \* Deltas[t]: values of mapDeltas[t] to explore
          LimitAncestors, LimitDescendants,   \* -limitancestorcount, ...
          MaxMempool,         \* -maxmempool, in transactions
          MaxDisconnected,    \* MAX_DISCONNECTED_TX_POOL_SIZE, in transactions
          Maturity,           \* COINBASE_MATURITY
          IncrementalFee,     \* incrementalRelayFee for size 1
          MaxExpired          \* bound: transactions older than -mempoolexpiry

ASSUME MempoolAssumption ==
  /\ Txs \subseteq Nat \ {0} /\ IsFiniteSet(Txs)
  /\ {MaxDisconnected, Maturity, IncrementalFee} \subseteq Nat
  /\ \A t \in Txs : /\ Inputs[t] \in Seq(Int \X Nat) /\ Inputs[t] # <<>>
                    /\ \A i \in DOMAIN Inputs[t] : Inputs[t][i][1] < t
                    /\ LockTime[t] \in Nat /\ Fee[t] \in Int /\ Deltas[t] \subseteq Int
  /\ Blocks \subseteq Nat /\ IsFiniteSet(Blocks) /\ 0 \in Blocks /\ Height[0] = 0
  /\ \A b \in Blocks \ {0} : /\ Parent[b] \in Blocks /\ Parent[b] < b
                            /\ Height[b] = Height[Parent[b]] + 1

VARIABLES tip,                \* the tip of the active chain
          pool                \* mapTx, mapLinks and mapDeltas, see Entry

vars == <<tip, pool>>

None == [n |-> 0, fee |-> 0]

\* A pool: txs are the entries; feeDelta, anc (count and modified fees with
\* ancestors) and desc (with descendants) are members of an entry; par and chi
\* its links; delta is mapDeltas.  Outside txs the members are empty.
EmptyPool == [txs |-> {}, feeDelta |-> [t \in Txs |-> 0], anc |-> [t \in Txs |-> None],
              desc |-> [t \in Txs |-> None], par |-> [t \in Txs |-> {}],
              chi |-> [t \in Txs |-> {}], delta |-> [t \in Txs |-> 0]]

Init == tip = 0 /\ pool = EmptyPool

\* An operation is applied to the elements of a sequence in turn.
InTurn(Op(_, _), m, s) ==
  LET After[i \in 0..Len(s)] == IF i = 0 THEN m ELSE Op(After[i - 1], s[i])
  IN After[Len(s)]

-----------------------------------------------------------------------------
(* The chain.                                                              *)

Spends(t) == ToSet(Inputs[t])
Sources(t) == {o[1] : o \in Spends(t)}

\* The blocks from the root to b, as a set.
ChainOf(b) == LET chain[x \in Blocks] == IF x = 0 THEN {0} ELSE {x} \cup chain[Parent[x]]
              IN chain[b]
InChain(b) == UNION {ToSet(Vtx[a]) : a \in ChainOf(b)}

\* pcoinsTip->HaveCoin with tip b.
Base(b) == {0} \cup InChain(b) \cup {-a : a \in ChainOf(b)}
HaveCoin(b, o) == o[1] \in Base(b) /\ \A t \in InChain(b) : o \notin Spends(t)

\* The blocks have passed the checks of ConnectBlock: transactions are not in the
\* chain twice, and each spends what the chain or an earlier one of its block left.
Earlier(b, i) == {Vtx[b][j] : j \in 1..(i - 1)}
ASSUME ValidBlocks ==
  /\ Vtx[0] = <<>>
  /\ \A b \in Blocks \ {0} :
       /\ Vtx[b] \in Seq(Txs)
       /\ \A i \in 1..Len(Vtx[b]) :
            /\ Vtx[b][i] \notin InChain(Parent[b]) \cup Earlier(b, i)
            /\ \A o \in Spends(Vtx[b][i]) :
                 /\ o[1] \in Base(Parent[b]) \cup Earlier(b, i)
                 /\ \A t \in InChain(Parent[b]) \cup Earlier(b, i) : o \notin Spends(t)

\* CheckFinalTx and the coinbase maturity of CheckTxInputs, for the next block.
Final(b, t) == LockTime[t] < Height[b] + 1
Mature(b, o) == o[1] < 0 => Height[b] + 1 - Height[-o[1]] >= Maturity

-----------------------------------------------------------------------------
(* CTxMemPool.                                                             *)

ModifiedFee(p, t) == Fee[t] + p.feeDelta[t]
Fees(p, S) == MapThenSumSet(LAMBDA t : ModifiedFee(p, t), S)
Total(p, S) == [n |-> Cardinality(S), fee |-> Fees(p, S)]
Plus(a, b) == [n |-> a.n + b.n, fee |-> a.fee + b.fee]
Minus(a, b) == [n |-> a.n - b.n, fee |-> a.fee - b.fee]

\* The transactions reached from S by following links, S included.
Closure(links, S) ==
  LET reached[n \in 0..Cardinality(Txs)] ==
        IF n = 0 THEN S
        ELSE LET R == reached[n - 1] IN R \cup UNION {links[t] : t \in R}
  IN reached[Cardinality(Txs)]

CalculateDescendants(p, S) == Closure(p.chi, S)
\* CalculateMemPoolAncestors with fSearchForParents = false.
LinkedAncestors(p, t) == Closure(p.par, p.par[t])
\* ... with fSearchForParents = true: parents by their hashes, then links.
SearchedAncestors(p, t) == Closure(p.par, Sources(t) \cap p.txs)

\* mapNextTx: the pool transactions that spend outpoint o, or an output of t.
NextTx(p, o) == {x \in p.txs : o \in Spends(x)}
Children(p, t) == {x \in p.txs : t \in Sources(x)}

\* The limits of CalculateMemPoolAncestors.
WithinLimits(p, t) == LET ancestors == SearchedAncestors(p, t) IN
  /\ Cardinality(ancestors) + 1 <= LimitAncestors
  /\ \A a \in ancestors : p.desc[a].n + 1 <= LimitDescendants

addUnchecked(p, t) ==
  LET q == [p EXCEPT !.feeDelta[t] = p.delta[t]]
      ancestors == SearchedAncestors(p, t)
      parents == Sources(t) \cap p.txs
  IN [q EXCEPT !.txs = @ \cup {t},
               !.par[t] = parents,
               !.chi = [x \in Txs |-> IF x \in parents THEN @[x] \cup {t} ELSE @[x]],
               !.desc = [x \in Txs |-> IF x \in ancestors \cup {t}
                                       THEN Plus(@[x], Total(q, {t})) ELSE @[x]],
               !.anc[t] = Total(q, ancestors \cup {t})]

\* Faulty variant of RemoveStaged: ancestors by hash instead of by link, so that
\* totals that never counted the transaction are decremented during a reorg.
RemoveStagedBySearch(p, S, updateDescendants) ==
  [p EXCEPT !.txs = @ \ S,
            !.feeDelta = [x \in Txs |-> IF x \in S THEN 0 ELSE @[x]],
            !.anc = [x \in Txs |-> IF x \in S THEN None ELSE IF ~updateDescendants THEN @[x]
                       ELSE Minus(@[x], Total(p, {r \in S : x \in CalculateDescendants(p, {r})}))],
            !.desc = [x \in Txs |-> IF x \in S THEN None
                       ELSE Minus(@[x], Total(p, {r \in S : x \in SearchedAncestors(p, r)}))],
            !.par = [x \in Txs |-> IF x \in S THEN {} ELSE @[x] \ {r \in S : x \in p.chi[r]}],
            !.chi = [x \in Txs |-> IF x \in S THEN {} ELSE @[x] \ {r \in S : x \in p.par[r]}]]

\* RemoveStaged: the totals of the descendants that stay (when asked for) and
\* of the ancestors that stay, the links, then the entries.
RemoveStaged(p, S, updateDescendants) ==
  [p EXCEPT !.txs = @ \ S,
            !.feeDelta = [x \in Txs |-> IF x \in S THEN 0 ELSE @[x]],
            !.anc = [x \in Txs |-> IF x \in S THEN None ELSE IF ~updateDescendants THEN @[x]
                       ELSE Minus(@[x], Total(p, {r \in S : x \in CalculateDescendants(p, {r})}))],
            !.desc = [x \in Txs |-> IF x \in S THEN None
                       ELSE Minus(@[x], Total(p, {r \in S : x \in LinkedAncestors(p, r)}))],
            !.par = [x \in Txs |-> IF x \in S THEN {} ELSE @[x] \ {r \in S : x \in p.chi[r]}],
            !.chi = [x \in Txs |-> IF x \in S THEN {} ELSE @[x] \ {r \in S : x \in p.par[r]}]]

\* t with its descendants or, when t is not in the pool, those of its outputs.
removeRecursive(p, t) ==
  RemoveStaged(p, CalculateDescendants(p, IF t \in p.txs THEN {t} ELSE Children(p, t)), FALSE)

ClearPrioritisation(p, t) == [p EXCEPT !.delta[t] = 0]

\* Whoever else spends an input of t goes, with descendants.
removeConflict(p, t, o) ==
  LET x == CHOOSE x \in NextTx(p, o) : x # t
  IN IF NextTx(p, o) \subseteq {t} THEN p ELSE removeRecursive(ClearPrioritisation(p, x), x)
removeConflicts(p, t) == InTurn(LAMBDA q, o : removeConflict(q, t, o), p, Inputs[t])

Confirmed(p, t) ==
  ClearPrioritisation(removeConflicts(IF t \in p.txs THEN RemoveStaged(p, {t}, TRUE) ELSE p, t), t)
removeForBlock(p, vtx) == InTurn(Confirmed, p, vtx)

\* TrimToSize evicts the packages with the lowest descendant score, the better
\* of the fee rate of the transaction and of the transaction with descendants.
Score(p, t) == IF p.desc[t].fee > ModifiedFee(p, t) * p.desc[t].n
               THEN p.desc[t] ELSE [n |-> 1, fee |-> ModifiedFee(p, t)]
Worst(p) == {t \in p.txs : \A u \in p.txs :
               Score(p, t).fee * Score(p, u).n <= Score(p, u).fee * Score(p, t).n}
TrimOnce(p) == IF Cardinality(p.txs) <= MaxMempool THEN {p}
               ELSE {RemoveStaged(p, CalculateDescendants(p, {t}), FALSE) : t \in Worst(p)}
TrimToSize(p) ==
  LET trimmed[n \in 0..Cardinality(Txs)] ==
        IF n = 0 THEN {p} ELSE UNION {TrimOnce(q) : q \in trimmed[n - 1]}
  IN trimmed[Cardinality(Txs)]

\* LimitMempoolSize: Expire what is too old, whatever that is (the times come
\* from the clock or from the file of a saved pool), then TrimToSize.
Expire(p, old) == RemoveStaged(p, CalculateDescendants(p, old), FALSE)
LimitMempoolSize(p) ==
  UNION {TrimToSize(Expire(p, old)) :
           old \in {S \in SUBSET p.txs : Cardinality(S) <= MaxExpired}}

\* UpdateForDescendants, with cache: descendants of t that are not in block,
\* going through linked children; a cached child is not traversed again.
UpdateForDescendants(s, t, block) ==
  LET p == s.pool
      cached == DOMAIN s.cache
      open == [x \in Txs |-> p.chi[x] \ cached]
      visited == Closure(open, p.chi[t])
      known == UNION {s.cache[c] : c \in cached \cap UNION {p.chi[x] : x \in visited}}
      new == (visited \cup known) \ block
  IN [pool |-> [p EXCEPT !.desc[t] = Plus(@, Total(p, new)),
                         !.anc = [x \in Txs |-> IF x \in new THEN Plus(@[x], Total(p, {t})) ELSE @[x]]],
      cache |-> [x \in cached \cup (IF new = {} THEN {} ELSE {t}) |->
                   IF x = t THEN new ELSE s.cache[x]]]

\* Faulty variant of LinkChildren: the parents learn of the children, but not the
\* children of the parents.
LinkChildrenHalf(p, t, block) ==
  [p EXCEPT !.chi[t] = @ \cup (Children(p, t) \ block)]

\* Children of a transaction of the block that are not in the block themselves.
LinkChildren(p, t, block) ==
  LET new == Children(p, t) \ block
  IN [p EXCEPT !.chi[t] = @ \cup new,
               !.par = [x \in Txs |-> IF x \in new THEN @[x] \cup {t} ELSE @[x]]]

UpdateFromBlock(s, t, block) ==
  IF t \notin s.pool.txs THEN s
  ELSE UpdateForDescendants([s EXCEPT !.pool = LinkChildren(@, t, block)], t, block)
UpdateTransactionsFromBlock(p, hashes) ==
  InTurn(LAMBDA s, t : UpdateFromBlock(s, t, ToSet(hashes)),
         [pool |-> p, cache |-> [x \in {} |-> {}]], Reverse(hashes)).pool

\* Faulty variant of removeForReorg: coins are looked for, their age is not.
removeForReorgPresent(p, b) ==
  RemoveStaged(p, CalculateDescendants(p,
      {t \in p.txs : \/ ~Final(b, t)
                     \/ \E s \in Sources(t) : s < 0 /\ -s \notin ChainOf(b)}), FALSE)

\* Transactions that are no longer final, or spend a coinbase that is gone or
\* no longer mature.
removeForReorg(p, b) ==
  LET spendsCoinbase(t) == \E s \in Sources(t) : s < 0
      gone(t) == \E o \in Spends(t) : o[1] \notin p.txs /\ (~HaveCoin(b, o) \/ ~Mature(b, o))
  IN RemoveStaged(p, CalculateDescendants(p,
       {t \in p.txs : ~Final(b, t) \/ (spendsCoinbase(t) /\ gone(t))}), FALSE)

-----------------------------------------------------------------------------
(* AcceptToMemoryPoolWorker.                                               *)

Conflicts(p, t) == UNION {NextTx(p, o) : o \in Spends(t)}

\* Faulty variant of ConflictingFees: descendants of the replaced are forgotten.
ConflictingFeesDirect(p, t) == Fees(p, Conflicts(p, t))

ConflictingFees(p, t) == Fees(p, CalculateDescendants(p, Conflicts(p, t)))

\* Replacement: a better fee rate than each conflict, no new unconfirmed inputs,
\* and more fees than everything that is evicted.
MayReplace(p, t) ==
  LET conflicts == Conflicts(p, t)
      fee == Fee[t] + p.delta[t]
      oldParents == UNION {Sources(c) : c \in conflicts}
  IN /\ conflicts \subseteq Replaceable
     /\ SearchedAncestors(p, t) \cap conflicts = {}
     /\ \A c \in conflicts : fee > ModifiedFee(p, c)
     /\ conflicts # {} => /\ (Sources(t) \ oldParents) \cap p.txs = {}
                          /\ fee >= ConflictingFees(p, t) + IncrementalFee

\* The coin is there, in the pool or in the chain with tip b.
InputPresent(p, b, o) == o[1] \in p.txs \/ HaveCoin(b, o)

Acceptable(p, b, t) == /\ t \notin NonStandard /\ Final(b, t) /\ t \notin p.txs
                       /\ \A o \in Spends(t) : InputPresent(p, b, o) /\ Mature(b, o)
                       /\ WithinLimits(p, t)
                       /\ MayReplace(p, t)

\* The conflicts leave and the transaction enters.
Accepted(p, t) == addUnchecked(RemoveStaged(p, CalculateDescendants(p, Conflicts(p, t)), FALSE), t)

\* A transaction from a peer, a wallet or the file of a saved pool.  It may be
\* turned away for its fee, which changes nothing.
AcceptToMemoryPool(t) == /\ Acceptable(pool, tip, t)
                         /\ pool' \in LimitMempoolSize(Accepted(pool, t))
                         /\ UNCHANGED tip

\* PrioritiseTransaction, from the RPC interface.
PrioritiseTransaction(t, d) ==
  LET more == [n |-> 0, fee |-> d - pool.delta[t]]
      p == [pool EXCEPT !.delta[t] = d]
  IN /\ d # pool.delta[t]
     /\ pool' = IF t \notin pool.txs THEN p
                ELSE [p EXCEPT !.feeDelta[t] = d,
                               !.desc = [x \in Txs |-> IF x \in LinkedAncestors(p, t) \cup {t}
                                                       THEN Plus(@[x], more) ELSE @[x]],
                               !.anc = [x \in Txs |-> IF x \in CalculateDescendants(p, {t})
                                                      THEN Plus(@[x], more) ELSE @[x]]]
     /\ UNCHANGED tip

-----------------------------------------------------------------------------
(* The chain moves.  A state on the way has the tip, the pool and           *)
(* disconnectpool, a sequence, oldest insertion first.                     *)

\* DisconnectTip: the transactions of the block, last one first, then the
\* coinbase; what does not fit is dropped with its children.
Trimmed(s) ==
  LET excess == Len(s.queued) - MaxDisconnected
  IN IF excess <= 0 THEN s
     ELSE [s EXCEPT !.pool = InTurn(removeRecursive, @, SubSeq(s.queued, 1, excess)),
                    !.queued = SubSeq(@, excess + 1, Len(@))]
DisconnectTip(s) == Trimmed([s EXCEPT !.tip = Parent[@],
                                      !.queued = @ \o Reverse(Vtx[s.tip]) \o <<-s.tip>>])

\* DisconnectedBlockTransactions::removeForBlock.
Forget(queued, vtx) ==
  InTurn(LAMBDA q, t : IF t \in ToSet(vtx) THEN q ELSE Append(q, t), <<>>, queued)

\* ConnectTip: the pool and disconnectpool forget the transactions of the block.
ConnectTip(s, b) == [tip |-> b, pool |-> removeForBlock(s.pool, Vtx[b]),
                     queued |-> Forget(s.queued, Vtx[b])]

\* Blocks are disconnected down to the fork with b, and connected up to b.
Disconnected(s, b) ==
  LET down[n \in 0..Height[s.tip]] ==
        IF n = 0 THEN s
        ELSE LET r == down[n - 1] IN IF r.tip \in ChainOf(b) THEN r ELSE DisconnectTip(r)
  IN down[Height[s.tip]]
Connected(s, b) ==
  LET up[x \in Blocks] ==
        IF x \in ChainOf(s.tip) THEN s ELSE ConnectTip(up[Parent[x]], x)
  IN up[b]

\* UpdateMempoolForReorg up to LimitMempoolSize: the oldest transaction first.
Readd(r, t, b, fAddToMempool) ==
  IF fAddToMempool /\ t > 0 /\ Acceptable(r.pool, b, t)
  THEN [pool |-> Accepted(r.pool, t), update |-> Append(r.update, t)]
  ELSE [r EXCEPT !.pool = removeRecursive(@, t)]
Readded(s, fAddToMempool) ==
  LET r == InTurn(LAMBDA q, t : Readd(q, t, s.tip, fAddToMempool),
                  [pool |-> s.pool, update |-> <<>>], Reverse(s.queued))
  IN UpdateTransactionsFromBlock(r.pool, r.update)
UpdateMempoolForReorg(s, fAddToMempool) ==
  LimitMempoolSize(removeForReorg(Readded(s, fAddToMempool), s.tip))

Start == [tip |-> tip, pool |-> pool, queued |-> <<>>]

\* A block is connected to the tip.
ConnectBlock(b) == /\ b # 0 /\ Parent[b] = tip
                   /\ pool' = ConnectTip(Start, b).pool
                   /\ tip' = b

\* ActivateBestChainStep or InvalidateBlock: blocks are disconnected, others
\* connected; b is below the intended tip when a block turns out to be invalid.
\* After a system error the transactions are not put back.
Reorganize(b, fAddToMempool) ==
  /\ tip \notin ChainOf(b)
  /\ pool' \in UpdateMempoolForReorg(Connected(Disconnected(Start, b), b), fAddToMempool)
  /\ tip' = b

Next == \/ \E t \in Txs : AcceptToMemoryPool(t)
        \/ \E t \in Txs : \E d \in Deltas[t] : PrioritiseTransaction(t, d)
        \/ \E b \in Blocks : ConnectBlock(b)
        \/ \E b \in Blocks, fAddToMempool \in BOOLEAN : Reorganize(b, fAddToMempool)

Spec == Init /\ [][Next]_vars

-----------------------------------------------------------------------------
(* Properties.                                                             *)

\* The values of the members; what the totals are is said by TotalsAreSums.
TypeOK == /\ tip \in Blocks
          /\ pool.txs \subseteq Txs
          /\ pool.feeDelta \in [Txs -> Int] /\ pool.delta \in [Txs -> Int]
          /\ pool.par \in [Txs -> SUBSET Txs] /\ pool.chi \in [Txs -> SUBSET Txs]

\* Ancestors and descendants by the definition: through inputs.
TrueAncestors(t) == Closure([x \in Txs |-> Sources(x) \cap pool.txs], Sources(t) \cap pool.txs)

\* mapLinks mirrors the inputs, in both directions, although a parent may have
\* come into the pool after its children (CTxMemPool::check).
LinksMirrorInputs ==
  \A t \in pool.txs : /\ pool.par[t] = Sources(t) \cap pool.txs
                      /\ pool.chi[t] = Children(pool, t)

\* The cached totals, by which packages are mined, limited and evicted, are the
\* sums over all true ancestors and descendants, whatever was added, removed,
\* confirmed, disconnected or prioritised in between.
TotalsAreSums ==
  \A t \in pool.txs :
    /\ pool.feeDelta[t] = pool.delta[t]
    /\ pool.anc[t] = Total(pool, TrueAncestors(t) \cup {t})
    /\ pool.desc[t] = Total(pool, {x \in pool.txs : t \in TrueAncestors(x)} \cup {t})

\* Every pool transaction could be in the next block after its ancestors: its
\* inputs are in the pool or unspent and mature in the chain, nobody else in
\* the pool spends them, it is final, and it is not confirmed already.
PoolMineable ==
  \A t \in pool.txs :
    /\ t \notin InChain(tip) /\ Final(tip, t)
    /\ \A o \in Spends(t) : /\ InputPresent(pool, tip, o) /\ Mature(tip, o)
                            /\ NextTx(pool, o) = {t}

\* A transaction is only replaced by one that pays more than everything that
\* has to leave: when a pool transaction makes room for a conflicting one and
\* nothing expires or is evicted, the fees of the pool grow.
ReplacementPays ==
  [][\A t \in pool'.txs \ pool.txs :
       LET replaced == CalculateDescendants(pool, Conflicts(pool, t))
       IN tip' = tip /\ replaced # {} =>
            /\ pool'.txs \cap replaced = {}
            /\ ModifiedFee(pool', t) >= Fees(pool, replaced) + IncrementalFee]_vars
=============================================================================
