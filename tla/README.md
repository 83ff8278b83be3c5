# Verification of the ecoin node

ecoin is a Bitcoin Core derivative (0.16 line) with Equihash proof of work and
an *authorization* rule: from `authorizationForkHeight` on, the coinbase of a
block carries a signature by a key fixed in the chain parameters. This
directory holds TLA+ models of the parts of the node that decide which chain is
active and which coins exist, of the transaction pool, the notification of
listeners, the download of blocks and the address book, TLC configurations that check them on small
instances, and proofs that TLAPS checks for instances of any size. All paths
below are relative to the repository; the node's own code is in `src/`.

`PROJECT.json` lists the components, the runs, the source lines of every
definition, a faulty variant for every property, the hazards and the theorems.

## 1. Inventory

| Component | State | Operations | What is hard | What makes it correct |
|---|---|---|---|---|
| Coin views (`coins.cpp`) | `cacheCoins` with DIRTY and FRESH flags at two levels above the database, `hashBlock` | AddCoin, SpendCoin, AccessCoin, HaveCoin, Uncache, BatchWrite, Flush | flags are promises about the layer below that later operations must keep | caches are invisible: callers see plain UTXO sets |
| Chainstate database (`txdb.cpp`, `FlushStateToDisk`, `ReplayBlocks`) | coins, `DB_BEST_BLOCK`, `DB_HEAD_BLOCKS` | BatchWrite in several batches, ReplayBlocks | crash between batches, in the replay, in the flush after the replay | after every restart the coins are those of the tip |
| Chain selection (`CChainState`, `validation.cpp`) | block index and flags, `setBlockIndexCandidates`, `mapBlocksUnlinked`, `g_failed_blocks`, `chainActive`, sequence numbers | headers, blocks, ActivateBestChain, preciousblock, invalidateblock, reconsiderblock, restart | `cs_main` is released inside ActivateBestChain; data in any order; lazy failure marks | the best usable chain is active, the candidates are exact |
| Script check queue (`checkqueue.h`) | `queue`, `nIdle`, `nTotal`, `nTodo`, `fAllOk` | control object, Add, Loop | threads, condition variables, interruption | the verdict is the conjunction of all checks, and comes |
| Scheduler, validation interface (`scheduler.cpp`, `validationinterface.cpp`) | task queue, service threads, callbacks pending | schedule, serviceQueue, stop, AddToProcessQueue, ProcessQueue | threads, order of callbacks, back-pressure from ActivateBestChain | every client's callbacks run once, in order, one at a time |
| Transaction pool (`txmempool.cpp`) and acceptance | `mapTx`, `mapLinks`, `mapNextTx`, `mapDeltas`, ancestor and descendant totals | AcceptToMemoryPool, PrioritiseTransaction, removeForBlock, UpdateMempoolForReorg, TrimToSize, Expire | long sequences; totals kept incrementally; parents that come back below their children | totals equal their definition, every entry fits into the next block, replacements pay |
| Peer logic (`net_processing.cpp`) | `mapBlocksInFlight`, per-peer state, orphans | ProcessMessage, SendMessages, FindNextBlocksToDownload | timeouts against late answers, stalling peers | a block is in flight from at most one peer and is asked for again after a failure |
| Address manager (`addrman.cpp`) | `mapInfo`, `vRandom`, new and tried tables, `m_tried_collisions` | Add, Good, Attempt, ResolveCollisions, SelectTriedCollision, GetAddr, peers.dat | reference counts, eviction, ids kept across deletions | tables and counts agree, also after a restart |
| Soft-fork states (`versionbits.cpp`) | cache of states per period | GetStateFor | cache filled from any block | cache equals definition |
| Mining (`miner.cpp`, `LocalClient.cpp`), wallet, connection manager, script caches, RPC/HTTP, startup, block files | see `PROJECT.json` | | | |

How they interact: the message handler and RPC threads call
`ProcessNewBlockHeaders` and `ProcessNewBlock`. `ProcessNewBlock` checks the
block without a lock, stores it under `cs_main` (`AcceptBlock`,
`ReceivedBlockTransactions`) and calls `ActivateBestChain`, which takes and
releases `cs_main` once per step. A step disconnects and connects blocks; each
of them opens a `CCoinsViewCache` on `pcoinsTip`, feeds script checks to
`CCheckQueue`, and flushes the view. `FlushStateToDisk` flushes `pcoinsTip`
into the database. Every block connected or disconnected changes the transaction
pool, under the same lock. Block notifications go through the scheduler to the
wallet and the other listeners, and `ActivateBestChain` waits for them when too
many are pending. The message thread decides which blocks to ask from which
peer; the socket thread removes peers that have gone. The connection threads
take addresses from the address manager and report what became of them.

Left out for good, with the reasons in `PROJECT.json`: cryptography, script
evaluation, fee statistics, serialisation, the user interfaces and sockets.

## 2. Modules

| Module | Models | Role |
|---|---|---|
| `UtxoView` | what the coin views promise | abstract specification |
| `CoinsCache` | `coins.cpp`, `coins.h` and its users in `validation.cpp` | implements `UtxoView` |
| `CoinsCacheProofs` | | theorems on `CoinsCache` |
| `CheckQueue` | `checkqueue.h` | component |
| `CheckQueueProofs` | | theorems on `CheckQueue` |
| `ChainState`, `MCChainState` | `CChainState` | component and its block trees |
| `ChainStateProofs` | | theorems on `ChainState` |
| `CoinsDB`, `MCCoinsDB` | `txdb.cpp`, `FlushStateToDisk`, `ReplayBlocks` | component and its block trees |
| `CoinsDBProofs` | | theorems on `CoinsDB` |
| `SerialQueue` | what `SingleThreadedSchedulerClient` promises | abstract specification |
| `Scheduler` | `scheduler.cpp`, `validationinterface.cpp`, their users in `ActivateBestChain` and `Shutdown` | implements `SerialQueue`; composes scheduler, client, producers and shutdown |
| `SchedulerProofs` | | theorems on `Scheduler`, with the refinement |
| `Mempool`, `MCMempool` | `txmempool.cpp` with `AcceptToMemoryPool` and `UpdateMempoolForReorg` | component, its transactions and blocks |
| `MempoolProofs` | | theorems on `Mempool` |
| `BlockDownload`, `MCBlockDownload` | the block download of `net_processing.cpp` | component, its peers and blocks |
| `BlockDownloadProofs` | | theorems on `BlockDownload` |
| `AddrMan`, `MCAddrMan` | `addrman.cpp`, `addrman.h` | component, its addresses and hash values |
| `AddrManProofs` | | theorems on `AddrMan` |

A definition called "faulty variant" in a comment is a plausible bug, used only
to see that a property notices it (`mutants` in `PROJECT.json`).

### CoinsCache

State: the database (`db`, `dbBest`), `pcoinsTip` (`tip`, `tipBest`), one view
above it (`view`, `viewBest`, `open`) and what the last lookup or spend handed
to its caller (`got`). `cs_main` is held while a view is open, so there is one
view at a time and the tip cache is not used directly meanwhile. A coin is a
model value; `NoCoin` is both a spent coin and "not found", as in the code,
which never returns a spent coin from `GetCoin`. `AddCoins` covers the three
callers with their different ways to compute the overwrite flag. Outside
coinbases a transaction creates only outpoints that are not unspent; this is
the contract of `AddCoin`, and the guard of the action. A restart keeps only the
database. Memory accounting and the cursor are left out.

### CheckQueue

One step per critical section of `Loop`, one for running a batch outside the
mutex. `cond.wait` is the place `wait`; a notified thread is `woken` and
competes for the mutex again, and a thread may wake without being notified.
`Interrupt` is `threadGroup.interrupt_all()` at shutdown, which throws from
`cond.wait` and skips `nIdle--` and `nTotal--`. The order of the queue is
left out, as nothing depends on it. All batches that the code could take are
taken. One path ends differently in the code: if `interrupt_all` hits the `Wait`
that the destructor of `CCheckQueueControl` runs (`checkqueue.h:204`), the
exception leaves a destructor and terminates the process; in the model the master
waits again. What is shown of that path holds for as long as the process lives.

### ChainState

Each action is one region under `cs_main`; a thread is idle, between the first
`CheckBlock` of `ProcessNewBlock` and the lock, or in `ActivateBestChain`
(with the `pindexMostWork` it remembers). Status bits are sets of blocks, a
block is a number, and its number is also its pointer, the last tie breaker of
`CBlockIndexWorkComparator`. `FindMostWorkChain` is not iterated: the result,
the candidates it drops and the blocks it marks are given by definitions
(`Usable`, `Dropped`, `Poisoned`, `MetFailed`). A block is refused by
`ContextualCheckBlock` (`BadContext`), by `ConnectBlock` (`BadConnect`) or by
the authorization rule of `CheckBlock`, which looks at the tip and not at the
block, and whose result is cached in `fChecked` (`blk`). `Signed` is fixed per
block although the code looks for the signature behind the height of the tip plus
one, written as a script (`validation.cpp:3047`): only the length of that number
matters, and it is three bytes from the fork height of the main chain (211680) to
8388607, the only heights at which the rule is on.

`CarefulOperator` restricts the operator commands to uses that the code
supports: invalidate only blocks whose chain the node has, reconsider the block
that is invalid rather than a descendant, make precious only blocks that can
become the tip and not after an invalidation lowered the tip. Section 5 says
what happens otherwise.

`dropped` is a history variable: the blocks that `ReceivedBlockTransactions`
neither linked nor put into `mapBlocksUnlinked`, because an ancestor was marked
failed when they came. No action reads it; `WaitingBlocksAreFound` names these
blocks as its exceptions.

`Restart` is a stop of the node after a complete flush, at any point of block
processing, and the next start: `LoadBlockIndex` (`Complete`, `MarkedFailed`),
`LoadChainTip` (`LoadedCandidates`), the `CheckBlock` of `VerifyDB`, without which
the node does not start, and `ActivateBestChain` in the import thread. What is
only in memory is lost: sequence numbers, `g_failed_blocks`, and what the threads
were doing.

Left out: pruning, an index on disk that is newer than the coins (`CoinsDB` has
that crash), disk failures, and `pindexBestInvalid`/`pindexBestHeader`, which feed
warnings and header synchronisation.

### CoinsDB

A coin is the height of the block that created it. A flush first makes the block
index durable, then writes any part of the modified coins in atomic batches,
replacing `DB_BEST_BLOCK` by `DB_HEAD_BLOCKS` in the first and reversing that in
the last. A crash can happen in every state. At startup the node rolls back the
old branch and rolls forward the new one, one block per step, then flushes, and
all of that can be cut off again. `Utxo[b]` is the UTXO set after block `b` by
definition; blocks are valid with respect to it. In the instance one transaction
is in blocks of different heights on both branches, and one block spends what it
creates. Coinbase maturity is not modelled; it restricts which blocks are valid.
`DISCONNECT_UNCLEAN` is fatal in `DisconnectTip` and expected in a replay, as in
the code.

### Scheduler

One step per critical section under `newTaskMutex` or `m_cs_callbacks_pending`,
so the steps of `AddToProcessQueue` (push, test, schedule) and of `ProcessQueue`
(take, call, reset the flag in the destructor, test, schedule) interleave between
all threads. The tasks are `ProcessQueue` tasks, which may accumulate, and at
most one task of `scheduleEvery`, whose time passes in `Tick`. A service thread
in `wait_until` whose time has passed is `late`: it has not locked the mutex
again and may or may not still be on the condition variable, so a notification
may be spent on it. Producers are threads in `ActivateBestChain`: they wait for
the queue to drain when it is too long (`Throttle`, `Await`), connect one block
under `cs_main` and send `BlockConnected` under it, `UpdatedBlockTip` after it. A
callback takes `cs_main`, as the wallet's do, or fulfils a promise. Importers
are producers that belong to the thread group. Shutdown either interrupts the
thread group, as `init.cpp` does, or uses one of the two forms of `stop`, then
joins the threads, sends the `SetBestChain` of the last flush and runs
`EmptyQueue`.

Left out: what a callback does; listeners and signals; that a callback may
throw (`ResetRunning` is the destructor that runs in both cases).

### Mempool

All operations run under `cs_main` and the lock of the pool, so each is one
step, with everything it calls. `pool` holds the entries, the fee deltas, the
links and the two totals of every entry (count and modified fees; sizes and
signature operations are updated in the same places in the same way). Removal
finds ancestors through `mapLinks`, acceptance through the inputs, as in the
code: in the middle of a reorganisation the two differ. `disconnectpool` is a
sequence local to `Reorganize`, with its size limit. A reorganisation ends at
any block, since `ActivateBestChainStep` may stop at an invalid one, and at a
system error `fAddToMempool` is false. Expiry removes at most `MaxExpired`
entries, any ones; the worst entry for eviction is by descendant score, and
among equal ones any.

The blocks are constants, and they have passed `ConnectBlock` (`ValidBlocks`): no
transaction is in a chain twice, and each spends what the chain or an earlier one
of its block left. `MempoolAssumption` says what the proofs use of the numbers:
transactions are larger than the transactions they spend, blocks than their parents.

Left out: the rolling minimum fee, memory in bytes (the limits count
transactions), standardness beyond the set `NonStandard`, script checks,
relative lock times, the limit on the number of replaced transactions.

### BlockDownload

The message thread handles one message, or sends to one peer, at a time under
`cs_main`, so a handler is one step; `FinalizeNode` is a step of the socket
thread some time after `fDisconnect`. `dl` holds `mapNodeState` (with
`vBlocksInFlight`, its counters, the best, unknown and last common block, the
stalling timer), `mapBlocksInFlight` and `nPeersWithValidatedDownloads`; `chain`
what the download asks of the block index; `sync` the peers with `fSyncStarted`;
`used` how each peer is connected (inbound, outbound or by hand, whitelisted, and
its services: all blocks, late blocks only, none), from which follow
`fPreferredDownload`, who is asked for headers and for blocks (`StartsSync`,
`Fetches`), and who is spared by `SendRejectsAndCheckIfBanned` and by the timeout
of the headers sync. A peer is there from its VERSION message on.

A peer that is not `Responsive` sends, at any time, blocks and compact blocks it
has, asked or not, more than once, or nothing; its timers may expire at any time,
as clocks are not modelled. A responsive peer stays connected and answers before
its timers expire. What `InitData` and `FillBlock` make of a compact block is a
choice: complete, incomplete, failed or invalid. Its entry stays in flight after
a failure, with what the code leaves in `partialBlock`: the header after a failed
`InitData` (`collided`), a null header after a failed `FillBlock` (`filled`). A
further `blocktxn` fills the former; for the latter it ends the process
(`BlockTxnAgain` sets `up` to FALSE, section 5). `IsInitialBlockDownload` is
computed from the tip, its latch left out; `nMinimumChainWork` is 0; whether a
block is younger than a day is a property of the block.

Left out: `ConsiderEviction` (a peer it disconnects is one that closes),
misbehaviour scores below the limit, one-shot and feeler connections, orphans,
transaction relay, pruning, witness flags.

### AddrMan

Every operation holds `cs` and is one step. The keyed hashes are constants, so an
instance chooses which addresses collide where. Of the times, an entry keeps what
`ResolveCollisions_` asks; `IsTerrible` is a choice. `mapInfo[id]` on an id that is
not there creates an entry, as `std::map` does. `Restart` writes and reads
peers.dat: the file holds entries in the order of their ids, counts and, for each
bucket, numbers of entries; positions, ids and reference counts are computed
again, and pending collisions are forgotten. A crash loads an older file, which is
the same operation.

Left out: `Select_` (changes nothing), `Connected_` and `SetServices_`, ports, the
chance by which a known address gets another place (it may or may not), files of
another version.

## 3. Runs

| Run | Instance | Shows |
|---|---|---|
| `coins_cache` | 2 outpoints, 3 coins (1 unspendable), 2 blocks; 90,443 states | FRESH and clean entries are sound, nothing is thrown, `UtxoView` is implemented |
| `check_queue` | 1 master, 2 workers, 4 checks (1 bad), batches of up to 2; 121,733 states | counters count, the verdict is right, no leftovers, `Wait` returns |
| `chain_state` | 6 blocks 0-1-2-4 and 0-3-5, 1 thread, fork height 2, block 4 refused by its context, block 5 unsigned, restarts; 660,539 states | also across restarts, candidates, failure flags and unlinked blocks are exact, the best usable chain is active, authorization, no assertion fails, activation makes progress |
| `coins_db` | 6 blocks 0-1, 1-2-3, 1-4-5, 7 outpoints, crashes everywhere; 3,913 states | the coins match the tip, the database lies between its heads, no undo fails, the node comes back |
| `scheduler` | 2 service threads, a message thread, an import thread, 2 blocks, at most 1 callback pending before waiting; 365,831 states | the client refines `SerialQueue`, no callback is stranded, blocks are announced in order, waiting threads are released, shutdown ends and leaves nothing |
| `mempool` | 11 transactions, 8 blocks on 3 branches, pool of 5, 4 disconnected transactions kept; 944 states | links mirror inputs, totals are sums, every entry fits into the next block, replacements pay |
| `block_download` | 6 blocks, a peer with a bad fork that may stall, leave or be whitelisted, a responsive peer, either of them preferred or not; 60,565 states | the tables of requests agree, only a peer that owes blocks is timed, no takeover, the node catches up or passes the peer over |
| `addrman` | 3 addresses, 2 sources, 1 tried place, 2 new buckets, 3 ids; 60,325 states | `Check_` passes, pending collisions have a rival, peers.dat restores the tables |
| `chain_two_threads` | 2 threads | violated: section 5 |
| `chain_reconsider` | any operator | violated: section 5 |
| `chain_recheck` | unsigned block before the fork | violated: section 5 |
| `coins_db_genesis` | the genesis coin is spent | violated: section 5 |

Bounds. Outpoints do not interact in `CoinsCache`, except through the single
block hash and the atomicity of a flush: two show both. Two values of a coin
let an overwrite be told from the old coin. Four checks and a batch size of two
let all three threads hold batches and the queue be empty with work
outstanding. The tree of `ChainState` has two branches of different length, so
there are ties, reorganisations of depth two in both directions and a
reorganisation that fails half-way; `MinSequenceId = -1` puts
the counter of preciousblock at its limit, where all numbers are equal and only
pointers decide, and `MinBlocksToKeep = 1` makes blocks too far ahead. (With
`MinSequenceId = -2`, which also gives precious blocks different numbers, the
instance has 2,458,576 states and every property holds too; that is too long for
a regular run.) No counter in `ChainState` needs a bound: every block is linked
once between two restarts.

In `Scheduler`, `MaxPending = 1` lets both producers meet the limit with two
blocks, and two service threads are one more than the node has; when the
periodic task exists, part of the blocks is connected already, to keep the run
small. The transactions of `Mempool` hold a chain of three with two parents,
two kinds of conflict, a coinbase spend, a lock time, a transaction that only
blocks may contain and a child that pays for its parent; a reorganisation
disconnects up to three blocks, more than `disconnectpool` holds. In
`BlockDownload`, `Window = 1` makes one slow peer hold up the download, and
`MaxInTransit = 2` is reached; the slow peer is preferred, an ordinary inbound
peer, or whitelisted with late blocks only, the responsive one preferred or not, so
that blocks are held back from peers that are not preferred, the headers sync is
taken over, and a whitelisted peer outlives its timeout; the first block is old, the
others are recent, so the initial download ends on the way. In `AddrMan` the two places of one address are
places of the two others, so every eviction rule happens; `MaxIds` bounds the
ids given out between two restarts.

Deadlock is checked in `coins_cache`, `check_queue`, `chain_state`, `coins_db`,
`mempool` and `addrman`. In `scheduler` and `block_download` the system may
really stop: after shutdown, and when all peers are gone and no new one comes.
The violation runs switch it off, because a failed assertion or a failed
disconnection ends the process.

Fairness. `CheckQueue`: weak fairness of every thread's `Loop` (the operating
system schedules runnable threads and the mutex is not held while anybody waits)
and of a master's `Wait` and destructor, which ConnectBlock always reaches;
nothing is assumed about spurious wake-ups, interruptions or new masters.
`CoinsDB`: startup, replay and flush go on if no crash stops them, and the
property `ComesBack` assumes that crashes stop. `ChainState` has no fairness:
that the loop of `ActivateBestChain` ends is stated as the action property
`ActivationProgresses` (every iteration that stays in the loop gains work or
finds a new invalid block), which implies it, since both can happen only
finitely often. `Scheduler`: weak fairness of every thread once it has begun
something, and of time; nobody has to begin an operation or the shutdown, and no
spurious wake-up is assumed. Weak fairness of a thread that wants `cs_main` is
enough because the bounded number of blocks makes contention end.
`BlockDownload`: the message thread comes back to every peer, timers of peers
that owe blocks or headers expire, the socket thread removes disconnected nodes,
and a responsive peer answers what it was asked: blocks, `blocktxn`, and headers
once the headers sync with it has begun or a block of it is unknown. Nobody has to
announce anything. `SendMessages` visits every other peer between two visits to
one, so a peer that could become the headers-sync peer again and again does at
some time (the strong form in `Fairness`, for `CanStartSync`). These conditions are
written with explicit enabling conditions (`CanRequest`, `CanStartSync`,
`CanAnswer`, `CanSendHeaders`) in place of `WF_vars`, because TLC evaluates
`ENABLED` of such large steps too slowly. Without the timeout of the headers sync,
or without the strong form, TLC finds `Synced` violated.

## 4. Proofs

The theorems hold for every value of the constants that satisfies the named
assumptions of the modules: block trees, sets of threads and of script checks are
finite, the genesis block is the root, a height is one more than the parent's,
special values differ from the others. In each module a temporal theorem is the
combination of three facts: the inductive invariant holds initially, every
action preserves it (one lemma per action), and it implies the property.

**`CoinsCacheProofs`**, from `CoinsAssumption` alone:

- `Invariance`: `Spec => []IInv`, with `IInv` = types, `FreshMeansAbsentBelow`,
  `CleanEqualsBelow`, `NoLogicError` and `ClosedViewEmpty`. None of the middle
  three is inductive alone. That `AddCoin` may set FRESH rests on clean entries
  agreeing with the layer below; that clean entries of the view still agree
  after a lookup rests on the tip cache answering the same before and after
  `FetchCoin`; that `BatchWrite` does not throw rests on FRESH in the view
  excluding a coin in the tip; and that a FRESH entry of the tip stays sound
  when the view's entry is merged rests on the view having been empty when it
  was opened. The proof has one lemma for each operation on a single cache
  entry, and one step per action.
- `FreshIsSound`, `CleanIsSound`, `NeverThrows`: the three invariants of the
  run `coins_cache`.
- `Refinement`: `Spec => UtxoSpec`. Each operation maps to one step of
  `UtxoView`; the lookups that only fill caches and `Uncache` map to reads and
  stutters. The invariant is used for `Flush` (the merged entry answers what the
  view answered, an entry that is dropped answered nothing) and for `Uncache`.

**`CheckQueueProofs`**, for any number of workers, masters and checks and any
batch size:

- `Invariance` with an `IInv` that adds to the properties where a thread may be
  (`PlacesOK`), that queued and running checks are disjoint parts of `added`
  (`PendingAdded`), that `nTotal` counts the threads in `Loop` (`TotalCounts`),
  that an unused queue is clean (`RestingUnused`), and `Verdict`: a failure that
  a thread or `fAllOk` remembers is real, and a bad check that was added is
  either still queued or running, or remembered. The last part is what makes
  `Wait` right although checks are skipped after a failure.
- `TodoIsExact`, `IdleIsExact`, `WaitIsCorrect`, `QueueLeftUnused`: the four
  invariants of the run `check_queue`.

**`ChainStateProofs`**, in three layers.

- `BaseInv` (types; linked, unlinked and dropped blocks partition those with
  data; what threads remember exists) holds for any number of threads and any
  operator. It gives `TypeCorrect`, `UnlinkedIsExact` and `UnsignedOnlyAsTip`: at
  or above the fork height a block without a signature enters the active chain
  only as the new tip, and only if a thread brought it along with its `fChecked`
  set. The breadth-first
  search that links descendants in `ReceivedBlockTransactions` is a closure in
  the model, and its lemma is by the minimal block outside the closure.
- `FlagsOK` (every flag has an invalid ancestor, and `g_failed_blocks` holds only
  blocks with `BLOCK_FAILED_VALID`) holds for any number of threads and gives
  `FlagsHaveReason`; it needs `CarefulOperator`, because `ResetBlockFailureFlags`
  of a descendant leaves flags behind.
- `IInv` adds what only holds for one thread (`OneThread`): the active chain was
  connected and is good, candidates are not worse than the tip, at rest they
  cover every better block, and, inside the loop, `Anchored`: there is a
  candidate that was connected before and that no linked block outside the
  candidates beats. This is what makes `FindMostWorkChain` return something and
  `PruneBlockIndexCandidates` keep something after a reorganisation that failed
  half-way or an `invalidateblock` that moved the tip back. `SequenceOK` bounds
  the numbers that `preciousblock` has handed out. It gives `ActiveChainStaysValid`,
  `CandidatesStayExact`, `BestChainIsActive`, `AuthorizedIfForkByWork`,
  `AssertsHold`, `WorkIsKept` and `LoopProgresses`.

The theorems of the last layer assume `Setting`, which is `CarefulOperator` and one
thread, and hold for as long as `ForkByWork` does: of the chains the node has seen,
those that reached the fork height have more work than those that did not. **The
code does not ensure `ForkByWork`**; it holds where the rule is off, and wherever
work follows height. It is needed for all theorems of this layer, not only for the
one on authorization: `ScriptsOK` says that a block that was connected would be
connected again when it is read from disk, and a block that got in without its
signature would not, so that the way back of a failed reorganisation may fail too.
`AuthorizedIfForkByWork` is therefore no guarantee that active blocks are signed.
It names the only way to an unsigned one with a single thread, and section 5 has an
example of it. Section 5 also shows what happens without the other two assumptions;
the run `chain_state` satisfies all of them.

**`CoinsDBProofs`**, for any block tree and any assignment of created and spent
outpoints to blocks, in three layers.

- `BaseInv` (types, what each phase of startup implies, durable index entries of
  all heads) gives `TypeCorrect` and `ReplayFlushesFirst`.
- `CoinsInv` adds the coins. During a replay each coin is that of the replay's
  position or already that of the new tip: undoing a block over a coin that has
  the new value restores one of the two, and connecting the blocks of the new
  branch overwrites it. The lemmas on `Connected` and `Disconnected` compare, per
  outpoint, two maps that are related in this way; the tree lemmas are by the
  lowest block outside a set. It gives `CoinsRecovered` and
  `DatabaseStaysBetween`, for databases that hold the genesis block or, with
  `FreshStart`, when the genesis block creates nothing (`GenesisHarmless`; see
  `validation.cpp:4053` in section 5).
- `CleanInv` adds that nothing fails and gives `NeverNeedsReindex`, if no block
  spends a coin of the genesis block (`GenesisUnspent`, the case of the run
  `coins_db_genesis`).

**`SchedulerProofs`**, for any number of service threads, producers and blocks:

- `Invariance`: the role of a thread decides where it may be; `running` is set iff
  exactly one thread is between taking a callback and resetting the flag; the
  number of threads in `serviceQueue` is counted; who holds `cs_main` is where it
  is held; and `OrderOK`: a block that is being pushed is the tip, and everything
  pushed or called before is an earlier one.
- `NothingStranded`, `BlocksStayInOrder`, `AloneInEmptyQueue`: the three
  invariants of the run.
- `Refinement`: `Spec => SerialQueueSpec`. Push, take and return are the steps of
  the abstract queue, everything else is a stutter; that at most one thread is in
  a callback comes from the invariant.

**`BlockDownloadProofs`**, for any set of peers, any finite tree of blocks and any
limits, under `DownloadAssumption` alone:

- `Invariance`: `IInv` = types and `Safe(dl)`. `Safe` is the agreement of the tables
  (`FlightTablesAgree` and `StallerHasBlocks`, read as a condition on one value of
  `dl`) and `Within`, the limit on the list of a peer. The two need each other:
  `DirectFetch` computes its room from `nBlocksInFlight`, which is right because the
  counter is the length of the list, and the room is not negative because of the
  limit. A handler is a composition of operators on `dl`; there is one lemma for
  each operator (`MarkBlockAsReceived`, `MarkBlockAsInFlight`, `MarkAll`,
  `UpdateBlockAvailability`, `SetPartial`, `FindNextBlocksToDownload`, ...) saying
  that it keeps `Safe` and, except for the first, every request, and one lemma
  per action that composes them.
- `TypeCorrect`, `TablesAgree`, `StallersOwe`, `NothingTakenOver`: the safety
  properties of the run `block_download`; `TransitBounded`: the limit.
- The recursive functions are dealt with by first showing that they have a
  solution: `ChainEquation` for the chains of blocks, `MarkAllSteps` for the
  sequence of requests. Induction is over a set of numbers or blocks given as a
  constant (`SetInduction`, `TreeInduction`), which needs no operator parameter.

**`AddrManProofs`**, for any finite set of addresses, any sources, any values of
the hashes and any limits, under `AddrManAssumption` alone:

- `Invariance`: `IInv` = `Sound(am)`. `Sound` says that `vRandom` and `nRandomPos` are
  inverse to each other, that `mapAddr` names every entry, that references count
  places, that the tried table and the tried entries agree, that the counters count
  (`Shape` and `CountsOK`), and that pending collisions have a rival (`Pending`).
  Inside an operation this does not hold: `MakeTried` takes an entry out of its
  places before it has another one, `Create` makes one without a place. `Shape(m, L)`
  therefore names the entries `L` on their way, and `CountsOK(m, i, j)` what the
  counters miss; there is a lemma for each helper (`Create`, `Delete`, `SwapRandom`,
  `ClearNew`, ...) that says what it does to both, and each operation ends with an
  empty `L`.
- `TypeCorrect`, `CheckStaysClean`, `CollisionsStayPending`, `ReloadRestores`: the type
  invariant and the three properties of the run `addrman`. `Check_` also needs that
  `vRandom` is as long as there are entries, which is a bijection.
- `ReloadRestores` follows the file. `Loaded` says what is there after some entries
  were read: no tried entry finds its slot taken, since no two shared one, and no
  address comes twice. `Placing` says it for the places, in whatever order they
  come: a place is free when it is read and its entry below the limit, since the
  entry has at most the places it had. At the end no entry is without a place, so
  none is deleted. The number of an entry in the file is its rank among the ids
  (`InOrderFacts`).
- Operations in turn are a recursive function of the step number; `StepsExist` shows
  that it has a solution, by induction over the numbers (`SetInduction`).

**`MempoolProofs`**, for any finite set of transactions, any finite tree of blocks and
any limits, under `MempoolAssumption` and `ValidBlocks`:

- `Invariance`: `Inv` says that the pool is at rest at the tip (`Rest`): links go both
  ways and mirror the inputs (`Sound` and `Linked`), every input is in the pool or
  unspent in the chain (`Live`), no two entries spend the same output (`Single`),
  nothing is confirmed already and nothing too early (`InTime`), and the totals of an
  entry are sums over what its links reach (`Summed`).
- Inside an operation less holds, and `Fit(p, A, B, G, X)` says what: children outside
  `B` may lack the link to a parent in `A`, and inputs may be outputs of `G` that none
  of `X` spends. There is a lemma for each helper. A removal with descendants keeps
  `Fit` as long as it takes nothing of `A` (`ClosedCut`); `removeRecursive` takes its
  transaction out of `G`; `addUnchecked` puts it into `A`; a confirmed transaction goes
  into `G` and `X` (`ConfirmedFit`).
- A reorganisation: on the way (`OnTheWay`) `G` holds the chain and `disconnectpool`,
  which is ordered so that nothing in it is spent by what comes later (`Orderly`). When
  transactions come back (`Back`), those that came back were in the old chain and
  whatever else is in the pool never was, so that none of them is a child of what
  stayed (`NoParentsOutside`) and none is in conflict with another: the removals of
  conflicts and of children of rejected ones find all descendants through the links,
  although links are missing at that time. At the end nothing is left in the queue,
  `LinkChildren` adds every missing link (`UpdateFit`), and `removeForReorg` takes out
  what is too early (`ReorgRest`).
- `ParentsStay`: a replacement whose ancestors are not in conflict with it does not
  descend from what it replaces, since ancestors by parent links and descendants by
  child links are the same relation.
- The totals. `Fees` is a fold over a set in a chosen order; `SumExists` and
  `FeesAreSum` show that it is a sum, whatever the order (`TotalUnion`, `TotalChanged`).
  A removal subtracts from an ancestor that stays the removed entries from which links
  lead to it, which are the ones it counted because parent and child links are dual
  (`ClosureDual`); a removal without `updateDescendants` leaves no descendants behind.
  `addUnchecked` adds a leaf, since what comes back from a block is not yet linked to
  its children. In `UpdateTransactionsFromBlock` the entries that are still to be dealt
  with (`R`) lack their links to the children that never left: an entry of `R` counts
  only descendants that came back, an entry that never left does not count its
  ancestors in `R`, and all others count everything (`Half`). Descendants come first,
  because `vHashUpdate` is ordered (`InOrder`), so that below the entry whose turn it is
  no link misses and what the cache holds is complete: `FoundAll` shows that
  `UpdateForDescendants`, which does not go through cached children, finds all
  descendants. With `R` empty, `Half` is `Summed` (`HalfLast`).
- `TypeCorrect`, `LinksCorrect`, `TotalsCorrect`, `PoolStaysMineable`,
  `ReplacementsPay`: the type invariant and the properties of the run `mempool`.
- `Closure` and the other recursive functions: `StepsExist` and `TreeStepsExist` show
  that they have solutions, `ClosureFacts` and `ClosureLeast` that a closure is the
  least closed set; it is reached in as many steps as there are transactions, since
  each step that is not the last reaches another one.

Only model-checked is liveness (`WaitReturns`, `ComesBack`, `SyncReturns`,
`ShutdownEnds`, `Synced`): fairness is out of the prover's reach. `LoopProgresses`
proves the step that the termination of `ActivateBestChain` rests on, not the
termination. Every invariant and every action property of the passing runs is proved,
those of `chain_state` that need `IInv` for as long as `ForkByWork` holds, and those of
`coins_db` under the assumptions on the genesis block named above.

## 5. Where the code and its documentation disagree

- **`chain_two_threads`** (`validation.cpp:2604`). `ActivateBestChain` keeps
  `pindexMostWork` while `cs_main` is released. A second thread (for example
  `preciousblock` or a block submitted by RPC) activates a better chain; the
  first thread then reorganises back to its stale target, and returns true. The
  comment promises "either failure or an activated best chain". The next call
  repairs it. With two threads TLC also reaches violations of `AuthorizedChain`
  (a block that passed `CheckBlock` before the lock, when the tip was below the
  fork height, keeps its `fChecked`), `ActiveChainValid` and `NoAssertFails`
  (`PruneBlockIndexCandidates` leaves no candidate).
- **`chain_reconsider`** (`validation.cpp:2759`). `invalidateblock` of a block
  and `reconsiderblock` of its child: the flags of the ancestor are cleared, its
  entry in `g_failed_blocks` is not, and the next header on top fails
  `assert(failedit->nStatus & BLOCK_FAILED_VALID)`.
- **`chain_recheck`** (`validation.cpp:3028`). `CheckBlock` ("independent of
  context") asks for a signature according to the tip. Blocks from before the
  fork fail it later, in `VerifyDB`.
- **`coins_db_genesis`** (`validation.cpp:1532`). The genesis output can be
  spent here, contrary to the comment in `chainparams.cpp:51`; the undo record
  then says height 0, which `ApplyTxInUndo` takes for missing metadata, and the
  block cannot be disconnected.

Seen with TLC and excluded by a constant in the passing runs: without
`CarefulOperator`, `preciousblock` after an invalidation hands out
sequence numbers twice (`validation.cpp:2672`); with `FreshStart`, a crash in
the very first flush leads to a replay from height 1, without the genesis coin
(`validation.cpp:4053`).

Met in the attempt to prove `WaitingBlocksAreFound` without exceptions: a block
that arrives while its parent is marked failed is not put into
`mapBlocksUnlinked` (`validation.cpp:2871`) and, after the ancestor is
reconsidered, is not linked before the next start. Take the chain 0-1-2 with 3
and 4 on top of 2. Block 1 is invalidated; the header of 4 arrives, is refused
and leaves its mark on 2; the data of 3 arrives; block 1 is reconsidered and the
data of 2 arrives: nothing fetches 3. `CheckBlockIndex` (`validation.cpp:4496`)
asserts that such a block is in the map.

Met in the attempt to prove `AuthorizedChain` for one thread: the rule that
`CheckBlock` takes from the tip is the rule for the block only if chains grow in
work as they grow in height. If a chain below the fork height has more work than
one above it, a branch is stored while the tip is low and connected at once when
its last block arrives, which was checked at the low tip and keeps its `fChecked`
up to `ConnectBlock`: with the tip at height 1 and work 10, a branch of works
3, 6, 11 and fork height 3, the third block of the branch becomes active without
a signature. So the rule "from the fork height on, active blocks are signed" is
not one that this code enforces. What holds is `UnsignedOnlyAsTip` in every case,
and `AuthorizedIfForkByWork` with one thread (section 4). In the run all blocks have
the same work, which excludes the case; no run shows it.

Met in `BlockDownload` and excepted by name (`~up`) in `Synced`: after `FillBlock` of
a compact block has failed, `ProcessMessage` asks for the whole block and keeps the
entry in flight with its `partialBlock` (`net_processing.cpp:2573`), whose header
`FillBlock` has set to null with the comment "Make sure we can't call FillBlock
again" (`blockencodings.cpp:191`). A second `blocktxn` for the block passes the test at
`net_processing.cpp:2561` and reaches `assert(!header.IsNull())`
(`blockencodings.cpp:177`), which ends the process. `Synced` also excepts peers that
the node may pass over for good (`PassedOver`), which are never preferred ones that
serve all blocks: during the initial download other peers are not asked for blocks
while there is a preferred one, peers with late blocks only are not asked at all,
and a headers-sync peer that keeps silent is replaced only if a preferred one is
there.

Seen in `Scheduler` and excepted by name in its properties: `interrupt_all` at
`init.cpp:220` may end the service threads while the import thread waits in
`SyncWithValidationInterfaceQueue`. That wait is on a `std::future`, which boost
does not interrupt, and only a service thread could fulfil the promise, so
`join_all` does not return (`ImportHangs`). Not covered by a property: with two or
more service threads a thread whose `wait_until` timed out runs the first task of
the queue even if that one is not due yet (`scheduler.cpp:65`), although
`scheduler.h:45` says "Call func at/after time t"; the node has one service thread.
And `UpdatedBlockTip` is sent after `cs_main` is released (`validation.cpp:2635`),
so two activating threads may deliver two tips in the wrong order;
`BlockConnected`, which is sent under the lock, cannot (`BlocksInOrder`).

## 6. Plan

Done: the eight components above, and the proofs of section 4.

1. `BlockIndexDB`, composed with `ChainState` and `CoinsDB`: a start from an index
   that was written before the coins, pruning and the missing-data branch of
   `FindMostWorkChain`, reindexing and `RewindBlockIndex`.
2. `VersionBits` (the cache against a definition by periods), the orphan pool,
   the rolling minimum fee, the wallet's conflicts and abandoned transactions.

### Not modelled

`PROJECT.json` gives the reason for each component. Sockets, files, the user
interfaces, ZMQ and Tor control are input and output; Equihash, scripts, Bloom
filters, merkle proofs and difficulty are computations on hashes and large
numbers; fee estimation is statistics on floating-point averages; RPC and REST
check arguments around operations that the other modules model. `3rd-src` and
`depends` hold vendored libraries, which are no part of the node's own logic.
