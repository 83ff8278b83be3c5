----------------------------- MODULE CoinsCache -----------------------------
(***************************************************************************)
(* The stack of coin views (coins.h, coins.cpp, txdb.cpp): the chainstate  *)
(* database, the tip cache pcoinsTip on top of it, and the short-lived     *)
(* CCoinsViewCache that ConnectTip, DisconnectTip and VerifyDB open on top *)
(* of pcoinsTip.  A cache entry carries a coin, possibly spent, and the    *)
(* DIRTY and FRESH flags; the flags decide what a flush writes, erases or  *)
(* ignores in the layer below, and every caller believes the answers it    *)
(* gets from the top.                                                      *)
(*                                                                         *)
(* cs_main is held from the construction of a view to its flush or its     *)
(* destruction, so while a view is open the tip cache changes only through *)
(* the lookups of that view.  A crash between the batches of a database    *)
(* write is the subject of CoinsDB; here that write is atomic.             *)
(***************************************************************************)
CONSTANTS Outpoints,     \* COutPoint
          Coins,         \* unspent Coin values
          Unspendable,   \* coins whose scriptPubKey.IsUnspendable()
          NoCoin,        \* a spent (cleared) Coin, and "not found"
          NoEntry,       \* the outpoint is not in a cacheCoins map
          Blocks,        \* block hashes
          NoBlock        \* the null hash

Entry == [coin : Coins \cup {NoCoin}, dirty : BOOLEAN, fresh : BOOLEAN]

ASSUME CoinsAssumption == /\ NoCoin \notin Coins
                          /\ Unspendable \subseteq Coins
                          /\ NoEntry \notin Entry
                          /\ NoBlock \notin Blocks

VARIABLES db,            \* chainstate database: coin of every outpoint
          dbBest,        \* DB_BEST_BLOCK
          tip,           \* pcoinsTip->cacheCoins
          tipBest,       \* pcoinsTip->hashBlock, filled lazily
          view,          \* cacheCoins of the open view
          viewBest,      \* hashBlock of the open view
          open,          \* a view on top of pcoinsTip exists
          got,           \* coin handed to the caller by the last lookup or spend
          logicError     \* a std::logic_error was thrown

vars == <<db, dbBest, tip, tipBest, view, viewBest, open, got, logicError>>

Cache == [Outpoints -> Entry \cup {NoEntry}]

TypeOK == /\ db \in [Outpoints -> Coins \cup {NoCoin}]
          /\ dbBest \in Blocks \cup {NoBlock}
          /\ tip \in Cache
          /\ tipBest \in Blocks \cup {NoBlock}
          /\ view \in Cache
          /\ viewBest \in Blocks \cup {NoBlock}
          /\ open \in BOOLEAN
          /\ got \in Coins \cup {NoCoin}
          /\ logicError \in BOOLEAN

EmptyCache == [o \in Outpoints |-> NoEntry]

Init == /\ db = [o \in Outpoints |-> NoCoin] /\ dbBest = NoBlock
        /\ tip = EmptyCache /\ tipBest = NoBlock
        /\ view = EmptyCache /\ viewBest = NoBlock
        /\ open = FALSE /\ got = NoCoin /\ logicError = FALSE

-----------------------------------------------------------------------------
(* Lookups.                                                                *)

\* What a lookup through a cache answers when the layer below has `below'.
CoinIn(cache, o, below) == IF cache[o] = NoEntry THEN below ELSE cache[o].coin

TipCoin(o) == CoinIn(tip, o, db[o])
ViewCoin(o) == CoinIn(view, o, TipCoin(o))

\* CCoinsViewCache::FetchCoin: an unspent coin found below is cached without
\* flags.  (GetCoin of the layer below answers false for a spent coin, so the
\* branch that marks a spent copy FRESH is never taken.)
FetchCoin(cache, o, below) ==
  IF cache[o] = NoEntry /\ below # NoCoin
  THEN [cache EXCEPT ![o] = [coin |-> below, dirty |-> FALSE, fresh |-> FALSE]]
  ELSE cache

\* A lookup in the view asks the tip cache only for what the view lacks.
TipAfterViewFetch(o) == IF view[o] = NoEntry THEN FetchCoin(tip, o, db[o]) ELSE tip
ViewAfterFetch(o) == FetchCoin(view, o, TipCoin(o))

\* GetBestBlock of pcoinsTip: a null hash is read from the database.
TipBestBlock == IF tipBest = NoBlock THEN dbBest ELSE tipBest

-----------------------------------------------------------------------------
(* Updates of one cache.                                                   *)

\* CCoinsViewCache::AddCoin throws when the caller promised a new coin and
\* the cache holds an unspent one.
AddThrows(cache, o, c, overwrite) ==
  /\ c \notin Unspendable /\ ~overwrite
  /\ cache[o] # NoEntry /\ cache[o].coin # NoCoin

\* Faulty variant of AddCoin: a DIRTY spent entry does not prevent FRESH.
AddCoinAlwaysFresh(cache, o, c, overwrite) ==
  LET wasFresh == cache[o] # NoEntry /\ cache[o].fresh
  IN IF c \in Unspendable THEN cache
     ELSE [cache EXCEPT ![o] = [coin |-> c, dirty |-> TRUE, fresh |-> wasFresh \/ ~overwrite]]

\* CCoinsViewCache::AddCoin: FRESH when the caller promised a new coin and the
\* entry, if there is one, holds nothing the layer below has yet to be told.
AddCoin(cache, o, c, overwrite) ==
  LET old == IF cache[o] = NoEntry
             THEN [coin |-> NoCoin, dirty |-> FALSE, fresh |-> FALSE]
             ELSE cache[o]
  IN IF c \in Unspendable THEN cache
     ELSE [cache EXCEPT ![o] =
             [coin |-> c, dirty |-> TRUE,
              fresh |-> old.fresh \/ (~overwrite /\ ~old.dirty)]]

\* Faulty variant of SpendCoin: the spent entry is not marked DIRTY.
SpendCoinNotDirty(cache, o) ==
  IF cache[o] = NoEntry THEN cache
  ELSE [cache EXCEPT ![o] = IF @.fresh THEN NoEntry ELSE [@ EXCEPT !.coin = NoCoin]]

\* CCoinsViewCache::SpendCoin, after its FetchCoin.
SpendCoin(cache, o) ==
  IF cache[o] = NoEntry THEN cache
  ELSE [cache EXCEPT ![o] = IF @.fresh THEN NoEntry
                            ELSE [coin |-> NoCoin, dirty |-> TRUE, fresh |-> FALSE]]

\* CCoinsViewCache::BatchWrite, one entry of the child against the parent's.
BatchThrows(child, parent) ==
  /\ child # NoEntry /\ child.dirty /\ child.fresh
  /\ parent # NoEntry /\ parent.coin # NoCoin

\* Faulty variant of BatchWriteEntry: the child's FRESH flag is copied onto a
\* pruned entry of the parent.
BatchWriteCopiesFresh(child, parent) ==
  IF child = NoEntry \/ ~child.dirty THEN parent
  ELSE IF child.coin = NoCoin /\ (IF parent = NoEntry THEN child.fresh ELSE parent.fresh)
       THEN NoEntry
       ELSE [coin |-> child.coin, dirty |-> TRUE,
             fresh |-> child.fresh \/ (parent # NoEntry /\ parent.fresh)]

BatchWriteEntry(child, parent) ==
  IF child = NoEntry \/ ~child.dirty THEN parent
  ELSE IF parent = NoEntry
       THEN IF child.fresh /\ child.coin = NoCoin THEN NoEntry
            ELSE [coin |-> child.coin, dirty |-> TRUE, fresh |-> child.fresh]
       ELSE IF parent.fresh /\ child.coin = NoCoin THEN NoEntry
            ELSE [coin |-> child.coin, dirty |-> TRUE, fresh |-> parent.fresh]

\* CCoinsViewDB::BatchWrite, one entry: DIRTY entries are erased or written.
DBWriteEntry(entry, stored) ==
  IF entry = NoEntry \/ ~entry.dirty THEN stored ELSE entry.coin

-----------------------------------------------------------------------------
(* The operations.                                                         *)

\* ConnectTip, DisconnectTip and VerifyDB construct a view on pcoinsTip and
\* first compare its GetBestBlock with the block they work on.
OpenView == /\ ~open /\ ~logicError
            /\ open' = TRUE
            /\ view' = EmptyCache
            /\ tipBest' = TipBestBlock
            /\ viewBest' = TipBestBlock
            /\ UNCHANGED <<db, dbBest, tip, got, logicError>>

\* AccessCoin, GetCoin or HaveCoin on pcoinsTip (mempool, RPC).
AccessTipCoin(o) == /\ ~open /\ ~logicError
                    /\ tip' = FetchCoin(tip, o, db[o])
                    /\ got' = CoinIn(tip', o, NoCoin)
                    /\ UNCHANGED <<db, dbBest, tipBest, view, viewBest, open, logicError>>

\* The same on the open view.
AccessCoin(o) == /\ open /\ ~logicError
                 /\ tip' = TipAfterViewFetch(o)
                 /\ view' = ViewAfterFetch(o)
                 /\ got' = CoinIn(view', o, NoCoin)
                 /\ UNCHANGED <<db, dbBest, tipBest, viewBest, open, logicError>>

\* AddCoins for one output of a transaction, or ApplyTxInUndo for one input.
\* With check (ApplyTxInUndo, RollforwardBlock) the overwrite flag is what
\* HaveCoin answers; without, it is set for the outputs of a coinbase, and
\* the other transactions create outpoints that are not in the UTXO set.
AddCoins(o, c, check, fCoinbase) ==
  LET cache == IF check THEN ViewAfterFetch(o) ELSE view
      overwrite == IF check THEN CoinIn(cache, o, NoCoin) # NoCoin ELSE fCoinbase
  IN /\ open /\ ~logicError
     /\ check \/ fCoinbase \/ ViewCoin(o) = NoCoin
     /\ tip' = IF check THEN TipAfterViewFetch(o) ELSE tip
     /\ logicError' = AddThrows(cache, o, c, overwrite)
     /\ view' = IF logicError' THEN cache ELSE AddCoin(cache, o, c, overwrite)
     /\ UNCHANGED <<db, dbBest, tipBest, viewBest, open, got>>

\* SpendCoin on the open view: UpdateCoins spends inputs, DisconnectBlock
\* spends outputs, which may already be spent; the coin is moved to the caller.
SpendViewCoin(o) == LET cache == ViewAfterFetch(o)
                    IN /\ open /\ ~logicError
                       /\ tip' = TipAfterViewFetch(o)
                       /\ got' = CoinIn(cache, o, NoCoin)
                       /\ view' = SpendCoin(cache, o)
                       /\ UNCHANGED <<db, dbBest, tipBest, viewBest, open, logicError>>

\* SetBestBlock(b) and Flush of the view into pcoinsTip.
FlushView(b) ==
  /\ open /\ ~logicError
  /\ logicError' = \E o \in Outpoints : BatchThrows(view[o], tip[o])
  /\ IF logicError'
     THEN UNCHANGED <<tip, tipBest, view, open>>
     ELSE /\ tip' = [o \in Outpoints |-> BatchWriteEntry(view[o], tip[o])]
          /\ tipBest' = b
          /\ view' = EmptyCache
          /\ open' = FALSE
  /\ viewBest' = b
  /\ UNCHANGED <<db, dbBest, got>>

\* The view is destroyed without a flush: the block was invalid, or VerifyDB.
DropView == /\ open /\ ~logicError
            /\ open' = FALSE
            /\ view' = EmptyCache
            /\ UNCHANGED <<db, dbBest, tip, tipBest, viewBest, got, logicError>>

\* FlushStateToDisk flushes pcoinsTip unless its best block is null.
FlushTip == /\ ~open /\ ~logicError
            /\ TipBestBlock # NoBlock
            /\ db' = [o \in Outpoints |-> DBWriteEntry(tip[o], db[o])]
            /\ dbBest' = TipBestBlock
            /\ tipBest' = TipBestBlock
            /\ tip' = EmptyCache
            /\ UNCHANGED <<view, viewBest, open, got, logicError>>

\* Faulty variant of Uncache: modified entries are dropped too.
UncacheModified(o) == /\ ~open /\ ~logicError
                      /\ tip[o] # NoEntry
                      /\ tip' = [tip EXCEPT ![o] = NoEntry]
                      /\ UNCHANGED <<db, dbBest, tipBest, view, viewBest, open, got, logicError>>

\* Uncache: an unmodified entry is dropped (a rejected mempool transaction).
Uncache(o) == /\ ~open /\ ~logicError
              /\ tip[o] # NoEntry /\ ~tip[o].dirty /\ ~tip[o].fresh
              /\ tip' = [tip EXCEPT ![o] = NoEntry]
              /\ UNCHANGED <<db, dbBest, tipBest, view, viewBest, open, got, logicError>>

\* The process ends and starts again: only the database is left.
Restart == /\ tip' = EmptyCache /\ tipBest' = NoBlock
           /\ view' = EmptyCache /\ viewBest' = NoBlock
           /\ open' = FALSE /\ logicError' = FALSE
           /\ UNCHANGED <<db, dbBest, got>>

Next == \/ OpenView \/ DropView \/ FlushTip \/ Restart
        \/ \E b \in Blocks : FlushView(b)
        \/ \E o \in Outpoints :
             \/ AccessTipCoin(o) \/ AccessCoin(o) \/ SpendViewCoin(o) \/ Uncache(o)
             \/ \E c \in Coins, check, fCoinbase \in BOOLEAN : AddCoins(o, c, check, fCoinbase)

Spec == Init /\ [][Next]_vars

-----------------------------------------------------------------------------
(* Properties.                                                             *)

\* coins.h: "FRESH: The parent view does not have this entry (or it is
\* pruned)".  Erasing a FRESH entry instead of writing a deletion is only
\* right if no layer below has the coin.
FreshMeansAbsentBelow ==
  \A o \in Outpoints : /\ tip[o] # NoEntry /\ tip[o].fresh => db[o] = NoCoin
                       /\ view[o] # NoEntry /\ view[o].fresh => TipCoin(o) = NoCoin

\* An entry without DIRTY is never written down, so it must equal what the
\* layer below answers now, not what it answered when it was fetched; and
\* FRESH is never set without DIRTY.
CleanEqualsBelow ==
  \A o \in Outpoints :
    /\ tip[o] # NoEntry /\ ~tip[o].dirty =>
         tip[o].coin = db[o] /\ db[o] # NoCoin /\ ~tip[o].fresh
    /\ view[o] # NoEntry /\ ~view[o].dirty =>
         view[o].coin = TipCoin(o) /\ TipCoin(o) # NoCoin /\ ~view[o].fresh

\* Neither AddCoin ("Adding new coin that replaces non-pruned entry") nor
\* BatchWrite ("FRESH flag misapplied to cache entry ...") ever throws.
NoLogicError == ~logicError

\* When no view is open the view's map is empty.
ClosedViewEmpty == ~open => view = EmptyCache

IInv == TypeOK /\ FreshMeansAbsentBelow /\ CleanEqualsBelow /\ NoLogicError /\ ClosedViewEmpty

\* The caches are invisible: the stack implements three plain UTXO sets, the
\* flush of a view commits it whole, and a flush of the tip persists exactly
\* the committed set with its block.
Utxo == INSTANCE UtxoView WITH
          durable   <- [coins |-> db, best |-> dbBest],
          committed <- [coins |-> [o \in Outpoints |-> TipCoin(o)], best |-> TipBestBlock],
          working   <- [o \in Outpoints |-> ViewCoin(o)]

UtxoSpec == Utxo!Spec
=============================================================================
