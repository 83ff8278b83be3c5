-------------------------- MODULE CoinsCacheProofs --------------------------
(***************************************************************************)
(* Proofs about CoinsCache for every set of outpoints, coins and blocks:   *)
(* IInv is inductive, and the stack of caches implements UtxoView.         *)
(***************************************************************************)
EXTENDS CoinsCache, TLAPS

\* An entry is a record, never the marker of a missing entry.
LEMMA EntryExists ==
  ASSUME NEW c \in Coins \cup {NoCoin}, NEW d \in BOOLEAN, NEW f \in BOOLEAN
  PROVE  /\ [coin |-> c, dirty |-> d, fresh |-> f] \in Entry
         /\ [coin |-> c, dirty |-> d, fresh |-> f] # NoEntry
BY CoinsAssumption DEF Entry

\* What FetchCoin returns: the same cache, or the cache with one more clean
\* entry for a coin that the layer below has.
LEMMA FetchCoinResult ==
  ASSUME NEW cache \in Cache, NEW o \in Outpoints, NEW below \in Coins \cup {NoCoin}
  PROVE  /\ FetchCoin(cache, o, below) \in Cache
         /\ \A p \in Outpoints : p # o => FetchCoin(cache, o, below)[p] = cache[p]
         /\ FetchCoin(cache, o, below)[o] =
              IF cache[o] = NoEntry /\ below # NoCoin
              THEN [coin |-> below, dirty |-> FALSE, fresh |-> FALSE] ELSE cache[o]
BY DEF FetchCoin, Cache, Entry

\* A lookup leaves unchanged what the cache answers, for every outpoint.
LEMMA FetchKeepsCoins ==
  ASSUME NEW cache \in Cache, NEW o \in Outpoints, NEW p \in Outpoints,
         NEW base \in [Outpoints -> Coins \cup {NoCoin}]
  PROVE  CoinIn(FetchCoin(cache, o, base[o]), p, base[p]) = CoinIn(cache, p, base[p])
<1>1. base[o] \in Coins \cup {NoCoin} OBVIOUS
<1> QED BY <1>1, EntryExists DEF CoinIn, FetchCoin, Cache

\* The coins the tip and the view answer are coins.
LEMMA CoinTypes ==
  ASSUME TypeOK, NEW o \in Outpoints
  PROVE  /\ db[o] \in Coins \cup {NoCoin}
         /\ TipCoin(o) \in Coins \cup {NoCoin}
         /\ ViewCoin(o) \in Coins \cup {NoCoin}
BY DEF TypeOK, TipCoin, ViewCoin, CoinIn, Cache, Entry

\* A cache answers coins, and SpendCoin and BatchWrite return caches.
LEMMA CacheTypes ==
  ASSUME NEW cache \in Cache, NEW o \in Outpoints
  PROVE  /\ CoinIn(cache, o, NoCoin) \in Coins \cup {NoCoin}
         /\ SpendCoin(cache, o) \in Cache
BY DEF CoinIn, Cache, Entry, SpendCoin

\* BatchWriteEntry returns an entry of the parent, or none.
LEMMA BatchWriteType ==
  ASSUME NEW child \in Entry \cup {NoEntry}, NEW parent \in Entry \cup {NoEntry}
  PROVE  BatchWriteEntry(child, parent) \in Entry \cup {NoEntry}
BY DEF BatchWriteEntry, Entry

\* Caches stay caches after a lookup through the tip or through the view.
LEMMA FetchTypes ==
  ASSUME TypeOK, NEW o \in Outpoints
  PROVE  /\ FetchCoin(tip, o, db[o]) \in Cache
         /\ TipAfterViewFetch(o) \in Cache
         /\ ViewAfterFetch(o) \in Cache
<1>1. /\ tip \in Cache /\ view \in Cache
      /\ db[o] \in Coins \cup {NoCoin} /\ TipCoin(o) \in Coins \cup {NoCoin}
  BY CoinTypes DEF TypeOK
<1>2. FetchCoin(tip, o, db[o]) \in Cache BY <1>1, FetchCoinResult
<1>3. FetchCoin(view, o, TipCoin(o)) \in Cache BY <1>1, FetchCoinResult
<1> QED BY <1>1, <1>2, <1>3 DEF TipAfterViewFetch, ViewAfterFetch

\* The empty stack satisfies the inductive invariant.
LEMMA InitIInv == Init => IInv
BY CoinsAssumption DEF Init, IInv, TypeOK, FreshMeansAbsentBelow, CleanEqualsBelow, NoLogicError,
       ClosedViewEmpty, EmptyCache, Cache, TipCoin, CoinIn

\* Every operation preserves the type invariant.
LEMMA TypeStep == TypeOK /\ Next => TypeOK'
<1> SUFFICES ASSUME TypeOK, Next PROVE TypeOK' OBVIOUS
<1>1. CASE OpenView BY <1>1 DEF TypeOK, OpenView, EmptyCache, Cache, TipBestBlock
<1>2. CASE DropView BY <1>2 DEF TypeOK, DropView, EmptyCache, Cache
<1>3. CASE FlushTip
  BY <1>3 DEF TypeOK, FlushTip, EmptyCache, Cache, TipBestBlock, DBWriteEntry, Entry
<1>4. CASE Restart BY <1>4 DEF TypeOK, Restart, EmptyCache, Cache
<1>5. ASSUME NEW b \in Blocks, FlushView(b) PROVE TypeOK'
  <2>1. \A o \in Outpoints : BatchWriteEntry(view[o], tip[o]) \in Entry \cup {NoEntry}
    BY BatchWriteType DEF TypeOK, Cache
  <2>2. [o \in Outpoints |-> BatchWriteEntry(view[o], tip[o])] \in Cache
    BY <2>1 DEF Cache
  <2>3. EmptyCache \in Cache BY DEF EmptyCache, Cache
  <2> QED BY <1>5, <2>2, <2>3 DEF TypeOK, FlushView
<1>6. ASSUME NEW o \in Outpoints, AccessTipCoin(o) PROVE TypeOK'
  BY <1>6, FetchTypes, CacheTypes DEF TypeOK, AccessTipCoin
<1>7. ASSUME NEW o \in Outpoints, AccessCoin(o) PROVE TypeOK'
  BY <1>7, FetchTypes, CacheTypes DEF TypeOK, AccessCoin
<1>8. ASSUME NEW o \in Outpoints, SpendViewCoin(o) PROVE TypeOK'
  BY <1>8, FetchTypes, CacheTypes DEF TypeOK, SpendViewCoin
<1>9. ASSUME NEW o \in Outpoints, Uncache(o) PROVE TypeOK'
  BY <1>9 DEF TypeOK, Uncache, Cache
<1>10. ASSUME NEW o \in Outpoints, NEW c \in Coins, NEW check \in BOOLEAN, NEW fCoinbase \in BOOLEAN,
              AddCoins(o, c, check, fCoinbase)
       PROVE TypeOK'
  BY <1>10, FetchTypes DEF TypeOK, AddCoins, AddCoin, AddThrows, Cache, Entry
<1> QED BY <1>1, <1>2, <1>3, <1>4, <1>5, <1>6, <1>7, <1>8, <1>9, <1>10 DEF Next

-----------------------------------------------------------------------------
(* The flags.  LayerOK is the part of the invariant that concerns one      *)
(* outpoint in one cache; each operation on a cache preserves it.          *)

LayerOK(entry, below) ==
  entry # NoEntry => /\ entry.fresh => below = NoCoin
                     /\ ~entry.dirty => entry.coin = below /\ below # NoCoin /\ ~entry.fresh

\* The two flag invariants together say that each of the two layers is right
\* with respect to the one below it, outpoint by outpoint.
LEMMA FlagsByLayer ==
  (FreshMeansAbsentBelow /\ CleanEqualsBelow)
    <=> \A o \in Outpoints : LayerOK(tip[o], db[o]) /\ LayerOK(view[o], TipCoin(o))
BY DEF FreshMeansAbsentBelow, CleanEqualsBelow, LayerOK

\* FetchCoin keeps a layer right: what it adds is a clean copy.
LEMMA FetchLayer ==
  ASSUME NEW cache \in Cache, NEW o \in Outpoints, NEW p \in Outpoints,
         NEW base \in [Outpoints -> Coins \cup {NoCoin}],
         LayerOK(cache[p], base[p])
  PROVE  LayerOK(FetchCoin(cache, o, base[o])[p], base[p])
BY EntryExists DEF LayerOK, FetchCoin, Cache

\* SpendCoin keeps a layer right: it erases a FRESH entry, which the layer below
\* does not have, and marks any other entry DIRTY.
LEMMA SpendLayer ==
  ASSUME NEW cache \in Cache, NEW o \in Outpoints, NEW p \in Outpoints,
         NEW below, LayerOK(cache[p], below)
  PROVE  LayerOK(SpendCoin(cache, o)[p], below)
BY EntryExists DEF LayerOK, SpendCoin, Cache

\* AddCoin may set FRESH only if the layer below lacks the coin: the caller
\* promised that the cache answers NoCoin, and an entry without DIRTY cannot
\* answer NoCoin.
LEMMA AddLayer ==
  ASSUME NEW cache \in Cache, NEW o \in Outpoints, NEW p \in Outpoints, NEW c \in Coins,
         NEW overwrite \in BOOLEAN, NEW base \in [Outpoints -> Coins \cup {NoCoin}],
         LayerOK(cache[p], base[p]), LayerOK(cache[o], base[o]),
         ~overwrite => CoinIn(cache, o, base[o]) = NoCoin
  PROVE  /\ LayerOK(AddCoin(cache, o, c, overwrite)[p], base[p])
         /\ ~AddThrows(cache, o, c, overwrite)
<1>1. ~AddThrows(cache, o, c, overwrite) BY DEF AddThrows, CoinIn
<1>2. CASE c \in Unspendable BY <1>1, <1>2 DEF AddCoin
<1>3. CASE c \notin Unspendable /\ p # o
  BY <1>1, <1>3 DEF AddCoin, Cache
<1>4. CASE c \notin Unspendable /\ p = o
  <2>1. CASE cache[o] = NoEntry
    BY <1>1, <1>4, <2>1 DEF AddCoin, Cache, LayerOK, CoinIn
  <2>2. CASE cache[o] # NoEntry
    BY <1>1, <1>4, <2>2 DEF AddCoin, Cache, LayerOK, CoinIn, Entry
  <2> QED BY <2>1, <2>2
<1> QED BY <1>1, <1>2, <1>3, <1>4

\* One entry of a flush: BatchWrite does not throw, the parent then answers
\* what the child answered, and its flags are right for the layer below it.
LEMMA BatchLayer ==
  ASSUME NEW child \in Entry \cup {NoEntry}, NEW parent \in Entry \cup {NoEntry},
         NEW below \in Coins \cup {NoCoin},
         LayerOK(parent, below),
         LayerOK(child, IF parent = NoEntry THEN below ELSE parent.coin)
  PROVE  /\ ~BatchThrows(child, parent)
         /\ LayerOK(BatchWriteEntry(child, parent), below)
         /\ (IF BatchWriteEntry(child, parent) = NoEntry THEN below
             ELSE BatchWriteEntry(child, parent).coin)
              = IF child # NoEntry THEN child.coin
                ELSE IF parent = NoEntry THEN below ELSE parent.coin
<1> DEFINE new == BatchWriteEntry(child, parent)
<1>1. CASE child = NoEntry \/ (child # NoEntry /\ ~child.dirty)
  BY <1>1 DEF BatchThrows, BatchWriteEntry, LayerOK
<1>2. CASE child # NoEntry /\ child.dirty /\ parent = NoEntry
  <2>1. ~BatchThrows(child, parent) BY <1>2 DEF BatchThrows
  <2>2. CASE child.fresh /\ child.coin = NoCoin
    BY <1>2, <2>1, <2>2 DEF BatchWriteEntry, LayerOK
  <2>3. CASE ~(child.fresh /\ child.coin = NoCoin)
    <3>1. new = [coin |-> child.coin, dirty |-> TRUE, fresh |-> child.fresh]
      BY <1>2, <2>3 DEF BatchWriteEntry
    <3>2. new # NoEntry BY <1>2, <3>1, EntryExists DEF Entry
    <3> QED BY <1>2, <2>1, <3>1, <3>2 DEF LayerOK
  <2> QED BY <2>2, <2>3
<1>3. CASE child # NoEntry /\ child.dirty /\ parent # NoEntry
  <2>1. ~BatchThrows(child, parent) BY <1>3 DEF BatchThrows, LayerOK
  <2>2. CASE parent.fresh /\ child.coin = NoCoin
    BY <1>3, <2>1, <2>2 DEF BatchWriteEntry, LayerOK
  <2>3. CASE ~(parent.fresh /\ child.coin = NoCoin)
    <3>1. new = [coin |-> child.coin, dirty |-> TRUE, fresh |-> parent.fresh]
      BY <1>3, <2>3 DEF BatchWriteEntry
    <3>2. child.coin \in Coins \cup {NoCoin} /\ parent.fresh \in BOOLEAN BY <1>3 DEF Entry
    <3>3. new # NoEntry BY <3>1, <3>2, EntryExists
    <3> QED BY <1>3, <2>1, <3>1, <3>3 DEF LayerOK
  <2> QED BY <2>2, <2>3
<1> QED BY <1>1, <1>2, <1>3

\* What the caches answer after SpendCoin and AddCoin.
LEMMA SpendAnswers ==
  ASSUME NEW cache \in Cache, NEW o \in Outpoints, NEW p \in Outpoints,
         NEW base \in [Outpoints -> Coins \cup {NoCoin}],
         LayerOK(cache[p], base[p]),
         cache[o] = NoEntry => base[o] = NoCoin
  PROVE  CoinIn(SpendCoin(cache, o), p, base[p]) =
           IF p = o THEN NoCoin ELSE CoinIn(cache, p, base[p])
BY EntryExists DEF LayerOK, SpendCoin, Cache, CoinIn, Entry

\* After AddCoin the cache answers the coin that was added, unless the coin is
\* unspendable, and the same as before for every other outpoint.
LEMMA AddAnswers ==
  ASSUME NEW cache \in Cache, NEW o \in Outpoints, NEW p \in Outpoints, NEW c \in Coins,
         NEW overwrite \in BOOLEAN, NEW base \in [Outpoints -> Coins \cup {NoCoin}]
  PROVE  CoinIn(AddCoin(cache, o, c, overwrite), p, base[p]) =
           IF p = o /\ c \notin Unspendable THEN c ELSE CoinIn(cache, p, base[p])
<1>1. CASE c \in Unspendable \/ p # o BY <1>1 DEF AddCoin, CoinIn, Cache
<1>2. CASE c \notin Unspendable /\ p = o
  <2>1. PICK f : AddCoin(cache, o, c, overwrite)[o] = [coin |-> c, dirty |-> TRUE, fresh |-> f] /\ f \in BOOLEAN
    BY <1>2 DEF AddCoin, Cache, Entry
  <2>2. AddCoin(cache, o, c, overwrite)[o] # NoEntry BY <2>1, EntryExists
  <2> QED BY <1>2, <2>1, <2>2 DEF CoinIn
<1> QED BY <1>1, <1>2

\* A lookup through the tip or through the view keeps every answer and every
\* flag right, and returns what the stack answers for its outpoint.
LEMMA FetchSound ==
  ASSUME IInv, NEW o \in Outpoints
  PROVE  /\ \A p \in Outpoints :
              /\ CoinIn(FetchCoin(tip, o, db[o]), p, db[p]) = TipCoin(p)
              /\ LayerOK(FetchCoin(tip, o, db[o])[p], db[p])
              /\ CoinIn(TipAfterViewFetch(o), p, db[p]) = TipCoin(p)
              /\ LayerOK(TipAfterViewFetch(o)[p], db[p])
              /\ CoinIn(ViewAfterFetch(o), p, TipCoin(p)) = ViewCoin(p)
              /\ LayerOK(ViewAfterFetch(o)[p], TipCoin(p))
         /\ CoinIn(FetchCoin(tip, o, db[o]), o, NoCoin) = TipCoin(o)
         /\ CoinIn(ViewAfterFetch(o), o, NoCoin) = ViewCoin(o)
         /\ ViewAfterFetch(o)[o] = NoEntry => TipCoin(o) = NoCoin
<1> DEFINE tipCoins == [p \in Outpoints |-> TipCoin(p)]
<1>1. /\ tip \in Cache /\ view \in Cache
      /\ db \in [Outpoints -> Coins \cup {NoCoin}]
      /\ tipCoins \in [Outpoints -> Coins \cup {NoCoin}]
  BY CoinTypes DEF IInv, TypeOK
<1>2. \A p \in Outpoints : LayerOK(tip[p], db[p]) /\ LayerOK(view[p], TipCoin(p))
  BY FlagsByLayer DEF IInv
<1>3. \A p \in Outpoints : /\ CoinIn(FetchCoin(tip, o, db[o]), p, db[p]) = TipCoin(p)
                           /\ LayerOK(FetchCoin(tip, o, db[o])[p], db[p])
  BY <1>1, <1>2, FetchKeepsCoins, FetchLayer DEF TipCoin
<1>4. \A p \in Outpoints : /\ CoinIn(ViewAfterFetch(o), p, TipCoin(p)) = ViewCoin(p)
                           /\ LayerOK(ViewAfterFetch(o)[p], TipCoin(p))
  <2> SUFFICES ASSUME NEW p \in Outpoints
               PROVE /\ CoinIn(ViewAfterFetch(o), p, TipCoin(p)) = ViewCoin(p)
                     /\ LayerOK(ViewAfterFetch(o)[p], TipCoin(p))
    OBVIOUS
  <2>1. tipCoins[o] = TipCoin(o) /\ tipCoins[p] = TipCoin(p) OBVIOUS
  <2> HIDE DEF tipCoins
  <2>2. CoinIn(FetchCoin(view, o, tipCoins[o]), p, tipCoins[p]) = CoinIn(view, p, tipCoins[p])
    BY <1>1, FetchKeepsCoins
  <2>3. LayerOK(FetchCoin(view, o, tipCoins[o])[p], tipCoins[p])
    BY <1>1, <1>2, <2>1, FetchLayer
  <2> QED BY <2>1, <2>2, <2>3 DEF ViewAfterFetch, ViewCoin
<1>5. CoinIn(FetchCoin(tip, o, db[o]), o, NoCoin) = TipCoin(o)
  BY <1>1, EntryExists DEF CoinIn, FetchCoin, TipCoin, Cache
<1>6. /\ CoinIn(ViewAfterFetch(o), o, NoCoin) = ViewCoin(o)
      /\ ViewAfterFetch(o)[o] = NoEntry => TipCoin(o) = NoCoin
  <2>1. TipCoin(o) \in Coins \cup {NoCoin} BY CoinTypes DEF IInv
  <2> QED BY <1>1, <2>1, EntryExists DEF CoinIn, FetchCoin, ViewCoin, ViewAfterFetch, Cache
<1> QED BY <1>2, <1>3, <1>4, <1>5, <1>6 DEF TipAfterViewFetch, TipCoin

-----------------------------------------------------------------------------
(* The effect of each operation on what the tip and the view answer.  The  *)
(* invariant and the refinement both follow from these.                    *)

Flags == \A p \in Outpoints : LayerOK(tip[p], db[p]) /\ LayerOK(view[p], TipCoin(p))

\* A lookup in pcoinsTip keeps all flags right and changes no answer.
LEMMA AccessTipCoinEffect ==
  ASSUME IInv, NEW o \in Outpoints, AccessTipCoin(o)
  PROVE  /\ Flags' /\ got' = TipCoin(o)
         /\ \A p \in Outpoints : TipCoin(p)' = TipCoin(p) /\ ViewCoin(p)' = ViewCoin(p)
<1>1. \A p \in Outpoints : LayerOK(view[p], TipCoin(p)) BY FlagsByLayer DEF IInv
<1>2. tip' = FetchCoin(tip, o, db[o]) /\ db' = db /\ view' = view BY DEF AccessTipCoin
<1>3. \A p \in Outpoints : TipCoin(p)' = TipCoin(p)
  BY <1>2, FetchSound DEF TipCoin
<1>4. \A p \in Outpoints : ViewCoin(p)' = ViewCoin(p)
  BY <1>2, <1>3 DEF ViewCoin, CoinIn
<1>5. Flags' BY <1>1, <1>2, <1>3, FetchSound DEF Flags
<1>6. got' = TipCoin(o) BY FetchSound DEF AccessTipCoin
<1> QED BY <1>3, <1>4, <1>5, <1>6

\* A lookup in the open view keeps all flags right and changes no answer.
LEMMA AccessCoinEffect ==
  ASSUME IInv, NEW o \in Outpoints, AccessCoin(o)
  PROVE  /\ Flags' /\ got' = ViewCoin(o)
         /\ \A p \in Outpoints : TipCoin(p)' = TipCoin(p) /\ ViewCoin(p)' = ViewCoin(p)
<1>1. tip' = TipAfterViewFetch(o) /\ db' = db /\ view' = ViewAfterFetch(o) BY DEF AccessCoin
<1>2. \A p \in Outpoints : TipCoin(p)' = TipCoin(p)
  BY <1>1, FetchSound DEF TipCoin
<1>3. \A p \in Outpoints : ViewCoin(p)' = ViewCoin(p)
  <2> SUFFICES ASSUME NEW p \in Outpoints PROVE ViewCoin(p)' = ViewCoin(p) OBVIOUS
  <2>1. ViewCoin(p)' = CoinIn(view', p, TipCoin(p)') BY DEF ViewCoin, CoinIn
  <2> QED BY <1>1, <1>2, <2>1, FetchSound
<1>4. Flags' BY <1>1, <1>2, FetchSound DEF Flags
<1>5. got' = ViewCoin(o) BY FetchSound DEF AccessCoin
<1> QED BY <1>2, <1>3, <1>4, <1>5

\* SpendCoin on the open view keeps all flags right and clears one coin of the
\* working set.
LEMMA SpendViewCoinEffect ==
  ASSUME IInv, NEW o \in Outpoints, SpendViewCoin(o)
  PROVE  /\ Flags' /\ got' = ViewCoin(o)
         /\ \A p \in Outpoints : /\ TipCoin(p)' = TipCoin(p)
                                 /\ ViewCoin(p)' = IF p = o THEN NoCoin ELSE ViewCoin(p)
<1> DEFINE cache == ViewAfterFetch(o)
           tipCoins == [p \in Outpoints |-> TipCoin(p)]
<1>1. tip' = TipAfterViewFetch(o) /\ db' = db /\ view' = SpendCoin(cache, o) BY DEF SpendViewCoin
<1>2. \A p \in Outpoints : TipCoin(p)' = TipCoin(p)
  BY <1>1, FetchSound DEF TipCoin
<1>3. cache \in Cache /\ tipCoins \in [Outpoints -> Coins \cup {NoCoin}]
  BY FetchTypes, CoinTypes DEF IInv
<1>4. cache[o] = NoEntry => tipCoins[o] = NoCoin BY FetchSound
<1>5. ASSUME NEW p \in Outpoints
      PROVE  /\ ViewCoin(p)' = IF p = o THEN NoCoin ELSE ViewCoin(p)
             /\ LayerOK(view'[p], TipCoin(p))
  <2>1. ViewCoin(p)' = CoinIn(view', p, TipCoin(p)') BY DEF ViewCoin, CoinIn
  <2>2. LayerOK(cache[p], tipCoins[p]) /\ CoinIn(cache, p, tipCoins[p]) = ViewCoin(p)
    BY FetchSound
  <2>3. tipCoins[p] = TipCoin(p) OBVIOUS
  <2> HIDE DEF tipCoins, cache
  <2>4. CoinIn(SpendCoin(cache, o), p, tipCoins[p]) =
          IF p = o THEN NoCoin ELSE CoinIn(cache, p, tipCoins[p])
    BY <1>3, <1>4, <2>2, SpendAnswers
  <2>5. LayerOK(SpendCoin(cache, o)[p], tipCoins[p]) BY <1>3, <2>2, SpendLayer
  <2> QED BY <1>1, <1>2, <2>1, <2>2, <2>3, <2>4, <2>5
<1>6. Flags' BY <1>1, <1>2, <1>5, FetchSound DEF Flags
<1>7. got' = ViewCoin(o) BY FetchSound DEF SpendViewCoin
<1> QED BY <1>2, <1>5, <1>6, <1>7

\* AddCoins on the open view keeps all flags right, does not throw, and sets one
\* coin of the working set.
LEMMA AddCoinsEffect ==
  ASSUME IInv, NEW o \in Outpoints, NEW c \in Coins, NEW check \in BOOLEAN,
         NEW fCoinbase \in BOOLEAN, AddCoins(o, c, check, fCoinbase)
  PROVE  /\ Flags' /\ ~logicError'
         /\ \A p \in Outpoints :
              /\ TipCoin(p)' = TipCoin(p)
              /\ ViewCoin(p)' = IF p = o /\ c \notin Unspendable THEN c ELSE ViewCoin(p)
<1> DEFINE cache == IF check THEN ViewAfterFetch(o) ELSE view
           overwrite == IF check THEN CoinIn(cache, o, NoCoin) # NoCoin ELSE fCoinbase
           tipCoins == [p \in Outpoints |-> TipCoin(p)]
<1>1. /\ tip' = IF check THEN TipAfterViewFetch(o) ELSE tip
      /\ db' = db
      /\ logicError' = AddThrows(cache, o, c, overwrite)
      /\ view' = IF logicError' THEN cache ELSE AddCoin(cache, o, c, overwrite)
      /\ check \/ fCoinbase \/ ViewCoin(o) = NoCoin
  BY DEF AddCoins
<1>2. \A p \in Outpoints : TipCoin(p)' = TipCoin(p) /\ LayerOK(tip'[p], db'[p])
  BY <1>1, FetchSound, FlagsByLayer DEF TipCoin, IInv
<1>3. /\ cache \in Cache /\ overwrite \in BOOLEAN
      /\ tipCoins \in [Outpoints -> Coins \cup {NoCoin}]
  BY FetchTypes, CoinTypes DEF IInv, TypeOK
<1>4. \A p \in Outpoints : /\ LayerOK(cache[p], tipCoins[p])
                           /\ CoinIn(cache, p, tipCoins[p]) = ViewCoin(p)
  BY FetchSound, FlagsByLayer DEF IInv, ViewCoin
<1>5. ~overwrite => CoinIn(cache, o, tipCoins[o]) = NoCoin
  BY <1>1, <1>4, FetchSound
<1>6. \A p \in Outpoints : tipCoins[p] = TipCoin(p) OBVIOUS
<1> HIDE DEF tipCoins, cache, overwrite
<1>7. \A p \in Outpoints : /\ LayerOK(AddCoin(cache, o, c, overwrite)[p], tipCoins[p])
                           /\ ~AddThrows(cache, o, c, overwrite)
  BY <1>3, <1>4, <1>5, AddLayer
<1>8. ~logicError' /\ view' = AddCoin(cache, o, c, overwrite) BY <1>1, <1>7
<1>9. ASSUME NEW p \in Outpoints
      PROVE  ViewCoin(p)' = IF p = o /\ c \notin Unspendable THEN c ELSE ViewCoin(p)
  <2>1. ViewCoin(p)' = CoinIn(view', p, TipCoin(p)') BY DEF ViewCoin, CoinIn
  <2>2. CoinIn(AddCoin(cache, o, c, overwrite), p, tipCoins[p]) =
          IF p = o /\ c \notin Unspendable THEN c ELSE CoinIn(cache, p, tipCoins[p])
    BY <1>3, AddAnswers
  <2> QED BY <1>2, <1>4, <1>6, <1>8, <2>1, <2>2
<1>10. Flags' BY <1>2, <1>6, <1>7, <1>8 DEF Flags
<1> QED BY <1>2, <1>8, <1>9, <1>10

\* Flush of the view keeps the flags of pcoinsTip right, does not throw, and
\* makes the tip answer what the view answered.
LEMMA FlushViewEffect ==
  ASSUME IInv, NEW b \in Blocks, FlushView(b)
  PROVE  /\ Flags' /\ ~logicError' /\ tipBest' = b /\ view' = EmptyCache /\ ~open'
         /\ \A p \in Outpoints : TipCoin(p)' = ViewCoin(p) /\ ViewCoin(p)' = ViewCoin(p)
<1>1. ASSUME NEW p \in Outpoints
      PROVE  /\ ~BatchThrows(view[p], tip[p])
             /\ LayerOK(BatchWriteEntry(view[p], tip[p]), db[p])
             /\ (IF BatchWriteEntry(view[p], tip[p]) = NoEntry THEN db[p]
                 ELSE BatchWriteEntry(view[p], tip[p]).coin) = ViewCoin(p)
  <2>1. /\ view[p] \in Entry \cup {NoEntry} /\ tip[p] \in Entry \cup {NoEntry}
        /\ db[p] \in Coins \cup {NoCoin}
    BY DEF IInv, TypeOK, Cache
  <2>2. LayerOK(tip[p], db[p]) /\ LayerOK(view[p], TipCoin(p)) BY FlagsByLayer DEF IInv
  <2>3. TipCoin(p) = IF tip[p] = NoEntry THEN db[p] ELSE tip[p].coin BY DEF TipCoin, CoinIn
  <2>4. ViewCoin(p) = IF view[p] # NoEntry THEN view[p].coin ELSE TipCoin(p) BY DEF ViewCoin, CoinIn
  <2> QED BY <2>1, <2>2, <2>3, <2>4, BatchLayer
<1>2. /\ ~logicError' /\ tipBest' = b /\ view' = EmptyCache /\ open' = FALSE /\ db' = db
      /\ tip' = [o \in Outpoints |-> BatchWriteEntry(view[o], tip[o])]
  BY <1>1 DEF FlushView
<1>3. \A p \in Outpoints : TipCoin(p)' = ViewCoin(p)
  BY <1>1, <1>2 DEF TipCoin, CoinIn
<1>4. \A p \in Outpoints : ViewCoin(p)' = TipCoin(p)'
  BY <1>2 DEF ViewCoin, CoinIn, EmptyCache
<1>5. Flags' BY <1>1, <1>2 DEF Flags, LayerOK, EmptyCache
<1> QED BY <1>2, <1>3, <1>4, <1>5

\* Flush of pcoinsTip leaves in the database what the tip answered.
LEMMA FlushTipEffect ==
  ASSUME IInv, FlushTip
  PROVE  /\ Flags'
         /\ \A p \in Outpoints : /\ db'[p] = TipCoin(p) /\ TipCoin(p)' = TipCoin(p)
                                 /\ ViewCoin(p)' = ViewCoin(p)
<1>1. /\ db' = [o \in Outpoints |-> DBWriteEntry(tip[o], db[o])]
      /\ tip' = EmptyCache /\ view' = EmptyCache /\ view = EmptyCache
  BY DEF FlushTip, IInv, ClosedViewEmpty
<1>2. \A p \in Outpoints : LayerOK(tip[p], db[p]) BY FlagsByLayer DEF IInv
<1>3. \A p \in Outpoints : db'[p] = TipCoin(p)
  BY <1>1, <1>2 DEF DBWriteEntry, LayerOK, TipCoin, CoinIn
<1>4. \A p \in Outpoints : TipCoin(p)' = db'[p] BY <1>1 DEF TipCoin, CoinIn, EmptyCache
<1>5. \A p \in Outpoints : ViewCoin(p)' = TipCoin(p)' /\ ViewCoin(p) = TipCoin(p)
  BY <1>1 DEF ViewCoin, CoinIn, EmptyCache
<1>6. Flags' BY <1>1 DEF Flags, LayerOK, EmptyCache
<1> QED BY <1>3, <1>4, <1>5, <1>6

\* Uncache keeps all flags right and changes no answer.
LEMMA UncacheEffect ==
  ASSUME IInv, NEW o \in Outpoints, Uncache(o)
  PROVE  /\ Flags'
         /\ \A p \in Outpoints : TipCoin(p)' = TipCoin(p) /\ ViewCoin(p)' = ViewCoin(p)
<1>1. /\ tip' = [tip EXCEPT ![o] = NoEntry] /\ db' = db /\ view' = view
      /\ tip[o] # NoEntry /\ ~tip[o].dirty
  BY DEF Uncache
<1>2. \A p \in Outpoints : LayerOK(tip[p], db[p]) /\ LayerOK(view[p], TipCoin(p))
  BY FlagsByLayer DEF IInv
<1>3. \A p \in Outpoints : TipCoin(p)' = TipCoin(p)
  BY <1>1, <1>2 DEF TipCoin, CoinIn, LayerOK, IInv, TypeOK, Cache
<1>4. \A p \in Outpoints : ViewCoin(p)' = ViewCoin(p) BY <1>1, <1>3 DEF ViewCoin, CoinIn
<1>5. \A p \in Outpoints : LayerOK(tip'[p], db[p])
  BY <1>1, <1>2 DEF LayerOK, IInv, TypeOK, Cache
<1>6. Flags' BY <1>1, <1>2, <1>3, <1>5 DEF Flags
<1> QED BY <1>3, <1>4, <1>6

\* Opening and dropping a view, and a restart, leave empty caches.
LEMMA EmptyEffect ==
  ASSUME IInv, OpenView \/ DropView \/ Restart
  PROVE  /\ Flags' /\ db' = db /\ view' = EmptyCache
         /\ \A p \in Outpoints : /\ ViewCoin(p)' = TipCoin(p)'
                                 /\ TipCoin(p)' = IF Restart THEN db[p] ELSE TipCoin(p)
<1>1. db' = db /\ view' = EmptyCache /\ tip' = IF Restart THEN EmptyCache ELSE tip
  BY DEF OpenView, DropView, Restart
<1>2. \A p \in Outpoints : LayerOK(tip[p], db[p]) BY FlagsByLayer DEF IInv
<1>3. \A p \in Outpoints : TipCoin(p)' = IF Restart THEN db[p] ELSE TipCoin(p)
  BY <1>1 DEF TipCoin, CoinIn, EmptyCache
<1>4. \A p \in Outpoints : ViewCoin(p)' = TipCoin(p)'
  BY <1>1 DEF ViewCoin, CoinIn, EmptyCache
<1>5. Flags' BY <1>1, <1>2 DEF Flags, LayerOK, EmptyCache
<1> QED BY <1>1, <1>3, <1>4, <1>5

-----------------------------------------------------------------------------
\* Every operation preserves the inductive invariant.
LEMMA IInvStep == IInv /\ [Next]_vars => IInv'
<1> SUFFICES ASSUME IInv, [Next]_vars PROVE IInv' OBVIOUS
<1>1. CASE UNCHANGED vars
  BY <1>1 DEF vars, IInv, TypeOK, FreshMeansAbsentBelow, CleanEqualsBelow, NoLogicError,
          ClosedViewEmpty, TipCoin, CoinIn
<1>2. CASE Next
  <2>1. TypeOK' BY <1>2, TypeStep DEF IInv
  <2>2. Flags' /\ NoLogicError' /\ ClosedViewEmpty'
    <3> USE DEF NoLogicError, ClosedViewEmpty
    <3>1. CASE OpenView \/ DropView \/ Restart
      <4>1. Flags' /\ view' = EmptyCache BY <3>1, EmptyEffect
      <4>2. NoLogicError' BY <3>1 DEF OpenView, DropView, Restart, IInv
      <4> QED BY <4>1, <4>2 DEF EmptyCache
    <3>2. CASE FlushTip BY <3>2, FlushTipEffect DEF FlushTip, IInv
    <3>3. ASSUME NEW b \in Blocks, FlushView(b) PROVE Flags' /\ NoLogicError' /\ ClosedViewEmpty'
      BY <3>3, FlushViewEffect
    <3>4. ASSUME NEW o \in Outpoints, AccessTipCoin(o) PROVE Flags' /\ NoLogicError' /\ ClosedViewEmpty'
      BY <3>4, AccessTipCoinEffect DEF AccessTipCoin, IInv
    <3>5. ASSUME NEW o \in Outpoints, AccessCoin(o) PROVE Flags' /\ NoLogicError' /\ ClosedViewEmpty'
      BY <3>5, AccessCoinEffect DEF AccessCoin, IInv
    <3>6. ASSUME NEW o \in Outpoints, SpendViewCoin(o) PROVE Flags' /\ NoLogicError' /\ ClosedViewEmpty'
      BY <3>6, SpendViewCoinEffect DEF SpendViewCoin, IInv
    <3>7. ASSUME NEW o \in Outpoints, Uncache(o) PROVE Flags' /\ NoLogicError' /\ ClosedViewEmpty'
      BY <3>7, UncacheEffect DEF Uncache, IInv
    <3>8. ASSUME NEW o \in Outpoints, NEW c \in Coins, NEW check \in BOOLEAN,
                 NEW fCoinbase \in BOOLEAN, AddCoins(o, c, check, fCoinbase)
          PROVE  Flags' /\ NoLogicError' /\ ClosedViewEmpty'
      BY <3>8, AddCoinsEffect DEF AddCoins, IInv
    <3> HIDE DEF NoLogicError, ClosedViewEmpty
    <3> QED BY <1>2, <3>1, <3>2, <3>3, <3>4, <3>5, <3>6, <3>7, <3>8 DEF Next
  <2>3. FreshMeansAbsentBelow' /\ CleanEqualsBelow'
    BY <2>2 DEF Flags, LayerOK, FreshMeansAbsentBelow, CleanEqualsBelow
  <2> QED BY <2>1, <2>2, <2>3 DEF IInv
<1> QED BY <1>1, <1>2

\* The inductive invariant holds in every reachable state.
THEOREM Invariance == Spec => []IInv
BY InitIInv, IInvStep, PTL DEF Spec

\* For every set of outpoints, coins and blocks, the flags stay truthful: a
\* FRESH entry of a cache is absent from the layer below it.
THEOREM FreshIsSound == Spec => []FreshMeansAbsentBelow
<1>1. IInv => FreshMeansAbsentBelow BY DEF IInv
<1> QED BY <1>1, Invariance, PTL

\* A clean entry always equals the layer below it.
THEOREM CleanIsSound == Spec => []CleanEqualsBelow
<1>1. IInv => CleanEqualsBelow BY DEF IInv
<1> QED BY <1>1, Invariance, PTL

\* AddCoin and BatchWrite never throw their std::logic_error.
THEOREM NeverThrows == Spec => []NoLogicError
<1>1. IInv => NoLogicError BY DEF IInv
<1> QED BY <1>1, Invariance, PTL

-----------------------------------------------------------------------------
(* The refinement.                                                         *)

Committed == [coins |-> [o \in Outpoints |-> TipCoin(o)], best |-> TipBestBlock]
Durable == [coins |-> db, best |-> dbBest]
Working == [o \in Outpoints |-> ViewCoin(o)]

\* The empty stack is an initial state of UtxoView.
LEMMA InitRefines == Init => Utxo!Init
BY CoinsAssumption DEF Init, Utxo!Init, Utxo!EmptySnapshot, TipCoin, ViewCoin, CoinIn, EmptyCache, TipBestBlock

\* Every operation on the stack is an operation of UtxoView, or a stutter.
LEMMA StepRefines == IInv /\ [Next]_vars => [Utxo!Next]_Utxo!vars
<1> SUFFICES ASSUME IInv, [Next]_vars PROVE [Utxo!Next]_Utxo!vars OBVIOUS
<1>a. ASSUME \A p \in Outpoints : TipCoin(p)' = TipCoin(p),
             TipBestBlock' = TipBestBlock
      PROVE  Committed' = Committed
  BY <1>a DEF Committed
<1>b. ASSUME \A p \in Outpoints : ViewCoin(p)' = ViewCoin(p)
      PROVE  Working' = Working
  BY <1>b DEF Working
<1>0. CASE UNCHANGED vars
  BY <1>0 DEF vars, Utxo!vars, TipCoin, ViewCoin, CoinIn, TipBestBlock
<1>1. CASE OpenView
  <2>1. \A p \in Outpoints : TipCoin(p)' = TipCoin(p) /\ ViewCoin(p)' = TipCoin(p)
    BY <1>1 DEF OpenView, TipCoin, ViewCoin, CoinIn, EmptyCache
  <2>2. TipBestBlock' = TipBestBlock BY <1>1 DEF OpenView, TipBestBlock
  <2>3. Committed' = Committed BY <1>a, <2>1, <2>2
  <2>4. Working' = Committed.coins BY <2>1 DEF Working, Committed
  <2>5. Utxo!Open BY <1>1, <2>3, <2>4 DEF Utxo!Open, OpenView, Committed, Working
  <2> QED BY <2>5 DEF Utxo!Next
<1>2. CASE DropView
  <2>1. \A p \in Outpoints : TipCoin(p)' = TipCoin(p) /\ ViewCoin(p)' = TipCoin(p)
    BY <1>2 DEF DropView, TipCoin, ViewCoin, CoinIn, EmptyCache
  <2>2. TipBestBlock' = TipBestBlock BY <1>2 DEF DropView, TipBestBlock
  <2>3. Committed' = Committed BY <1>a, <2>1, <2>2
  <2>4. Working' = Committed.coins BY <2>1 DEF Working, Committed
  <2>5. Utxo!Discard BY <1>2, <2>3, <2>4 DEF Utxo!Discard, DropView, Committed, Working
  <2> QED BY <2>5 DEF Utxo!Next
<1>3. CASE Restart
  <2>1. \A p \in Outpoints : TipCoin(p)' = db[p] /\ ViewCoin(p)' = db[p]
    BY <1>3 DEF Restart, TipCoin, ViewCoin, CoinIn, EmptyCache
  <2>2. TipBestBlock' = dbBest BY <1>3 DEF Restart, TipBestBlock
  <2>3. db = [p \in Outpoints |-> db[p]] BY DEF IInv, TypeOK
  <2>4. Committed' = Durable /\ Working' = db
    BY <2>1, <2>2, <2>3 DEF Committed, Durable, Working
  <2>5. Utxo!Restart BY <1>3, <2>4 DEF Utxo!Restart, Restart, Committed, Working, Durable
  <2> QED BY <2>5 DEF Utxo!Next
<1>4. CASE FlushTip
  <2>1. \A p \in Outpoints : /\ db'[p] = TipCoin(p) /\ TipCoin(p)' = TipCoin(p)
                             /\ ViewCoin(p)' = ViewCoin(p)
    BY <1>4, FlushTipEffect
  <2>2. TipBestBlock' = TipBestBlock /\ dbBest' = TipBestBlock BY <1>4 DEF FlushTip, TipBestBlock
  <2>3. db' = [p \in Outpoints |-> db'[p]] BY <1>4 DEF FlushTip
  <2>4. Durable' = Committed BY <2>1, <2>2, <2>3 DEF Durable, Committed
  <2>5. Committed' = Committed /\ Working' = Working BY <1>a, <1>b, <2>1, <2>2
  <2>6. Utxo!Persist
    BY <1>4, <2>4, <2>5 DEF Utxo!Persist, FlushTip, Committed, Working, Durable
  <2> QED BY <2>6 DEF Utxo!Next
<1>5. ASSUME NEW b \in Blocks, FlushView(b) PROVE Utxo!Next
  <2>1. /\ tipBest' = b /\ ~open' /\ ~logicError'
        /\ \A p \in Outpoints : TipCoin(p)' = ViewCoin(p) /\ ViewCoin(p)' = ViewCoin(p)
    BY <1>5, FlushViewEffect
  <2>2. TipBestBlock' = b BY <2>1, CoinsAssumption DEF TipBestBlock
  <2>3. Committed' = [coins |-> Working, best |-> b] BY <2>1, <2>2 DEF Committed, Working
  <2>4. Working' = Working BY <1>b, <2>1
  <2>5. Utxo!Commit(b)
    BY <1>5, <2>1, <2>3, <2>4 DEF Utxo!Commit, FlushView, Committed, Working
  <2> QED BY <2>5 DEF Utxo!Next
<1>6. ASSUME NEW o \in Outpoints, AccessTipCoin(o) PROVE Utxo!Next
  <2>1. /\ got' = TipCoin(o)
        /\ \A p \in Outpoints : TipCoin(p)' = TipCoin(p) /\ ViewCoin(p)' = ViewCoin(p)
    BY <1>6, AccessTipCoinEffect
  <2>2. TipBestBlock' = TipBestBlock BY <1>6 DEF AccessTipCoin, TipBestBlock
  <2>3. Committed' = Committed /\ Working' = Working BY <1>a, <1>b, <2>1, <2>2
  <2>4. Utxo!ReadCommitted(o)
    BY <1>6, <2>1, <2>3 DEF Utxo!ReadCommitted, AccessTipCoin, Committed, Working
  <2> QED BY <2>4 DEF Utxo!Next
<1>7. ASSUME NEW o \in Outpoints, AccessCoin(o) PROVE Utxo!Next
  <2>1. /\ got' = ViewCoin(o)
        /\ \A p \in Outpoints : TipCoin(p)' = TipCoin(p) /\ ViewCoin(p)' = ViewCoin(p)
    BY <1>7, AccessCoinEffect
  <2>2. TipBestBlock' = TipBestBlock BY <1>7 DEF AccessCoin, TipBestBlock
  <2>3. Committed' = Committed /\ Working' = Working BY <1>a, <1>b, <2>1, <2>2
  <2>4. Utxo!Read(o) BY <1>7, <2>1, <2>3 DEF Utxo!Read, AccessCoin, Committed, Working
  <2> QED BY <2>4 DEF Utxo!Next
<1>8. ASSUME NEW o \in Outpoints, SpendViewCoin(o) PROVE Utxo!Next
  <2>1. /\ got' = ViewCoin(o)
        /\ \A p \in Outpoints : /\ TipCoin(p)' = TipCoin(p)
                                /\ ViewCoin(p)' = IF p = o THEN NoCoin ELSE ViewCoin(p)
    BY <1>8, SpendViewCoinEffect
  <2>2. TipBestBlock' = TipBestBlock BY <1>8 DEF SpendViewCoin, TipBestBlock
  <2>3. Committed' = Committed BY <1>a, <2>1, <2>2
  <2>4. Working' = [Working EXCEPT ![o] = NoCoin] BY <2>1 DEF Working
  <2>5. Utxo!Spend(o)
    BY <1>8, <2>1, <2>3, <2>4 DEF Utxo!Spend, SpendViewCoin, Committed, Working
  <2> QED BY <2>5 DEF Utxo!Next
<1>9. ASSUME NEW o \in Outpoints, NEW c \in Coins, NEW check \in BOOLEAN,
             NEW fCoinbase \in BOOLEAN, AddCoins(o, c, check, fCoinbase)
      PROVE  Utxo!Next
  <2>1. \A p \in Outpoints :
          /\ TipCoin(p)' = TipCoin(p)
          /\ ViewCoin(p)' = IF p = o /\ c \notin Unspendable THEN c ELSE ViewCoin(p)
    BY <1>9, AddCoinsEffect
  <2>2. TipBestBlock' = TipBestBlock BY <1>9 DEF AddCoins, TipBestBlock
  <2>3. Committed' = Committed BY <1>a, <2>1, <2>2
  <2>4. Working' = IF c \in Unspendable THEN Working ELSE [Working EXCEPT ![o] = c]
    BY <2>1 DEF Working
  <2>5. Utxo!Add(o, c)
    BY <1>9, <2>3, <2>4 DEF Utxo!Add, AddCoins, Committed, Working
  <2> QED BY <2>5 DEF Utxo!Next
<1>10. ASSUME NEW o \in Outpoints, Uncache(o) PROVE UNCHANGED Utxo!vars
  <2>1. \A p \in Outpoints : TipCoin(p)' = TipCoin(p) /\ ViewCoin(p)' = ViewCoin(p)
    BY <1>10, UncacheEffect
  <2>2. TipBestBlock' = TipBestBlock BY <1>10 DEF Uncache, TipBestBlock
  <2>3. Committed' = Committed /\ Working' = Working BY <1>a, <1>b, <2>1, <2>2
  <2> QED BY <1>10, <2>3 DEF Utxo!vars, Uncache, Committed, Working
<1> QED
  BY <1>0, <1>1, <1>2, <1>3, <1>4, <1>5, <1>6, <1>7, <1>8, <1>9, <1>10 DEF Next

\* The stack of caches implements the plain UTXO sets of UtxoView: lookups,
\* spends and flushes through two layers of DIRTY and FRESH entries are
\* indistinguishable from operations on three maps.
THEOREM Refinement == Spec => UtxoSpec
<1>1. Spec => Utxo!Init /\ [][Utxo!Next]_Utxo!vars
  BY InitRefines, StepRefines, Invariance, PTL DEF Spec
<1> QED BY <1>1 DEF UtxoSpec, Utxo!Spec
=============================================================================
