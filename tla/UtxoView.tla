------------------------------ MODULE UtxoView ------------------------------
(***************************************************************************)
(* What the stack of coin views promises to its callers: three UTXO sets,  *)
(* the durable one (chainstate database), the committed one (the set at    *)
(* the active tip) and, while a block is being connected or disconnected,  *)
(* a working copy of the committed one.  No caches, no flags.  CoinsCache  *)
(* is shown to implement this specification.                               *)
(***************************************************************************)
CONSTANTS Outpoints,     \* transaction outputs
          Coins,         \* unspent outputs with their height and coinbase bit
          Unspendable,   \* the coins whose script can never be spent
          NoCoin,        \* the answer for an outpoint that is not unspent
          Blocks,        \* block hashes
          NoBlock        \* the null hash

VARIABLES durable,       \* [coins, best] of the chainstate database
          committed,     \* [coins, best] at the active tip
          working,       \* coins of the open view
          open,          \* a view on top of the tip is open
          got            \* the coin the last lookup or spend returned

vars == <<durable, committed, working, open, got>>

UtxoSets == [Outpoints -> Coins \cup {NoCoin}]
Snapshots == [coins : UtxoSets, best : Blocks \cup {NoBlock}]

EmptySnapshot == [coins |-> [o \in Outpoints |-> NoCoin], best |-> NoBlock]

Init == /\ durable = EmptySnapshot
        /\ committed = EmptySnapshot
        /\ working = [o \in Outpoints |-> NoCoin]
        /\ open = FALSE
        /\ got = NoCoin

\* A caller opens a view: it starts as a copy of the committed set.
Open == /\ ~open
        /\ open' = TRUE
        /\ working' = committed.coins
        /\ UNCHANGED <<durable, committed, got>>

ReadCommitted(o) == /\ ~open
                    /\ got' = committed.coins[o]
                    /\ UNCHANGED <<durable, committed, working, open>>

Read(o) == /\ open
           /\ got' = working[o]
           /\ UNCHANGED <<durable, committed, working, open>>

Add(o, c) == /\ open
             /\ working' = IF c \in Unspendable THEN working
                           ELSE [working EXCEPT ![o] = c]
             /\ UNCHANGED <<durable, committed, open, got>>

Spend(o) == /\ open
            /\ got' = working[o]
            /\ working' = [working EXCEPT ![o] = NoCoin]
            /\ UNCHANGED <<durable, committed, open>>

\* The whole working set becomes the committed one, with its block hash.
Commit(b) == /\ open
             /\ committed' = [coins |-> working, best |-> b]
             /\ working' = working
             /\ open' = FALSE
             /\ UNCHANGED <<durable, got>>

Discard == /\ open
           /\ open' = FALSE
           /\ working' = committed.coins
           /\ UNCHANGED <<durable, committed, got>>

Persist == /\ ~open
           /\ committed.best # NoBlock
           /\ durable' = committed
           /\ UNCHANGED <<committed, working, open, got>>

\* The process ends and starts again: the committed set falls back to the
\* durable one.
Restart == /\ committed' = durable
           /\ working' = durable.coins
           /\ open' = FALSE
           /\ UNCHANGED <<durable, got>>

Next == \/ Restart \/ Open \/ Discard \/ Persist
        \/ \E b \in Blocks : Commit(b)
        \/ \E o \in Outpoints : \/ ReadCommitted(o) \/ Read(o) \/ Spend(o)
                                \/ \E c \in Coins : Add(o, c)

Spec == Init /\ [][Next]_vars
=============================================================================
