------------------------------ MODULE MCMempool ------------------------------
(***************************************************************************)
(* Eleven transactions and eight blocks for Mempool.                       *)
(*                                                                         *)
(* 1 spends a coin, 2 spends 1, 3 spends 1 and 2.  4 spends the coin of 1  *)
(* and 9 the output of 1 that 2 spends.  5 spends the coinbase of block 1, *)
(* 6 spends 3 and 5 and has a lock time.  7 can only be in a block, and 8  *)
(* spends 2 and 7.  11 pays for its parent 10.  The branches 0-1-2-3,      *)
(* 1-4-6 and 0-5-7 confirm 1, 2, 5 one after the other, then 1, 2, 7       *)
(* together, 3 and 10, then 4 and 7.                                       *)
(***************************************************************************)
EXTENDS Mempool

MCTxs == 1 .. 11
MCInputs == << << <<0, 1>> >>, << <<1, 0>> >>, << <<1, 1>>, <<2, 0>> >>,
               << <<0, 1>>, <<0, 2>> >>, << <<-1, 0>> >>, << <<3, 0>>, <<5, 0>> >>,
               << <<0, 3>> >>, << <<2, 1>>, <<7, 0>> >>, << <<1, 0>>, <<0, 4>> >>,
               << <<0, 5>> >>, << <<10, 0>> >> >>
MCFee == <<2, 1, 4, 5, 2, 3, 1, 2, 6, 1, 7>>
MCLockTime == <<0, 0, 0, 0, 0, 2, 0, 0, 0, 0, 0>>
MCBlocks == 0 .. 7
MCParent == <<0, 1, 2, 1, 0, 4, 5>>
MCHeight == [b \in MCBlocks |-> CASE b = 0 -> 0 [] b \in {1, 5} -> 1
                                  [] b \in {2, 4, 7} -> 2 [] OTHER -> 3]
MCVtx == [b \in MCBlocks |-> CASE b = 2 -> <<1>> [] b = 3 -> <<2, 5>> [] b = 4 -> <<1, 2, 7>>
                               [] b = 5 -> <<4>> [] b = 6 -> <<3, 10>> [] b = 7 -> <<7>>
                               [] OTHER -> <<>>]
MCDeltas == [t \in MCTxs |-> CASE t = 1 -> {0, 3} [] t = 2 -> {0, 1} [] t = 9 -> {0, -2}
                               [] OTHER -> {}]
=============================================================================
