------------------------------ MODULE MCCoinsDB ------------------------------
(***************************************************************************)
(* A small tree for CoinsDB: 0 - 1, then 1 - 2 - 3 and 1 - 4 - 5.  Block 3 *)
(* spends a coin it creates; the transaction that spends p and creates a   *)
(* is in block 2 (height 2) and in block 5 (height 3).                     *)
(***************************************************************************)
EXTENDS CoinsDB

CONSTANT GenesisSpent   \* block 3 also spends the coin of the genesis block

MCBlocks == 0 .. 5
MCParent == <<0, 1, 2, 1, 4>>
MCAnc[b \in MCBlocks] == IF b = 0 THEN {0} ELSE {b} \cup MCAnc[MCParent[b]]
MCHeight[b \in MCBlocks] == IF b = 0 THEN 0 ELSE 1 + MCHeight[MCParent[b]]

MCOutpoints == {"g", "p", "q", "a", "x", "y", "c"}
MCCreates == [b \in MCBlocks |-> CASE b = 0 -> {"g"}
                                   [] b = 1 -> {"p", "q"}
                                   [] b = 2 -> {"a"}
                                   [] b = 3 -> {"x", "y"}
                                   [] b = 4 -> {"c"}
                                   [] b = 5 -> {"a"}]
MCSpends == [b \in MCBlocks |-> CASE b \in {2, 5} -> {"p"}
                                  [] b = 3 -> {"a", "y"} \cup
                                              (IF GenesisSpent THEN {"g"} ELSE {})
                                  [] b = 4 -> {"q"}
                                  [] OTHER -> {}]
MCUtxo[b \in MCBlocks] ==
  [o \in MCOutpoints |->
     CASE o \in MCSpends[b] -> NoCoin
       [] o \in MCCreates[b] \ MCSpends[b] -> MCHeight[b]
       [] OTHER -> IF b = 0 THEN NoCoin ELSE MCUtxo[MCParent[b]][o]]
=============================================================================
