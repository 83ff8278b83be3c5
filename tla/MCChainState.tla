---------------------------- MODULE MCChainState ----------------------------
(***************************************************************************)
(* Small block trees for ChainState.                                       *)
(***************************************************************************)
EXTENDS ChainState

MCBlocks == 0 .. 5

\* 0 - 1 - 2 - 4 and 0 - 3 - 5.
MCParent == <<0, 1, 0, 2, 3>>
MCAnc[x \in MCBlocks] == IF x = 0 THEN {0} ELSE {x} \cup MCAnc[MCParent[x]]
MCHeight[x \in MCBlocks] == IF x = 0 THEN 0 ELSE 1 + MCHeight[MCParent[x]]

\* The counter of preciousblock starts at its limit, so that all precious blocks
\* carry the same number and the comparator falls back on pointers.
MCMinSequenceId == -1
=============================================================================
