-------------------------- MODULE MCBlockDownload ---------------------------
(* 1 - 2 - 3 - 4 is a valid chain; 5 forks off at 1 and is refused when it   *)
(* is connected.  p1 is at 5 and may be slow or go away; p2 is at 3,    *)
(* then at 4, and answers.  Either is preferred or not; p1 also comes as a   *)
(* whitelisted peer that serves only late blocks.                            *)
EXTENDS BlockDownload

CONSTANTS p1, p2

MCBlocks == 0..5
MCParent == <<0, 1, 2, 3, 1>>
MCHeight == [b \in MCBlocks |-> <<0, 1, 2, 3, 4, 2>>[b + 1]]
MCHas == [p \in Peers |-> IF p \in Responsive THEN 0..4 ELSE {0, 1, 5}]
MCTips == [p \in Peers |-> IF p \in Responsive THEN {3, 4} ELSE {5}]

Plain(c) == [conn |-> c, whitelisted |-> FALSE, services |-> "network"]
Trusted == [conn |-> "inbound", whitelisted |-> TRUE, services |-> "limited"]
MCKinds == [p \in Peers |-> {Plain("inbound"), Plain("outbound")} \cup
                            (IF p \in Responsive THEN {} ELSE {Trusted})]
=============================================================================
