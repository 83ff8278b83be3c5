----------------------------- MODULE MCAddrMan ------------------------------
(* Three addresses that want the same place in the tried table.  Two        *)
(* sources announce a1, and each one of its places in the new table is also *)
(* the place of another address.                                            *)
EXTENDS AddrMan
CONSTANTS a1, a2, a3, s1, s2

MCAddrs == {a1, a2, a3}
MCSources == {s1, s2}
MCNewBucket == <<a1, s1>> :> 1 @@ <<a1, s2>> :> 2 @@ <<a2, s2>> :> 2 @@ <<a3, s1>> :> 1
MCNewPos == <<a1, 1>> :> 1 @@ <<a1, 2>> :> 1 @@ <<a2, 1>> :> 2 @@ <<a2, 2>> :> 1
            @@ <<a3, 1>> :> 1 @@ <<a3, 2>> :> 2
MCTriedSlot == a1 :> <<1, 1>> @@ a2 :> <<1, 1>> @@ a3 :> <<1, 1>>
=============================================================================
