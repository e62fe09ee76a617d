----------------------------- MODULE MCAddrMan -----------------------------
(***************************************************************************)
(* Three addresses, one of them under two ports, in three new buckets of   *)
(* one place and two tried slots.  Source s puts a1 and b into the same    *)
(* bucket, a1 and b share a tried slot, and so do a2 and c.                *)
(***************************************************************************)
EXTENDS AddrMan

MCIp == [a1 |-> "A", a2 |-> "A", b |-> "B", c |-> "C"]
MCNewBucket == [a1 |-> [s |-> 1, t |-> 2, u |-> 3], a2 |-> [s |-> 1, t |-> 1, u |-> 2],
                b  |-> [s |-> 1, t |-> 3, u |-> 3], c  |-> [s |-> 2, t |-> 1, u |-> 2]]
MCNewPlace == [a \in Services |-> <<0, 0, 0>>]
MCTriedSlots == {<<1, 0>>, <<1, 1>>}
MCTriedSlot == [a1 |-> <<1, 0>>, a2 |-> <<1, 1>>, b |-> <<1, 0>>, c |-> <<1, 1>>]
=============================================================================
