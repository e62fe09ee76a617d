---------------------------- MODULE MCBlockTree ----------------------------
(***************************************************************************)
(*   g -- a1 -- a2 -- a3                                                   *)
(*    \     \-- b2                                                         *)
(*     \-- c1 -- c2                                                        *)
(*                                                                         *)
(* with one unit of work per block, so that a1 and c1 tie, but for         *)
(* c2 and a3, which are harder: the way from a2 to c2 leads through less   *)
(* work, and so does the one from c2 to a3, which ConnectBlock refuses.    *)
(***************************************************************************)
EXTENDS BlockTree

TreePrev   == [a1 |-> "g", a2 |-> "a1", a3 |-> "a2", b2 |-> "a1", c1 |-> "g", c2 |-> "c1"]
TreeHeight == [g |-> 0, a1 |-> 1, a2 |-> 2, a3 |-> 3, b2 |-> 2, c1 |-> 1, c2 |-> 2]
TreeAddr   == [g |-> 0, a1 |-> 1, a2 |-> 2, a3 |-> 3, b2 |-> 4, c1 |-> 5, c2 |-> 6]

MCPrev   == [b \in Blocks |-> TreePrev[b]]
MCHeight == [b \in Index |-> TreeHeight[b]]
MCWork   == [b \in Index |-> CASE b = "c2" -> 4 [] b = "a3" -> 5 [] OTHER -> TreeHeight[b]]

(* The orders of addresses, which break the ties after a restart: one that *)
(* prefers blocks as they are written here, and the reverse one.           *)
MCOrders == {[b \in Index |-> TreeAddr[b]], [b \in Index |-> 6 - TreeAddr[b]]}
=============================================================================
