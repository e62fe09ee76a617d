---------------------------- MODULE MCChainStore ----------------------------
(***************************************************************************)
(*   g -- a1 -- a2 -- a3          one chain, with a branch                 *)
(*    \-- b1                                                               *)
(***************************************************************************)
EXTENDS ChainStore

MCPrev   == [a1 |-> "g", a2 |-> "a1", a3 |-> "a2", b1 |-> "g"]
MCHeight == [g |-> 0, a1 |-> 1, a2 |-> 2, a3 |-> 3, b1 |-> 1]
MCAddr   == [g |-> 0, a1 |-> 3, a2 |-> 2, a3 |-> 1, b1 |-> 4]
=============================================================================
