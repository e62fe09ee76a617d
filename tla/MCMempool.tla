----------------------------- MODULE MCMempool -----------------------------
(***************************************************************************)
(*   g -- b1 -- b2 -- b3     b2 confirms t1, b3 what spends b1's coinstake *)
(*          \-- d2 -- d3     d2 confirms u1, which conflicts with t1       *)
(*                                                                         *)
(* t1 spends the genesis coin, t2 spends t1, t3 spends t1 and t2, and u1   *)
(* spends the genesis coin too.  m1 spends s1, the coinstake of b1, n2     *)
(* spends m1 and the coinbase of b1, x2 is an invalid spend of t1, and s3, *)
(* the coinstake of d3, spends the same coin as m1.  When b3 or d3 is      *)
(* disconnected the coin of s1 loses its flag.                             *)
(***************************************************************************)
EXTENDS Mempool

MCPrev   == [b1 |-> "g", b2 |-> "b1", b3 |-> "b2", d2 |-> "b1", d3 |-> "d2"]
MCHeight == [g |-> 0, b1 |-> 1, b2 |-> 2, b3 |-> 3, d2 |-> 2, d3 |-> 3]
MCVtx    == [g |-> <<"c0">>, b1 |-> <<"c1", "s1">>, b2 |-> <<"c2", "t1">>, b3 |-> <<"c3", "m1">>,
             d2 |-> <<"e2", "u1">>, d3 |-> <<"e3", "s3">>]
MCVin    == [c0 |-> <<>>, c1 |-> <<>>, c2 |-> <<>>, c3 |-> <<>>, e2 |-> <<>>, e3 |-> <<>>,
             t1 |-> <<<<"c0", 0>>>>, u1 |-> <<<<"c0", 0>>>>, t2 |-> <<<<"t1", 0>>>>,
             t3 |-> <<<<"t2", 0>>, <<"t1", 1>>>>, m1 |-> <<<<"s1", 0>>>>, x2 |-> <<<<"t1", 2>>>>,
             n2 |-> <<<<"m1", 0>>, <<"c1", 0>>>>,
             s1 |-> <<<<"c0", 1>>>>, s3 |-> <<<<"s1", 0>>>>]
MCOutputs == [t \in DOMAIN MCVin |-> CASE t = "t1" -> 3 [] t = "c0" -> 2 [] OTHER -> 1]
=============================================================================
