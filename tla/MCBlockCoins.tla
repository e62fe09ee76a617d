---------------------------- MODULE MCBlockCoins ----------------------------
(***************************************************************************)
(* A tree of blocks in which transactions are spent output by output and   *)
(* at once, the same transaction is mined at different heights on two      *)
(* branches, a transaction spends another of its own block, a block        *)
(* double-spends (x3), and coinstakes spend what the other branch, their   *)
(* own branch or their own chain has spent.                                *)
(*                                                                         *)
(*   g -- b1 -- b2 -- b3 -- b4 -- b5        x3 on b2,                      *)
(*          \                  \-- s5 -- s6  k5 on b4, k4 on c3, j5 on c4  *)
(*           c2 -- c3 -- c4                                                *)
(***************************************************************************)
EXTENDS BlockCoins

CONSTANT Chosen  \* the blocks of this run

Out(h, i) == [hash |-> h, n |-> i]
Tx(h, k, in, out) == [hash |-> h, kind |-> k, vin |-> in, vout |-> out]

cb1 == Tx("cb1", "coinbase", <<>>, {1, 2})
p   == Tx("p", "plain", <<Out("cb1", 1)>>, {1, 2})
q   == Tx("q", "plain", <<Out("p", 1), Out("cb1", 2), Out("p", 2)>>, {1})
st  == Tx("st", "coinstake", <<Out("q", 1)>>, {1, 2})
r   == Tx("r", "plain", <<Out("st", 1)>>, {1})

AllVtx ==
  [b1 |-> <<cb1>>,
   b2 |-> <<Tx("cb2", "coinbase", <<>>, {1}), p>>,
   b3 |-> <<Tx("cb3", "coinbase", <<>>, {1}), q>>,
   b4 |-> <<Tx("cb4", "coinbase", <<>>, {}), st>>,
   b5 |-> <<Tx("cb5", "coinbase", <<>>, {1}), r>>,
   s5 |-> <<Tx("cbs", "coinbase", <<>>, {1}),
            Tx("rs", "plain", <<Out("st", 2), Out("st", 1)>>, {1})>>,
   s6 |-> <<Tx("cbt", "coinbase", <<>>, {1})>>,
   k5 |-> <<Tx("cbk", "coinbase", <<>>, {}), Tx("k", "coinstake", <<Out("cb1", 2)>>, {1})>>,
   k4 |-> <<Tx("cbl", "coinbase", <<>>, {}), Tx("l", "coinstake", <<Out("q", 1)>>, {1})>>,
   j5 |-> <<Tx("cbj", "coinbase", <<>>, {}), Tx("j", "coinstake", <<Out("q", 1)>>, {1})>>,
   x3 |-> <<Tx("cbx", "coinbase", <<>>, {1}),
            Tx("px", "plain", <<Out("cb1", 1)>>, {1})>>,
   c2 |-> <<Tx("cbc", "coinbase", <<>>, {1})>>,
   c3 |-> <<Tx("cbd", "coinbase", <<>>, {1}), p, q>>,
   c4 |-> <<Tx("cbe", "coinbase", <<>>, {1}),
            Tx("w", "plain", <<Out("q", 1), Out("cbc", 1)>>, {1})>>]

AllPrev == [b1 |-> "g", b2 |-> "b1", b3 |-> "b2", b4 |-> "b3", b5 |-> "b4", s5 |-> "b4", s6 |-> "s5",
            k5 |-> "b4", x3 |-> "b2",
            c2 |-> "b1", c3 |-> "c2", c4 |-> "c3", k4 |-> "c3", j5 |-> "c4"]
AllHeight == [g |-> 0, b1 |-> 1, b2 |-> 2, b3 |-> 3, b4 |-> 4, b5 |-> 5, s5 |-> 5, s6 |-> 6,
              k5 |-> 5, x3 |-> 3, c2 |-> 2, c3 |-> 3, c4 |-> 4, k4 |-> 4, j5 |-> 5]

(* The hashes of the run's transactions.                                   *)
MCTxids == {tx.hash : tx \in UNION {Range(AllVtx[b]) : b \in Chosen}}
MCVtx == [b \in Chosen |-> AllVtx[b]]
MCPrev == [b \in Chosen |-> AllPrev[b]]
MCHeight == [b \in Chosen \cup {"g"} |-> AllHeight[b]]
=============================================================================
