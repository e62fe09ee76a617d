---------------------------- MODULE MCCoinsCache ----------------------------
(* Two transactions, two different unspent values, two block hashes.  The  *)
(* caches are stacks of maps that do not relate transactions to each other *)
(* so that two of them show every interference.                            *)
EXTENDS CoinsCache

CONSTANTS t1, t2, one, both

MCTxids == {t1, t2}
MCLive  == {one, both}
=============================================================================
