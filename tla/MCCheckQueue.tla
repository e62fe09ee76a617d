---- MODULE MCCheckQueue ----
(***************************************************************************)
(* Two workers and a master.  Four checks are the fewest for which a batch *)
(* of two is ever taken: the master alone in the pool gets 4 \div 2.       *)
(***************************************************************************)
EXTENDS CheckQueue

CONSTANTS w1, w2, m, c1, c2, c3, c4

MCWorkers == {w1, w2}
MCChecks == {c1, c2, c3, c4}
MCBad == {c4}
====
