----------------------------- MODULE MCSwiftTX -----------------------------
(***************************************************************************)
(* Two transactions that spend o1, the first another input as well; one    *)
(* masternode, whose vote counts for a lock of the same height only.  The  *)
(* height of t2 depends on when the tip is read.                           *)
(***************************************************************************)
EXTENDS SwiftTX, TLC

CONSTANTS t1, t2, m1

MCVin == (t1 :> <<"o1", "o2">>) @@ (t2 :> <<"o1">>)
MCVoteHeights == (t1 :> {1}) @@ (t2 :> {1, 2})
=============================================================================
