------------------------------ MODULE MCBudget ------------------------------
(***************************************************************************)
(* Two finalised budgets, two masternodes.  The first votes three times    *)
(* for budget 1, the second time too soon and the third time with a clock  *)
(* that may be too far ahead of ours; the other one, which this node can   *)
(* vote with and which comes and goes, once for budget 1.  No proposal:    *)
(* nothing relates an item of one kind to one of the other.                *)
(***************************************************************************)
EXTENDS Budget

V(m, i, t) == [mn |-> m, item |-> i, time |-> t]
MCVotes == {V(1, 1, 1), V(1, 1, 2), V(1, 1, 4), V(2, 1, 1)}
=============================================================================
