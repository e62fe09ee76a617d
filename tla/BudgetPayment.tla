--------------------------- MODULE BudgetPayment ---------------------------
(***************************************************************************)
(* Which finalised budget a superblock pays (src/masternode-budget.cpp).   *)
(* Everything is decided by the number of votes each budget has at this    *)
(* node and by the number of enabled masternodes, so the operators take    *)
(* the counts as a function on the budgets that cover the block (numbered  *)
(* in the order of their hashes, that of mapFinalizedBudgets).             *)
(***************************************************************************)
EXTENDS Integers

NoPayment == 0

(* The highest count of at least floor.                                    *)
Highest(count, floor) ==
  CHOOSE h \in {count[b] : b \in DOMAIN count} \cup {floor} :
     h >= floor /\ \A b \in DOMAIN count : count[b] <= h

(* More than 5% of the masternodes have voted for a budget.                *)
IsBudgetPaymentBlock(count, enabled) == Highest(count, -1) > enabled \div 20

(* What the maker of a block pays: the first budget with the most votes.   *)
FillLast(count) ==
  IF Highest(count, 0) = 0 THEN NoPayment
  ELSE CHOOSE b \in DOMAIN count : \A c \in DOMAIN count : c <= b

FillBlockPayee(count) ==
  IF Highest(count, 0) = 0 THEN NoPayment
  ELSE CHOOSE b \in DOMAIN count :
          /\ count[b] = Highest(count, 0)
          /\ \A c \in DOMAIN count : count[c] = Highest(count, 0) => b <= c

(* Whether a block that pays budget b is accepted: "check the highest      *)
(* finalized budgets (+/- 10% to assist in consensus)".                    *)
IsTransactionValid(count, enabled, b) ==
  /\ Highest(count, 0) >= enabled \div 20
  /\ b \in DOMAIN count /\ count[b] > Highest(count, 0) - enabled \div 10

(* Two counts differ by at most d for every budget.                        *)
Near(count1, count2, d) ==
  /\ DOMAIN count1 = DOMAIN count2
  /\ \A b \in DOMAIN count1 : count1[b] - count2[b] \in -d..d
=============================================================================
