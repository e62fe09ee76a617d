----------------------------- MODULE UtxoViews ------------------------------
(***************************************************************************)
(* What the stack of coin views promises, with the caches and their flags  *)
(* forgotten: three plain UTXO sets, each with the block it represents.    *)
(* disk is the coin database, tip what pcoinsTip shows, scratch what the   *)
(* view ConnectTip or DisconnectTip works in shows.                        *)
(***************************************************************************)
CONSTANTS Txids, Coins, Blocks, NoBlock

VARIABLES disk, diskBest, tip, tipBest, scratch, scratchBest, open

vars == <<disk, diskBest, tip, tipBest, scratch, scratchBest, open>>

UtxoSet == [Txids -> Coins]

Init ==
  /\ disk \in UtxoSet /\ diskBest \in Blocks \cup {NoBlock}
  /\ tip = disk /\ tipBest = diskBest
  /\ scratch = disk /\ scratchBest = diskBest
  /\ open = FALSE

(* A view is built over pcoinsTip.                                         *)
OpenView ==
  /\ ~open
  /\ open' = TRUE
  /\ UNCHANGED <<disk, diskBest, tip, tipBest, scratch, scratchBest>>

(* A transaction's outputs are added, spent or restored in the view only.  *)
Modify(t, c) ==
  /\ open
  /\ scratch' = [scratch EXCEPT ![t] = c]
  /\ UNCHANGED <<disk, diskBest, tip, tipBest, scratchBest, open>>

SetBest(b) ==
  /\ open
  /\ scratchBest' = b
  /\ UNCHANGED <<disk, diskBest, tip, tipBest, scratch, open>>

(* The view is flushed: all its changes reach pcoinsTip, or it is dropped: *)
(* none does.                                                              *)
Commit ==
  /\ open
  /\ tip' = scratch /\ tipBest' = scratchBest
  /\ open' = FALSE
  /\ UNCHANGED <<disk, diskBest, scratch, scratchBest>>

Abandon ==
  /\ open
  /\ scratch' = tip /\ scratchBest' = tipBest
  /\ open' = FALSE
  /\ UNCHANGED <<disk, diskBest, tip, tipBest>>

(* pcoinsTip is flushed: the database is exactly what pcoinsTip showed.    *)
Persist ==
  /\ ~open
  /\ disk' = tip /\ diskBest' = tipBest
  /\ UNCHANGED <<tip, tipBest, scratch, scratchBest, open>>

(* The process dies: only the database survives.                           *)
Crash ==
  /\ tip' = disk /\ tipBest' = diskBest
  /\ scratch' = disk /\ scratchBest' = diskBest
  /\ open' = FALSE
  /\ UNCHANGED <<disk, diskBest>>

Next ==
  \/ OpenView \/ Commit \/ Abandon \/ Persist \/ Crash
  \/ \E t \in Txids, c \in Coins : Modify(t, c)
  \/ \E b \in Blocks : SetBest(b)

Spec == Init /\ [][Next]_vars

=============================================================================
