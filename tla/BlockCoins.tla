----------------------------- MODULE BlockCoins -----------------------------
(***************************************************************************)
(* What connecting and disconnecting a block does to the coins:            *)
(* ConnectBlock, UpdateCoins and DisconnectBlock of src/main.cpp, Spend    *)
(* and FromTx of CCoins, the undo records of src/undo.h, and               *)
(* mapStakeSpent, the map of recently spent outputs the stake check of     *)
(* AcceptBlock reads.                                                      *)
(*                                                                         *)
(* The coins are the plain UTXO set pcoinsTip shows (module CoinsCache     *)
(* proves that the caches implement it); a view that is not flushed leaves *)
(* no trace, so ConnectTip and DisconnectTip are one step each.  Amounts,  *)
(* scripts and signatures are left out: a block that fails one of those    *)
(* checks is never connected and is not in Blocks.                         *)
(***************************************************************************)
EXTENDS Integers, Sequences, Functions, Ancestry

CONSTANTS
  Txids,       \* the hashes of transactions
  Vtx,         \* Vtx[b]: the transactions of b, coinbase first
  Maturity,    \* COINBASE_MATURITY
  MaxReorg     \* MaxReorganizationDepth

(* A transaction: its hash, its kind (IsCoinBase and IsCoinStake exclude   *)
(* each other), the outpoints it spends in order and the numbers of its    *)
(* spendable outputs.  A coinbase has no traditional inputs.               *)
Kinds     == {"coinbase", "coinstake", "plain"}
Outpoints == [hash : Txids, n : Nat]
TxType    == [hash : Txids, kind : Kinds, vin : Seq(Outpoints), vout : SUBSET Nat]

Txs == UNION {Range(Vtx[b]) : b \in Blocks}
Staked == {tx.hash : tx \in {x \in Txs : x.kind = "coinstake"}}
TxidsOf(b) == {tx.hash : tx \in Range(Vtx[b])}
Spends(b) == UNION {Range(tx.vin) : tx \in Range(Vtx[b])}

(* The blocks from b down to genesis, genesis excluded: its coinbase is    *)
(* not connected.                                                          *)
ChainTo(b) == Ancestors(b) \ {Genesis}

(* What CheckBlock and CheckTransaction ask of a block, that a hash tells  *)
(* transactions apart, and that the height in a coinbase tells it from     *)
(* those below.                                                            *)
ASSUME BlockCoinsAssumption ==
  /\ Vtx \in [Blocks -> Seq(TxType)]
  /\ \A b \in Blocks : /\ Vtx[b] # <<>>
                       /\ \A i \in DOMAIN Vtx[b] : Vtx[b][i].kind = "coinbase" <=> i = 1
                       /\ \A a \in ChainTo(Prev[b]) : Vtx[a][1].hash # Vtx[b][1].hash
  /\ \A tx \in Txs : /\ tx.kind = "coinbase" <=> tx.vin = <<>>
                     /\ \A i, j \in DOMAIN tx.vin : tx.vin[i] = tx.vin[j] => i = j
  /\ \A s, t \in Txs : s.hash = t.hash => s = t
  /\ Maturity \in Nat \ {0} /\ MaxReorg \in Nat

VARIABLES
  coins,       \* the UTXO set: Txids -> CCoins
  best,        \* its best block, which is chainActive.Tip()
  undo,        \* undo[b]: the records written for b, by transaction and input
  stakeSpent,  \* mapStakeSpent: <<outpoint, height>> pairs
  peak,        \* history: the highest tip since the node started
  since,       \* history: the blocks of the active chain connected since then
  flagless     \* history: the coinstakes that DisconnectBlock has brought back

vars == <<coins, best, undo, stakeSpent, peak, since, flagless>>

(* A CCoins: its unspent outputs, and in kind the flags fCoinBase and      *)
(* fCoinStake.                                                             *)
Coins  == [outs : SUBSET Nat, nHeight : Nat, kind : Kinds]
Pruned == [outs |-> {}, nHeight |-> 0, kind |-> "plain"]

(* GetUndoPos().IsNull().                                                  *)
NoUndo == <<>>

(* MUTANT of Clean: the height and the flags of a spent-out entry stay.    *)
CleanKeepsHeight(c) == c

(* Cleanup(): CCoins without an unspent output are all the same.           *)
Clean(c) == IF c.outs = {} THEN Pruned ELSE c

(* FromTx(tx, nHeight).                                                    *)
FromTx(tx, height) == Clean([outs |-> tx.vout, nHeight |-> height, kind |-> tx.kind])

Init ==
  /\ coins = [t \in Txids |-> Pruned]
  /\ best = Genesis
  /\ undo = [b \in Blocks |-> NoUndo]
  /\ stakeSpent = {}
  /\ peak = 0 /\ since = {}
  /\ flagless = {}

-----------------------------------------------------------------------------
(* MUTANT of UndoOf: the metadata is never recorded.                       *)
UndoWithoutMetadata(c, n) == [nHeight |-> 0, kind |-> "plain"]

(* The record Spend leaves: the metadata only with the last output.        *)
UndoOf(c, n) ==
  IF c.outs = {n} THEN [nHeight |-> c.nHeight, kind |-> c.kind] ELSE [nHeight |-> 0, kind |-> "plain"]

(* CCoins::Spend.                                                          *)
Spend(c, n) == Clean([outs |-> c.outs \ {n}, nHeight |-> c.nHeight, kind |-> c.kind])

SpendInput(view, in) == [view EXCEPT ![in.hash] = Spend(view[in.hash], in.n)]

(* UpdateCoins, "mark inputs spent": the view after each turn of the loop. *)
SpendInputs(view, tx) ==
  LET after[j \in 0..Len(tx.vin)] ==
        IF j = 0 THEN view ELSE SpendInput(after[j - 1], tx.vin[j])
  IN  after

(* UpdateCoins: the undo records it leaves ...                             *)
TxUndo(view, tx) ==
  [j \in 1..Len(tx.vin) |-> UndoOf(SpendInputs(view, tx)[j - 1][tx.vin[j].hash], tx.vin[j].n)]

(* ... and the view, with the outputs added.                               *)
UpdateCoins(view, tx, height) ==
  [SpendInputs(view, tx)[Len(tx.vin)] EXCEPT ![tx.hash] = FromTx(tx, height)]

(* HaveInputs and the maturity rule of CheckInputs.                        *)
InputsSpendable(tx, view, height) ==
  \A in \in Range(tx.vin) :
    LET c == view[in.hash]
    IN  /\ in.n \in c.outs
        /\ c.kind # "plain" => height - c.nHeight >= Maturity

(* ConnectBlock: the view after each turn of its loop over the             *)
(* transactions, the undo records, and whether every turn finds its        *)
(* inputs.  The test against overwriting a transaction is skipped, as in   *)
(* the code, because a block of the index has its phashBlock.              *)
ConnectTxs(b, view) ==
  LET after[i \in 0..Len(Vtx[b])] ==
        IF i = 0 THEN view ELSE UpdateCoins(after[i - 1], Vtx[b][i], Height[b])
  IN  after
BlockUndo(b, view) == [i \in 1..Len(Vtx[b]) |-> TxUndo(ConnectTxs(b, view)[i - 1], Vtx[b][i])]
Connects(b, view) ==
  \A i \in 1..Len(Vtx[b]) : InputsSpendable(Vtx[b][i], ConnectTxs(b, view)[i - 1], Height[b])

(* "add new entries", insert() keeping an outpoint already there.          *)
StakeSpentWith(b) ==
  stakeSpent \cup ((Spends(b) \ {e[1] : e \in stakeSpent}) \X {Height[b]})

(* MUTANT of StakeSpentAfter: one height too many is deleted.              *)
StakeSpentShort(b) == {e \in StakeSpentWith(b) : e[2] > Height[b] - MaxReorg}

(* "delete old entries".                                                   *)
StakeSpentAfter(b) == {e \in StakeSpentWith(b) : e[2] >= Height[b] - MaxReorg}

(* ConnectTip(b): the undo records are written the first time only.        *)
ConnectTip(b) ==
  /\ Prev[b] = best
  /\ Connects(b, coins)
  /\ coins' = ConnectTxs(b, coins)[Len(Vtx[b])]
  /\ best' = b
  /\ undo' = IF undo[b] = NoUndo THEN [undo EXCEPT ![b] = BlockUndo(b, coins)] ELSE undo
  /\ stakeSpent' = StakeSpentAfter(b)
  /\ peak' = IF Height[b] > peak THEN Height[b] ELSE peak
  /\ since' = since \cup {b}
  /\ UNCHANGED flagless

-----------------------------------------------------------------------------
(* MUTANT of Restored: the flag of a coinbase does not come back either.   *)
RestoredPlain(u) == [outs |-> {}, nHeight |-> u.nHeight, kind |-> "plain"]

(* An entry begun anew from the metadata of a record.  fCoinStake is not   *)
(* restored: Clear() has reset it.                                         *)
Restored(u) ==
  [outs |-> {}, nHeight |-> u.nHeight, kind |-> IF u.kind = "coinstake" THEN "plain" ELSE u.kind]

(* DisconnectBlock puts the output of one input back, from its record u    *)
(* ...                                                                     *)
Unspend(c, n) == [outs |-> c.outs \cup {n}, nHeight |-> c.nHeight, kind |-> c.kind]
RestoreInput(view, in, u) ==
  [view EXCEPT ![in.hash] = Unspend(IF u.nHeight # 0 THEN Restored(u) ELSE view[in.hash], in.n)]

(* ... and whether that finds no "undo data overwriting existing           *)
(* transaction", "adding output to missing transaction" or "overwriting    *)
(* existing output".                                                       *)
InputRestores(view, in, u) ==
  /\ u.nHeight # 0 <=> view[in.hash].outs = {}
  /\ in.n \notin view[in.hash].outs

(* MUTANT of Backwards: the inputs are put back in block order.            *)
Forwards(n, k) == k

(* The k-th of n in reverse order.                                         *)
Backwards(n, k) == n + 1 - k

(* "restore inputs": the view after each turn of the loop.                 *)
RestoreInputs(view, tx, recs) ==
  LET turn(k) == Backwards(Len(tx.vin), k)
      after[k \in 0..Len(tx.vin)] ==
        IF k = 0 THEN view ELSE RestoreInput(after[k - 1], tx.vin[turn(k)], recs[turn(k)])
  IN  after

(* One turn of DisconnectBlock's loop: the outputs are removed, the inputs *)
(* come back; the outputs must have been all there, unspent.               *)
Removed(view, tx) == [view EXCEPT ![tx.hash] = Pruned]
DisconnectTx(view, tx, recs) == RestoreInputs(Removed(view, tx), tx, recs)[Len(tx.vin)]
TxDisconnects(view, tx, recs, height) ==
  /\ view[tx.hash] = FromTx(tx, height)
  /\ \A k \in 1..Len(tx.vin) :
       LET j == Backwards(Len(tx.vin), k)
       IN  InputRestores(RestoreInputs(Removed(view, tx), tx, recs)[k - 1], tx.vin[j], recs[j])

(* DisconnectBlock: the view after each turn, and fClean.                  *)
DisconnectTxs(b, view) ==
  LET i(k) == Len(Vtx[b]) + 1 - k
      after[k \in 0..Len(Vtx[b])] ==
        IF k = 0 THEN view ELSE DisconnectTx(after[k - 1], Vtx[b][i(k)], undo[b][i(k)])
  IN  after
Disconnects(b, view) ==
  /\ undo[b] # NoUndo
  /\ \A k \in 1..Len(Vtx[b]) :
       LET i == Len(Vtx[b]) + 1 - k
       IN  TxDisconnects(DisconnectTxs(b, view)[k - 1], Vtx[b][i], undo[b][i], Height[b])

(* mapStakeSpent.erase for every input of b, once there are undo records.  *)
StakeSpentWithout(b) ==
  IF undo[b] = NoUndo THEN stakeSpent ELSE {e \in stakeSpent : e[1] \notin Spends(b)}

(* DisconnectTip().                                                        *)
DisconnectTip ==
  /\ best # Genesis
  /\ Disconnects(best, coins)
  /\ coins' = DisconnectTxs(best, coins)[Len(Vtx[best])]
  /\ best' = Prev[best]
  /\ flagless' = (flagless \cup {t \in Staked : coins[t].outs = {} /\ coins'[t].outs # {}}) \ TxidsOf(best)
  /\ stakeSpent' = StakeSpentWithout(best)
  /\ since' = since \ {best}
  /\ UNCHANGED <<undo, peak>>

(* DisconnectTip() on coins that are not clean: the view is not flushed,   *)
(* but mapStakeSpent has forgotten the outpoints.                          *)
DisconnectFails ==
  /\ best # Genesis
  /\ ~Disconnects(best, coins)
  /\ stakeSpent' = StakeSpentWithout(best)
  /\ UNCHANGED <<coins, best, undo, peak, since, flagless>>

(* A restart after a clean shutdown: the coins, the blocks and their undo  *)
(* records are on disk, mapStakeSpent is in memory only.                   *)
Restart ==
  /\ stakeSpent' = {}
  /\ peak' = Height[best] /\ since' = {}
  /\ UNCHANGED <<coins, best, undo, flagless>>

Next == (\E b \in Blocks : ConnectTip(b)) \/ DisconnectTip \/ DisconnectFails \/ Restart

Spec == Init /\ [][Next]_vars

-----------------------------------------------------------------------------
Chain == ChainTo(best)

(* IsProofOfStake(): the second transaction is a coinstake.                *)
StakeBlocks == {b \in Blocks : Len(Vtx[b]) > 1 /\ Vtx[b][2].kind = "coinstake"}
StakeOf(b) == Range(Vtx[b][2].vin)

(* Inputs that are gone from the coins of the tip must be in mapStakeSpent *)
(* at the parent's height or above.                                        *)
StakeIsRecent(b) ==
  (\E in \in StakeOf(b) : in.n \notin coins[in.hash].outs) =>
    \A in \in StakeOf(b) : \E h \in Height[Prev[b]]..peak : <<in, h>> \in stakeSpent

(* The blocks between the parent of b and the active chain.                *)
Fork(b) == ChainTo(Prev[b]) \ Chain

(* MUTANT of StakeCheck: the fork is not searched.                         *)
StakeCheckNoFork(b, have) == StakeIsRecent(b)

(* The stake part of AcceptBlock for a block b whose parent is known:      *)
(* StakeIsRecent, and on a fork no block between the parent and the active *)
(* chain may spend the stake.  have: the blocks of the fork with data; the *)
(* others are known by their header only, ReadBlockFromDisk fails on them, *)
(* and nothing of an empty block is compared.                              *)
StakeCheck(b, have) ==
  /\ StakeIsRecent(b)
  /\ \A a \in Fork(b) \cap have : StakeOf(b) \cap Spends(a) = {}

-----------------------------------------------------------------------------
(* The coins keep no spent-out entry with a height or a flag and none from *)
(* above the highest tip; a block has one undo record per input.           *)
TypeOK ==
  /\ coins \in [Txids -> Coins]
  /\ \A t \in Txids : IF coins[t].outs = {} THEN coins[t] = Pruned ELSE coins[t].nHeight \in 1..peak
  /\ best \in Index
  /\ undo \in [Blocks -> Seq(Seq([nHeight : Nat, kind : Kinds]))]
  /\ \A b \in Blocks : undo[b] # NoUndo =>
       /\ Len(undo[b]) = Len(Vtx[b])
       /\ \A i \in DOMAIN Vtx[b] : Len(undo[b][i]) = Len(Vtx[b][i].vin)
  /\ stakeSpent \subseteq Outpoints \X (1..peak)
  /\ peak \in Nat /\ since \subseteq Chain /\ flagless \subseteq Staked

(* Replaying the chain to b from nothing, as a definition: what a          *)
(* transaction of the chain still has unspent is what no block of the      *)
(* chain spends.                                                           *)
TxOf(t) == CHOOSE tx \in Txs : tx.hash = t
Made(b) == UNION {TxidsOf(x) : x \in ChainTo(b)}
MadeAt(b, t) == Height[CHOOSE x \in ChainTo(b) : t \in TxidsOf(x)]
SpentBy(b) == UNION {Spends(x) : x \in ChainTo(b)}
Unspent(t, S) == {n \in TxOf(t).vout : [hash |-> t, n |-> n] \notin S}
Replayed(t) ==
  IF t \in Made(best)
  THEN Clean([outs |-> Unspent(t, SpentBy(best)), nHeight |-> MadeAt(best, t), kind |-> TxOf(t).kind])
  ELSE Pruned

(* ConnectTip and DisconnectTip in any order leave exactly the coins that  *)
(* replaying the active chain from nothing gives, heights and flags too,   *)
(* and nothing is spent twice on it.  The one exception: a coinstake that  *)
(* DisconnectBlock brought back from spent-out has lost fCoinStake.        *)
CoinsAreReplayed ==
  /\ \A t \in Txids : \/ coins[t] = Replayed(t)
                      \/ t \in flagless /\ coins[t] = [Replayed(t) EXCEPT !.kind = "plain"]
  /\ \A a, b \in Chain : a # b => Spends(a) \cap Spends(b) = {}

(* No reorganisation gets stuck: DisconnectBlock finds the undo records of *)
(* the tip and every output where it expects it, unless the tip holds a    *)
(* coinstake that has lost its flag.                                       *)
TipCanBeDisconnected ==
  best # Genesis /\ TxidsOf(best) \cap flagless = {} => Disconnects(best, coins)

(* mapStakeSpent holds every outpoint spent in the last MaxReorg blocks    *)
(* below the highest tip by a block of the active chain that was connected *)
(* since the node started, and each of its entries is spent by the block   *)
(* of the active chain at that height: what AcceptBlock may judge a stake  *)
(* on a fork by.  After a restart it knows nothing of the blocks below. A  *)
(* block with a coinstake that has lost its flag may be missing: an        *)
(* attempt to disconnect it has failed.                                    *)
StakeSpentTracksChain ==
  LET spentBy(S) == UNION {Spends(b) \X {Height[b]} : b \in S}
      recent     == {b \in since : Height[b] >= peak - MaxReorg /\ TxidsOf(b) \cap flagless = {}}
  IN  spentBy(recent) \subseteq stakeSpent /\ stakeSpent \subseteq spentBy(since)

(* A stake that AcceptBlock lets through is spent by no earlier block of   *)
(* the new block's own branch, whatever the active chain is at that time   *)
(* and however much mapStakeSpent has lost to a restart, with two          *)
(* exceptions: the parent itself when it is on the active chain, where the *)
(* comparison of the heights lets the double spend through to              *)
(* ConnectBlock, and the blocks of the fork without data, which nobody     *)
(* looks at again when their data arrive.                                  *)
AcceptedStakeIsUnspent ==
  \A b \in StakeBlocks : \A have \in SUBSET Fork(b) :
    StakeCheck(b, have) =>
      \A a \in ChainTo(Prev[b]) :
        \/ a = Prev[b] /\ a \in Chain
        \/ a \in Fork(b) \ have
        \/ StakeOf(b) \cap Spends(a) = {}

(* What AcceptBlock judges a stake by, and with what result: mapStakeSpent *)
(* follows the chain as far as it can (StakeSpentTracksChain), in any      *)
(* sequence of reorganisations and restarts, so that a stake which is let  *)
(* through is good on its own branch (AcceptedStakeIsUnspent).             *)
StakesFollowChain == TypeOK /\ StakeSpentTracksChain /\ AcceptedStakeIsUnspent

=============================================================================
