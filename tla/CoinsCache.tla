----------------------------- MODULE CoinsCache -----------------------------
(***************************************************************************)
(* The stack of coin views of a running node: the coin database            *)
(* (CCoinsViewDB), pcoinsTip (a CCoinsViewCache over it) and the view that *)
(* ConnectTip or DisconnectTip builds over pcoinsTip for one block.        *)
(*                                                                         *)
(* Every user holds cs_main, and a view over pcoinsTip lives inside one    *)
(* critical section: pcoinsTip is read or filled through it meanwhile, and *)
(* is flushed only when no view is being written.  A call of a view is one *)
(* action; a miss in the view also fills pcoinsTip.                        *)
(***************************************************************************)
EXTENDS CoinsMap

CONSTANTS
  Blocks,   \* the block hashes
  NoBlock   \* uint256(0): hashBlock not known yet

ASSUME CoinsCacheAssumption == NoBlock \notin Blocks

VARIABLES
  db, dbBest,             \* the database: 'c' records and the 'B' record
  tip, tipBest,           \* pcoinsTip: cacheCoins and hashBlock
  view, viewBest,         \* the block's view: cacheCoins and hashBlock
  viewOpen                \* such a view exists

vars == <<db, dbBest, tip, tipBest, view, viewBest, viewOpen>>

Hashes == Blocks \cup {NoBlock}

(* What each level answers to GetCoins(t) and GetBestBlock().              *)
TipCoins(t)  == CacheCoins(tip, DbCoins(db, t), t)
ViewCoins(t) == CacheCoins(view, TipCoins(t), t)
TipBestBlock  == IF tipBest = NoBlock THEN dbBest ELSE tipBest
ViewBestBlock == IF viewBest = NoBlock THEN TipBestBlock ELSE viewBest

(* The node starts on any database; the caches are empty.                  *)
Init ==
  /\ db \in Stores /\ dbBest \in Hashes
  /\ tip = Empty /\ tipBest = NoBlock
  /\ view = Empty /\ viewBest = NoBlock /\ viewOpen = FALSE

-----------------------------------------------------------------------------
(* CCoinsViewCache view(pcoinsTip).                                        *)
OpenView ==
  /\ ~viewOpen
  /\ viewOpen' = TRUE
  /\ UNCHANGED <<db, dbBest, tip, tipBest, view, viewBest>>

(* pcoinsTip->GetCoins, AccessCoins, HaveCoins: lookups by the memory      *)
(* pool, the wallet and RPC, which keep what they find in the cache.       *)
TipFetch(t) ==
  /\ tip' = FetchCoins(tip, DbCoins(db, t), t)
  /\ UNCHANGED <<db, dbBest, tipBest, view, viewBest, viewOpen>>

(* MUTANT of FillTip: the view reads the database past pcoinsTip.          *)
FillTipBypass(t) == tip' = tip

(* The base lookup of a view that does not have t: it runs FetchCoins in   *)
(* pcoinsTip first.                                                        *)
FillTip(t) ==
  tip' = IF t \in DOMAIN view THEN tip ELSE FetchCoins(tip, DbCoins(db, t), t)

(* view.GetCoins, AccessCoins, HaveCoins, HaveInputs, GetOutputFor.        *)
ViewFetch(t) ==
  /\ viewOpen
  /\ FillTip(t)
  /\ view' = FetchCoins(view, TipCoins(t), t)
  /\ UNCHANGED <<db, dbBest, tipBest, viewBest, viewOpen>>

(* view.ModifyCoins(t) and what its caller leaves there: Spend, FromTx,    *)
(* Clear, or a restored output.                                            *)
ViewModify(t, new) ==
  /\ viewOpen
  /\ FillTip(t)
  /\ view' = ModifyCoins(view, TipCoins(t), t, new)
  /\ UNCHANGED <<db, dbBest, tipBest, viewBest, viewOpen>>

(* view.GetBestBlock(): an unknown hash is asked of the view below and     *)
(* kept, at both levels.                                                   *)
ViewGetBestBlock ==
  /\ viewOpen
  /\ tipBest' = IF viewBest = NoBlock THEN TipBestBlock ELSE tipBest
  /\ viewBest' = ViewBestBlock
  /\ UNCHANGED <<db, dbBest, tip, view, viewOpen>>

(* view.SetBestBlock(b).                                                   *)
ViewSetBestBlock(b) ==
  /\ viewOpen
  /\ viewBest' = b
  /\ UNCHANGED <<db, dbBest, tip, tipBest, view, viewOpen>>

(* assert(view.Flush()): ConnectBlock and DisconnectBlock have set the     *)
(* best block before every call of it.                                     *)
ViewFlush ==
  /\ viewOpen /\ viewBest # NoBlock
  /\ tip' = BatchWrite(tip, view) /\ tipBest' = viewBest
  /\ view' = Empty /\ viewBest' = NoBlock /\ viewOpen' = FALSE
  /\ UNCHANGED <<db, dbBest>>

(* The block was refused, or only tested: the view is destroyed.           *)
ViewDestroy ==
  /\ viewOpen
  /\ view' = Empty /\ viewBest' = NoBlock /\ viewOpen' = FALSE
  /\ UNCHANGED <<db, dbBest, tip, tipBest>>

(* pcoinsTip->Flush() of FlushStateToDisk: one LevelDB batch; the best     *)
(* block is written only when it is known.                                 *)
TipFlush ==
  /\ ~viewOpen
  /\ db' = BatchWriteDB(db, tip)
  /\ dbBest' = IF tipBest = NoBlock THEN dbBest ELSE tipBest
  /\ tip' = Empty
  /\ UNCHANGED <<tipBest, view, viewBest, viewOpen>>

(* The process is killed and started again on the same database.           *)
Crash ==
  /\ tip' = Empty /\ tipBest' = NoBlock
  /\ view' = Empty /\ viewBest' = NoBlock /\ viewOpen' = FALSE
  /\ UNCHANGED <<db, dbBest>>

Next ==
  \/ OpenView \/ ViewGetBestBlock \/ ViewFlush \/ ViewDestroy \/ TipFlush \/ Crash
  \/ \E t \in Txids : TipFetch(t) \/ ViewFetch(t)
  \/ \E t \in Txids, new \in Coins : ViewModify(t, new)
  \/ \E b \in Blocks : ViewSetBestBlock(b)

Spec == Init /\ [][Next]_vars

-----------------------------------------------------------------------------
(* The database never holds an entry without unspent outputs (CCoins       *)
(* serialisation asserts it), and the caches hold what they may.           *)
TypeOK ==
  /\ db \in Stores /\ dbBest \in Hashes
  /\ tip \in Caches /\ tipBest \in Hashes
  /\ view \in Caches /\ viewBest \in Hashes
  /\ viewOpen \in BOOLEAN

(* What the flags of an entry claim about the view below, for both caches: *)
(* an entry that is not DIRTY equals it, and below a FRESH entry there is  *)
(* no unspent output, so that deleting it loses nothing.                   *)
TipFlags ==
  \A t \in DOMAIN tip :
    /\ tip[t].fresh => DbCoins(db, t) = Absent
    /\ ~tip[t].dirty => tip[t].coins = DbCoins(db, t)

ViewFlags ==
  \A t \in DOMAIN view :
    /\ view[t].fresh => Shown(TipCoins(t)) = Pruned
    /\ ~view[t].dirty => view[t].coins = Shown(TipCoins(t))

FlagsTruthful == TipFlags /\ ViewFlags

(* assert(it->second.flags & FRESH) in BatchWrite never fails: whatever    *)
(* the view pulled in from below is still in pcoinsTip when it is flushed. *)
FlushAssertionHolds == viewOpen => BatchWriteAsserts(tip, view)

(* Why it never fails: an entry of the view that is not FRESH was found    *)
(* through pcoinsTip, which keeps it as long as the view exists.           *)
PulledThroughTip ==
  /\ ~viewOpen => view = Empty /\ viewBest = NoBlock
  /\ \A t \in DOMAIN view : ~view[t].fresh => t \in DOMAIN tip

(* The inductive invariant.                                                *)
IInv == TypeOK /\ FlagsTruthful /\ PulledThroughTip

(* The caches show plain UTXO sets: the stack implements UtxoViews.        *)
DiskSet == [t \in Txids |-> Shown(DbCoins(db, t))]
TipSet  == [t \in Txids |-> Shown(TipCoins(t))]
ViewSet == [t \in Txids |-> Shown(ViewCoins(t))]

Utxo == INSTANCE UtxoViews WITH
  disk <- DiskSet, diskBest <- dbBest,
  tip <- TipSet, tipBest <- TipBestBlock,
  scratch <- ViewSet, scratchBest <- ViewBestBlock,
  open <- viewOpen

(* Lookups are invisible, a flush moves exactly the difference, a view     *)
(* that is dropped leaves no trace, a crash falls back to the last flush.  *)
ImplementsUtxoViews == Utxo!Spec

=============================================================================
