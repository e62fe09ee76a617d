--------------------------- MODULE MasternodeSync ---------------------------
(***************************************************************************)
(* CMasternodeSync (src/masternode-sync.cpp): the sporks, the masternode   *)
(* list, the payment winners and the budget are asked for one after the    *)
(* other, each peer once, until no new item of an asset has come for a     *)
(* while.  One thread calls Process() every second (every fifth call does  *)
(* something); items arrive in the message handler, and Reset() is called  *)
(* from an RPC thread, or from any thread that finds out that the machine  *)
(* has been asleep, without a lock.                                        *)
(*                                                                         *)
(* Times are kept as far as the code compares them: the last item of an    *)
(* asset is none, recent or old (MASTERNODE_SYNC_TIMEOUT * 2), the asset   *)
(* has been asked for longer than MASTERNODE_SYNC_TIMEOUT * 5 or not.      *)
(* Of the items of an asset in Followed one is followed, with the number   *)
(* of times it was counted; all others come as new ones, without a limit.  *)
(* SPORK_8 changes at any time.  What is left out: the "ssc" counts (shown *)
(* by an RPC, used by nobody), regtest, and whether a request is sent at   *)
(* all (DsegUpdate asks a peer once in three hours but is counted as an    *)
(* attempt every time).  The assignments of Reset() are one step.          *)
(***************************************************************************)
EXTENDS Naturals

CONSTANTS
  NPeers,       \* the places in vNodes
  Old,          \* those of peers with an old protocol version
  Threshold,    \* MASTERNODE_SYNC_THRESHOLD
  Followed,     \* the assets of which an item is followed
  MaxResets     \* bound: resets from outside, and masternodes that go away

Peers  == 1..NPeers
Assets == {"list", "mnw", "budget"}     \* what is asked for until no more comes
Essential == {"list", "mnw"}            \* what a node needs that enforces payments

ASSUME SyncAssumption ==
  /\ NPeers \in Nat /\ Old \subseteq Peers
  /\ Threshold \in Nat /\ Followed \subseteq Assets /\ MaxResets \in Nat

VARIABLES
  asset,        \* RequestedMasternodeAssets
  attempt,      \* RequestedMasternodeAttempt
  last,         \* lastMasternodeList, lastMasternodeWinner, lastBudgetItem
  seen,         \* mapSeenSyncMNB, mapSeenSyncMNW, mapSeenSyncBudget, at the
                \* item of each that is followed
  late,         \* GetTime() - nAssetSyncStarted > MASTERNODE_SYNC_TIMEOUT * 5
  rested,       \* lastFailure + 60 < GetTime()
  fulfilled,    \* by place, the requests its peer has been sent
  fBlockchainSynced,
  enabled,      \* mnodeman.CountEnabled() > 0
  spork8,       \* SPORK_8_MASTERNODE_PAYMENT_ENFORCEMENT is active
  pc,           \* where Process() is
  from,         \* the asset that the switch in GetNextAsset has read
  resets,       \* bound
  more,         \* there are items that this node has not seen
  missing,      \* history: of the list and the winners, those of which since
                \* the last reset no item came and that were not given up at
                \* a moment when payments were not enforced
  overtaken     \* history: GetNextAsset wrote over a reset

env  == <<fBlockchainSynced, enabled, spork8, more, resets>>
sync == <<asset, attempt, last, seen, late, rested>>
hist == <<missing, overtaken>>
syncVars == <<sync, fulfilled, env, pc, from, hist>>

SyncInit ==
  /\ asset = "initial" /\ attempt = 0
  /\ last = [a \in Assets |-> "none"] /\ seen = [a \in Followed |-> 0]
  /\ late = FALSE /\ rested = TRUE
  /\ fulfilled = [p \in Peers |-> {}]
  /\ fBlockchainSynced = FALSE /\ enabled \in BOOLEAN /\ spork8 \in BOOLEAN
  /\ pc = "idle" /\ from = "none" /\ resets = 0
  /\ more = TRUE /\ missing = Essential /\ overtaken = FALSE

-----------------------------------------------------------------------------
(* Reset(), from where the state of the synchronisation starts again.      *)
ResetKeepsTimes ==
  /\ asset' = "initial" /\ attempt' = 0
  /\ seen' = [a \in Followed |-> 0] /\ UNCHANGED last
  /\ late' = FALSE /\ rested' = TRUE

Reset ==
  /\ asset' = "initial" /\ attempt' = 0
  /\ last' = [a \in Assets |-> "none"] /\ seen' = [a \in Followed |-> 0]
  /\ late' = FALSE /\ rested' = TRUE

Restarted == Reset /\ missing' = Essential /\ overtaken' = FALSE

(* mnsync reset.                                                           *)
RpcReset ==
  /\ resets < MaxResets /\ asset # "initial"
  /\ Restarted /\ resets' = resets + 1
  /\ UNCHANGED <<fulfilled, fBlockchainSynced, enabled, spork8, more, pc, from>>

(* IsBlockchainSynced, in any thread: the last call was an hour ago.       *)
WakeUp ==
  /\ resets < MaxResets
  /\ Restarted /\ resets' = resets + 1 /\ fBlockchainSynced' = FALSE
  /\ UNCHANGED <<fulfilled, enabled, spork8, more, pc, from>>

(* IsBlockchainSynced: the tip is recent and cs_main is free.              *)
BlockchainSynced ==
  /\ ~fBlockchainSynced /\ fBlockchainSynced' = TRUE
  /\ UNCHANGED <<sync, fulfilled, enabled, spork8, more, pc, from, resets, hist>>

(* AddedMasternodeList, AddedMasternodeWinner, AddedBudgetItem, once the   *)
(* blocks are there.                                                       *)
Refresh(a) ==
  /\ fBlockchainSynced
  /\ last' = [last EXCEPT ![a] = "recent"]
  /\ missing' = missing \ {a}
  /\ enabled' = (enabled \/ a = "list")
  /\ UNCHANGED <<asset, attempt, late, rested, fulfilled, fBlockchainSynced, spork8, more,
                 resets, pc, from, overtaken>>

(* An item that is known by now (its handler has remembered it) puts the   *)
(* end off only MASTERNODE_SYNC_THRESHOLD times: the one that is followed. *)
CountsAlways(a)   == TRUE
BelowThreshold(a) == seen[a] < Threshold

Added(a) ==
  /\ BelowThreshold(a) /\ Refresh(a)
  /\ seen' = [seen EXCEPT ![a] = IF @ < Threshold THEN @ + 1 ELSE @]

(* Any other item: the count is per hash, and a new one is at zero.        *)
AddedNew(a) == more /\ Refresh(a) /\ UNCHANGED seen

(* The peers have nothing new any more.                                    *)
NoMoreItems ==
  /\ more /\ more' = FALSE
  /\ UNCHANGED <<sync, fulfilled, fBlockchainSynced, enabled, spork8, resets, pc, from, hist>>

(* CSporkManager: a spork message, or the RPC of the spork key's holder.   *)
SporkChanges ==
  /\ spork8' = ~spork8
  /\ UNCHANGED <<sync, fulfilled, fBlockchainSynced, enabled, more, resets, pc, from, hist>>

(* CheckAndRemove forgets the broadcasts of a masternode it removes.       *)
Removed ==
  /\ resets < MaxResets /\ enabled
  /\ seen' = [a \in Followed |-> IF a = "list" THEN 0 ELSE seen[a]] /\ enabled' = FALSE /\ resets' = resets + 1
  /\ UNCHANGED <<asset, attempt, last, late, rested, fulfilled, fBlockchainSynced, spork8, more,
                 pc, from, hist>>

-----------------------------------------------------------------------------
(* ClearFulfilledRequest, which gives up when cs_vNodes is taken.          *)
ClearFulfilledRequest ==
  \E lock \in BOOLEAN : fulfilled' = IF lock THEN [p \in Peers |-> {}] ELSE fulfilled

(* A minute has passed since the failure.                                  *)
RetryEarly == ~rested
RetryDue   == rested

(* Process() up to the walk over vNodes: synchronised, or failed less than *)
(* a minute ago, it returns ...                                            *)
NothingToDo ==
  /\ pc = "idle"
  /\ (asset = "finished" /\ enabled) \/ (asset = "failed" /\ ~RetryDue)
  /\ UNCHANGED syncVars

(* ... without masternodes, or a minute after a failure, it starts again,  *)
(* as it does after a reset, and calls GetNextAsset ...                    *)
BeginAgain ==
  /\ pc = "idle"
  /\ \/ asset = "finished" /\ ~enabled /\ Restarted
     \/ asset = "failed" /\ RetryDue /\ Restarted
     \/ asset = "initial" /\ UNCHANGED <<sync, hist>>
  /\ ClearFulfilledRequest
  /\ pc' = "begun" /\ from' = "initial"
  /\ UNCHANGED env

(* ... otherwise it goes on with the asset.                                *)
Begin ==
  /\ pc = "idle" /\ asset \notin {"initial", "finished", "failed"}
  /\ pc' = "loop"
  /\ UNCHANGED <<sync, fulfilled, env, from, hist>>

(* The rest of GetNextAsset, for the asset the switch has read: the one    *)
(* that Process saw or, when a reset came before the switch, that of the   *)
(* reset.  After the sporks Process counts an attempt of the next asset.   *)
Successor ==
  [initial |-> "sporks", failed |-> "sporks", sporks |-> "list", list |-> "mnw", mnw |-> "budget",
   budget |-> "finished", finished |-> "finished"]

GetNextAsset ==
  /\ from # "none"
  /\ \E f \in {from, asset} :
        /\ asset' = Successor[f]
        /\ IF f = from \/ f # "initial" THEN UNCHANGED fulfilled ELSE ClearFulfilledRequest
        /\ overtaken' = (overtaken \/ f # asset)
  /\ attempt' = IF from = "sporks" THEN 1 ELSE 0
  /\ late' = FALSE
  /\ from' = "none" /\ pc' = IF pc = "begun" THEN "loop" ELSE "idle"
  /\ UNCHANGED <<last, seen, rested, env, missing>>

-----------------------------------------------------------------------------
(* No new item in the last ten seconds, so we move on.                     *)
AllCame(a) == last[a] = "old" /\ attempt >= Threshold
TimedOut(a) == last[a] = "none" /\ (attempt >= Threshold * 3 \/ late)

Request == [sporks |-> "getspork", list |-> "mnsync", mnw |-> "mnwsync", budget |-> "busync"]
Asked(p) == Request[asset] \in fulfilled[p]

(* The peers at which the walk over vNodes ends.                           *)
Stops ==
  CASE asset = "sporks"          -> {p \in Peers : ~Asked(p)}
    [] asset \in {"list", "mnw"} -> {p \in Peers \ Old : AllCame(asset) \/ ~Asked(p)}
    [] asset = "budget"          -> {p \in Peers \ Old : AllCame(asset) \/ TimedOut(asset) \/ ~Asked(p)}
    [] OTHER                     -> {}
First == CHOOSE p \in Stops : \A q \in Stops : p <= q

Return == pc' = "idle" /\ UNCHANGED from
ToNext == pc' = "next" /\ from' = asset
Fulfil == fulfilled' = [fulfilled EXCEPT ![First] = @ \cup {Request[asset]}]

(* The blocks are not there yet, cs_vNodes is taken, or no peer is left.   *)
NotNow ==
  /\ pc = "loop"
  /\ Return /\ UNCHANGED <<sync, fulfilled, env, hist>>

Ready == pc = "loop" /\ Stops # {}

AskSporks ==
  /\ Ready /\ asset = "sporks"
  /\ Fulfil
  /\ IF attempt >= 2 THEN ToNext /\ UNCHANGED attempt ELSE Return /\ attempt' = attempt + 1
  /\ UNCHANGED <<asset, last, seen, late, rested, env, hist>>

(* This asset is complete.                                                 *)
MoveOn ==
  /\ Ready /\ asset \in Assets /\ fBlockchainSynced
  /\ AllCame(asset)
  /\ ToNext /\ UNCHANGED <<sync, fulfilled, env, hist>>

(* Nothing has come for too long.  The list and the winners are needed     *)
(* when payments are enforced; maybe there are no budgets at all.          *)
Needed(a) == spork8 /\ a \in Essential

GiveUp ==
  /\ Ready /\ asset \in Assets /\ fBlockchainSynced
  /\ TimedOut(asset)
  /\ IF asset = "budget" THEN UNCHANGED fulfilled ELSE Fulfil
  /\ IF Needed(asset)
     THEN asset' = "failed" /\ attempt' = 0 /\ rested' = FALSE /\ Return
     ELSE ToNext /\ UNCHANGED <<asset, attempt, rested>>
  /\ missing' = IF Needed(asset) THEN missing ELSE missing \ {asset}
  /\ UNCHANGED <<last, seen, late, env, overtaken>>

AttemptedAgain == attempt + 1
Attempted      == IF attempt >= Threshold * 3 THEN attempt ELSE attempt + 1

Ask ==
  /\ Ready /\ asset \in Assets /\ fBlockchainSynced
  /\ ~AllCame(asset) /\ ~TimedOut(asset)
  /\ Fulfil /\ Return
  /\ attempt' = Attempted
  /\ UNCHANGED <<asset, last, seen, late, rested, env, hist>>

-----------------------------------------------------------------------------
(* A connection ends and another takes its place.                          *)
NewPeer(p) ==
  /\ fulfilled[p] # {} /\ fulfilled' = [fulfilled EXCEPT ![p] = {}]
  /\ UNCHANGED <<sync, env, pc, from, hist>>

(* Time passes.                                                            *)
ItemAges(a) ==
  /\ last[a] = "recent" /\ last' = [last EXCEPT ![a] = "old"]
  /\ UNCHANGED <<asset, attempt, seen, late, rested, fulfilled, env, pc, from, hist>>

RequestAges ==
  /\ ~late /\ asset \in Assets /\ late' = TRUE
  /\ UNCHANGED <<asset, attempt, last, seen, rested, fulfilled, env, pc, from, hist>>

FailureAges ==
  /\ ~rested /\ rested' = TRUE
  /\ UNCHANGED <<asset, attempt, last, seen, late, fulfilled, env, pc, from, hist>>

-----------------------------------------------------------------------------
InLoop  == AskSporks \/ MoveOn \/ GiveUp \/ Ask
Process == NothingToDo \/ Begin \/ BeginAgain \/ GetNextAsset \/ InLoop \/ NotNow

TimePasses == RequestAges \/ FailureAges \/ \E a \in Assets : ItemAges(a)

SyncNext ==
  \/ Process \/ RpcReset \/ WakeUp \/ BlockchainSynced \/ Removed
  \/ SporkChanges \/ NoMoreItems
  \/ \E a \in Followed : Added(a)
  \/ \E a \in Assets : AddedNew(a)
  \/ \E p \in Peers : NewPeer(p)
  \/ TimePasses

(* The thread keeps calling Process, which gets cs_vNodes now and then;    *)
(* time passes on each of the clocks; the blocks are downloaded.  An item  *)
(* that is refreshed all the time would never age: SyncEnds, which needs   *)
(* ItemAges, is about behaviours in which new items stop coming.           *)
Fairness ==
  /\ WF_syncVars(Process) /\ SF_syncVars(InLoop)
  /\ WF_syncVars(BlockchainSynced)
  /\ WF_syncVars(RequestAges) /\ WF_syncVars(FailureAges)
  /\ \A a \in Assets : WF_syncVars(ItemAges(a))

SyncSpec     == SyncInit /\ [][SyncNext]_syncVars
FairSpec == SyncSpec /\ Fairness
-----------------------------------------------------------------------------
SyncTypeOK ==
  /\ asset \in DOMAIN Successor /\ attempt \in 0..(Threshold * 3 + 2)
  /\ last \in [Assets -> {"none", "recent", "old"}]
  /\ seen \in [Followed -> 0..Threshold]
  /\ fulfilled \in [Peers -> SUBSET {Request[a] : a \in DOMAIN Request}]
  /\ pc \in {"idle", "begun", "loop", "next"} /\ from \in DOMAIN Successor \cup {"none"}
  /\ missing \subseteq Essential /\ more \in BOOLEAN
  /\ late \in BOOLEAN /\ rested \in BOOLEAN /\ fBlockchainSynced \in BOOLEAN
  /\ enabled \in BOOLEAN /\ spork8 \in BOOLEAN /\ overtaken \in BOOLEAN

(* The node counts as synchronised only when masternodes and winners have  *)
(* arrived since the last reset or were given up since then at a moment at *)
(* which payments were not enforced, whatever resets, removals and new     *)
(* peers came in between.  So a node whose SPORK_8 comes late enforces     *)
(* payments without them.  The exception is a reset that GetNextAsset      *)
(* overtook.                                                               *)
SyncedHasItems ==
  asset = "finished" /\ ~overtaken => missing = {}

(* Every round of the synchronisation ends if there is now and again a     *)
(* peer that has not been asked anything and new items stop coming:        *)
(* neither items that come again and again nor requests that nobody        *)
(* answers keep it going for ever.  New items do: each of them puts the    *)
(* end off, and nothing limits them.                                       *)
SyncEnds ==
  (\E p \in Peers \ Old : []<>(fulfilled[p] = {})) /\ <>~more
    => []<>(asset \in {"finished", "failed"})

(* "Sync has failed, will retry later": it does, and asks again.           *)
FailedIsRetried == asset = "failed" ~> asset = "sporks"
=============================================================================
