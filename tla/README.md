# A verification development for MERGE

MERGE is a proof-of-stake coin of the Bitcoin / Dash / PIVX family. This directory
holds TLA+ models of its node software: modules that follow the C++ sources under
`src/src/`, TLC configurations that check them on small instances, and TLAPS proofs
of the results that hold for every instance. `PROJECT.json` is the index: every
definition that models code is mapped to the lines it models, every run names its
properties, and every property of a passing run has a mutant, a plausible error in
the modelled code that the property notices.

Paths below are relative to `src/src/` unless they start with `src/`.

## 1. The system

One process, many threads. `ThreadMessageHandler` (net.cpp) takes messages from
peers and calls `ProcessMessage`; `ThreadScriptCheck` threads verify scripts;
RPC threads serve commands; `ThreadStakeMinter` (net.cpp) and the miner make
blocks; `ThreadCheckObfuScationPool` (obfuscation.cpp) runs the second-by-second
maintenance of the masternode layer; `ThreadFlushWalletDB` writes the wallet. The chain state is
guarded by the recursive mutex `cs_main`; most other components have a mutex of
their own, and some (the SwiftTX maps) have none.

### Inventory

| component | state | operations | what is hard | what makes it correct |
|---|---|---|---|---|
| Script check queue (checkqueue.h) | the queue, nIdle, nTotal, nTodo, fAllOk, a result per thread | Add, Loop (worker and master), Wait, interruption | wakeups, accounting outside the lock, shutdown | Wait() answers for exactly the checks added; it returns; the next block finds an idle queue |
| Coin views (coins.*, txdb.cpp) | LevelDB records, two caches with DIRTY and FRESH flags, a best block per level | lookups, ModifyCoins, SetBestBlock, Flush, BatchWrite | flags that lie resurrect spent coins; crash before a flush | the stack shows plain UTXO sets |
| Block connection (main.cpp, undo.h) | the UTXO set, undo records, mapStakeSpent | UpdateCoins, ConnectBlock, DisconnectBlock, stake check of AcceptBlock | exact undo over long sequences of partial spends | the coins are those of a replay of the active chain |
| Block index and chain selection (main.cpp, chain.*) | mapBlockIndex with status flags, setBlockIndexCandidates, mapBlocksUnlinked, chainActive | AcceptBlock, ActivateBestChain, invalidateblock, reconsiderblock, DisconnectBlocksAndReprocess, LoadBlockIndexDB | blocks out of order, cs_main given up between steps, invalid blocks in the middle of a reorganisation | the node settles on the best valid chain whose data it has |
| Chain state on disk (main.cpp, txdb.cpp, init.cpp) | block files info, index entries, coins, the clean-shutdown mark | FlushStateToDisk, PrepareShutdown, LoadBlockIndexDB | a crash between any two writes, a write that fails | what is on disk is the state of one chain the node can start from |
| Memory pool and acceptance (txmempool.*, main.cpp) | mapTx, mapNextTx, mapDeltas, orphan maps | AcceptToMemoryPool, addUnchecked, remove, removeConflicts, removeForBlock, orphans | reorganisations put transactions back; limits | no conflicts, every input in the chain or the pool |
| SwiftTX (swifttx.*) | lock requests, votes, locks, locked inputs, rate limits | ix and txlvote messages, conflict check, expiry | votes before requests, conflicting locks, expiry, no mutex | a complete lock holds its inputs, so that two conflicting transactions are not both final |
| Masternode list (masternode*.cpp) | vMasternodes, seen broadcasts and pings, request times | announcements, pings, CheckAndRemove, payment queue | order of announcement, ping and expiry | state agrees with the last ping and the collateral |
| Active masternode (activemasternode.cpp) | status, ping | ManageStatus | restart, collateral spent | pings only while enabled |
| Masternode sync (masternode-sync.cpp) | asset, attempt, counters, times | Process, ProcessMessage, GetNextAsset, Reset | timeouts, resets, few peers | every asset is asked for; the sync ends |
| Masternode payments (masternode-payments.cpp) | votes per block and payee | winner votes, IsTransactionValid, cleanup | vote order, ranks that change | a block pays a payee with enough votes |
| Budget (masternode-budget.cpp) | proposals, finalised budgets, votes, orphan votes | proposals, votes, finalisation, payment | votes before proposals, expiry, collateral | votes count once; order of delivery does not matter |
| Obfuscation (obfuscation*.cpp) | pool state, entries, signatures, session | queue, entries, signing, timeouts | many parties, timeouts, charging | coins stay owned by their owners |
| Sporks (spork*.cpp) | active sporks | receive, sign, persist | old messages after new ones | the newest signed value wins |
| Stake kernel and miner (kernel.cpp, miner.cpp) | stake modifiers, staking loop | modifier selection, CreateNewBlock | reorganisation under the staker | staked blocks extend the tip |
| Network (net.cpp) | vNodes, reference counts, bans, queues | accept, disconnect, send, receive | a node deleted while in use, counts changed without a lock | a reference keeps a node alive; slots come back |
| Peer addresses (addrman.*) | new and tried tables, counts | Add, Good, Attempt, Select | long sequences of collisions | Check_ invariants |
| Message processing and block download (main.cpp) | blocks in flight, peers' best blocks, misbehaviour | ProcessMessages, SendMessages | stalling, timeouts, duplicates | a block in flight is asked of one peer and comes or times out |
| Wallet (wallet.*, walletdb.*, crypter.*) | mapWallet, spends, key pool, locked coins, encryption | AddToWallet, CommitTransaction, reserve keys, lock | conflicts, rescans, interleaved key reservations | balances follow the chain |
| Alerts, time, bounded containers, lock order (alert.cpp, timedata.cpp, mruset.h, limitedmap.h, sync.cpp) | small | small | limits | limits respected |
| Validity rules, scripts, keys, bloom and merkle blocks | none | pure functions | cryptography, arithmetic | inputs of the models: the sets of bad blocks and checks |
| RPC, REST, ZMQ, Qt, Tor, start-up, vendored code | presentation and I/O | | | not modelled, see section 7 |

How they interact: `ProcessNewBlock` stores a block in the index (BlockTree,
ChainStore) and calls `ActivateBestChain`, whose steps call ConnectTip and
DisconnectTip (BlockCoins) on views over pcoinsTip (CoinsCache); ConnectBlock hands
its script checks to the check queue (CheckQueue); each step ends in
FlushStateToDisk (ChainStore) and in callbacks to the pool and the wallet. Connected
and disconnected blocks change the memory pool (Mempool). The two handlers of net.cpp
bring messages in (Net), from peers whose addresses AddrMan keeps. The masternode layer
asks its assets of those peers one after the other (MasternodeSync); what arrives feeds
the budget (Budget) and SwiftTX. It reads the chain (ranks, confirmations), and acts on
it in two ways: SwiftTX and sporks call `ReprocessBlocks`, which disconnects blocks and
activates again (BlockTree), and a block must pay the budget that has the votes
(BudgetPayment).

## 2. The plan

The order is that of importance: first what decides the node's view of the chain.

1. **CheckQueue** - done, proved.
2. **CoinsCache** over CoinsMap, abstract specification **UtxoViews** - done, proved.
3. **BlockCoins** on the plain UTXO set that CoinsCache implements - done, proved.
4. **BlockTree** on the tree of **Ancestry** - done, proved.
5. **ChainStore** on the same tree - done, proved.
6. **SwiftTX** - done, proved.
7. **Mempool** with acceptance and orphans, on a chain that reorganises - done, proved.
8. **AddrMan** - done, proved.
9. **Net**: the life of a connection - done, proved.
10. **MasternodeSync** - done, its invariants proved, its liveness model-checked.
11. **Budget** with **BudgetPayment** - done, proved.
12. Not begun: **Masternodes** (list, pings, active masternode), **MasternodePayments**,
    **Sporks**, block download, **Wallet**, **Obfuscation**, the small containers.

The runs stay few, one per question.

## 3. The modules

Each run's module is `MC` and the name of the component's module; it holds the values of
the constants that a cfg cannot write. Operators marked MUTANT are errors put in on
purpose, one or more per property; no specification uses them.

### CheckQueue
One thread per `ThreadScriptCheck` plus the master inside ConnectBlock. The critical
sections of `Loop()` are the actions (`Enter`, `WakeUp`, `Cleanup`, each going through
`LoopTop`: return, sleep, or take a batch); `Execute` runs one check outside the lock.
`Add`, `OpenControl` (the controller's constructor), `Wait` (from ConnectBlock or from
the destructor when ConnectBlock returns early: `unwinding`) and boost's interruption are
the rest. A condition variable may wake without a notification (`SpuriousWakeup`,
external). The vector of checks is a set: any batch of the size the code computes may be
taken, which includes the one the code takes. `added`, `passed` and `verdict` are history
variables.

### CoinsMap, CoinsCache, UtxoViews
CoinsMap has the operators of CCoinsViewCache (FetchCoins, ModifyCoins, BatchWrite with
its four cases and its assertion) and of CCoinsViewDB (BatchWrite) on a map from
transactions to entries with flags. CoinsCache is the stack ConnectTip, DisconnectTip and
FlushStateToDisk use: the database, pcoinsTip, and a view per block. What a caller leaves
in an entry it modifies is any CCoins. UtxoViews is what the stack promises: three plain
UTXO sets with their best blocks; a scratch set that is committed or dropped, a tip that
is persisted at once, a crash that goes back to the persisted one.

### BlockCoins
The whole of UpdateCoins, ConnectBlock's loop and DisconnectBlock's loop over the
transactions of a block, on coins with the height and the two flags of CCoins (`kind`: the
two exclude each other), with undo records as `Spend` makes them, and mapStakeSpent with its
window. The loops are recursive functions that give the view after every turn
(`SpendInputs`, `ConnectTxs`, `RestoreInputs`, `DisconnectTxs`), beside a predicate that says whether
every turn finds what it expects (`Connects`, `Disconnects`). A block that fails a
check of amounts, scripts or signatures is not in `Blocks`; missing and immature inputs
are modelled. `DisconnectFails` is DisconnectTip on coins that are found unclean: the view
is thrown away, the changes to the global mapStakeSpent stay. `flagless` is a history
variable: the coinstakes that have lost fCoinStake by an undo (section 6). `Restart` is a clean
shutdown and a start: coins, blocks and undo records stay, mapStakeSpent, which is in memory only,
is empty; `since` are the blocks of the active chain connected after it. `StakeCheck(b, have)` is the
stake part of AcceptBlock, where `have` are the blocks of the fork (`Fork`) whose data are there: of
the others ReadBlockFromDisk gives an empty block, and its result is not looked at (main.cpp:3456).
AcceptedStakeIsUnspent is stated for every such set. The module assumes of a block what CheckBlock and CheckTransaction
test (a coinbase first and only there, no input twice in a transaction), that a hash names one
transaction, and that the coinbases of one chain differ, which the height in their script
gives; the test against overwriting (main.cpp:2096) is skipped for every block of the index, and the
model has none.

### Ancestry
The tree of CBlockIndex entries that BlockTree, ChainStore, BlockCoins and Mempool share: parents, heights and
the ancestors of a block. The walk along pprev is stated without recursion, as the least
set that holds the block and is closed under taking the parent, so that it can be proved
about.

### BlockTree
Every action is one hold of cs_main: AcceptBlock with ReceivedBlockTransactions;
one turn of ActivateBestChain's loop (FindMostWorkChain and ActivateBestChainStep);
InvalidateBlock; ReconsiderBlock; DisconnectBlocksAndReprocess (which, with argument n,
calls DisconnectTip n + 1 times: both ends of its loop are included); Restart. DisconnectTip may fail
on any block, as BlockCoins shows it does: then a step of ActivateBestChain returns with the
blocks above disconnected (`StepFails`, `halted`), InvalidateBlock returns before it has made candidates
again and with blocks of the active chain marked failed (`InvalidateFails`, `defied`), and
DisconnectBlocksAndReprocess, which ignores the result, goes back less far than it was told. The failed flags
are modelled with what of them is on disk: FindMostWorkChain sets BLOCK_FAILED_CHILD
without marking the entry dirty, so a restart may lose it (`childDirty`). A block invalid
for ConnectBlock is in `Bad`, for ContextualCheckBlock in `BadContext`. A disk that fails
shuts the node down and is in ChainStore only. A start that would leave no candidate ends in an assertion
(PruneBlockIndexCandidates) and is not taken. `descended` records that ReconsiderBlock was
called for a descendant of a failed block, after which the candidates are incomplete
(section 6). pindexBestInvalid and pindexBestHeader, which
feed warnings and block download, are left out.

### ChainStore
FlushStateToDisk write by write: the block file info, the dirty index entries one at a
time in any order, the coins in one batch, which may fail (the cache is empty afterwards
all the same); before it the write of the index entry inside ConnectBlock, which comes
before the undo data has been recorded. A crash may come between any two writes; memory
is lost, what was written stays. The coins are the set of the blocks whose effects they
hold. Load is LoadBlockIndexDB with the repair of this code base: after an unclean
shutdown it replays the blocks between the coins' best block and the end of the block
file, found by position in vSortedByHeight. That vector is given by its order, `Before`:
the position of a block is the number of entries before it, and a search through the
vector finds the `Foremost` entry with the property searched for. The write of the repaired coins is done,
throws, or is "logged" (main.cpp:3879): LevelDB's wrapper throws on every error (leveldbwrapper.cpp),
so the start fails; if Flush returned false instead, the start would go on with an emptied cache under the
new best block, and the model has both. `mishaps` records what puts the
coins beyond the properties: a repair over an index with forks ("mixed"), a repair that could not write
("unsaved"), coins lost by a failed write and then marked as written ("abort"). A start that finds an
entry without its parent has the status "split" and counts as a failed one. Block file info becomes stale
when a repaired node goes on along blocks whose data it had before; a second crash is then refused.

### Mempool
mapTx, mapNextTx and the two orphan maps on a chain that connects and disconnects blocks;
the outputs there are are a function of the tip, which is what BlockCoins shows. The coinstake flag
of a coin is not: DisconnectBlock brings a spent-out coinstake back without it (`FlaglessAfter`), after
which maturity is not asked of it (`Flagged`, `Immature`) and the block that made it cannot be disconnected
(`DisconnectsCleanly`). The actions are
ConnectTip and DisconnectTip as far as the pool is concerned (removeForBlock with
removeConflicts, resurrection in block order, removeCoinbaseSpends), the `tx` message up
to acceptance, rejection or the orphan map with its eviction, and the work queue of
orphans one turn at a time, with the erasing at its end. `doubled` records that a double
spend has entered, which the code does not prevent (section 6). `LockConflicts` is
DisconnectBlockAndInputs, which nothing calls at this commit; it costs nothing and is kept. The loops are recursive
functions of the number of turns (`RemoveLoop`, `ConflictsLoop`, `RemoveForBlock`,
`RemoveAll`, `ResurrectBlock`); that of remove() works off txToRemove, which it also extends,
and is given as many turns as there can be work: one per entry of the queue and one per output of
the pool's transactions. The module assumes that a transaction outside the minted ones spends something and
the genesis block nothing, that what a block's transaction spends was made earlier on its chain, and
that a chain holds no transaction twice.

### AddrMan
CAddrMan's tables as one record under its mutex: mapInfo, mapAddr, vRandom, the two
bucket tables and the counts. Add_ with its eviction, Good_ with MakeTried and the
eviction out of the tried table, GetAddr_ with SwapRandom, Delete and ClearNew are
written out; the services, the buckets and the bucket hashes are constants. Restart is Serialize and Unserialize, with
the same or with other bucket counts; the loops over the entries of the file and the
swaps of GetAddr_ are recursive functions of the turn, so that they can be proved about. The
positions of the new table are read in one step (`FromFile`): in a file that the node wrote no two entries
want one place and none has more than `MaxRefs`, and then the two tests of that loop decide nothing.

### Net
CNode from its construction to its deletion, for the socket handler, the message handler
and the threads that call ConnectNode (`Threads`): through OpenNetworkConnection with a slot
(opencon, addcon, one-shots) or without (-connect, `addnode onetry`), to check a masternode, or to
mix; `Does` says which thread calls it for what. Both handlers copy vNodes with references, walk over the
copy and release it; the socket handler also disconnects, tests nRefCount of what is
disconnected (`TestNode`) and deletes it (`DeleteNode`): two steps, since no lock is held.
The end of OpenNetworkConnection is two steps as well, the move of the slot (`MoveTo`) and the
network flag (`NetworkNode`). nRefCount and a slot's flag are changed without cs_vNodes in places: when two
such changes meet one is lost ("raced"), and when a deleted node is used anything may happen
("freed"); both are steps of the model and end it (`mishaps`), and the properties speak of the
executions up to there. `lost` counts the references that the code takes and nobody releases, and
`late` marks one that was added between test and delete. Merged into one step are the mixing flag and
the AddRef beside it (net.cpp:390-392), and a new node and its flag (421-426).

### MasternodeSync
Process() in its steps (`Begin`, the walk over vNodes, `GetNextAsset`), the items of the
assets arriving in the message handler, time passing, SPORK_8 changing at any time, and `Reset()`, which other threads
call without a lock between any two of those steps (its assignments are one step). An item that comes again is
counted per hash: for an asset in `Followed` one hash is followed up to its threshold (`Added`), and any
number of items with other hashes come (`AddedNew`) until the peers have no new ones (`more`).
`missing` are the assets of the list and the winners of which nothing came since the last reset and which were not
given up at a moment when payments were not enforced; `overtaken` says that a GetNextAsset in progress
wrote over a reset.

### Budget, BudgetPayment
Budget is CBudgetManager: items and votes in any order, orphan votes, immature items, our
own votes and submissions, the votes' update rule with its hour, the refusal of votes more than an hour ahead of
our clock (`now`; the time in a vote is the voter's), removal of masternodes, the
incremental synchronisation with its marks, NewBlock and restarts. `lost` and `early` name the votes
that the code forgets although it has seen them (section 6), `unchecked` the items that came in without a look at
the orphans, `offered` what has been announced. BudgetPayment has the arithmetic of who
is paid as operators on vote counts: what a miner fills in and what the others accept.

### SwiftTX
The maps of swifttx.cpp and the threads that share them. A lock request (`ix`) is two
steps, `LockRequest` up to the wait for cs_main and `RequestAccepted` or
`RequestRejected` after it, because the cleanup thread and the wallet run in between;
`ConsensusVote` is the whole of a `txlvote` message with ProcessConsensusVote; then the
wallet's own request and CleanTransactionLocksList. The pool, the masternode list and the
clock are environment: AcceptToMemoryPool may take or refuse any request, one that conflicts with a transaction
of the pool included (it does not look, section 6), and a vote may find its masternode unknown.
The height of a lock is that of the first input plus 3, from two readings of the tip without cs_main, so it
is any of `VoteHeights`, or 0 when an input is too young. The clock counts every lock's remaining time down, so that time
needs no bound. The votes of a lock are a set of pairs of a vote and the number of its copies before it:
duplicates would count, their order does not matter. `loose` names the complete locks whose inputs the code does not
hold (section 6). ReprocessBlocks, which two of the actions call, acts on the chain only and is
in BlockTree. Note that nothing in block validation or in the memory pool reads mapLockedInputs: a
lock influences what the wallet shows and what SwiftTX itself decides.

## 4. The runs

| run | what it checks | instance |
|---|---|---|
| check_queue | counters, verdict, idle queue between blocks, Wait() returns | 2 workers, 4 checks with a bad one, batches of at most 2 |
| coins_cache | flags, the flush assertion, refinement of UtxoViews | 2 transactions with 2 unspent values each, 2 block hashes, any initial database |
| block_coins | coins equal a replay, the tip can be disconnected, stakes are judged by the chain | 14 blocks on three branches, maturity 1, reorganisation window 2, restarts at any time |
| block_tree | the index is consistent, the node settles on the best chain or can try again, work drops only where a block is invalid or cannot be disconnected, the loop ends | 6 blocks on three branches, one bad, one bad in context, one checkpoint, 2 orders of addresses, 2 operations, commands on a block and on its child |
| chain_store | coins on disk are a chain backed by the index, memory agrees after a start, recovery works | 4 blocks on two branches, 2 shutdowns or crashes, coin writes that may fail, that of the repair included |
| mempool | the pool agrees with its indexes and the chain, can be mined, orphans are found and resolved | 7 loose transactions, 5 blocks with 2 coinstakes on two branches, maturity 2, 2 orphans, 2 peers |
| mempool_conflict | violation: two transactions of the pool spend the same output | same |
| addrman | Check_, reading back what was written, tried addresses are not forgotten | 3 addresses (one under 2 ports), 3 sources, 3 new buckets, 2 tried slots |
| net | references and slots are accounted for, a node in use is not deleted, closed connections go away | one node slot used again and again, 2 handlers, 2 threads that call ConnectNode (one opens, the other does everything), 2 outbound slots, 1 inbound place, 1 unreleased reference |
| masternode_sync | a synchronised node has its items, every round ends, a failure is retried | 4 assets, threshold 2, 1 followed item, any number of new ones, 1 peer that may be replaced, SPORK_8 changing, 1 reset, wake-up or removal from outside (`MaxResets`) |
| budget | no vote is forgotten, what counts as synchronised was offered, what is paid is accepted | 2 budgets (one with a young fee), 2 masternodes (one comes and goes), 4 votes, all for one budget, one of them possibly too far ahead of a clock with 2 values |
| swift_tx | distinct signers, locks, requests and inputs agree, every lock ends | 2 conflicting transactions with 1 and 2 vote heights, 1 masternode whose signature is enough |

Most invariants of the runs are conjunctions of named parts (`IndexConsistent`,
`PoolConsistent`, `Check` and so on), each with its own comment in the module and nearly
all with a mutant of their own; the type invariant of the module is the first part.

**Why the bounds are enough.** CheckQueue: four checks are the fewest with which a batch
of two is taken, two workers the fewest with which one worker can finish last while the
other sleeps and the master waits; the proofs cover the rest. CoinsCache: the entries of
different transactions do not interact, two show that; the proof covers the rest.
BlockCoins: the tree has every way an output can be spent and come back (alone, with
others, in the block that made it, on both branches at different heights), a window
shorter than its branches, and blocks s5 and s6, which spend a coinstake at once and, after it
has come back without its flag, cannot be disconnected below it; a restart may come before every step, and every
set of missing fork blocks is tried. BlockTree: three branches give a reorganisation of a
reorganisation, ties, a path through less work (block c2 is harder), a refused block (a3) at the end of a
reorganisation after which the node must go back to c2, and a block that waits for two missing ancestors; the operations bound admits invalidate and reconsider, of the same block or
of a block and its child, in both orders, and either with a restart; each of them and each activation may
fail at any block it disconnects. Addresses, which break ties after a restart, are in one order and in its reverse. ChainStore: a chain of three and a branch give positions in the
sorted vector that a fork shifts, and two crashes admit a crash during the recovery of
another. Mempool: a chain of three dependent transactions, one with two parents, a
conflict with the first of them that the other branch confirms, spends of a coinbase and of a coinstake that
a reorganisation makes immature or removes, a coinstake spent on both branches that loses its flag when either
is disconnected, an invalid child, and more orphans than there
is room for. AddrMan: collisions in both tables, two ports of one address, and an address in
as many buckets as an entry may have references. Net: the interleavings that matter are on
one node and across its reuse; two threads are enough to move two slots to it, to add a reference to a node
that is tested for deletion, and to meet in an update, and a reference that is lost (`MaxLost`) is seen in every
property before new calls stop. The theorems hold for any number of nodes and threads. MasternodeSync: a second peer only repeats what a fresh one does
(the invariants were also checked with a second peer of an old version); one item is followed, since the
counts of different hashes do not interact. Budget: three votes of one masternode
for one budget, the middle one too soon and the last one possibly too far ahead; proposals and finalised budgets share their code
and do not interact, so there are none. Only budget 1 gets votes in the run (a vote for the second makes the instance too
large); the theorems cover the rest. SwiftTX: one of two conflicting transactions has a
second input, so that a conflict may be partial; a vote may have the height of the lock, that of the other reading of the tip, or 0,
and may find its masternode unknown; with one signature required every vote of the right height completes
a lock, and the theorems cover more signers. Cleanups and new requests repeat without a bound.

Deadlock is not checked in BlockTree and ChainStore, where the bounded operations run
out, and in SwiftTX, where nothing may be left to happen; it is in the others.

**Fairness.** check_queue assumes weak fairness of every thread's next step: a thread that
holds or can get the mutex is scheduled, and a notified thread returns from wait. It does not
assume that an interruption or a spurious wakeup ever happens. block_tree assumes weak
fairness of ActivateBestChain: a thread in the loop asks for cs_main until it has it.
swift_tx assumes that time passes and that the cleanup, which
ThreadCheckObfuScationPool calls once a minute, goes on running. net assumes that both
handlers go on looping and come round to every node, that a call of ConnectNode goes on,
and that a ping over a closed socket, which is tried again and again, fails at some point (strong fairness: the ping is
sent only when no earlier data is waiting). Each of these is fairness of `Defined /\ A`: the mishaps are steps of the same
specification, after one nothing is required, and both liveness properties have `mishaps # {}` as their way out. Nothing is assumed of peers: a connection may stay
for ever. masternode_sync assumes that the thread goes on calling Process(), that its
TRY_LOCK on cs_vNodes succeeds at some time (strong fairness, since it may also fail), that time
passes on each of its clocks and that the blocks are downloaded; that a fresh peer comes now and again and that
new items stop coming at some time are hypotheses of SyncEnds itself, because without a fresh peer the code does wait, and
every new item puts the end of its asset off. The other actions
have none.

## 5. What is proved

Eight modules hold proofs, checked by TLAPS with SMT, Zenon and LS4; one of them,
AncestryProofs, only lemmas. Each of the others proves for each specification that an invariant (`IInv`,
`QueueInv`, `PoolInv`, ...) is inductive, one lemma per action, and derives from it the properties that a run checks:
the run shows them on a small instance, the theorem for every value of the constants.
The constants are assumed to be what the named `ASSUME` of each module says, and every
bound (`MaxOps`, `MaxDowns`, `MaxLost`, `MaxClears`) may be any natural number (`MaxLost` any but 0), so the
theorems do not depend on it.

| module | theorem | property |
|---|---|---|
| ValidationProofs | FlagsAreTruthful, FlushAssertionNeverFails, CachesImplementUtxoViews | FlagsTruthful, FlushAssertionHolds, the refinement ImplementsUtxoViews (CoinsCache) |
| | QueueTypeCorrect, VerdictIsCorrect, TodoIsExact, QueueIdleBetweenBlocks | QueueTypeOK, VerdictCorrect, TodoCountsOutstanding, IdleBetweenBlocks (CheckQueue) |
| NetworkProofs | ReferencesTheorem, ResourcesTheorem | ReferencesExact, ResourcesAccounted (Net) |
| | AddressTablesAgree, TriedAddressesStay, RestartAlwaysKeeps | Check, the action property TriedNotForgotten, RestartKeepsTables (AddrMan) |
| BlockTreeProofs | IndexTheorem, SettledTheorem, WorkTheorem | IndexConsistent, SettledOnBest, the action property WorkNeverDrops |
| ChainStoreProofs | DiskCoinsTheorem, CoinsBackedTheorem, MemoryTheorem, RecoveryTheorem | DiskCoinsAreAChain, CoinsBackedByIndex, MemoryConsistent, RecoveryIsSound |
| BlockCoinsProofs | CoinsAlwaysReplayed, TipAlwaysDisconnects, StakesAlwaysFollow | CoinsAreReplayed, TipCanBeDisconnected, StakesFollowChain |
| MempoolProofs | PoolAlwaysConsistent, PoolAlwaysMinable, OrphanIndexAlwaysExact, OrphansAlwaysResolved | PoolConsistent, PoolCanBeMined, OrphanIndexExact, the action property OrphansResolved |
| MasternodeProofs | VotesTheorem, SyncedTheorem, PaymentTheorem | VotesCounted, SyncedWasOffered, FilledIsAccepted (Budget) |
| | SyncTypeCorrect, SyncedNodeHasItems | SyncTypeOK, SyncedHasItems (MasternodeSync) |
| | LocksTheorem, SignersTheorem | LocksConsistent, SignersDistinct (SwiftTX) |

**ValidationProofs** has two parts, one for each of the modules it extends. *CoinsCache*, for any set of transactions, outputs and blocks. The inductive
invariant is TypeOK, FlagsTruthful and `PulledThroughTip`: an entry of a block's view that
is not FRESH is in pcoinsTip as long as the view exists. Without that conjunct the
flush assertion does not follow, and with it BatchWrite's four cases each preserve what the
level shows. Lookups refine to stutters, ModifyCoins to an edit of the scratch set, the
two flushes to commit and persist.

*CheckQueue*, for any finite set of workers, any finite set of checks, any subset of
bad ones and any positive batch size. None of the four properties is inductive. The
invariant `QueueInv` adds: nIdle and nTotal
count the threads that wait and that are in the loop (`PoolInv`); queue and batches are
disjoint and together with what was accounted for are what was added (`BatchInv`); nTodo
is the number of checks queued or in a batch (`TodoCountsOutstanding`); fAllOk and the local results are false only if a bad check ran and true only if
all accounted for passed (`ResultInv`). The verdict then follows when nTodo is 0: no
batch is left whose result has not been merged.

**NetworkProofs** also has two parts. *Net*, for any number of nodes and slots and any finite set of threads that call
ConnectNode. RefCountExact is not inductive: to release a reference a
thread must be known to hold one. The invariant says where the threads are
(`ThreadsInv`), and of every place of a node (`NodesInv`): a deleted node is in nobody's hands but in those of a call with a
late reference (`Unused`, `AllLate`); of any other the count equals the holders, a slot outside vNodes comes with a lost reference or
with a call that has moved it there and is about to lose its own, and once the node has been tested for deletion all
references to it are late (`Counted`). `SlotsInv` and `SyncInv` count the
slots and the synchronising peers. Two updates that meet and a use of a deleted node end the
model; that neither ever happens is not claimed, since both do (section 6).

*AddrMan*, for any finite sets of services, buckets, places and tried slots, any sources and any hashes
that stay within the tables. The operations are functions of the whole record, most of them made
of others, so the proof follows their structure. `Sane` is what every one of them keeps: mapAddr
names the entry of each address and nothing else (`Indexed`), vRandom and nRandomPos are inverse
(`Ordered`), the new table holds untried entries in places of their own as often as their reference
count says (`NewOk`), and the tried table the tried ones (`TriedOk`). The counters and "every entry has a
place" are broken inside an operation - Create leaves an entry without a place, LeaveNew one without a
table - so the lemmas say by how much (`Tallied(m, k)`), and which entry is the exception. The
inductive invariant `AddrInv` asks for no exception: `Sound(am)`, which is Sane, no lost entry, exact counters and
no more than MaxRefs references, and identifiers within the bound. Check follows from it by counting.
TriedNotForgotten rests on MakeTried: the entry that is evicted from the tried table is not the one in the new
place that makes room for it.
For the restart, `Sorted` and `Number` are shown to be inverse bijections between a finite set of
identifiers and the positions in the file (by counting, without induction). The loops that read go through
stages (`Stage`): after n turns the tables hold the first n entries of the file under the identifiers 0 to n-1. `LoopStages`
lets each turn be proved once. No tried entry is lost, because two of them never wanted the same slot. Then the
buckets of the file give every entry back exactly the places it had (`BucketsFacts`, `Copied`), so that nothing is
left to prune and both views are equal. With other bucket counts each new entry competes for the place of its own source; those
that lose are pruned, which disturbs no other (`DeleteAll`), and the tried ones stay.

**AncestryProofs** has what the next four need of the tree: ancestors are closed, transitive and
linearly ordered, there is exactly one at every height, and `Height[b] + 1` in all; and in a
finite set with a strict total order every position is taken and there is a first element.
Since ancestors are the least closed set, and the least element of a set of naturals is in
the library, none of this needs induction over data. The library's induction theorems take an operator
and cannot be used, so the module also proves, from the same least element, `Climb` (a set of numbers
that holds 0 and with n also n + 1 holds every turn of a loop) and `LoopExists` (the recursive
function of a loop exists); every loop of the next modules is an instance of them.

**BlockTreeProofs**, for every finite tree of blocks with work that grows from parent to
child, any sets of bad blocks and any checkpoints, orders of addresses and blocks that the
operator may name. SettledOnBest is not inductive, because it says nothing while an activation is
under way, and the candidates that the next step needs may have been pruned long
before. The invariant adds that no candidate is worse than the tip (`CandidatesSort`), that
the active chain has nothing bad on it and nothing failed but above a block that could not be disconnected
(`ChainSound`), that an activation which was not halted has found the best block (`Settles`), and the key,
`Watermarked`: as long as nothing has made the candidates incomplete (`Whole`: no descendant of a failed block
reconsidered, no InvalidateBlock that failed) there is a candidate at least as good as the tip, on a chain that
ConnectBlock would take, such that every unflagged complete block better still is a candidate.
When candidates have been pruned it is the tip; after DisconnectBlocksAndReprocess, which leaves
the candidates alone and lowers the tip, it is the tip that was; FindMostWorkChain removes
only candidates with a failed or missing block on their path. When the loop ends as it should the best
candidate is the tip, so no eligible block is better; when it ends because a block could not be disconnected the
watermark is the candidate that SettledOnBest promises. WorkTheorem follows from
`CandidatesSort` and the walk of ActivateBestChainStep: the chain a step leaves behind is never better
than the one it ends on unless a block has been refused or the step has failed.

**ChainStoreProofs**, for every finite tree, every order of the entries' addresses and
any number of crashes. The properties speak of the disk, and what is on disk depends on what memory
held: `Ahead` says that the memory of a running node differs from the disk by the dirty
entries only; `Nested` that flags go with entries; `Bests` that best blocks have entries and where the tip
is while a flush is under way; `MemoryCoins` states the two disk properties for the coins in
memory. Because the coins are written only when no entry is dirty, what MemoryCoins says
of memory then holds of the disk. The two are stated as long as no mishap spoils the coins, and a repair on one chain is none.
`Refusals` gives every start that fails its reason. RecoveryTheorem, and the step Load of the others, are about positions: on an index
that is one chain the position in vSortedByHeight is the height, so the entry the code compares
with is the block after the last one of the block file info, and the replay ends on it. On an index with a fork, with
a header-only entry or with stale info that is false, and the theorem says so by its hypotheses OneChain and InfoCurrent; what holds
there too is that the best block of the coins is found in the index.

**BlockCoinsProofs**, for every finite tree of blocks, any transactions in them and any maturity and
window. That the coins are those of a replay is stated without recursion: the outputs of
the chain's transactions that no block of the chain spends. The proof is an induction over
the turns of the four loops, by `Climb` and `LoopExists`. `Agrees(view, H, S, M)` relates
a view to what has been made (at heights H), spent (S) and lost its flag (M);
`ConnectAll` carries it forwards through a block and `DisconnectAll` backwards. The inductive invariant says that the
coins agree with the chain, that every block with undo records could be connected on its
own branch (`Sound`) and that its records are those which that replay writes
(`UndoRight`) - they are written at the first connection only and must fit every later one,
when the flags may be missing - and StakeSpentTracksChain, which speaks of the blocks connected since the last restart. A transaction that is made twice
on a chain is excluded by its inputs (`NotMadeTwice`), which is why the skipped test against
overwriting does no harm as long as the coinbases differ. AcceptedStakeIsUnspent follows because an
entry of mapStakeSpent names the one block of the chain that spends the outpoint, and a stake without an entry must be an
unspent coin of the active chain: what a restart has removed from the map can only refuse a good block.

**MempoolProofs**, for every finite tree of blocks, any finite set of loose transactions, any
bad ones among them, any peers and any limit of orphans. The inductive invariant `PoolInv` has three
parts. `PoolPart`: mapNextTx points into the pool and, as long as no double spend has
entered, holds every input of it (`Linked`); no transaction of the pool is on the
chain; and without a double spend every input is there and mature or without its flag (`CanBeMined`). remove() is
shown to end with an empty queue, because every turn lowers the length of the queue plus the outputs still
in the pool (`RemoveEnds`), and to take all that depends on what it removes (`Shrinks`, `RemoveRecursive`):
without the second, removal would leave transactions whose inputs are gone. ConnectTip keeps CanBeMined because
a transaction of the block leaves the pool alone only when its outputs come into the coins in
the same step (`ConnectMined`). DisconnectTip breaks it on the way: after some turns a transaction of the pool
may still spend outputs of block transactions that have not had their turn. `DisconnectMined` carries
"every input is there or comes from a transaction with its turn to come" through the loop,
and removeCoinbaseSpends restores maturity as far as the flags show it. `OrphanPart` is OrphanIndexExact with the types that it needs.
`RelayPart` is for OrphansResolved: while the work queue runs, every orphan with an accepted parent is
to be erased or still to be looked at, belongs to a punished peer, still misses an input, or has a
parent further down the queue (`Handled`). At its end nothing is to be looked at and nothing is further down, so only the
other three remain. An orphan that misses an input goes on missing it unless the transaction accepted meanwhile is
its parent, and that one is then in the queue (`MissingStays`).

**MasternodeProofs** has three parts, one for each of the modules it extends. *Budget*, for any items, finite set of masternodes and votes: the
invariant is the two properties with `OrphansInPlace`: an orphan waits under its own item. A vote in `early` leaves that set only when it is
taken or refused for another reason, so what the clock lets in later is not lost again.
PaymentTheorem is arithmetic: with counts that differ by at most d, 2d below the
tolerance, the budget with the most votes here has more than the highest count there less the
tolerance. *MasternodeSync*, for any peers and any natural number as threshold:
SyncedHasItems follows once the asset is known to be passed only in order
(`LastArrived`: the time of a last arrival is kept only for an asset that is not missing; `FromFollows`: a
GetNextAsset in progress works on the asset Process saw unless a reset came, and goes on
only from an asset that is not missing; `PassedArrived`: the list and the winners before the present
asset are not missing, or a reset was overtaken). SPORK_8 is read where an asset is given up and nowhere else. *SwiftTX*, for any transactions with at least one
input, any quorums, any positive number of signatures and any lifetime. SignersDistinct rests on the fact that every
vote that a lock holds is in mapTxLockVote, by masternode and transaction, and leaves that
map only together with its lock (`LockInv`). LocksConsistent needs the reason why a vote
cannot complete a lock against a request: only CreateNewLock gives a lock its height, and
the request it was made for is kept, rejected or waits for cs_main (`Requested`). CompleteHoldsInputs is inductive with it: a vote that
completes a lock compares and locks all inputs of a request that is kept, an expired loser is no longer complete in
time, and a step that leaves a complete lock without its inputs puts it into `loose`.

**Only model-checked.** The liveness properties: fairness and ENABLED are outside this
prover. They are in the runs of CheckQueue, BlockTree, SwiftTX, Net and MasternodeSync.

## 6. Findings

`mempool_conflict` shows that AcceptToMemoryPool takes a transaction that spends what
another one of the pool spends: it never looks at mapNextTx, and the view over the pool shows the
output as unspent. `PROJECT.json` quotes the comment that says otherwise.

The following were met while modelling and have no run of their own. The models contain the
behaviour, and the properties name it as their exception or the instances avoid it, unless
"not modelled" is said.

*Blocks and coins.* DisconnectBlock does not restore fCoinStake when it brings back a
spent-out coinstake (main.cpp:1985): the block that made it is then found inconsistent when it
is to be disconnected, and the attempt erases its entries of mapStakeSpent all the same. The run
block_coins reaches it through block s5 (`flagless`, DisconnectFails), and the theorems on coins and undo records name it
as their one exception. mapStakeSpent is never written or rebuilt: after a restart it is empty, and AcceptBlock refuses a
block on a fork whose stake the active chain spent before the restart and after the fork, which it would otherwise
accept (main.cpp:3432-3446). AcceptBlock ignores the result of ReadBlockFromDisk for the ancestors on a fork (3456): those known by
header only are skipped, and nobody looks again when their data come; ConnectBlock finds the double spend. VerifyDB's memory-only disconnect erases entries of the global mapStakeSpent
(main.cpp:1999; not modelled). mapStakeSpent loses entries by height, so that the window
is counted from the highest tip (main.cpp:2255). The test against overwriting transactions
(main.cpp:2096) is skipped for every block of the index.

*Block index.* When DisconnectTip fails without a disk error (the flag above), a reorganisation stops on the block it could not
disconnect, with less work than the chain it left (main.cpp:2686); invalidateblock returns with blocks of the active chain marked
failed and no candidates made again (2818), so that the candidates may be empty, which PruneBlockIndexCandidates asserts
against at the next start; and DisconnectBlocksAndReprocess goes on as if nothing had happened (2523). reconsiderblock of a block without data leaves the node on a worse chain
than one it could connect (main.cpp:2849; the comment at 2743 expects the candidates
complete): SettledOnBest does not hold without its exception `descended`. ReconsiderBlock of a descendant leaves BLOCK_FAILED_CHILD on its ancestors' other
descendants (main.cpp:2861).

*Chain state on disk.* The repair applies the blocks of every branch it finds in the
sorted vector (main.cpp:3850, 3875); it does not update nHeightLast, so that a second
unclean shutdown may be refused; replayed blocks have no undo data and are not marked
BLOCK_VALID_SCRIPTS (main.cpp:3868); the test for a coin database that is behind
(main.cpp:3826) also fires when forks shift the positions. A coin write that fails clears
the cache (coins.cpp:206, txdb.cpp:65), and the flush at shutdown then writes the new best block
without its coins, although "failure to write is handled by the caller" (init.cpp:158). A failed write
of the repaired coins is meant to be logged only (main.cpp:3879). Index entries are
written one by one in no order of height, and a crash between a child's and its parent's
leaves a second root of height 0 (main.cpp:2323; the model stops there).

*SwiftTX.* Three ways lead to a complete lock that does not hold its inputs (`loose`), so that a conflicting transaction can be
complete beside it: the request came after its votes and was accepted, and no vote is left that would compare the inputs
(swifttx.cpp:73-90); the request was rejected before the last vote, and the empty transaction at swifttx.cpp:350 has no
inputs to compare (387); the cleanup of a conflicting lock freed the inputs by outpoint, whoever had locked them (432).
A vote that came before its masternode is never counted. The inputs locked by a rejected request whose lock expires
stay in mapLockedInputs for ever. The pool takes conflicting requests, as mempool_conflict shows.

*Network.* ConnectNode uses the pointer of FindNode after the lock is released
(net.cpp:388-392); nRefCount is changed without a lock; RelayIn uses FindNode without a reference
(obfuscation.cpp:2171, not modelled). A node that is disconnected before
OpenNetworkConnection sets fNetworkNode (net.cpp:1346) keeps its reference and, when the slot was moved to it too late, its outbound
slot for good; two threads that move a slot to one node at the same time, or one of them and the socket handler, may lose or make one
(1345); a reference added between the test of nRefCount and the delete (738, 753) does not keep the node; connecting to a node that exists adds a reference nobody releases; mixing
references are lost when the node is disconnected or connected to again. A version check
resets fDisconnect (net.cpp:453). FinalizeNode never reduces nQueuedValidatedHeaders
(main.cpp:374), and UpdatePreferredDownload runs without cs_main (main.cpp:4731); neither
is modelled.

*Masternode sync.* The masternode list starts with one attempt already counted;
MASTERNODE_SYNC_FAILED (998) is larger than MASTERNODE_SYNC_LIST, and callers that compare
with `>` take a failed node for an advanced one (main.cpp:3612); without fresh peers the
list and the winners wait for ever; every new item puts the end of its asset off, without a limit; SPORK_8 is off until a spork message comes
(spork.h:43), so a node may give up the list and the winners, count as synchronised, and enforce payments without them when the spork
arrives; a reset may be overtaken by GetNextAsset; the TRY_LOCK
of ClearFulfilledRequest may fail, and then nobody is asked again; CheckAndRemove
forgets the hash of the entry after the one it has erased (masternodeman.cpp:322, not
modelled).

*Budget.* The map of orphan votes has one place per item: a second vote replaces the
first, which stays remembered as seen. A vote dropped before the synchronisation is
finished is also remembered, until ClearSeen, and so is a vote that is more than an hour ahead of our clock (masternode-budget.cpp:1502,
1770): it is refused, and nothing looks at it again when its time has come. Items from the RPC interface and from the
immature ones do not look for orphan votes. Votes less than an hour apart count in the
order of arrival. With fewer than ten masternodes the tolerance is zero and the comparison strict, so that even the
budget with the most votes is refused (masternode-budget.cpp:646). GetVoteCount counts
votes of removed masternodes until they are cleaned up.

*Masternode payments (not modelled).* FillBlockPayee pays what is due at the height of the
previous block (masternode-payments.cpp:307), IsTransactionValid requires what is due at
the height of the block itself (527): at the first block of a period with a higher payment
(57602, 72002, 86402, 100802 and 144002 on the main network) an honest block is refused where payments are enforced and a payee
has six votes. A vote with rank -1 passes the test for the first ten (IsValid), which
ProcessBlock makes. CanVote remembers a vote before its signature is checked, and only the
last height of a masternode.

## 7. What is not modelled, and why

Cryptography, scripts, amounts and proof hashes are pure functions of their inputs and
appear as the sets of what they refuse. File formats, serialisation (but for peers.dat,
whose order matters), sockets, RPC and the user interface are I/O. Vendored libraries are
taken at their interface: a LevelDB batch is atomic, and what a process has written
survives its death (not the death of the machine). Fees, priorities and rate limits decide
which transactions come in, which is a free choice in Mempool; bans and message contents
are free in Net. The masternode list with its pings, the payment votes, sporks, mixing
sessions, block download, the staking loop and the wallet are state machines that a later
module could hold; they are listed in `PROJECT.json` as not modelled.
