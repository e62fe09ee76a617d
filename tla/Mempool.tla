------------------------------ MODULE Mempool ------------------------------
(***************************************************************************)
(* The memory pool and the orphan transactions, on a chain that connects   *)
(* and disconnects blocks: CTxMemPool (src/txmempool.cpp), and from        *)
(* src/main.cpp AcceptToMemoryPool, the "tx" message with its work queue   *)
(* of orphans, and what ConnectTip and DisconnectTip do to the pool.       *)
(*                                                                         *)
(* pcoinsTip is what the active chain has made and not spent (module       *)
(* BlockCoins shows it), so its outputs are a function of the tip here;    *)
(* the coinstake flag, which DisconnectBlock drops, is not.  A transaction *)
(* is a name with the outputs it spends; fees, sizes, priorities and       *)
(* standardness are left out, and what CheckInputs finds in scripts and    *)
(* amounts is the set Bad.  cs_main is held by every operation; the work   *)
(* queue of the "tx" message is taken apart into steps because             *)
(* mempool.check runs between them.                                        *)
(***************************************************************************)
EXTENDS Ancestry, Sequences, Functions

CONSTANTS
  Loose,       \* the transactions that can be outside a block: neither
               \* coinbase nor coinstake
  Vtx,         \* Vtx[b]: the transactions of b, in order
  Vin,         \* Vin[t]: the outpoints <<transaction, n>> that t spends
  Outputs,     \* Outputs[t]: the number of outputs of t
  Bad,         \* the loose transactions CheckInputs refuses with a penalty
  Peers,
  Maturity,    \* COINBASE_MATURITY
  MaxOrphans   \* -maxorphantx

Mined     == UNION {Range(Vtx[b]) : b \in Index}
Txs       == Mined \cup Loose
Minted    == Mined \ Loose               \* coinbases and coinstakes
Staked    == {t \in Minted : Vin[t] # <<>>}   \* IsCoinStake()
Outpoints == Txs \X Nat
Outs(t)   == {<<t, n>> : n \in 0..(Outputs[t] - 1)}
Ins(t)    == Range(Vin[t])
Parents(t) == {o[1] : o \in Ins(t)}

(* The transactions of the chain that ends in b.                           *)
Confirmed == [b \in Index |-> UNION {Range(Vtx[a]) : a \in Ancestors(b)}]

(* CheckTransaction has seen that a loose transaction spends something,    *)
(* and ConnectBlock that what a transaction of a block spends was made     *)
(* before.  No block repeats a transaction of its chain, whose inputs are  *)
(* spent, or for a coinbase the height in its script is another one: the   *)
(* test against overwriting is skipped (see BlockCoins).                   *)
ASSUME MempoolAssumption ==
  /\ IsFiniteSet(Loose) /\ Bad \subseteq Loose
  /\ \A b \in Index : Vtx[b] \in Seq(Txs)
  /\ Vin \in [Txs -> Seq(Outpoints)] /\ Outputs \in [Txs -> Nat]
  /\ \A t \in Loose : Vin[t] # <<>>
  /\ \A t \in Range(Vtx[Genesis]) : Vin[t] = <<>>
  /\ \A b \in Blocks : \A i \in DOMAIN Vtx[b] :
       LET before == Confirmed[Prev[b]] \cup {Vtx[b][j] : j \in 1..(i - 1)}
       IN  Vtx[b][i] \notin before /\ Parents(Vtx[b][i]) \subseteq before
  /\ Maturity \in Nat /\ MaxOrphans \in Nat

VARIABLES
  tip,        \* chainActive.Tip()
  mapTx,      \* the transactions in the pool
  mapNextTx,  \* outpoint -> the transaction of the pool that spends it
  orphans,    \* mapOrphanTransactions: transaction -> the peer it came from
  byPrev,     \* mapOrphanTransactionsByPrev
  relay,      \* the "tx" message in progress: vWorkQueue from the transaction
              \* in hand on, its orphans not yet looked at, vEraseQueue,
              \* setMisbehaving and the transactions accepted so far
  flagless,   \* the coinstakes whose CCoins have lost fCoinStake
  doubled     \* history: a transaction entered the pool that spends an output
              \* another one of the pool already spent

pool == <<mapTx, mapNextTx, doubled>>
chain == <<tip, flagless>>
poolVars == <<chain, pool, orphans, byPrev, relay>>

NoRelay == [queue |-> <<>>, todo |-> {}, erase |-> {}, naughty |-> {}, accepted |-> {}]
Idle    == relay.queue = <<>>

-----------------------------------------------------------------------------
(* pcoinsTip at every block: the outputs created and not spent on its      *)
(* chain.                                                                  *)
OutsOf(T) == UNION {Outs(t) : t \in T}
InsOf(T)  == UNION {Ins(t) : t \in T}
UtxoAt    == [b \in Index |-> OutsOf(Confirmed[b]) \ InsOf(Confirmed[b])]

(* HaveCoins of a view over the coins at b: some output is unspent.        *)
HaveCoins(b, t) == \E o \in UtxoAt[b] : o[1] = t

(* coins->IsCoinBase() || coins->IsCoinStake(), of a coin of t, where the  *)
(* coins of the transactions in f have no flag ...                         *)
Flagged(f, t) == t \in Minted \ f

(* ... and then the coin cannot be spent in the block after b.             *)
Immature(f, b, t) ==
  Flagged(f, t) /\ \E a \in Ancestors(b) : t \in Range(Vtx[a]) /\ Height[b] + 1 - Height[a] < Maturity

-----------------------------------------------------------------------------
(* DisconnectBlock of b brings back the coins whose last output b spends   *)
(* from the undo data, which has no fCoinStake.  A block whose coinstake   *)
(* has lost its flag is not what DisconnectBlock expects, and it fails.    *)
FlaglessAfter(b) ==
  flagless \cup {t \in Staked : ~HaveCoins(b, t) /\ \E u \in Range(Vtx[b]) : t \in Parents(u)}
DisconnectsCleanly(b) == Range(Vtx[b]) \cap FlaglessAfter(b) = {}

-----------------------------------------------------------------------------
(* The pool, as the record of mapTx, mapNextTx and the history.            *)
Pool == [txs |-> mapTx, next |-> mapNextTx, doubled |-> doubled]

SetPool(p) == mapTx' = p.txs /\ mapNextTx' = p.next /\ doubled' = p.doubled

Erase(f, S) == [x \in DOMAIN f \ S |-> f[x]]

(* CCoinsViewMemPool: the pool's transactions hide the coins below.        *)
HaveCoinsOrTx(p, b, t) == t \in p.txs \/ HaveCoins(b, t)
Available(p, b, o) == IF o[1] \in p.txs THEN o \in Outs(o[1]) ELSE o \in UtxoAt[b]

(* AcceptToMemoryPool up to addUnchecked, on the coins at b.  There is no  *)
(* look at mapNextTx: a transaction that spends what another one of the    *)
(* pool spends passes.                                                     *)
Verdict(p, f, b, t) ==
  IF t \in p.txs \/ HaveCoins(b, t) THEN "refused"
  ELSE IF \E u \in Parents(t) : ~HaveCoinsOrTx(p, b, u) THEN "missing"
  ELSE IF \E o \in Ins(t) : ~Available(p, b, o) THEN "refused"
  ELSE IF \E u \in Parents(t) \ p.txs : Immature(f, b, u) THEN "refused"
  ELSE IF t \in Bad THEN "punished" ELSE "accepted"

(* MUTANT of AddUnchecked: only one input is entered.                      *)
AddFirstInput(p, t) ==
  [txs     |-> p.txs \cup {t},
   next    |-> [o \in DOMAIN p.next \cup {Vin[t][1]} |-> IF o \in Ins(t) THEN t ELSE p.next[o]],
   doubled |-> p.doubled]

(* addUnchecked: mapNextTx[prevout] = the new transaction, whatever was    *)
(* there.                                                                  *)
AddUnchecked(p, t) ==
  [txs     |-> p.txs \cup {t},
   next    |-> [o \in DOMAIN p.next \cup Ins(t) |-> IF o \in Ins(t) THEN t ELSE p.next[o]],
   doubled |-> p.doubled \/ Ins(t) \cap DOMAIN p.next # {}]

(* Who spends the outputs of t, one after the other; an output that nobody *)
(* spends leaves t itself there, for which remove() finds nothing to do.   *)
Spenders(p, t) ==
  [n \in 1..Outputs[t] |-> IF <<t, n - 1>> \in DOMAIN p.next THEN p.next[<<t, n - 1>>] ELSE t]

(* MUTANT of EraseTx: mapNextTx keeps the inputs of the removed.           *)
EraseTxOnly(p, t) == [p EXCEPT !.txs = @ \ {t}]

(* What remove() erases for one transaction.                               *)
EraseTx(p, t) ==
  [txs |-> p.txs \ {t}, next |-> Erase(p.next, Ins(t)), doubled |-> p.doubled]

(* One turn of the loop of remove(): txToRemove is worked off from the     *)
(* front.                                                                  *)
RemoveTurn(s, recursive) ==
  LET t == Head(s.queue)
  IN  IF s.queue = <<>> THEN s
      ELSE IF t \notin s.pool.txs THEN [s EXCEPT !.queue = Tail(@)]
      ELSE [pool  |-> EraseTx(s.pool, t),
            queue |-> Tail(s.queue) \o (IF recursive THEN Spenders(s.pool, t) ELSE <<>>)]

(* The loop: every output of a transaction of the pool is looked at once   *)
(* at most, so that the queue is empty after so many turns.                *)
RemoveTurns(p, queue) == Len(queue) + Cardinality(OutsOf(p.txs))
RemoveLoop(p, queue, recursive) ==
  LET after[k \in 0..RemoveTurns(p, queue)] ==
        IF k = 0 THEN [pool |-> p, queue |-> queue] ELSE RemoveTurn(after[k - 1], recursive)
  IN  after

(* remove(): with its descendants if recursive, and then also when the     *)
(* transaction itself is not in the pool.                                  *)
RemoveQueue(p, t, recursive) ==
  IF recursive /\ t \notin p.txs THEN <<t>> \o Spenders(p, t) ELSE <<t>>
RemoveTx(p, t, recursive) ==
  LET queue == RemoveQueue(p, t, recursive)
  IN  RemoveLoop(p, queue, recursive)[RemoveTurns(p, queue)].pool

(* removeConflicts(): whoever spends an input of t, but t itself; the pool *)
(* after each turn.                                                        *)
RemoveSpender(p, o, t) ==
  IF o \in DOMAIN p.next /\ p.next[o] # t THEN RemoveTx(p, p.next[o], TRUE) ELSE p
ConflictsLoop(p, t) ==
  LET after[j \in 0..Len(Vin[t])] ==
        IF j = 0 THEN p ELSE RemoveSpender(after[j - 1], Vin[t][j], t)
  IN  after
RemoveConflicts(p, t) == ConflictsLoop(p, t)[Len(Vin[t])]

(* MUTANT of RemoveForTx: only what conflicts with the block leaves.       *)
RemoveForTxConflicts(p, t) == RemoveConflicts(p, t)

(* removeForBlock(): a transaction of the block leaves the pool alone,     *)
(* what conflicts with it leaves with all that depends on it.              *)
RemoveForTx(p, t) == RemoveConflicts(RemoveTx(p, t, FALSE), t)
RemoveForBlock(p, vtx) ==
  LET after[i \in 0..Len(vtx)] == IF i = 0 THEN p ELSE RemoveForTx(after[i - 1], vtx[i])
  IN  after

(* MUTANT of Lost: what is not mature any more stays.                      *)
LostSpent(p, f, b) == {t \in p.txs : \E u \in Parents(t) \ p.txs : ~HaveCoins(b, u)}

(* removeCoinbaseSpends(): the transactions that spend a coin of the chain *)
(* that is gone or, with b the tip, not mature any more ...                *)
Lost(p, f, b) == {t \in p.txs : \E u \in Parents(t) \ p.txs : ~HaveCoins(b, u) \/ Immature(f, b, u)}

(* ... in the order of mapTx, one of them, are removed with what depends   *)
(* on them.                                                                *)
InOrder(S) == CHOOSE s \in [1..Cardinality(S) -> S] : Range(s) = S
RemoveAll(p, ts) ==
  LET after[i \in 0..Len(ts)] == IF i = 0 THEN p ELSE RemoveTx(after[i - 1], ts[i], TRUE)
  IN  after
RemoveCoinbaseSpends(p, f, b) == RemoveAll(p, InOrder(Lost(p, f, b)))[Cardinality(Lost(p, f, b))]

(* DisconnectTip for a transaction of the disconnected block.              *)
Resurrect(p, f, b, t) ==
  IF t \in Loose /\ Verdict(p, f, b, t) = "accepted" THEN AddUnchecked(p, t)
  ELSE RemoveTx(p, t, TRUE)
ResurrectBlock(p, f, b, vtx) ==
  LET after[i \in 0..Len(vtx)] == IF i = 0 THEN p ELSE Resurrect(after[i - 1], f, b, vtx[i])
  IN  after

-----------------------------------------------------------------------------
(* ConnectTip of a valid block.                                            *)
ConnectTip(b) ==
  /\ Idle /\ Prev[b] = tip
  /\ tip' = b
  /\ SetPool(RemoveForBlock(Pool, Vtx[b])[Len(Vtx[b])])
  /\ UNCHANGED <<flagless, orphans, byPrev, relay>>

(* DisconnectTip, where DisconnectBlock succeeds: the block's transactions *)
(* go back into the pool where they can.                                   *)
DisconnectTip ==
  LET f == FlaglessAfter(tip)
      resurrected == ResurrectBlock(Pool, f, Prev[tip], Vtx[tip])[Len(Vtx[tip])]
  IN
  /\ Idle /\ tip # Genesis /\ DisconnectsCleanly(tip)
  /\ tip' = Prev[tip] /\ flagless' = f
  /\ SetPool(RemoveCoinbaseSpends(resurrected, f, Prev[tip]))
  /\ UNCHANGED <<orphans, byPrev, relay>>

(* DisconnectBlockAndInputs: a completed SwiftTX lock on t clears the pool *)
(* of its conflicts.  The blocks it disconnects are DisconnectTip steps.   *)
LockConflicts(t) ==
  /\ Idle
  /\ SetPool(RemoveConflicts(Pool, t))
  /\ UNCHANGED <<chain, orphans, byPrev, relay>>

(* CMerkleTx::AcceptToMemoryPool: the wallet's and the RPC's way in.       *)
WalletTx(t) ==
  /\ Idle /\ Verdict(Pool, flagless, tip, t) = "accepted"
  /\ SetPool(AddUnchecked(Pool, t))
  /\ UNCHANGED <<chain, orphans, byPrev, relay>>

-----------------------------------------------------------------------------
OrphansOf(t) == IF t \in DOMAIN byPrev THEN byPrev[t] ELSE {}

(* AddOrphanTx.                                                            *)
OrphansWith(t, peer) ==
  [o \in DOMAIN orphans \cup {t} |-> IF o = t THEN peer ELSE orphans[o]]
ByPrevWith(t) ==
  [u \in DOMAIN byPrev \cup Parents(t) |-> OrphansOf(u) \cup (IF u \in Parents(t) THEN {t} ELSE {})]

(* MUTANT of ByPrevWithout: the erased stay in mapOrphanTransactionsByPrev *)
(* under their other parents.                                              *)
ByPrevKept(by, S) ==
  LET keep == {u \in DOMAIN by : ~(by[u] \subseteq S)} IN [u \in keep |-> by[u]]

(* EraseOrphanTx for the orphans S.                                        *)
ByPrevWithout(by, S) ==
  LET keep == {u \in DOMAIN by : ~(by[u] \subseteq S)} IN [u \in keep |-> by[u] \ S]

EraseOrphans(S) == orphans' = Erase(orphans, S) /\ byPrev' = ByPrevWithout(byPrev, S)

(* MUTANT of Evictions: one orphan too many is kept.                       *)
EvictionsLate(os) ==
  {S \in SUBSET os : IF Cardinality(os) <= MaxOrphans + 1 THEN S = {}
                     ELSE Cardinality(os \ S) = MaxOrphans + 1}

(* LimitOrphanTxSize: the sets of random orphans it may evict.             *)
Evictions(os) ==
  {S \in SUBSET os : IF Cardinality(os) <= MaxOrphans THEN S = {}
                     ELSE Cardinality(os \ S) = MaxOrphans}

(* The "tx" message.  Accepted: its orphans are looked at next.  With      *)
(* missing inputs: it becomes an orphan, and the orphans are limited.      *)
TxMessage(t, peer) ==
  /\ Idle
  /\ LET verdict == Verdict(Pool, flagless, tip, t)
     IN  \/ /\ verdict = "accepted"
            /\ SetPool(AddUnchecked(Pool, t))
            /\ relay' = [NoRelay EXCEPT !.queue = <<t>>, !.todo = OrphansOf(t), !.accepted = {t}]
            /\ UNCHANGED <<orphans, byPrev>>
         \/ /\ verdict = "missing" /\ t \notin DOMAIN orphans
            /\ \E S \in Evictions(DOMAIN orphans \cup {t}) :
                 /\ orphans' = Erase(OrphansWith(t, peer), S)
                 /\ byPrev' = ByPrevWithout(ByPrevWith(t), S)
            /\ UNCHANGED <<pool, relay>>
  /\ UNCHANGED chain

(* MUTANT of QueueAfter: the orphans of an accepted orphan are forgotten.  *)
QueueUnchanged(o) == relay.queue

(* vWorkQueue after orphan o was accepted.                                 *)
QueueAfter(o) == Append(relay.queue, o)

(* The work queue looks at orphan o of the transaction in hand.  The       *)
(* orphans of a peer punished in this round are passed over.               *)
VisitOrphan(o) ==
  /\ o \in relay.todo
  /\ LET verdict == IF orphans[o] \in relay.naughty THEN "missing" ELSE Verdict(Pool, flagless, tip, o)
         seen    == [relay EXCEPT !.todo = @ \ {o}]
     IN  \/ /\ verdict = "accepted"
            /\ SetPool(AddUnchecked(Pool, o))
            /\ relay' = [seen EXCEPT !.queue = QueueAfter(o), !.erase = @ \cup {o}, !.accepted = @ \cup {o}]
         \/ /\ verdict = "missing"
            /\ relay' = seen
            /\ UNCHANGED pool
         \/ /\ verdict = "refused"
            /\ relay' = [seen EXCEPT !.erase = @ \cup {o}]
            /\ UNCHANGED pool
         \/ /\ verdict = "punished"
            /\ relay' = [seen EXCEPT !.erase = @ \cup {o}, !.naughty = @ \cup {orphans[o]}]
            /\ UNCHANGED pool
  /\ UNCHANGED <<chain, orphans, byPrev>>

(* The next transaction of the work queue.                                 *)
NextInQueue ==
  /\ relay.todo = {} /\ Len(relay.queue) > 1
  /\ relay' = [relay EXCEPT !.queue = Tail(@), !.todo = OrphansOf(relay.queue[2])]
  /\ UNCHANGED <<chain, pool, orphans, byPrev>>

(* The work queue is empty: the orphans in vEraseQueue are erased.         *)
QueueDone ==
  /\ relay.todo = {} /\ Len(relay.queue) = 1
  /\ EraseOrphans(relay.erase)
  /\ relay' = NoRelay
  /\ UNCHANGED <<chain, pool>>

(* EraseOrphansFor: a peer's connection is finalised.                      *)
EraseOrphansFor(peer) ==
  /\ Idle /\ \E o \in DOMAIN orphans : orphans[o] = peer
  /\ EraseOrphans({o \in DOMAIN orphans : orphans[o] = peer})
  /\ UNCHANGED <<chain, pool, relay>>

PoolInit ==
  /\ tip = Genesis /\ flagless = {}
  /\ mapTx = {} /\ mapNextTx = <<>> /\ doubled = FALSE
  /\ orphans = <<>> /\ byPrev = <<>> /\ relay = NoRelay

PoolNext ==
  \/ \E b \in Blocks : ConnectTip(b)
  \/ DisconnectTip
  \/ \E t \in Loose : LockConflicts(t) \/ WalletTx(t) \/ VisitOrphan(t)
  \/ \E t \in Loose, peer \in Peers : TxMessage(t, peer)
  \/ NextInQueue \/ QueueDone
  \/ \E peer \in Peers : EraseOrphansFor(peer)

PoolSpec == PoolInit /\ [][PoolNext]_poolVars

-----------------------------------------------------------------------------
(* The pool holds loose transactions, at most MaxOrphans transactions wait *)
(* for their parents, and the work queue holds accepted ones.              *)
PoolTypeOK ==
  /\ tip \in Index /\ mapTx \subseteq Loose
  /\ DOMAIN mapNextTx \subseteq Outpoints
  /\ DOMAIN orphans \subseteq Loose /\ Cardinality(DOMAIN orphans) <= MaxOrphans
  /\ Range(relay.queue) \subseteq relay.accepted /\ relay.todo \subseteq DOMAIN orphans

(* The assertions of CTxMemPool::check about the inputs: every input of    *)
(* every transaction of the pool is an output of another one of the pool   *)
(* or a coin that is old enough for the next block - whatever was          *)
(* connected, disconnected, relayed or removed, as long as no double spend *)
(* entered.  The exception is real: a coinstake whose flag DisconnectBlock *)
(* has dropped passes for mature, here and in removeCoinbaseSpends, and    *)
(* its spender stays although a node with the flag refuses the block.      *)
PoolCanBeMined ==
  ~doubled => \A t \in mapTx :
    /\ \A o \in Ins(t) : Available(Pool, tip, o)
    /\ \A u \in Parents(t) \ mapTx : Immature({}, tip, u) => u \in flagless

(* "does not contain two transactions that spend the same inputs, all      *)
(* inputs are in the mapNextTx array" (src/txmempool.h:117), as long as no *)
(* double spend entered.                                                   *)
NextTxIsSpender ==
  ~doubled => \A t \in mapTx : \A o \in Ins(t) : o \in DOMAIN mapNextTx /\ mapNextTx[o] = t

(* The same without the exception.                                         *)
NoDoubleSpends ==
  \A t \in mapTx : \A o \in Ins(t) : o \in DOMAIN mapNextTx /\ mapNextTx[o] = t

(* mapNextTx holds pointers into mapTx: none of them ever points to a      *)
(* transaction that is gone, double spends or not.                         *)
NextTxNotDangling ==
  \A o \in DOMAIN mapNextTx : mapNextTx[o] \in mapTx /\ o \in Ins(mapNextTx[o])

(* A transaction of the pool "is guaranteed to never conflict with the     *)
(* underlying cache" (CCoinsViewMemPool::GetCoins): it is in no block of   *)
(* the active chain.                                                       *)
PoolNotConfirmed == mapTx \cap Confirmed[tip] = {}

(* CTxMemPool::check about the pool's own indexes: mapTx, mapNextTx and    *)
(* the active chain agree, in the ways the three parts say.                *)
PoolConsistent == PoolTypeOK /\ NextTxIsSpender /\ NextTxNotDangling /\ PoolNotConfirmed

(* mapOrphanTransactionsByPrev and mapOrphanTransactions tell the same:    *)
(* the work queue finds every orphan of a parent and no other, without     *)
(* mapOrphanTransactions[] making an empty one.                            *)
OrphanIndexExact ==
  /\ \A o \in DOMAIN orphans : \A u \in Parents(o) : o \in OrphansOf(u)
  /\ \A u \in DOMAIN byPrev : byPrev[u] # {} /\ \A o \in byPrev[u] : o \in DOMAIN orphans /\ u \in Parents(o)

(* "Recursively process any orphan transactions that depended on this      *)
(* one": when the work queue is done no orphan is left that depends on an  *)
(* accepted transaction and misses nothing, but for the orphans of a peer  *)
(* punished meanwhile.                                                     *)
OrphansResolved ==
  [][QueueDone => \A o \in DOMAIN orphans' :
       /\ Parents(o) \cap relay.accepted # {}
       /\ orphans[o] \notin relay.naughty
       => Verdict(Pool, flagless, tip, o) = "missing"]_poolVars

=============================================================================
