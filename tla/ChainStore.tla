----------------------------- MODULE ChainStore -----------------------------
(***************************************************************************)
(* What of the chain is in memory, what is on disk, and what a restart     *)
(* makes of it: FlushStateToDisk and its callers ConnectTip, DisconnectTip *)
(* and PrepareShutdown, and LoadBlockIndexDB with its repair after an      *)
(* unclean shutdown (src/main.cpp, src/init.cpp, src/txdb.cpp).            *)
(*                                                                         *)
(* The coins are the set of the blocks whose effects they hold.  Which     *)
(* block is connected or disconnected next is left open (module BlockTree  *)
(* decides it).  A process that dies loses its memory and keeps what it    *)
(* has written; LevelDB writes a batch as a whole.                         *)
(***************************************************************************)
EXTENDS Integers, FiniteSets, Ancestry

CONSTANTS
  Addr,        \* the order of the index entries' addresses
  Refusable,   \* the blocks AcceptBlock may refuse after their header is in
  MaxDowns     \* bound: shutdowns and crashes

ASSUME ChainStoreAssumption ==
  /\ Addr \in [Index -> Int] /\ \A a, b \in Index : Addr[a] = Addr[b] => a = b
  /\ Refusable \subseteq Blocks
  /\ MaxDowns \in Nat

VARIABLES
  status,   \* "up", "aborted" (AbortNode was called), "down", "refused" (the
            \* start failed) or "split" (the index has a second root)
  flush,    \* where FlushStateToDisk is: "no", "files", "index", "coins"
  after,    \* the caller of FlushStateToDisk: "tip", "periodic", "exit"
  tip,      \* chainActive.Tip()
  known,    \* mapBlockIndex
  data,     \* ... with BLOCK_HAVE_DATA
  undo,     \* ... with BLOCK_HAVE_UNDO and BLOCK_VALID_SCRIPTS
  dirty,    \* setDirtyBlockIndex
  last,     \* nHeightLast of the block file
  coins,    \* pcoinsTip: its best block and the blocks it has applied
  disk,     \* what is on disk: known, data, undo, last, coins, shutdown
  mishaps,  \* history: "repair" (a repair has run), "mixed" (over an index
            \* that is not one chain), "unsaved" (its coins were not written),
            \* "abort" (coins written after a failure)
  downs     \* bound: shutdowns and crashes so far

index == <<known, data, undo, dirty, last>>
vars  == <<status, flush, after, tip, index, coins, disk, mishaps, downs>>

AtGenesis == [best |-> Genesis, blocks |-> {Genesis}]

(* A first start: InitBlockIndex has stored and flushed the genesis block. *)
Init ==
  /\ status = "up" /\ flush = "no" /\ after = "periodic"
  /\ tip = Genesis
  /\ known = {Genesis} /\ data = {Genesis} /\ undo = {} /\ dirty = {} /\ last = 0
  /\ coins = AtGenesis
  /\ disk = [known |-> {Genesis}, data |-> {Genesis}, undo |-> {}, last |-> 0,
             coins |-> AtGenesis, shutdown |-> FALSE]
  /\ mishaps = {} /\ downs = 0

Idle == status = "up" /\ flush = "no"

-----------------------------------------------------------------------------
(* AcceptBlock: the header enters the index, and unless the block is       *)
(* refused its data goes to the block file.                                *)
AcceptBlock(b) ==
  /\ Idle /\ Prev[b] \in known /\ b \notin data
  /\ known' = known \cup {b}
  /\ dirty' = dirty \cup {b}
  /\ \/ /\ b \in Refusable
        /\ UNCHANGED <<data, last>>
     \/ /\ data' = data \cup {b}
        /\ last' = IF last < Height[b] THEN Height[b] ELSE last
  /\ UNCHANGED <<status, flush, after, tip, undo, coins, disk, mishaps, downs>>

(* MUTANT of Written: the entry is written as one that has its data.       *)
WrittenWithData(b) ==
  LET put(S, T) == IF b \in S THEN T \cup {b} ELSE T \ {b}
  IN  [disk EXCEPT !.known = @ \cup {b}, !.data = @ \cup {b}, !.undo = put(undo, @)]

(* pblocktree->WriteBlockIndex: the entry of b as it is in memory.         *)
Written(b) ==
  LET put(S, T) == IF b \in S THEN T \cup {b} ELSE T \ {b}
  IN  [disk EXCEPT !.known = @ \cup {b}, !.data = put(data, @), !.undo = put(undo, @)]

(* ConnectTip up to its FlushStateToDisk: ConnectBlock writes the index    *)
(* entry before it has written the undo data.                              *)
ConnectTip(b) ==
  /\ Idle /\ Prev[b] = tip /\ b \in data
  /\ coins' = [best |-> b, blocks |-> coins.blocks \cup {b}]
  /\ disk' = Written(b)
  /\ undo' = undo \cup {b}
  /\ dirty' = IF b \in undo THEN dirty ELSE dirty \cup {b}
  /\ \/ /\ tip' = b
        /\ UNCHANGED <<flush, after>>
     \/ /\ flush' = "files" /\ after' = "tip"
        /\ UNCHANGED tip
  /\ UNCHANGED <<status, known, data, last, mishaps, downs>>

(* DisconnectTip up to its FlushStateToDisk, which always writes.          *)
DisconnectTip ==
  /\ Idle /\ tip # Genesis /\ tip \in undo
  /\ coins' = [best |-> Prev[tip], blocks |-> coins.blocks \ {tip}]
  /\ flush' = "files" /\ after' = "tip"
  /\ UNCHANGED <<status, tip, index, disk, mishaps, downs>>

(* FLUSH_STATE_PERIODIC at the end of ActivateBestChain, and the one of    *)
(* PrepareShutdown.                                                        *)
Flush(caller) ==
  /\ flush = "no"
  /\ flush' = "files" /\ after' = caller
  /\ UNCHANGED <<status, tip, index, coins, disk, mishaps, downs>>

PeriodicFlush == Idle /\ Flush("periodic")
PrepareShutdown == status \in {"up", "aborted"} /\ downs < MaxDowns /\ Flush("exit")

-----------------------------------------------------------------------------
(* The steps of FlushStateToDisk, each a write: the block file info, the   *)
(* dirty index entries one by one, the coins.                              *)
FlushFiles ==
  /\ flush = "files"
  /\ disk' = [disk EXCEPT !.last = last]
  /\ flush' = "index"
  /\ UNCHANGED <<status, after, tip, index, coins, mishaps, downs>>

FlushEntry(b) ==
  /\ flush = "index" /\ b \in dirty
  /\ disk' = Written(b)
  /\ dirty' = dirty \ {b}
  /\ UNCHANGED <<status, flush, after, tip, known, data, undo, last, coins, mishaps, downs>>

(* MUTANT of IndexFlushed: the coins do not wait for the index.            *)
IndexNotAwaited == flush \in {"files", "index"}

(* "Finally flush the chainstate (which may refer to block index           *)
(* entries)."                                                              *)
IndexFlushed == flush = "index" /\ dirty = {}

(* MUTANT of CoinsAfterFlush: the best block is written without the coins. *)
BestOnly == [best |-> coins.best, blocks |-> disk.coins.blocks]

(* CCoinsViewDB::BatchWrite: the entries and the best block in one batch.  *)
CoinsAfterFlush == coins

(* MUTANT of TipAfterFlush: the caller does not get to UpdateTip.          *)
TipStays == tip

(* UpdateTip, the next thing ConnectTip and DisconnectTip do.              *)
TipAfterFlush == IF after = "tip" THEN coins.best ELSE tip

(* What the caller does next: the tip moves, or the process ends with the  *)
(* mark of a clean shutdown.                                               *)
FlushCoins ==
  /\ IndexFlushed
  /\ flush' = "no"
  /\ disk' = [disk EXCEPT !.coins = CoinsAfterFlush, !.shutdown = @ \/ after = "exit"]
  /\ tip' = TipAfterFlush
  /\ status' = IF after = "exit" THEN "down" ELSE status
  /\ downs' = IF after = "exit" THEN downs + 1 ELSE downs
  /\ mishaps' = IF status = "aborted" THEN mishaps \cup {"abort"} ELSE mishaps
  /\ UNCHANGED <<after, index, coins>>

(* The write fails: BatchWrite has already emptied the cache, so pcoinsTip *)
(* shows the database again, under the new best block.  AbortNode asks for *)
(* a shutdown; PrepareShutdown itself ignores the failure.                 *)
FlushCoinsFails ==
  /\ IndexFlushed
  /\ flush' = "no"
  /\ coins' = [coins EXCEPT !.blocks = disk.coins.blocks]
  /\ IF after = "exit"
     THEN status' = "down" /\ downs' = downs + 1 /\ disk' = [disk EXCEPT !.shutdown = TRUE]
     ELSE status' = "aborted" /\ UNCHANGED <<downs, disk>>
  /\ UNCHANGED <<after, tip, index, mishaps>>

(* The process dies.                                                       *)
Crash ==
  /\ status \in {"up", "aborted"} /\ downs < MaxDowns
  /\ status' = "down" /\ flush' = "no"
  /\ downs' = downs + 1
  /\ UNCHANGED <<after, tip, index, coins, disk, mishaps>>

-----------------------------------------------------------------------------
(* vSortedByHeight: by height, then by address; positions from 0.          *)
Before(a, b) == Height[a] < Height[b] \/ (Height[a] = Height[b] /\ Addr[a] < Addr[b])
Position(b)  == Cardinality({a \in disk.known : Before(a, b)})
Foremost(S)  == CHOOSE b \in S : \A a \in S : ~Before(a, b)

(* vSortedByHeight[nHeightLast + 1].                                       *)
LastMeta == CHOOSE b \in disk.known : Position(b) = disk.last + 1

(* MUTANT of NeedsRepair: only the heights are compared, one off.          *)
NeedsRepairByLength ==
  /\ ~disk.shutdown
  /\ Cardinality(disk.known) >= disk.last + 1

(* "Check for inconsistency with block file info and internal state".      *)
NeedsRepair ==
  /\ ~disk.shutdown
  /\ Cardinality(disk.known) > disk.last + 1
  /\ disk.coins.best # LastMeta

(* The entries one above the best block of the coins: the first of them is *)
(* where the replay starts.                                                *)
ReplayStart == {b \in disk.known : Height[b] = Height[disk.coins.best] + 1}

(* The entries replayed: in the order of vSortedByHeight, whatever branch  *)
(* they are on, up to the first as high as LastMeta.                       *)
FromStart == {b \in disk.known : ~Before(b, Foremost(ReplayStart))}
ReplayEnd == Foremost({b \in FromStart : Height[b] >= Height[LastMeta]})
Replay    == {b \in FromStart : ~Before(ReplayEnd, b)}

(* The index on disk is one chain, every block of it with its data: no     *)
(* fork and no header of a refused block.                                  *)
OneChain ==
  /\ disk.known \subseteq disk.data
  /\ \E b \in disk.known : disk.known = Ancestors(b)

(* LoadBlockIndexDB.  The repair, which -forcestart turns off, applies the *)
(* replayed blocks to the coins and writes them; it refuses to start when  *)
(* one of them has no data.  Without an entry to start at it goes on from  *)
(* the genesis block and reads past the end of the vector: the process     *)
(* dies.  An entry whose parent's entry was never written gets an empty    *)
(* one for it, a second root of height 0; the model stops there.           *)
(*                                                                         *)
(* The write of the repaired coins may fail.  LevelDB's wrapper throws,    *)
(* and the start fails.  A Flush that returned false would be "logged":    *)
(* the start goes on with an emptied cache under the new best block.       *)
Load(forceStart, write) ==
  LET repair  == ~forceStart /\ NeedsRepair
      split   == \E b \in disk.known \ {Genesis} : Prev[b] \notin disk.known
      stuck   == repair /\ (ReplayStart = {} \/ ~(Replay \subseteq disk.data))
      flushes == repair /\ ~split /\ ~stuck
      applied == IF write = "logged" THEN {} ELSE Replay
      read    == IF flushes
                 THEN [best |-> ReplayEnd, blocks |-> disk.coins.blocks \cup applied]
                 ELSE disk.coins
  IN
  /\ status = "down"
  /\ mishaps' = mishaps \cup (IF repair THEN {"repair"} ELSE {})
                        \cup (IF repair /\ ~OneChain THEN {"mixed"} ELSE {})
                        \cup (IF flushes /\ write # "done" THEN {"unsaved"} ELSE {})
  /\ IF split \/ stuck \/ (flushes /\ write = "thrown")
     THEN /\ status' = IF split THEN "split" ELSE "refused"
          /\ UNCHANGED <<coins, tip, disk>>
     ELSE /\ status' = "up"
          /\ coins' = read
          /\ tip' = read.best
          /\ disk' = [disk EXCEPT !.coins = IF write = "logged" THEN @ ELSE read,
                                  !.shutdown = FALSE]
  /\ known' = disk.known /\ data' = disk.data /\ undo' = disk.undo
  /\ dirty' = {} /\ last' = disk.last
  /\ UNCHANGED <<flush, after, downs>>

Next ==
  \/ \E b \in Blocks : AcceptBlock(b) \/ ConnectTip(b) \/ FlushEntry(b)
  \/ DisconnectTip
  \/ PeriodicFlush \/ PrepareShutdown
  \/ FlushFiles \/ FlushCoins \/ FlushCoinsFails
  \/ Crash
  \/ \E forceStart \in BOOLEAN, write \in {"done", "thrown", "logged"} : Load(forceStart, write)

Spec == Init /\ [][Next]_vars

-----------------------------------------------------------------------------
(* The memory holds at least what was stored, and a dirty entry is known.  *)
TypeOK ==
  /\ status \in {"up", "aborted", "down", "refused", "split"}
  /\ flush \in {"no", "files", "index"} /\ after \in {"tip", "periodic", "exit"}
  /\ status = "up" => /\ disk.known \subseteq known /\ disk.data \subseteq data
                      /\ disk.undo \subseteq undo /\ disk.last <= last
  /\ undo \subseteq data /\ data \subseteq known /\ dirty \subseteq known
  /\ status = "up" => tip \in known /\ coins.best \in known

(* The coins on disk are those of a chain, of the one that ends in their   *)
(* best block, whatever write a crash interrupts and after every restart   *)
(* and repair, but for three mishaps that spoil them for good: a repair    *)
(* over an index that is not one chain ("mixed"), a repair whose own write *)
(* failed ("unsaved"), and an orderly shutdown that writes after a failed  *)
(* write ("abort").                                                        *)
DiskCoinsAreAChain ==
  mishaps \subseteq {"repair"} => disk.coins.blocks = Ancestors(disk.coins.best)

(* Every block the coins on disk have applied is in the index on disk,     *)
(* with its data and, unless a repair has applied it, its undo data: a     *)
(* node that dies at any point can find its tip again and disconnect it.   *)
CoinsBackedByIndex ==
  /\ mishaps \subseteq {"repair"} =>
       Ancestors(disk.coins.best) \ {Genesis} \subseteq disk.data
  /\ mishaps = {} => Ancestors(disk.coins.best) \ {Genesis} \subseteq disk.undo

(* Between two operations pcoinsTip and chainActive are at the same block. *)
TipIsCoinsBest == Idle => tip = coins.best

(* The state in memory is that of one block whenever cs_main is free, also *)
(* after a start from what a crash has left.                               *)
MemoryConsistent == TypeOK /\ TipIsCoinsBest


(* The block file info on disk covers the best block of the coins.  The    *)
(* flush writes it first, but a repair does not write it.                  *)
InfoCurrent == disk.last >= Height[disk.coins.best]

(* The best block of the coins on disk always has its entry, whatever the  *)
(* mishaps, so the test of it before the repair never fails.  A start      *)
(* fails or finds a second root only over an index with a fork, with an    *)
(* entry that lacks its data or its parent, with stale block file info (a  *)
(* repaired node that has gone on along blocks it had already), or when    *)
(* the repair itself cannot write.                                         *)
StartsAgain ==
  /\ disk.coins.best \in disk.known
  /\ status \in {"refused", "split"} => ~OneChain \/ ~InfoCurrent \/ "unsaved" \in mishaps

(* "The database is in a state where a block has been accepted and written *)
(* to disk, but the transaction database (pcoinsTip) was not flushed to    *)
(* disk": on one chain with current block file info the repair runs only   *)
(* then.                                                                   *)
RepairOnlyWhenBehind ==
  status = "down" /\ NeedsRepair /\ OneChain /\ InfoCurrent
    => \E b \in disk.data : disk.coins.best \in Ancestors(b) \ {b}

(* After a crash at any write a node whose index is one chain and whose    *)
(* block file info is current starts, and repairs itself only when there   *)
(* is something to repair.  With a fork, a header-only entry or stale info *)
(* neither holds: the repair then takes LastMeta from the wrong height.    *)
RecoveryIsSound == StartsAgain /\ RepairOnlyWhenBehind

=============================================================================
