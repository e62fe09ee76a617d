-------------------------- MODULE ChainStoreProofs --------------------------
(***************************************************************************)
(* Proofs about the chain state on disk, for every finite tree of blocks,  *)
(* every order of the index entries' addresses and any number of crashes.  *)
(***************************************************************************)
EXTENDS ChainStore, AncestryProofs

-----------------------------------------------------------------------------
(* The inductive invariant.                                                *)

CoinsRecord == [best : Index, blocks : SUBSET Index]

DiskRecord  == [known : SUBSET Index, data : SUBSET Index, undo : SUBSET Index, last : Nat,
                coins : CoinsRecord, shutdown : BOOLEAN]

Types ==
  /\ status \in {"up", "aborted", "down", "refused", "split"}
  /\ flush \in {"no", "files", "index"} /\ after \in {"tip", "periodic", "exit"}
  /\ tip \in Index /\ last \in Nat
  /\ known \in SUBSET Index /\ data \in SUBSET Index
  /\ undo \in SUBSET Index /\ dirty \in SUBSET Index
  /\ coins \in CoinsRecord /\ disk \in DiskRecord

Running == status \in {"up", "aborted"}

(* Flags go with entries, in memory and on disk.                           *)
Nested ==
  /\ undo \subseteq data /\ data \subseteq known /\ dirty \subseteq known
  /\ disk.undo \subseteq disk.data /\ disk.data \subseteq disk.known
  /\ ~Running => flush = "no"

(* The memory of a running node is ahead of the disk by the dirty entries. *)
Ahead ==
  Running =>
    /\ disk.known \subseteq known /\ disk.data \subseteq data /\ disk.undo \subseteq undo
    /\ disk.last <= last
    /\ known \ dirty \subseteq disk.known
    /\ data \ dirty \subseteq disk.data
    /\ undo \ dirty \subseteq disk.undo

(* Best blocks have an entry, and the entries of a running node form a     *)
(* tree; the tip is at the coins' best block unless the caller of          *)
(* FlushStateToDisk is about to move it.                                   *)
Bests ==
  /\ disk.coins.best \in disk.known
  /\ Running => coins.best \in known /\ tip \in known /\ Closed(known)
  /\ status = "up" /\ (flush = "no" \/ after # "tip") => tip = coins.best

(* CoinsBackedByIndex and DiskCoinsAreAChain of the coins in memory.       *)
MemoryCoins ==
  status = "up" =>
    /\ mishaps \subseteq {"repair"} =>
         /\ coins.blocks = Ancestors(coins.best)
         /\ Ancestors(coins.best) \ {Genesis} \subseteq data
    /\ mishaps = {} => Ancestors(coins.best) \ {Genesis} \subseteq undo

(* What is said of a start that fails.                                     *)
Refusals ==
  status \in {"refused", "split"} => ~OneChain \/ ~InfoCurrent \/ "unsaved" \in mishaps

IInv ==
  /\ Types /\ Nested /\ Ahead /\ Bests /\ MemoryCoins
  /\ DiskCoinsAreAChain /\ CoinsBackedByIndex /\ Refusals

-----------------------------------------------------------------------------

(* What WriteBlockIndex leaves on disk.                                    *)
LEMMA WrittenFields ==
  ASSUME Types, NEW b \in Index
  PROVE  /\ Written(b) \in DiskRecord
         /\ Written(b).known = disk.known \cup {b}
         /\ Written(b).data = IF b \in data THEN disk.data \cup {b} ELSE disk.data \ {b}
         /\ Written(b).undo = IF b \in undo THEN disk.undo \cup {b} ELSE disk.undo \ {b}
         /\ Written(b).last = disk.last /\ Written(b).coins = disk.coins
         /\ Written(b).shutdown = disk.shutdown
BY DEF Written, Types, DiskRecord

(* The fields of the records.                                              *)
LEMMA RecordFields ==
  ASSUME Types
  PROVE  /\ coins.best \in Index /\ coins.blocks \in SUBSET Index
         /\ disk.coins \in CoinsRecord
         /\ disk.coins.best \in Index /\ disk.coins.blocks \in SUBSET Index
         /\ disk.known \in SUBSET Index /\ disk.data \in SUBSET Index
         /\ disk.undo \in SUBSET Index /\ disk.last \in Nat /\ disk.shutdown \in BOOLEAN
BY DEF Types, CoinsRecord, DiskRecord

(* A first start.                                                          *)
LEMMA InitIInv == ASSUME Init PROVE IInv
<1>1. Genesis \in Index /\ Ancestors(Genesis) = {Genesis}
  BY AncestorsGenesis
<1>2. Types
  BY <1>1 DEF Init, Types, CoinsRecord, DiskRecord, AtGenesis
<1>3. Nested /\ Ahead /\ Bests
  BY DEF Init, Nested, Ahead, Bests, Running, AtGenesis, Closed
<1>4. MemoryCoins /\ DiskCoinsAreAChain /\ CoinsBackedByIndex /\ Refusals
  BY <1>1 DEF Init, MemoryCoins, DiskCoinsAreAChain, CoinsBackedByIndex, Refusals, AtGenesis
<1>5. QED
  BY <1>2, <1>3, <1>4 DEF IInv

(* A step that leaves the disk and the coins alone keeps what is said of   *)
(* them, if it keeps a running node running and forgets no flags.          *)
LEMMA CoinsKept ==
  ASSUME IInv, UNCHANGED <<disk, coins, mishaps>>, status' = "up" => status = "up",
         status' \in {"refused", "split"} => status' = status,
         data \subseteq data', undo \subseteq undo'
  PROVE  MemoryCoins' /\ DiskCoinsAreAChain' /\ CoinsBackedByIndex' /\ Refusals'
<1>1. MemoryCoins'
  BY DEF IInv, MemoryCoins
<1>2. DiskCoinsAreAChain' /\ CoinsBackedByIndex'
  BY DEF IInv, DiskCoinsAreAChain, CoinsBackedByIndex
<1>3. Refusals'
  BY DEF IInv, Refusals, InfoCurrent, OneChain
<1>4. QED
  BY <1>1, <1>2, <1>3

(* AcceptBlock: one more dirty entry.                                      *)
LEMMA AcceptBlockStep ==
  ASSUME IInv, NEW b \in Blocks, AcceptBlock(b)
  PROVE  IInv'
<1>1. b \in Index /\ Height[b] \in Nat
  BY AncestryAssumption DEF Index
<1>2. Types'
  BY <1>1 DEF IInv, Types, AcceptBlock
<1>3. Nested' /\ Ahead'
  BY <1>1 DEF IInv, Types, DiskRecord, Nested, Ahead, Running, AcceptBlock, Idle
<1>4. Bests'
  BY DEF IInv, Bests, Running, AcceptBlock, Closed
<1>5. MemoryCoins' /\ DiskCoinsAreAChain' /\ CoinsBackedByIndex' /\ Refusals'
  BY CoinsKept DEF AcceptBlock
<1>6. QED
  BY <1>2, <1>3, <1>4, <1>5 DEF IInv

(* A flush begins: nothing changes but the program counter.                *)
LEMMA FlushBegins ==
  ASSUME IInv, PeriodicFlush \/ PrepareShutdown
  PROVE  IInv'
<1> USE DEF PeriodicFlush, PrepareShutdown, Flush, Idle, index
<1>1. Types'
  BY DEF IInv, Types
<1>2. Nested' /\ Ahead'
  BY DEF IInv, Nested, Ahead, Running
<1>3. Bests'
  BY DEF IInv, Bests, Running
<1>4. MemoryCoins' /\ DiskCoinsAreAChain' /\ CoinsBackedByIndex' /\ Refusals'
  BY CoinsKept
<1>5. QED
  BY <1>1, <1>2, <1>3, <1>4 DEF IInv

(* The process dies: what is said of a running node is void.               *)
LEMMA CrashStep ==
  ASSUME IInv, Crash
  PROVE  IInv'
<1> USE DEF Crash, index
<1>1. Types'
  BY DEF IInv, Types
<1>2. Nested' /\ Ahead' /\ Bests'
  BY DEF IInv, Nested, Ahead, Bests, Running
<1>3. MemoryCoins' /\ DiskCoinsAreAChain' /\ CoinsBackedByIndex' /\ Refusals'
  BY CoinsKept
<1>4. QED
  BY <1>1, <1>2, <1>3 DEF IInv

(* The block file info is written.                                         *)
LEMMA FlushFilesStep ==
  ASSUME IInv, FlushFiles
  PROVE  IInv'
<1> USE DEF FlushFiles, index
<1>1. /\ disk'.known = disk.known /\ disk'.data = disk.data /\ disk'.undo = disk.undo
      /\ disk'.coins = disk.coins /\ disk'.last = last /\ disk' \in DiskRecord
  BY DEF IInv, Types, DiskRecord
<1>2. Types'
  BY <1>1 DEF IInv, Types
<1>3. Nested' /\ Ahead'
  BY <1>1 DEF IInv, Types, Nested, Ahead, Running
<1>4. Bests' /\ MemoryCoins'
  BY <1>1 DEF IInv, Bests, Running, MemoryCoins
<1>5. DiskCoinsAreAChain' /\ CoinsBackedByIndex'
  BY <1>1 DEF IInv, DiskCoinsAreAChain, CoinsBackedByIndex
<1>6. Refusals'
  BY DEF IInv, Nested, Running, Refusals
<1>7. QED
  BY <1>2, <1>3, <1>4, <1>5, <1>6 DEF IInv

(* A dirty entry is written.                                               *)
LEMMA FlushEntryStep ==
  ASSUME IInv, NEW b \in Blocks, FlushEntry(b)
  PROVE  IInv'
<1>1. b \in Index
  BY DEF Index
<1>2. Types /\ Running
  BY DEF IInv, FlushEntry, Nested
<1>3. /\ disk' \in DiskRecord /\ disk'.coins = disk.coins /\ disk'.last = disk.last
      /\ disk'.known = disk.known \cup {b}
      /\ disk'.data = IF b \in data THEN disk.data \cup {b} ELSE disk.data \ {b}
      /\ disk'.undo = IF b \in undo THEN disk.undo \cup {b} ELSE disk.undo \ {b}
  BY <1>1, <1>2, WrittenFields DEF FlushEntry
<1>4. Types'
  BY <1>3 DEF IInv, Types, FlushEntry
<1>5. Nested' /\ Ahead'
  BY <1>2, <1>3 DEF IInv, Nested, Ahead, Running, FlushEntry
<1>6. Bests' /\ MemoryCoins'
  BY <1>3 DEF IInv, Bests, Running, MemoryCoins, FlushEntry
<1>7. disk.data \subseteq disk'.data /\ disk.undo \subseteq disk'.undo
  BY <1>2, <1>3 DEF IInv, Ahead
<1>8. DiskCoinsAreAChain' /\ CoinsBackedByIndex'
  BY <1>3, <1>7 DEF IInv, DiskCoinsAreAChain, CoinsBackedByIndex, FlushEntry
<1>9. Refusals'
  BY <1>2 DEF Refusals, Running, FlushEntry
<1>10. QED
  BY <1>4, <1>5, <1>6, <1>8, <1>9 DEF IInv

(* ConnectTip: the coins go on by one block, which is in the index with    *)
(* its data, and whose entry is dirty if its undo data is new.             *)
LEMMA ConnectTipStep ==
  ASSUME IInv, NEW b \in Blocks, ConnectTip(b)
  PROVE  IInv'
<1>1. b \in Index /\ Prev[b] \in Index /\ Ancestors(b) = {b} \cup Ancestors(Prev[b])
  BY AncestorsStep
<1>2. Types /\ status = "up" /\ status' = "up" /\ b \in data /\ b \in known
  BY DEF IInv, ConnectTip, Idle, Nested
<1>3. Prev[b] = coins.best
  BY DEF IInv, ConnectTip, Idle, Bests
<1>4. /\ disk' \in DiskRecord /\ disk'.coins = disk.coins /\ disk'.last = disk.last
      /\ disk'.known = disk.known \cup {b} /\ disk'.data = disk.data \cup {b}
      /\ disk'.undo = IF b \in undo THEN disk.undo \cup {b} ELSE disk.undo \ {b}
  BY <1>1, <1>2, WrittenFields DEF ConnectTip
<1>5. /\ coins' \in CoinsRecord /\ coins'.best = b /\ coins'.blocks = coins.blocks \cup {b}
      /\ coins.blocks \in SUBSET Index
  BY <1>1, <1>2 DEF ConnectTip, Types, CoinsRecord
<1>6. Types'
  BY <1>1, <1>4, <1>5 DEF IInv, Types, ConnectTip
<1>7. Nested' /\ Ahead'
  BY <1>2, <1>4 DEF IInv, Nested, Ahead, Running, ConnectTip
<1>8. Bests'
  BY <1>2, <1>4, <1>5 DEF IInv, Bests, Running, ConnectTip
<1>9. MemoryCoins'
  BY <1>1, <1>2, <1>3, <1>5 DEF IInv, MemoryCoins, ConnectTip
<1>10. disk.data \subseteq disk'.data /\ disk.undo \subseteq disk'.undo
  BY <1>2, <1>4 DEF IInv, Ahead, Running
<1>11. DiskCoinsAreAChain' /\ CoinsBackedByIndex'
  BY <1>4, <1>10 DEF IInv, DiskCoinsAreAChain, CoinsBackedByIndex, ConnectTip
<1>12. Refusals'
  BY <1>2 DEF Refusals
<1>13. QED
  BY <1>6, <1>7, <1>8, <1>9, <1>11, <1>12 DEF IInv

(* DisconnectTip: the coins go back by one block.                          *)
LEMMA DisconnectTipStep ==
  ASSUME IInv, DisconnectTip
  PROVE  IInv'
<1>1. Types /\ status = "up" /\ status' = "up" /\ tip = coins.best
  BY DEF IInv, DisconnectTip, Idle, Bests
<1>2. tip \in Blocks /\ tip \in undo /\ tip \in data /\ tip \in known
  BY DEF IInv, Types, Nested, DisconnectTip, Index
<1>3. /\ Prev[tip] \in Index /\ Ancestors(tip) = {tip} \cup Ancestors(Prev[tip])
      /\ Ancestors(tip) \ {tip} = Ancestors(Prev[tip])
  BY <1>2, AncestorsStep, AncestorsOfParent
<1>4. /\ coins' \in CoinsRecord /\ coins'.best = Prev[tip] /\ coins'.blocks = coins.blocks \ {tip}
      /\ coins.blocks \in SUBSET Index
  BY <1>1, <1>3 DEF DisconnectTip, Types, CoinsRecord
<1> USE DEF DisconnectTip, index
<1>5. Types'
  BY <1>4 DEF IInv, Types
<1>6. Nested' /\ Ahead'
  BY DEF IInv, Nested, Ahead, Running, Idle
<1>7. Bests'
  BY <1>1, <1>2, <1>4 DEF IInv, Bests, Running, Closed
<1>8. MemoryCoins'
  BY <1>1, <1>3, <1>4 DEF IInv, MemoryCoins
<1>9. DiskCoinsAreAChain' /\ CoinsBackedByIndex' /\ Refusals'
  BY <1>1 DEF IInv, DiskCoinsAreAChain, CoinsBackedByIndex, Refusals
<1>10. QED
  BY <1>5, <1>6, <1>7, <1>8, <1>9 DEF IInv

(* The coins are written: the index entries of the blocks they have        *)
(* applied were before.                                                    *)
LEMMA FlushCoinsStep ==
  ASSUME IInv, FlushCoins
  PROVE  IInv'
<1>1. Types /\ Running /\ dirty = {}
  BY DEF IInv, FlushCoins, IndexFlushed, Nested
<1>2. /\ disk' \in DiskRecord /\ disk'.coins = coins /\ disk'.last = disk.last
      /\ disk'.known = disk.known /\ disk'.data = disk.data /\ disk'.undo = disk.undo
  BY <1>1 DEF FlushCoins, CoinsAfterFlush, Types, DiskRecord
<1>3. /\ known \subseteq disk.known /\ data \subseteq disk.data /\ undo \subseteq disk.undo
  BY <1>1 DEF IInv, Ahead
<1> USE DEF FlushCoins, TipAfterFlush, index
<1>4. Types'
  BY <1>1, <1>2, RecordFields DEF IInv, Types
<1>5. Nested' /\ Ahead'
  BY <1>1, <1>2 DEF IInv, Nested, Ahead, Running
<1>6. Bests'
  BY <1>1, <1>2, <1>3 DEF IInv, Bests, Running
<1>7. MemoryCoins'
  BY <1>1 DEF IInv, MemoryCoins, Running
<1>8. CASE status = "aborted"
  <2>1. "abort" \in mishaps'
    BY <1>8
  <2>2. DiskCoinsAreAChain' /\ CoinsBackedByIndex' /\ Refusals'
    BY <1>8, <2>1 DEF DiskCoinsAreAChain, CoinsBackedByIndex, Refusals
  <2>3. QED
    BY <1>4, <1>5, <1>6, <1>7, <2>2 DEF IInv
<1>9. CASE status = "up"
  <2>1. DiskCoinsAreAChain' /\ CoinsBackedByIndex'
    BY <1>2, <1>3, <1>9 DEF IInv, MemoryCoins, DiskCoinsAreAChain, CoinsBackedByIndex
  <2>2. Refusals'
    BY <1>9 DEF Refusals
  <2>3. QED
    BY <1>4, <1>5, <1>6, <1>7, <2>1, <2>2 DEF IInv
<1>10. QED
  BY <1>1, <1>8, <1>9 DEF Running

(* The coins cannot be written: the node is not up afterwards.             *)
LEMMA FlushCoinsFailsStep ==
  ASSUME IInv, FlushCoinsFails
  PROVE  IInv'
<1>1. Types /\ Running /\ status' \in {"down", "aborted"}
  BY DEF IInv, FlushCoinsFails, IndexFlushed, Nested
<1>2. /\ disk' \in DiskRecord /\ disk'.coins = disk.coins /\ disk'.last = disk.last
      /\ disk'.known = disk.known /\ disk'.data = disk.data /\ disk'.undo = disk.undo
  BY <1>1 DEF FlushCoinsFails, Types, DiskRecord
<1>3. coins' \in CoinsRecord /\ coins'.best = coins.best
  BY <1>1, RecordFields DEF FlushCoinsFails, Types, CoinsRecord
<1> USE DEF FlushCoinsFails, index
<1>4. Types'
  BY <1>1, <1>2, <1>3 DEF IInv, Types
<1>5. Nested' /\ Ahead' /\ Bests'
  BY <1>1, <1>2, <1>3 DEF IInv, Nested, Ahead, Bests, Running
<1>6. MemoryCoins' /\ Refusals'
  BY <1>1 DEF MemoryCoins, Refusals
<1>7. DiskCoinsAreAChain' /\ CoinsBackedByIndex'
  BY <1>2 DEF IInv, DiskCoinsAreAChain, CoinsBackedByIndex
<1>8. QED
  BY <1>4, <1>5, <1>6, <1>7 DEF IInv

-----------------------------------------------------------------------------
(* vSortedByHeight.                                                        *)

(* The order of the entries is a strict total one.                         *)
LEMMA BeforeIsOrder ==
  ASSUME NEW a \in Index, NEW b \in Index
  PROVE  /\ ~(Before(a, b) /\ Before(b, a)) /\ ~Before(a, a)
         /\ a # b => Before(a, b) \/ Before(b, a)
         /\ \A c \in Index : Before(a, b) /\ Before(b, c) => Before(a, c)
<1>1. \A x \in Index : Height[x] \in Nat /\ Addr[x] \in Int
  BY AncestryAssumption, ChainStoreAssumption
<1>2. a # b => Addr[a] # Addr[b]
  BY ChainStoreAssumption
<1>3. QED
  BY <1>1, <1>2 DEF Before

(* The order as a set of pairs.                                            *)
BeforePairs == {p \in Index \X Index : Before(p[1], p[2])}

(* It orders every set of entries.                                         *)
LEMMA BeforePairsOrder ==
  ASSUME NEW S \in SUBSET Index
  PROVE  /\ IsFiniteSet(S) /\ StrictOrder(BeforePairs, S)
         /\ \A a, b \in S : <<a, b>> \in BeforePairs <=> Before(a, b)
<1>1. IsFiniteSet(S)
  BY AncestorsGenesis, AncestorsCount, FS_Subset
<1>2. \A a, b \in S : <<a, b>> \in BeforePairs <=> Before(a, b)
  BY DEF BeforePairs
<1>3. QED
  BY <1>1, <1>2, BeforeIsOrder DEF StrictOrder

(* A set of entries that is not empty has a first one.                     *)
LEMMA ForemostExists ==
  ASSUME NEW S \in SUBSET Index, S # {}
  PROVE  Foremost(S) \in S /\ \A a \in S : ~Before(a, Foremost(S))
<1>1. \E b \in S : \A a \in S : ~Before(a, b)
  BY BeforePairsOrder, FirstExists
<1>2. QED
  BY <1>1 DEF Foremost

-----------------------------------------------------------------------------
(* The repair.                                                             *)

(* When a repair is called for, vSortedByHeight[nHeightLast + 1] exists.   *)
LEMMA LastMetaKnown ==
  ASSUME Types, NeedsRepair
  PROVE  LastMeta \in disk.known
<1>1. disk.last + 1 \in Nat /\ disk.last + 1 < Cardinality(disk.known) /\ disk.known \in SUBSET Index
  <2>1. IsFiniteSet(disk.known)
    BY RecordFields, AncestorsGenesis, AncestorsCount, FS_Subset
  <2>2. Cardinality(disk.known) \in Nat
    BY <2>1, FS_CardinalityType
  <2>3. QED
    BY <2>2, RecordFields DEF NeedsRepair
<1>2. \E b \in disk.known : Position(b) = disk.last + 1
  <2>1. PICK b \in disk.known : Rank(b, disk.known, BeforePairs) = disk.last + 1
    <3>1. IsFiniteSet(disk.known) /\ StrictOrder(BeforePairs, disk.known)
      BY <1>1, BeforePairsOrder
    <3>2. QED
      BY <1>1, <3>1, PositionTaken
  <2>2. {a \in disk.known : <<a, b>> \in BeforePairs} = {a \in disk.known : Before(a, b)}
    BY <1>1, BeforePairsOrder
  <2>3. QED
    BY <2>1, <2>2 DEF Position, Rank
<1>3. QED
  BY <1>2 DEF LastMeta

(* The replay ends at an entry of the index, not before the one it starts  *)
(* at.                                                                     *)
LEMMA ReplayEndKnown ==
  ASSUME Types, NeedsRepair, ReplayStart # {}
  PROVE  /\ Foremost(ReplayStart) \in ReplayStart
         /\ ReplayEnd \in disk.known /\ ReplayEnd \in Index
         /\ ~Before(ReplayEnd, Foremost(ReplayStart))
<1> DEFINE first == Foremost(ReplayStart)
           Ends  == {b \in FromStart : Height[b] >= Height[LastMeta]}
<1>1. disk.known \in SUBSET Index /\ ReplayStart \in SUBSET Index /\ ReplayStart \subseteq disk.known
  BY RecordFields DEF ReplayStart
<1>2. first \in ReplayStart /\ first \in disk.known /\ first \in Index
  BY <1>1, ForemostExists
<1>3. LastMeta \in disk.known /\ LastMeta \in Index
  BY <1>1, LastMetaKnown
<1>4. \A x \in Index : Height[x] \in Nat
  BY AncestryAssumption
<1>5. Ends # {}
  <2>1. CASE Before(LastMeta, first)
    <3>1. Height[first] >= Height[LastMeta]
      BY <1>2, <1>3, <1>4, <2>1 DEF Before
    <3>2. first \in FromStart
      BY <1>2, BeforeIsOrder DEF FromStart
    <3>3. QED
      BY <3>1, <3>2
  <2>2. CASE ~Before(LastMeta, first)
    <3>1. LastMeta \in FromStart /\ Height[LastMeta] >= Height[LastMeta]
      BY <1>3, <1>4, <2>2 DEF FromStart
    <3>2. QED
      BY <3>1
  <2>3. QED
    BY <2>1, <2>2
<1>6. Ends \in SUBSET Index
  BY <1>1 DEF FromStart
<1>7. ReplayEnd \in Ends
  <2> HIDE DEF Ends
  <2>1. Foremost(Ends) \in Ends
    BY <1>5, <1>6, ForemostExists
  <2>2. ReplayEnd = Foremost(Ends)
    BY DEF Ends, ReplayEnd
  <2>3. QED
    BY <2>1, <2>2
<1>8. QED
  BY <1>1, <1>2, <1>7 DEF FromStart

(* Over an index that is one chain the repair completes the coins to those *)
(* of the block it ends at.                                                *)
LEMMA ChainReplayed ==
  ASSUME Types, NeedsRepair, ReplayStart # {}, OneChain, disk.coins.best \in disk.known
  PROVE  Ancestors(disk.coins.best) \cup Replay = Ancestors(ReplayEnd)
<1> DEFINE c == disk.coins.best
           e == ReplayEnd
           first == Foremost(ReplayStart)
<1>1. PICK t \in disk.known : disk.known = Ancestors(t)
  BY DEF OneChain
<1>2. /\ t \in Index /\ c \in Ancestors(t) /\ c \in Index
      /\ e \in Ancestors(t) /\ e \in Index /\ ~Before(e, first)
      /\ first \in Ancestors(t) /\ first \in Index /\ Height[first] = Height[c] + 1
  BY <1>1, RecordFields, ReplayEndKnown DEF ReplayStart
<1>3. \A x \in Index : Height[x] \in Nat
  BY AncestryAssumption
<1> HIDE DEF c, e, first
<1>4. Height[e] >= Height[first] /\ Height[c] < Height[e]
  BY <1>2, <1>3 DEF Before
<1>5. ASSUME NEW x \in Ancestors(c) PROVE x \in Ancestors(e)
  <2>1. x \in Ancestors(t) /\ x \in Index /\ Height[x] <= Height[c]
    BY <1>2, <1>5, AncestorsTransitive, AncestorsLower
  <2>2. Height[x] <= Height[e]
    BY <1>2, <1>3, <1>4, <2>1
  <2>3. QED
    BY <1>2, <2>1, <2>2, AncestorsByHeight
<1>6. ASSUME NEW x \in Replay PROVE x \in Ancestors(e)
  <2>1. x \in Ancestors(t) /\ x \in Index /\ ~Before(e, x)
    BY <1>1, <1>2, <1>6, AncestorsSelf DEF Replay, FromStart, e
  <2>2. Height[x] <= Height[e]
    BY <1>2, <1>3, <2>1 DEF Before
  <2>3. QED
    BY <1>2, <2>1, <2>2, AncestorsByHeight
<1>7. ASSUME NEW x \in Ancestors(e), x \notin Ancestors(c) PROVE x \in Replay
  <2>1. x \in Ancestors(t) /\ x \in Index /\ Height[x] <= Height[e]
    BY <1>2, <1>7, AncestorsTransitive, AncestorsLower
  <2>2. Height[x] > Height[c]
    BY <1>2, <1>3, <1>7, <2>1, AncestorsByHeight
  <2>3. ~Before(x, first)
    <3>1. SUFFICES ASSUME Before(x, first) PROVE FALSE
      OBVIOUS
    <3>2. Height[x] = Height[first]
      BY <1>2, <1>3, <2>1, <2>2, <3>1 DEF Before
    <3>3. x = first
      BY <1>2, <2>1, <3>2, AncestorsUnique
    <3>4. QED
      BY <1>2, <3>1, <3>3, BeforeIsOrder
  <2>4. ~Before(e, x)
    <3>1. SUFFICES ASSUME Before(e, x) PROVE FALSE
      OBVIOUS
    <3>2. Height[x] = Height[e]
      BY <1>2, <1>3, <2>1, <3>1 DEF Before
    <3>3. x = e
      BY <1>2, <2>1, <3>2, AncestorsUnique
    <3>4. QED
      BY <1>2, <3>1, <3>3, BeforeIsOrder
  <2>5. QED
    BY <1>1, <2>1, <2>3, <2>4 DEF Replay, FromStart, e, first
<1>8. QED
  BY <1>5, <1>6, <1>7 DEF c, e

(* On one chain with current block file info an entry above the coins'     *)
(* best block is left over whenever there are more entries than the block  *)
(* file info says.                                                         *)
LEMMA EntryAbove ==
  ASSUME Types, OneChain, InfoCurrent, disk.coins.best \in disk.known,
         Cardinality(disk.known) > disk.last + 1
  PROVE  \E t \in disk.known :
            /\ disk.known = Ancestors(t) /\ disk.coins.best \in Ancestors(t) \ {t}
            /\ \E b \in disk.known : Height[b] = Height[disk.coins.best] + 1
<1>1. PICK t \in disk.known : disk.known = Ancestors(t)
  BY DEF OneChain
<1>2. t \in Index /\ disk.coins.best \in Index /\ disk.last \in Nat
  BY <1>1, RecordFields
<1>3. Cardinality(Ancestors(t)) = Height[t] + 1
  BY <1>2, AncestorsCount
<1>4. Height[t] \in Nat /\ Height[disk.coins.best] \in Nat
  BY <1>2, AncestryAssumption
<1>5. Height[t] > Height[disk.coins.best]
  BY <1>1, <1>2, <1>3, <1>4 DEF InfoCurrent
<1>6. Height[disk.coins.best] + 1 \in 0..Height[t]
  BY <1>4, <1>5
<1>7. \E b \in Ancestors(t) : Height[b] = Height[disk.coins.best] + 1
  BY <1>2, <1>6, AncestorsHeights
<1>8. disk.coins.best # t
  BY <1>4, <1>5
<1>9. QED
  BY <1>1, <1>7, <1>8

(* LoadBlockIndexDB.                                                       *)
LEMMA LoadStep ==
  ASSUME IInv, NEW forceStart \in BOOLEAN, NEW write \in {"done", "thrown", "logged"},
         Load(forceStart, write)
  PROVE  IInv'
<1> DEFINE repair == ~forceStart /\ NeedsRepair
           split  == \E b \in disk.known \ {Genesis} : Prev[b] \notin disk.known
           stuck  == repair /\ (ReplayStart = {} \/ ~(Replay \subseteq disk.data))
           flushes == repair /\ ~split /\ ~stuck
           applied == IF write = "logged" THEN {} ELSE Replay
           read   == IF flushes
                     THEN [best |-> ReplayEnd, blocks |-> disk.coins.blocks \cup applied]
                     ELSE disk.coins
           fails  == split \/ stuck \/ (flushes /\ write = "thrown")
<1>1. /\ status = "down" /\ Types /\ disk.coins.best \in disk.known /\ flush = "no"
      /\ disk.undo \subseteq disk.data /\ disk.data \subseteq disk.known
  BY DEF IInv, Load, Bests, Nested, Running
<1>2. /\ mishaps' = mishaps \cup (IF repair THEN {"repair"} ELSE {})
                            \cup (IF repair /\ ~OneChain THEN {"mixed"} ELSE {})
                            \cup (IF flushes /\ write # "done" THEN {"unsaved"} ELSE {})
      /\ known' = disk.known /\ data' = disk.data /\ undo' = disk.undo
      /\ dirty' = {} /\ last' = disk.last
      /\ flush' = flush /\ after' = after
  BY DEF Load
<1>3. mishaps \subseteq mishaps'
  BY <1>2
<1>4. CASE fails
  <2>1. coins' = coins /\ tip' = tip /\ disk' = disk /\ status' \in {"split", "refused"}
    BY <1>4 DEF Load
  <2>2. Types'
    BY <1>1, <1>2, <2>1, RecordFields DEF Types
  <2>3. Nested' /\ Ahead' /\ Bests' /\ MemoryCoins'
    BY <1>1, <1>2, <2>1 DEF Nested, Ahead, Bests, MemoryCoins, Running
  <2>4. DiskCoinsAreAChain' /\ CoinsBackedByIndex'
    BY <1>3, <2>1 DEF IInv, DiskCoinsAreAChain, CoinsBackedByIndex
  <2>5. ASSUME OneChain, InfoCurrent PROVE ~split /\ ~stuck
    <3>1. ~split
      <4>1. PICK t \in disk.known : disk.known = Ancestors(t)
        BY <2>5 DEF OneChain
      <4>2. t \in Index
        BY <1>1, <4>1, RecordFields
      <4>3. ASSUME NEW b \in Ancestors(t), b # Genesis PROVE Prev[b] \in Ancestors(t)
        <5>1. b \in Index /\ b \in Blocks
          BY <1>1, <4>1, <4>3, RecordFields DEF Index
        <5>2. Prev[b] \in Index /\ Prev[b] \in Ancestors(b)
          BY <5>1, AncestorsStep, AncestorsSelf
        <5>3. QED
          BY <4>2, <4>3, <5>1, <5>2, AncestorsTransitive
      <4>4. QED
        BY <4>1, <4>3
    <3>2. ASSUME repair PROVE ReplayStart # {} /\ Replay \subseteq disk.data
      <4>1. Cardinality(disk.known) > disk.last + 1
        BY <3>2 DEF NeedsRepair
      <4>2. ReplayStart # {}
        BY <1>1, <2>5, <4>1, EntryAbove DEF ReplayStart
      <4>3. Replay \subseteq disk.data
        BY <2>5 DEF OneChain, Replay, FromStart
      <4>4. QED
        BY <4>2, <4>3
    <3>3. QED
      BY <3>1, <3>2
  <2>6. Refusals'
    <3>1. SUFFICES ASSUME OneChain', InfoCurrent' PROVE "unsaved" \in mishaps'
      BY DEF Refusals
    <3>2. OneChain /\ InfoCurrent
      BY <2>1, <3>1 DEF InfoCurrent, OneChain
    <3>3. flushes /\ write = "thrown"
      BY <1>4, <2>5, <3>2
    <3>4. QED
      BY <1>2, <3>3
  <2>7. QED
    BY <2>2, <2>3, <2>4, <2>6 DEF IInv
<1>5. CASE ~fails
  <2>1. /\ status' = "up" /\ coins' = read /\ tip' = read.best
        /\ disk' = [disk EXCEPT !.coins = IF write = "logged" THEN disk.coins ELSE read,
                                !.shutdown = FALSE]
    BY <1>5 DEF Load
  <2>2. (repair => ReplayStart # {} /\ flushes) /\ (flushes => repair)
    BY <1>5
  <2>3. read \in CoinsRecord /\ read.best \in disk.known
    <3>1. CASE ~repair
      BY <1>1, <2>2, <3>1, RecordFields
    <3>2. CASE repair
      <4>1. ReplayEnd \in disk.known /\ ReplayEnd \in Index
        BY <1>1, <2>2, <3>2, ReplayEndKnown
      <4>2. applied \subseteq Index /\ disk.coins.blocks \subseteq Index
        BY <1>1, RecordFields DEF Replay, FromStart
      <4>3. QED
        BY <2>2, <3>2, <4>1, <4>2 DEF CoinsRecord
    <3>3. QED
      BY <3>1, <3>2
  <2>4. Closed(disk.known)
    BY <1>5 DEF Closed
  <2>5. ASSUME mishaps' \subseteq {"repair"}
        PROVE  read.blocks = Ancestors(read.best) /\ Ancestors(read.best) \ {Genesis} \subseteq disk.data
    <3>1. mishaps \subseteq {"repair"} /\ (repair => OneChain /\ write = "done")
      BY <1>2, <1>3, <2>2, <2>5
    <3>2. /\ disk.coins.blocks = Ancestors(disk.coins.best)
          /\ Ancestors(disk.coins.best) \ {Genesis} \subseteq disk.data
      BY <3>1 DEF IInv, DiskCoinsAreAChain, CoinsBackedByIndex
    <3>3. CASE ~repair
      BY <2>2, <3>2, <3>3
    <3>4. CASE repair
      <4>1. Ancestors(disk.coins.best) \cup Replay = Ancestors(ReplayEnd)
        BY <1>1, <2>2, <3>1, <3>4, ChainReplayed
      <4>2. Replay \subseteq disk.data
        BY <3>1, <3>4 DEF OneChain, Replay, FromStart
      <4>3. read.best = ReplayEnd /\ read.blocks = disk.coins.blocks \cup Replay
        BY <2>2, <3>1, <3>4
      <4>4. QED
        BY <3>2, <4>1, <4>2, <4>3
    <3>5. QED
      BY <3>3, <3>4
  <2>6. ASSUME mishaps' = {}
        PROVE  Ancestors(read.best) \ {Genesis} \subseteq disk.undo
    <3>1. mishaps = {} /\ ~repair
      BY <1>2, <1>3, <2>6
    <3>2. QED
      BY <2>2, <3>1 DEF IInv, CoinsBackedByIndex
  <2>14. ASSUME mishaps' \subseteq {"repair"} PROVE write = "logged" => disk.coins = read
    BY <1>2, <2>14
  <2> HIDE DEF repair, split, stuck, flushes, applied, fails, read
  <2>7. /\ disk' \in DiskRecord /\ disk'.last = disk.last
        /\ disk'.coins = IF write = "logged" THEN disk.coins ELSE read
        /\ disk'.known = disk.known /\ disk'.data = disk.data /\ disk'.undo = disk.undo
    BY <1>1, <2>1, <2>3, RecordFields DEF Types, DiskRecord
  <2>8. Types'
    BY <1>1, <1>2, <2>1, <2>3, <2>7, RecordFields DEF Types, CoinsRecord
  <2>9. Nested' /\ Ahead'
    BY <1>1, <1>2, <2>7, RecordFields DEF Nested, Ahead, Running
  <2>10. Bests'
    BY <1>1, <1>2, <2>1, <2>3, <2>4, <2>7 DEF Bests, Running
  <2>11. MemoryCoins' /\ DiskCoinsAreAChain' /\ CoinsBackedByIndex'
    BY <1>2, <2>1, <2>5, <2>6, <2>7, <2>14 DEF MemoryCoins, DiskCoinsAreAChain, CoinsBackedByIndex
  <2>12. Refusals'
    BY <2>1 DEF Refusals
  <2>13. QED
    BY <2>8, <2>9, <2>10, <2>11, <2>12 DEF IInv
<1>6. QED
  BY <1>4, <1>5

-----------------------------------------------------------------------------
(* Every step keeps the invariant.                                         *)
LEMMA NextIInv ==
  ASSUME IInv, [Next]_vars
  PROVE  IInv'
<1>1. CASE UNCHANGED vars
  BY <1>1 DEF vars, index, IInv, Types, Nested, Ahead, Bests, MemoryCoins, Running,
              DiskCoinsAreAChain, CoinsBackedByIndex, Refusals, InfoCurrent, OneChain
<1>2. CASE Next
  BY <1>2, AcceptBlockStep, ConnectTipStep, FlushEntryStep, DisconnectTipStep, FlushBegins,
     FlushFilesStep, FlushCoinsStep, FlushCoinsFailsStep, CrashStep, LoadStep DEF Next
<1>3. QED
  BY <1>1, <1>2

(* The inductive invariant holds in every reachable state.                 *)
THEOREM InvariantHolds == Spec => []IInv
BY InitIInv, NextIInv, PTL DEF Spec

(* What a crash at any write leaves on disk are the coins of one chain:    *)
(* ConnectBlock, FlushStateToDisk write by write, and LoadBlockIndexDB     *)
(* with its repair, for every tree of blocks and any number of crashes,    *)
(* unless one of the mishaps "mixed", "unsaved" and "abort" has happened.  *)
THEOREM DiskCoinsTheorem == Spec => []DiskCoinsAreAChain
<1>1. IInv => DiskCoinsAreAChain
  BY DEF IInv
<1>2. QED
  BY <1>1, InvariantHolds, PTL

(* The index on disk never lags behind the coins on disk: "Finally flush   *)
(* the chainstate (which may refer to block index entries)".               *)
THEOREM CoinsBackedTheorem == Spec => []CoinsBackedByIndex
<1>1. IInv => CoinsBackedByIndex
  BY DEF IInv
<1>2. QED
  BY <1>1, InvariantHolds, PTL

(* chainActive, pcoinsTip and the index in memory agree whenever cs_main   *)
(* is free, also after a start from what a crash has left.                 *)
THEOREM MemoryTheorem == Spec => []MemoryConsistent
<1>1. IInv => MemoryConsistent
  BY DEF IInv, Types, Nested, Ahead, Bests, Running, MemoryConsistent, TypeOK, TipIsCoinsBest, Idle
<1>2. QED
  BY <1>1, InvariantHolds, PTL

(* LoadBlockIndexDB finds the best block of the coins whatever has         *)
(* happened before.  Over an index that is one chain with all its data and *)
(* current block file info it fails only if the repair cannot write, and   *)
(* repairs only coins that are behind; forks, header-only entries and the  *)
(* stale info of a repaired node are outside of the theorem.               *)
THEOREM RecoveryTheorem == Spec => []RecoveryIsSound
<1>1. ASSUME IInv PROVE RecoveryIsSound
  <2>1. StartsAgain
    BY <1>1 DEF IInv, Bests, Refusals, StartsAgain
  <2>2. ASSUME NeedsRepair, OneChain, InfoCurrent
        PROVE  \E b \in disk.data : disk.coins.best \in Ancestors(b) \ {b}
    <3>1. PICK t \in disk.known : disk.coins.best \in Ancestors(t) \ {t}
      BY <1>1, <2>2, EntryAbove DEF IInv, Bests, NeedsRepair
    <3>2. QED
      BY <2>2, <3>1 DEF OneChain
  <2>3. QED
    BY <2>1, <2>2 DEF RecoveryIsSound, RepairOnlyWhenBehind
<1>2. QED
  BY <1>1, InvariantHolds, PTL
=============================================================================
