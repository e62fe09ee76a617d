--------------------------- MODULE BlockTreeProofs ---------------------------
(***************************************************************************)
(* Proofs about the block index and the choice of the active chain, for    *)
(* every finite tree of blocks, any sets of invalid blocks, and any number *)
(* of operator commands and restarts.                                      *)
(***************************************************************************)
EXTENDS BlockTree, AncestryProofs

-----------------------------------------------------------------------------
(* The inductive invariant.                                                *)

Types ==
  TypeOK /\ nextSeq \in Nat /\ descended \in BOOLEAN /\ candidates \subseteq linked

CandidatesSort == \A c \in candidates : ~Worse(c, tip)

(* ConnectBlock took all of the active chain, and what is failed in it     *)
(* descends from a block InvalidateBlock could not disconnect.             *)
ChainSound == Chain \cap Bad = {} /\ ActiveChainNotFailed

(* Nothing has made the candidates incomplete.                             *)
Whole == ~descended /\ defied = {}

(* A candidate at least as good as the tip that ConnectBlock would take,   *)
(* such that every block without a failed flag that is better still is a   *)
(* candidate.  After PruneBlockIndexCandidates it is the tip; after        *)
(* DisconnectBlocksAndReprocess it is the tip that was.                    *)
Watermark(u) ==
  /\ u \in candidates /\ ~Worse(u, tip)
  /\ Ancestors(u) \cap (Failed \cup Bad) = {}
  /\ \A x \in linked \ Failed : Worse(u, x) => x \in candidates

Watermarked == Whole => \E u \in Index : Watermark(u)

(* An activation that ended as it should has found the best block.         *)
Settles == Whole /\ ~pending /\ ~halted => \A b \in Eligible : ~Worse(tip, b)

IInv ==
  /\ Types /\ LinkedWhenComplete /\ CandidatesSort /\ ChainSound
  /\ Watermarked /\ FailedHasInvalidAncestor /\ Settles

-----------------------------------------------------------------------------
(* CBlockIndexWorkComparator.                                              *)

(* It is a strict total order, because addresses differ.                   *)
LEMMA WorseIsOrder ==
  ASSUME NEW s \in [Index -> Int], NEW at \in Orders, NEW a \in Index, NEW b \in Index
  PROVE  /\ ~WorseBy(s, at, a, a) /\ ~(WorseBy(s, at, a, b) /\ WorseBy(s, at, b, a))
         /\ a # b => WorseBy(s, at, a, b) \/ WorseBy(s, at, b, a)
         /\ \A c \in Index : WorseBy(s, at, a, b) /\ WorseBy(s, at, b, c) => WorseBy(s, at, a, c)
<1>1. \A x \in Index : Work[x] \in Nat /\ s[x] \in Int /\ at[x] \in Int
  BY BlockTreeAssumption
<1>2. a # b => at[a] # at[b]
  BY BlockTreeAssumption
<1>3. QED
  BY <1>1, <1>2 DEF WorseBy

(* A proper ancestor has less work.                                        *)
LEMMA AncestorHasLessWork ==
  ASSUME NEW b \in Index, NEW a \in Ancestors(b)
  PROVE  a \in Index /\ (a = b \/ Work[a] < Work[b])
<1> DEFINE S == {x \in Index : x = b \/ Work[x] < Work[b]}
<1>1. \A x \in Index : Work[x] \in Nat
  BY BlockTreeAssumption
<1>2. ASSUME NEW x \in S \ {Genesis} PROVE Prev[x] \in S
  <2>1. x \in Blocks /\ x \in Index /\ Prev[x] \in Index
    BY <1>2, AncestryAssumption DEF Index
  <2>2. Work[Prev[x]] < Work[x]
    BY <2>1, <1>1, BlockTreeAssumption
  <2>3. QED
    BY <1>1, <1>2, <2>1, <2>2
<1>3. S \in SUBSET Index /\ b \in S /\ Closed(S)
  BY <1>2 DEF Closed
<1>4. QED
  BY <1>3, AncestorsLeast

(* So it sorts worse.                                                      *)
LEMMA AncestorIsWorse ==
  ASSUME NEW s \in [Index -> Int], NEW at \in Orders, NEW b \in Index, NEW a \in Ancestors(b)
  PROVE  a \in Index /\ (a = b \/ WorseBy(s, at, a, b)) /\ ~WorseBy(s, at, b, a)
<1>1. a \in Index /\ (a = b \/ Work[a] < Work[b])
  BY AncestorHasLessWork
<1>2. a = b \/ WorseBy(s, at, a, b)
  BY <1>1 DEF WorseBy
<1>3. QED
  BY <1>1, <1>2, WorseIsOrder

(* What is not worse than a block is not worse than its ancestors.         *)
LEMMA NotWorseThanAncestor ==
  ASSUME NEW s \in [Index -> Int], NEW at \in Orders, NEW b \in Index, NEW a \in Ancestors(b),
         NEW x \in Index, ~WorseBy(s, at, x, b)
  PROVE  ~WorseBy(s, at, x, a)
<1>1. a \in Index /\ (a = b \/ WorseBy(s, at, a, b))
  BY AncestorIsWorse
<1>2. WorseBy(s, at, x, a) /\ WorseBy(s, at, a, b) => WorseBy(s, at, x, b)
  BY <1>1, WorseIsOrder
<1>3. QED
  BY <1>1, <1>2

-----------------------------------------------------------------------------
(* Facts about single states.                                              *)

(* The types, spelled out.                                                 *)
LEMMA TypeFacts ==
  ASSUME Types
  PROVE  /\ seq \in [Index -> Int] /\ addr \in Orders /\ addr \in [Index -> Int]
         /\ known \in SUBSET Index /\ data \in SUBSET Index /\ linked \in SUBSET Index
         /\ unlinked \in SUBSET Index /\ candidates \in SUBSET Index /\ Failed \in SUBSET Index
         /\ linked \subseteq data /\ data \subseteq known /\ candidates \subseteq linked
         /\ tip \in Index /\ tip \in linked /\ Genesis \notin Failed
<1>1. seq \in [Index -> Int]
  <2>1. seq \in [Index -> 0..(nextSeq - 1)] /\ nextSeq \in Nat
    BY DEF Types, TypeOK
  <2>2. QED
    BY <2>1
<1>2. addr \in Orders /\ addr \in [Index -> Int]
  BY BlockTreeAssumption DEF Types, TypeOK
<1>3. QED
  BY <1>1, <1>2 DEF Types, TypeOK

(* The ancestors of a linked block are linked.                             *)
LEMMA LinkedClosed ==
  ASSUME Types, LinkedWhenComplete, NEW b \in linked
  PROVE  b \in Index /\ Ancestors(b) \subseteq linked /\ Ancestors(b) \subseteq data
<1>1. b \in Index /\ Ancestors(b) \subseteq data
  BY TypeFacts DEF LinkedWhenComplete
<1>2. ASSUME NEW a \in Ancestors(b) PROVE a \in linked
  <2>1. Ancestors(a) \subseteq data /\ a \in data
    BY <1>1, <1>2, AncestorsTransitive
  <2>2. QED
    BY <2>1 DEF LinkedWhenComplete
<1>3. QED
  BY <1>1, <1>2

(* The active chain is linked and begins at the genesis block.             *)
LEMMA ChainFacts ==
  ASSUME Types, LinkedWhenComplete
  PROVE  /\ tip \in Chain /\ Genesis \in Chain /\ Chain \subseteq linked /\ Chain \subseteq data
         /\ Chain \subseteq Index
BY TypeFacts, LinkedClosed, AncestorsSelf, GenesisIsAncestor DEF Chain

(* The node starts with the genesis block alone.                           *)
LEMMA InitIInv == ASSUME Init PROVE IInv
<1>1. Genesis \in Index /\ Ancestors(Genesis) = {Genesis} /\ Genesis \notin Bad
  BY AncestorsGenesis, AncestryAssumption, BlockTreeAssumption
<1>2. Types
  <2>1. seq \in [Index -> 0..(nextSeq - 1)] /\ nextSeq \in Nat
    BY DEF Init
  <2>2. 0 \in 0..MaxOps
    BY BlockTreeAssumption
  <2>3. QED
    BY <1>1, <2>1, <2>2 DEF Init, Types, TypeOK, Failed
<1>3. LinkedWhenComplete
  BY <1>1 DEF Init, LinkedWhenComplete
<1>4. ~Worse(Genesis, Genesis)
  BY <1>1, <1>2, TypeFacts, WorseIsOrder DEF Worse
<1>5. CandidatesSort /\ ChainSound /\ FailedHasInvalidAncestor
  BY <1>1, <1>4 DEF Init, CandidatesSort, ChainSound, ActiveChainNotFailed, FailedHasInvalidAncestor,
                    Chain, Failed
<1>6. Watermark(Genesis)
  BY <1>1, <1>4 DEF Init, Watermark, Failed
<1>7. Settles
  BY <1>4 DEF Init, Settles, Eligible
<1>8. QED
  BY <1>1, <1>2, <1>3, <1>5, <1>6, <1>7 DEF IInv, Watermarked

-----------------------------------------------------------------------------
(* AcceptBlock.                                                            *)

(* An entry that gets no data, and perhaps a failed flag.                  *)
LEMMA HeaderStep ==
  ASSUME IInv, NEW b \in Blocks, known' = known \cup {b},
         \/ failedValid' = failedValid
         \/ failedValid' = failedValid \cup {b} /\ b \notin data,
         pending' = pending \/ pending' = TRUE,
         UNCHANGED <<data, linked, failedChild, childDirty, ids, unlinked, candidates, tip, ops, descended,
                     halted, defied>>
  PROVE  IInv'
<1>1. /\ b \in Index /\ b # Genesis
      /\ UNCHANGED <<seq, nextSeq, addr>>
  BY AncestorsStep DEF ids
<1>2. Types /\ LinkedWhenComplete
  BY DEF IInv
<1>3. /\ Failed \subseteq Failed' /\ failedValid \subseteq failedValid'
      /\ \A x \in Failed' \ Failed : x = b /\ b \notin data /\ b \in failedValid'
  BY DEF Failed
<1>4. \A x \in linked : Ancestors(x) \cap Failed' = Ancestors(x) \cap Failed
  BY <1>2, <1>3, LinkedClosed
<1>5. Types'
  BY <1>1 DEF IInv, Types, TypeOK, Failed
<1>6. LinkedWhenComplete' /\ CandidatesSort'
  BY <1>1 DEF IInv, LinkedWhenComplete, CandidatesSort, Worse
<1>7. ChainSound'
  BY <1>2, <1>4, TypeFacts DEF IInv, ChainSound, ActiveChainNotFailed, Chain
<1>8. Watermarked'
  <2>1. SUFFICES ASSUME Whole PROVE \E u \in Index : Watermark(u)'
    BY DEF Watermarked, Whole
  <2>2. PICK u \in Index : Watermark(u)
    BY <2>1 DEF IInv, Watermarked
  <2>3. u \in linked
    BY <1>2, <2>2, TypeFacts DEF Watermark
  <2>4. Watermark(u)'
    BY <1>1, <1>3, <1>4, <2>2, <2>3 DEF Watermark, Worse
  <2>5. QED
    BY <2>4
<1>9. FailedHasInvalidAncestor'
  BY <1>1, <1>3, AncestorsSelf DEF IInv, FailedHasInvalidAncestor
<1>10. Settles'
  BY <1>1, <1>4 DEF IInv, Settles, Eligible, Worse, Whole
<1>11. QED
  BY <1>5, <1>6, <1>7, <1>8, <1>9, <1>10 DEF IInv

(* ReceivedBlockTransactions links exactly the blocks that are complete    *)
(* now: b and those that waited for it, directly or through each other.    *)
LEMMA ReceivedLinks ==
  ASSUME Types, LinkedWhenComplete, NEW b \in Blocks, b \notin data, Prev[b] \in linked
  PROVE  /\ {x \in data \cup {b} : Ancestors(x) \subseteq data \cup {b}} = linked \cup {b} \cup Waiting(b)
         /\ (data \cup {b}) \ (linked \cup {b} \cup Waiting(b)) = unlinked \ ({b} \cup Waiting(b))
         /\ ({b} \cup Waiting(b)) \cap linked = {}
<1>1. /\ b \in Index /\ Prev[b] \in Index /\ Ancestors(b) = {b} \cup Ancestors(Prev[b])
      /\ Ancestors(Prev[b]) \subseteq data
  BY AncestorsStep, LinkedClosed
<1>2. data \in SUBSET Index /\ unlinked = data \ linked /\ b \notin linked
  BY TypeFacts DEF LinkedWhenComplete
<1>3. ASSUME NEW x \in Waiting(b)
      PROVE  x \in unlinked /\ Ancestors(x) \subseteq data \cup {b}
  <2>1. /\ x \in unlinked /\ x \in Index /\ b \in Ancestors(x)
        /\ \A a \in Ancestors(x) \ Ancestors(b) : a \in unlinked
    BY <1>3 DEF Waiting
  <2>2. QED
    BY <1>1, <1>2, <2>1
<1>4. ASSUME NEW x \in data \cup {b}, Ancestors(x) \subseteq data \cup {b}, x \notin linked, x # b
      PROVE  x \in Waiting(b)
  <2>1. x \in data /\ x \in Index /\ x \in unlinked
    BY <1>2, <1>4
  <2>2. b \in Ancestors(x)
    BY <1>4, <2>1 DEF LinkedWhenComplete
  <2>3. ASSUME NEW a \in Ancestors(x) \ Ancestors(b) PROVE a \in unlinked
    <3>1. a \in Index /\ a # b /\ a \in data
      BY <1>1, <1>4, <2>1, <2>3, AncestorsSelf
    <3>2. b \in Ancestors(a)
      BY <2>1, <2>2, <2>3, AncestorsLinear
    <3>3. a \notin linked
      BY <3>2, LinkedClosed
    <3>4. QED
      BY <1>2, <3>1, <3>3
  <2>4. QED
    BY <2>1, <2>2, <2>3 DEF Waiting
<1>5. ASSUME NEW x \in linked PROVE x \in data /\ Ancestors(x) \subseteq data
  BY TypeFacts, LinkedClosed
<1>6. {x \in data \cup {b} : Ancestors(x) \subseteq data \cup {b}} = linked \cup {b} \cup Waiting(b)
  BY <1>1, <1>2, <1>3, <1>4, <1>5
<1>7. QED
  BY <1>2, <1>3, <1>6

(* A block whose parent is not linked is not, and no other becomes so.     *)
LEMMA ReceivedWaits ==
  ASSUME Types, LinkedWhenComplete, NEW b \in Blocks, b \notin data, Prev[b] \notin linked
  PROVE  {x \in data \cup {b} : Ancestors(x) \subseteq data \cup {b}} = linked
<1>1. /\ b \in Index /\ Prev[b] \in Index /\ Ancestors(b) = {b} \cup Ancestors(Prev[b])
      /\ b \notin Ancestors(Prev[b])
  BY AncestorsStep, AncestorsOfParent
<1>2. ~(Ancestors(Prev[b]) \subseteq data)
  BY <1>1, AncestorsSelf DEF LinkedWhenComplete
<1>3. ASSUME NEW x \in data \cup {b}, Ancestors(x) \subseteq data \cup {b}
      PROVE  x \in linked
  <2>1. x \in Index
    BY <1>1, TypeFacts
  <2>2. b \notin Ancestors(x)
    <3>1. b \in Ancestors(x) => Ancestors(b) \subseteq Ancestors(x)
      BY <2>1, AncestorsTransitive
    <3>2. QED
      BY <1>1, <1>2, <1>3, <3>1
  <2>3. QED
    BY <1>3, <2>1, <2>2, AncestorsSelf DEF LinkedWhenComplete
<1>4. QED
  BY <1>3, LinkedClosed, TypeFacts

(* New sequence ids leave the order of the old blocks as it is.            *)
LEMMA OrderOfOld ==
  ASSUME NEW S, NEW s, NEW a \in Index \ S, NEW c \in Index \ S,
         seq' = [x \in Index |-> IF x \in S THEN s[x] ELSE seq[x]], addr' = addr
  PROVE  WorseBy(seq', addr', a, c) = WorseBy(seq, addr, a, c)
BY DEF WorseBy

(* ReceivedBlockTransactions of a block whose parent is linked: the new    *)
(* blocks get sequence ids, and are candidates unless they sort worse than *)
(* the tip.                                                                *)
LEMMA LinkingStep ==
  ASSUME IInv, NEW b \in Blocks, b \notin data, Prev[b] \in linked,
         known' = known \cup {b}, pending' = TRUE, ReceivedBlockTransactions(b),
         UNCHANGED <<flags, addr, tip, ops, descended, halted, defied>>
  PROVE  IInv'
<1> DEFINE news == {b} \cup Waiting(b)
<1>1. Types /\ LinkedWhenComplete /\ b \in Index
  BY AncestorsStep DEF IInv
<1>2. /\ {x \in data \cup {b} : Ancestors(x) \subseteq data \cup {b}} = linked \cup news
      /\ (data \cup {b}) \ (linked \cup news) = unlinked \ news
      /\ news \cap linked = {}
  BY <1>1, ReceivedLinks
<1>3. news \subseteq Index /\ news \subseteq data \cup {b} /\ IsFiniteSet(news)
  <2>1. news \subseteq Index /\ news \subseteq data \cup {b}
    BY <1>1, TypeFacts DEF Waiting, LinkedWhenComplete
  <2>2. QED
    BY <1>1, <2>1, AncestorsCount, FS_Subset
<1>4. PICK s \in Numbered(news) :
        /\ data' = data \cup {b} /\ linked' = linked \cup news
        /\ seq' = [x \in Index |-> IF x \in news THEN s[x] ELSE seq[x]]
        /\ nextSeq' = nextSeq + Cardinality(news)
        /\ candidates' = candidates \cup {x \in news : ~WorseBy(seq', addr, x, tip)}
        /\ unlinked' = unlinked \ news
  BY DEF ReceivedBlockTransactions
<1> HIDE DEF news
<1>5. /\ UNCHANGED <<failedValid, failedChild, childDirty, Failed>>
      /\ addr' = addr /\ tip' = tip /\ descended' = descended /\ defied' = defied
  BY DEF flags, Failed
<1>6. nextSeq' \in Nat /\ seq' \in [Index -> 0..(nextSeq' - 1)]
  <2>1. nextSeq \in Nat /\ Cardinality(news) \in Nat /\ seq \in [Index -> 0..(nextSeq - 1)]
    BY <1>1, <1>3, FS_CardinalityType DEF Types, TypeOK
  <2>2. s \in [news -> nextSeq..(nextSeq + Cardinality(news) - 1)]
    BY <1>4 DEF Numbered
  <2>3. ASSUME NEW x \in Index
        PROVE  (IF x \in news THEN s[x] ELSE seq[x]) \in 0..(nextSeq + Cardinality(news) - 1)
    BY <2>1, <2>2
  <2>4. QED
    BY <1>4, <2>1, <2>3
<1>7. Types'
  <2>1. candidates' \subseteq linked'
    BY <1>1, <1>4 DEF Types
  <2>2. linked' \subseteq data' /\ unlinked' \subseteq data' /\ data' \subseteq known'
    BY <1>1, <1>3, <1>4 DEF Types, TypeOK
  <2>3. QED
    BY <1>1, <1>4, <1>5, <1>6, <2>1, <2>2 DEF Types, TypeOK
<1>8. LinkedWhenComplete'
  BY <1>2, <1>4 DEF LinkedWhenComplete
<1>9. ASSUME NEW x \in linked, NEW y \in linked
      PROVE  Worse(x, y)' <=> Worse(x, y)
  <2>1. x \in Index \ news /\ y \in Index \ news
    BY <1>1, <1>2, TypeFacts
  <2>2. QED
    BY <1>4, <1>5, <2>1, OrderOfOld DEF Worse
<1>10. tip \in linked /\ candidates \subseteq linked /\ Chain' = Chain
  BY <1>1, <1>5, TypeFacts DEF Chain
<1>11. CandidatesSort'
  <2>1. ASSUME NEW c \in candidates PROVE ~Worse(c, tip)'
    BY <1>9, <1>10 DEF IInv, CandidatesSort
  <2>2. QED
    BY <1>4, <1>5, <2>1 DEF CandidatesSort, Worse
<1>12. ChainSound' /\ FailedHasInvalidAncestor'
  BY <1>5, <1>10 DEF IInv, ChainSound, ActiveChainNotFailed, FailedHasInvalidAncestor
<1>13. Watermarked'
  <2>1. SUFFICES ASSUME Whole PROVE \E u \in Index : Watermark(u)'
    BY <1>5 DEF Watermarked, Whole
  <2>2. PICK u \in Index : Watermark(u)
    BY <2>1 DEF IInv, Watermarked
  <2>3. u \in linked /\ u \in candidates' /\ ~Worse(u, tip)'
    BY <1>4, <1>9, <1>10, <2>2 DEF Watermark
  <2>4. ASSUME NEW x \in linked' \ Failed, Worse(u, x)' PROVE x \in candidates'
    <3>1. CASE x \in linked
      BY <1>4, <1>9, <2>2, <2>3, <2>4, <3>1 DEF Watermark
    <3>2. CASE x \in news
      <4>1. x \in Index /\ seq' \in [Index -> Int]
        BY <1>3, <1>6, <3>2
      <4>2. ~WorseBy(seq', addr', x, tip)
        BY <1>1, <1>5, <2>3, <2>4, <4>1, TypeFacts, WorseIsOrder DEF Worse
      <4>3. QED
        BY <1>4, <1>5, <3>2, <4>2
    <3>3. QED
      BY <1>4, <2>4, <3>1, <3>2
  <2>5. Watermark(u)'
    BY <1>5, <2>2, <2>3, <2>4 DEF Watermark
  <2>6. QED
    BY <2>5
<1>14. Settles'
  BY DEF Settles
<1>15. QED
  BY <1>7, <1>8, <1>11, <1>12, <1>13, <1>14 DEF IInv

(* ReceivedBlockTransactions of a block whose parent is not: it waits.     *)
LEMMA WaitingStep ==
  ASSUME IInv, NEW b \in Blocks, b \notin data, Prev[b] \notin linked, Prev[b] \notin Failed,
         known' = known \cup {b}, pending' = TRUE, ReceivedBlockTransactions(b),
         UNCHANGED <<flags, addr, tip, ops, descended, halted, defied>>
  PROVE  IInv'
<1>1. Types /\ LinkedWhenComplete /\ b \in Index
  BY AncestorsStep DEF IInv
<1>2. /\ data' = data \cup {b} /\ unlinked' = unlinked \cup {b}
      /\ UNCHANGED <<linked, seq, nextSeq, candidates>>
  BY DEF ReceivedBlockTransactions
<1>3. UNCHANGED <<failedValid, failedChild, childDirty, Failed, tip, addr, descended, Chain, defied>>
  BY DEF flags, Failed, Chain
<1>4. Types'
  BY <1>1, <1>2, <1>3 DEF Types, TypeOK
<1>5. LinkedWhenComplete'
  <2>1. {x \in data \cup {b} : Ancestors(x) \subseteq data \cup {b}} = linked
    BY <1>1, ReceivedWaits
  <2>2. b \notin linked /\ unlinked = data \ linked
    BY <1>1, TypeFacts DEF LinkedWhenComplete
  <2>3. QED
    BY <1>2, <2>1, <2>2 DEF LinkedWhenComplete
<1>6. CandidatesSort' /\ ChainSound' /\ FailedHasInvalidAncestor' /\ Settles'
  BY <1>2, <1>3 DEF IInv, CandidatesSort, ChainSound, ActiveChainNotFailed, FailedHasInvalidAncestor, Settles, Worse
<1>7. Watermarked'
  BY <1>2, <1>3 DEF IInv, Watermarked, Watermark, Worse, Whole
<1>8. QED
  BY <1>4, <1>5, <1>6, <1>7 DEF IInv

(* AcceptBlock of a block whose parent is not failed.                      *)
LEMMA StoreBlockStep == ASSUME IInv, NEW b \in Blocks, StoreBlock(b) PROVE IInv'
<1>1. /\ Prev[b] \in known \ Failed /\ b \notin Failed /\ known' = known \cup {b}
      /\ UNCHANGED <<failedChild, childDirty, addr, tip, ops, descended, halted, defied>>
  BY DEF StoreBlock
<1>2. CASE /\ failedValid' = failedValid \/ (failedValid' = failedValid \cup {b} /\ b \notin data)
           /\ pending' = pending \/ pending' = TRUE
           /\ UNCHANGED <<data, linked, seq, nextSeq, unlinked, candidates>>
  BY <1>1, <1>2, HeaderStep DEF ids
<1>3. CASE b \notin data /\ ReceivedBlockTransactions(b) /\ pending' = TRUE /\ UNCHANGED failedValid
  BY <1>1, <1>3, LinkingStep, WaitingStep DEF flags
<1>4. QED
  BY <1>2, <1>3 DEF StoreBlock


-----------------------------------------------------------------------------
(* The operator's commands, reprocessing and restarts.                     *)

(* ReconsiderBlock.  If no proper ancestor of b is failed, what it clears  *)
(* it also makes candidates of.                                            *)
LEMMA ReconsiderStep ==
  ASSUME IInv, NEW b \in Index, ReconsiderBlock(b), pending' = TRUE, ops' \in 0..MaxOps,
         UNCHANGED <<known, data, linked, ids, unlinked, tip, halted, defied>>
  PROVE  IInv'
<1> DEFINE below == {x \in Failed : b \in Ancestors(x)}
           clear == below \cup Ancestors(b)
<1>1. /\ failedValid' = failedValid \ clear /\ failedChild' = failedChild \ clear
      /\ childDirty' = childDirty \ clear
      /\ candidates' = candidates \cup {x \in below : x \in data /\ x \in linked /\ Worse(tip, x)}
      /\ descended' = (descended \/ (Ancestors(b) \ {b}) \cap Failed # {})
  BY DEF ReconsiderBlock
<1>2. Types /\ LinkedWhenComplete /\ UNCHANGED <<seq, nextSeq, addr, Chain>>
  BY DEF IInv, ids, Chain
<1>3. /\ Failed' = Failed \ clear /\ candidates \subseteq candidates'
      /\ b \in Ancestors(b)
  BY <1>1, AncestorsSelf DEF Failed
<1>4. Types'
  BY <1>1, <1>2, <1>3 DEF Types, TypeOK
<1>5. LinkedWhenComplete' /\ ChainSound' /\ Settles'
  BY <1>2, <1>3 DEF IInv, LinkedWhenComplete, ChainSound, ActiveChainNotFailed, Settles
<1>6. CandidatesSort'
  <2>1. ASSUME NEW x \in below, Worse(tip, x) PROVE ~Worse(x, tip)
    BY <1>2, <2>1, TypeFacts, WorseIsOrder DEF Worse
  <2>2. QED
    BY <1>1, <1>2, <2>1 DEF IInv, CandidatesSort, Worse
<1>7. ASSUME ~descended', NEW x \in Failed, x \in clear PROVE x \in below
  BY <1>1, <1>3, <1>7
<1>8. Watermarked'
  <2>1. SUFFICES ASSUME Whole' PROVE \E u \in Index : Watermark(u)'
    BY DEF Watermarked
  <2>2. PICK u \in Index : Watermark(u)
    BY <1>1, <2>1 DEF IInv, Watermarked, Whole
  <2>3. ASSUME NEW x \in linked \ Failed', Worse(u, x) PROVE x \in candidates'
    <3>1. CASE x \notin Failed
      BY <1>3, <2>2, <2>3, <3>1 DEF Watermark
    <3>2. CASE x \in Failed
      <4>1. x \in below /\ x \in data /\ x \in linked /\ x \in Index
        BY <1>2, <1>3, <1>7, <2>1, <2>3, <3>2, TypeFacts DEF Whole
      <4>2. Worse(tip, x)
        BY <1>2, <2>2, <2>3, <4>1, TypeFacts, WorseIsOrder DEF Watermark, Worse
      <4>3. QED
        BY <1>1, <4>1, <4>2
    <3>3. QED
      BY <3>1, <3>2
  <2>4. Watermark(u)'
    BY <1>2, <1>3, <2>2, <2>3 DEF Watermark, Worse
  <2>5. QED
    BY <2>4
<1>9. FailedHasInvalidAncestor'
  <2>1. SUFFICES ASSUME ~descended', NEW x \in Failed' PROVE Ancestors(x) \cap failedValid' # {}
    BY DEF FailedHasInvalidAncestor
  <2>2. x \in Failed /\ x \notin clear /\ x \in Index
    BY <1>2, <1>3, <2>1, TypeFacts
  <2>3. PICK z \in Ancestors(x) : z \in failedValid
    BY <1>1, <2>1, <2>2 DEF IInv, FailedHasInvalidAncestor
  <2>4. z \notin clear
    <3>1. z \in clear => b \in Ancestors(z)
      BY <1>7, <2>1, <2>3 DEF Failed
    <3>2. b \notin Ancestors(z)
      BY <2>2, <2>3, AncestorsTransitive
    <3>3. QED
      BY <3>1, <3>2
  <2>5. QED
    BY <1>1, <2>3, <2>4
<1>10. QED
  BY <1>4, <1>5, <1>6, <1>8, <1>9 DEF IInv

(* A lower tip keeps what was said of the old one: the chain is a part of  *)
(* the old chain, and no candidate sorts worse.                            *)
LEMMA LowerTip ==
  ASSUME IInv, NEW t \in Chain
  PROVE  /\ t \in linked /\ t \in data /\ t \in Index /\ Ancestors(t) \subseteq Chain
         /\ \A x \in Index : ~Worse(x, tip) => ~Worse(x, t)
<1>1. /\ Types /\ LinkedWhenComplete /\ tip \in Index
      /\ seq \in [Index -> Int] /\ addr \in Orders
  BY TypeFacts DEF IInv
<1>2. t \in linked /\ t \in data /\ t \in Index /\ Ancestors(t) \subseteq Chain
  BY <1>1, ChainFacts, AncestorsTransitive DEF Chain
<1>3. QED
  BY <1>1, <1>2, NotWorseThanAncestor DEF Chain, Worse

(* The invalidateblock RPC: the new watermark is the new tip, whose rivals *)
(* come back.                                                              *)
LEMMA InvalidateStep ==
  ASSUME IInv, NEW b \in Blocks, InvalidateBlock(b) PROVE IInv'
<1> DEFINE gone == Disconnected(b)
<1>1. /\ b \in known /\ ops < MaxOps
      /\ failedValid' = failedValid \cup {b} /\ failedChild' = failedChild \cup gone
      /\ childDirty' = childDirty \cup gone \cup (failedChild \cap {b})
      /\ tip' = (IF gone = {} THEN tip ELSE Prev[b])
      /\ candidates' = ReadmitCandidates(candidates \ (gone \cup {b}), Failed', tip')
      /\ pending' = TRUE /\ ops' = ops + 1
      /\ UNCHANGED <<known, data, linked, ids, unlinked, descended, halted, defied>>
  BY DEF InvalidateBlock
<1>2. /\ Types /\ LinkedWhenComplete /\ UNCHANGED <<seq, nextSeq, addr>>
      /\ b \in Index /\ Prev[b] \in Index /\ b # Genesis
      /\ Ancestors(b) = {b} \cup Ancestors(Prev[b]) /\ b \in Ancestors(b)
  BY <1>1, AncestorsStep, AncestorsSelf DEF IInv, ids
<1>3. \A x \in gone : x \in Chain /\ b \in Ancestors(x) /\ b \in Chain
  BY DEF Disconnected
<1>4. b \in Chain => b \in gone
  BY <1>2 DEF Disconnected
<1>5. tip' \in Chain /\ Ancestors(tip') \cap (gone \cup {b}) = {}
  <2>1. CASE b \notin Chain
    <3>1. gone = {} /\ tip' = tip
      BY <1>1, <1>3, <2>1
    <3>2. QED
      BY <1>2, <2>1, <3>1, ChainFacts DEF Chain
  <2>2. CASE b \in Chain
    <3>1. tip' = Prev[b]
      BY <1>1, <1>4, <2>2
    <3>2. tip' \in Chain
      BY <1>2, <2>2, <3>1, TypeFacts, AncestorsTransitive, AncestorsSelf DEF Chain
    <3>3. b \notin Ancestors(Prev[b])
      BY AncestorsOfParent
    <3>4. ASSUME NEW x \in gone, x \in Ancestors(Prev[b]) PROVE FALSE
      BY <1>2, <1>3, <3>3, <3>4, AncestorsTransitive
    <3>5. QED
      BY <3>1, <3>2, <3>3, <3>4
  <2>3. QED
    BY <2>1, <2>2
<1>6. /\ tip' \in linked /\ tip' \in data /\ tip' \in Index /\ Ancestors(tip') \subseteq Chain
      /\ \A x \in Index : ~Worse(x, tip) => ~Worse(x, tip')
  BY <1>5, LowerTip
<1>7. Failed' = Failed \cup gone \cup {b}
  BY <1>1 DEF Failed
<1>8. candidates' = (candidates \ (gone \cup {b})) \cup
                      {x \in data : x \notin Failed' /\ x \in linked /\ ~Worse(x, tip')}
  BY <1>1, <1>2 DEF ReadmitCandidates, Worse
<1>9. Types'
  <2>1. Genesis \notin Failed' /\ Failed' \subseteq known
    <3>1. Genesis \notin gone
      BY <1>2, <1>3, AncestorsGenesis
    <3>2. gone \subseteq known
      BY <1>2, <1>3, ChainFacts, TypeFacts
    <3>3. QED
      BY <1>1, <1>2, <1>7, <3>1, <3>2 DEF Types, TypeOK
  <2>2. childDirty' \subseteq failedChild'
    BY <1>1, <1>2 DEF Types, TypeOK
  <2>3. ops' \in 0..MaxOps
    BY <1>1, <1>2, BlockTreeAssumption DEF Types, TypeOK
  <2>4. candidates' \subseteq linked' /\ candidates' \subseteq data'
    BY <1>1, <1>2, <1>8, TypeFacts
  <2>5. QED
    BY <1>1, <1>2, <1>6, <2>1, <2>2, <2>3, <2>4 DEF Types, TypeOK
<1>10. LinkedWhenComplete' /\ Settles'
  BY <1>1 DEF IInv, LinkedWhenComplete, Settles
<1>11. ChainSound' /\ (Whole => Ancestors(tip') \cap (Failed' \cup Bad) = {})
  <2>1. Chain' = Ancestors(tip') /\ defied' = defied /\ Ancestors(tip') \cap Bad = {}
    BY <1>1, <1>6 DEF IInv, ChainSound, Chain
  <2>2. \A x \in Ancestors(tip') \cap Failed' : x \in Chain \cap Failed
    BY <1>5, <1>6, <1>7
  <2>3. QED
    BY <2>1, <2>2 DEF IInv, ChainSound, ActiveChainNotFailed, Whole
<1>12. CandidatesSort'
  BY <1>2, <1>6, <1>8, TypeFacts DEF IInv, CandidatesSort, Worse
<1>13. ASSUME Whole PROVE Watermark(tip)'
  <2>1. ~Worse(tip', tip') /\ tip' \in Ancestors(tip')
    BY <1>2, <1>6, TypeFacts, WorseIsOrder, AncestorsSelf DEF Worse
  <2>2. tip' \in candidates'
    BY <1>6, <1>8, <1>11, <1>13, <2>1
  <2>3. ASSUME NEW x \in linked \ Failed', Worse(tip', x) PROVE x \in candidates'
    <3>1. x \in Index /\ x \in data /\ x \in linked
      BY <1>2, <2>3, TypeFacts
    <3>2. ~Worse(x, tip')
      BY <1>2, <1>6, <2>3, <3>1, TypeFacts, WorseIsOrder DEF Worse
    <3>3. QED
      BY <1>8, <2>3, <3>1, <3>2
  <2>4. QED
    BY <1>1, <1>2, <1>11, <1>13, <2>1, <2>2, <2>3 DEF Watermark, Worse
<1>14. FailedHasInvalidAncestor'
  BY <1>1, <1>2, <1>3, <1>7 DEF IInv, FailedHasInvalidAncestor
<1>15. Watermarked'
  BY <1>1, <1>6, <1>13 DEF Watermarked, Whole
<1>16. QED
  BY <1>9, <1>10, <1>11, <1>12, <1>14, <1>15 DEF IInv

(* The same when DisconnectTip fails on x: b goes down in defied.          *)
LEMMA InvalidateFailsStep ==
  ASSUME IInv, NEW b \in Blocks, NEW x \in Index, InvalidateFails(b, x) PROVE IInv'
<1> DEFINE gone == {y \in Disconnected(b) : x \in Ancestors(y)}
<1>1. /\ b \in known /\ ops < MaxOps /\ x \in Disconnected(b)
      /\ failedValid' = failedValid \cup {b} /\ failedChild' = failedChild \cup gone
      /\ childDirty' = childDirty \cup gone \cup (failedChild \cap {b})
      /\ tip' = x
      /\ candidates' = candidates \ (gone \cup {b})
      /\ pending' = TRUE /\ ops' = ops + 1 /\ defied' = defied \cup {b}
      /\ UNCHANGED <<known, data, linked, ids, unlinked, descended, halted>>
  BY DEF InvalidateFails
<1>2. /\ Types /\ LinkedWhenComplete /\ UNCHANGED <<seq, nextSeq, addr>>
      /\ b \in Index /\ b # Genesis /\ b \in Ancestors(b)
  BY <1>1, AncestorsStep, AncestorsSelf DEF IInv, ids
<1>3. \A y \in gone : y \in Chain /\ b \in Ancestors(y) /\ b \in Chain
  BY DEF Disconnected
<1>4. tip' \in Chain
  BY <1>1 DEF Disconnected
<1>5. /\ tip' \in linked /\ tip' \in data /\ tip' \in Index /\ Ancestors(tip') \subseteq Chain
      /\ \A y \in Index : ~Worse(y, tip) => ~Worse(y, tip')
  BY <1>4, LowerTip
<1>6. Failed' = Failed \cup gone \cup {b}
  BY <1>1 DEF Failed
<1>7. Types'
  <2>1. Genesis \notin Failed' /\ Failed' \subseteq known
    <3>1. Genesis \notin gone
      BY <1>2, <1>3, AncestorsGenesis
    <3>2. gone \subseteq known
      BY <1>2, <1>3, ChainFacts, TypeFacts
    <3>3. QED
      BY <1>1, <1>2, <1>6, <3>1, <3>2 DEF Types, TypeOK
  <2>2. childDirty' \subseteq failedChild' /\ defied' \subseteq known'
    BY <1>1, <1>2 DEF Types, TypeOK
  <2>3. ops' \in 0..MaxOps
    BY <1>1, <1>2, BlockTreeAssumption DEF Types, TypeOK
  <2>4. candidates' \subseteq linked' /\ candidates' \subseteq data'
    BY <1>1, <1>2, TypeFacts
  <2>5. QED
    BY <1>1, <1>2, <1>5, <2>1, <2>2, <2>3, <2>4 DEF Types, TypeOK
<1>8. LinkedWhenComplete' /\ Settles' /\ Watermarked'
  BY <1>1 DEF IInv, LinkedWhenComplete, Settles, Watermarked, Whole
<1>9. ChainSound'
  <2>1. Chain' \subseteq Chain /\ defied \subseteq defied' /\ b \in defied'
    BY <1>1, <1>5 DEF Chain
  <2>2. ASSUME NEW y \in Chain' \cap Failed' PROVE Ancestors(y) \cap defied' # {}
    <3>1. CASE y \in Failed
      BY <2>1, <2>2, <3>1 DEF IInv, ChainSound, ActiveChainNotFailed
    <3>2. CASE y \in gone \cup {b}
      BY <1>2, <1>3, <2>1, <3>2
    <3>3. QED
      BY <1>6, <2>2, <3>1, <3>2
  <2>3. QED
    BY <2>1, <2>2 DEF IInv, ChainSound, ActiveChainNotFailed
<1>10. CandidatesSort'
  BY <1>1, <1>2, <1>5, TypeFacts DEF IInv, CandidatesSort, Worse
<1>11. FailedHasInvalidAncestor'
  BY <1>1, <1>2, <1>3, <1>6 DEF IInv, FailedHasInvalidAncestor
<1>12. QED
  BY <1>7, <1>8, <1>9, <1>10, <1>11 DEF IInv

(* DisconnectBlocksAndReprocess: the watermark stays where it is.          *)
LEMMA ReprocessStep ==
  ASSUME IInv, DisconnectBlocksAndReprocess(Reprocess) PROVE IInv'
<1>1. /\ ops < MaxOps /\ tip' \in Chain
      /\ pending' = TRUE /\ ops' = ops + 1
      /\ UNCHANGED <<known, data, linked, flags, ids, unlinked, candidates, descended, halted, defied>>
  BY DEF DisconnectBlocksAndReprocess
<1>2. Types /\ UNCHANGED <<seq, nextSeq, addr, failedValid, failedChild, childDirty, Failed>>
  BY <1>1 DEF IInv, ids, flags, Failed
<1>4. /\ tip' \in linked /\ tip' \in data /\ tip' \in Index /\ Chain' \subseteq Chain
      /\ \A x \in Index : ~Worse(x, tip) => ~Worse(x, tip)'
  BY <1>1, <1>2, LowerTip DEF Chain, Worse
<1>5. Types'
  <2>1. ops' \in 0..MaxOps
    BY <1>1, <1>2, BlockTreeAssumption DEF Types, TypeOK
  <2>2. QED
    BY <1>1, <1>2, <1>4, <2>1 DEF Types, TypeOK
<1>6. LinkedWhenComplete' /\ Settles' /\ ChainSound' /\ FailedHasInvalidAncestor'
  BY <1>1, <1>2, <1>4
     DEF IInv, LinkedWhenComplete, Settles, ChainSound, ActiveChainNotFailed, FailedHasInvalidAncestor
<1>7. CandidatesSort'
  BY <1>1, <1>2, <1>4, TypeFacts DEF IInv, CandidatesSort
<1>8. Watermarked'
  BY <1>1, <1>2, <1>4 DEF IInv, Watermarked, Watermark, Worse, Whole
<1>9. QED
  BY <1>5, <1>6, <1>7, <1>8 DEF IInv

(* A restart computes the links and the candidates again.                  *)
LEMMA RestartStep == ASSUME IInv, Restart PROVE IInv'
<1>1. /\ ops < MaxOps /\ pending' = TRUE /\ ops' = ops + 1
      /\ childDirty \subseteq failedChild' /\ failedChild' \subseteq failedChild \cup childDirty
      /\ childDirty' = failedChild'
      /\ seq' = [b \in Index |-> 0] /\ nextSeq' = 1 /\ addr' \in Orders
      /\ linked' = {b \in data : Ancestors(b) \subseteq data}
      /\ unlinked' = data \ {b \in data : Ancestors(b) \subseteq data}
      /\ candidates' = {b \in {b \in data : Ancestors(b) \subseteq data} \ (failedValid \cup failedChild') :
                          ~WorseBy(seq', addr', b, tip)}
      /\ UNCHANGED <<known, data, failedValid, tip, descended, halted, defied>>
  BY DEF Restart
<1>2. Types /\ linked' = linked /\ unlinked' = unlinked /\ Chain' = Chain
  BY <1>1 DEF IInv, LinkedWhenComplete, Chain
<1>3. Failed' \subseteq Failed /\ Failed' = failedValid \cup failedChild'
  BY <1>1, <1>2 DEF Types, TypeOK, Failed
<1>4. candidates' = {b \in linked \ Failed' : ~WorseBy(seq', addr', b, tip)}
  BY <1>1, <1>2, <1>3
<1>5. seq' \in [Index -> 0..(nextSeq' - 1)] /\ seq' \in [Index -> Int] /\ nextSeq' \in Nat
  BY <1>1
<1>6. Types'
  <2>1. ops' \in 0..MaxOps
    BY <1>1, <1>2, BlockTreeAssumption DEF Types, TypeOK
  <2>2. QED
    BY <1>1, <1>2, <1>3, <1>4, <1>5, <2>1 DEF Types, TypeOK
<1>7. LinkedWhenComplete' /\ Settles' /\ ChainSound' /\ FailedHasInvalidAncestor'
  BY <1>1, <1>2, <1>3
     DEF IInv, LinkedWhenComplete, Settles, ChainSound, ActiveChainNotFailed, FailedHasInvalidAncestor
<1>8. CandidatesSort'
  BY <1>1, <1>4 DEF CandidatesSort, Worse
<1>9. ASSUME Whole PROVE Watermark(tip)'
  <2>1. tip \in linked /\ tip \in Index /\ linked \subseteq Index /\ tip \in Ancestors(tip)
    BY <1>2, TypeFacts, AncestorsSelf
  <2>2. ~WorseBy(seq', addr', tip, tip)
    BY <1>1, <1>5, <2>1, WorseIsOrder
  <2>3. Ancestors(tip) \cap (Failed' \cup Bad) = {}
    BY <1>1, <1>7, <1>9 DEF ChainSound, ActiveChainNotFailed, Chain, Whole
  <2>4. ASSUME NEW x \in linked \ Failed', WorseBy(seq', addr', tip, x) PROVE x \in candidates'
    BY <1>1, <1>4, <1>5, <2>1, <2>4, WorseIsOrder
  <2>5. QED
    BY <1>1, <1>2, <1>4, <2>1, <2>2, <2>3, <2>4 DEF Watermark, Worse
<1>10. QED
  BY <1>1, <1>2, <1>6, <1>7, <1>8, <1>9, TypeFacts DEF IInv, Watermarked, Whole


-----------------------------------------------------------------------------
(* FindMostWorkChain.                                                      *)

(* The candidates without a failed block on their path, the better ones    *)
(* that FindMostWorkChain meets before them, and what it marks and erases  *)
(* on the way.                                                             *)
Usable  == {c \in candidates : FailedOn(c) = {}}
Dropped == {c \in candidates : \A u \in Usable : Worse(u, c)}
Marked  == UNION {Above(c) : c \in Dropped}
Removed == UNION {Above(c) \cup {FirstFailed(c)} : c \in Dropped}

(* The pairs of entries, the better one first.                             *)
BetterPairs == {p \in Index \X Index : Worse(p[2], p[1])}

(* Among entries there is a best one.                                      *)
LEMMA BestExists ==
  ASSUME Types, NEW S \in SUBSET Index, S # {}
  PROVE  Best(S) \in S /\ \A x \in S \ {Best(S)} : Worse(x, Best(S))
<1>1. IsFiniteSet(S)
  BY AncestorsGenesis, AncestorsCount, FS_Subset
<1>2. \A a, b \in Index : <<a, b>> \in BetterPairs <=> Worse(b, a)
  BY DEF BetterPairs
<1>3. /\ \A a \in S : ~Worse(a, a)
      /\ \A a, b \in S : a # b => Worse(a, b) \/ Worse(b, a)
      /\ \A a, b, c \in S : Worse(b, a) /\ Worse(c, b) => Worse(c, a)
  BY TypeFacts, WorseIsOrder DEF Worse
<1>4. StrictOrder(BetterPairs, S)
  BY <1>2, <1>3 DEF StrictOrder
<1>5. \E b \in S : \A a \in S : <<a, b>> \notin BetterPairs
  BY <1>1, <1>4, FirstExists
<1>6. \E b \in S : \A x \in S \ {b} : Worse(x, b)
  BY <1>2, <1>3, <1>5
<1>7. QED
  BY <1>6 DEF Best

(* The walk from c meets the highest failed block first.                   *)
LEMMA FirstFailedExists ==
  ASSUME NEW c \in Index, FailedOn(c) # {}
  PROVE  FirstFailed(c) \in FailedOn(c)
<1> DEFINE T == {Height[c] - Height[x] : x \in FailedOn(c)}
<1>1. \A x \in FailedOn(c) : Height[x] \in Nat /\ Height[c] \in Nat /\ Height[x] <= Height[c]
  BY AncestorsLower DEF FailedOn, Path
<1>2. T \in SUBSET Nat /\ T # {}
  BY <1>1
<1>3. PICK n \in T : \A k \in T : n <= k
  <2> HIDE DEF T
  <2> QED
    BY <1>2, LeastNatural
<1>4. PICK x \in FailedOn(c) : n = Height[c] - Height[x]
  BY <1>3
<1>5. ASSUME NEW y \in FailedOn(c) PROVE Height[y] <= Height[x]
  <2>1. Height[c] - Height[x] <= Height[c] - Height[y]
    BY <1>3, <1>4
  <2>2. QED
    BY <1>1, <2>1
<1>6. QED
  BY <1>5 DEF FirstFailed

(* What is marked or erased is off the active chain, descends from a       *)
(* failed block, and is failed afterwards.                                 *)
LEMMA DroppedFacts ==
  ASSUME Types, LinkedWhenComplete
  PROVE  /\ Marked \subseteq Removed /\ Removed \subseteq linked /\ Removed \cap Chain = {}
         /\ Removed \subseteq Failed \cup Marked
         /\ \A x \in Removed : (Ancestors(x) \cap Failed) \ Chain # {}
<1>1. ASSUME NEW c \in Dropped, NEW x \in Above(c) \cup {FirstFailed(c)}
      PROVE  /\ x \in linked /\ x \notin Chain /\ x \in Failed \cup Above(c)
             /\ (Ancestors(x) \cap Failed) \ Chain # {}
  <2>1. c \in candidates /\ c \in Index /\ c \in linked
    BY TypeFacts DEF Dropped
  <2>2. ~Worse(c, c)
    BY <2>1, TypeFacts, WorseIsOrder DEF Worse
  <2>3. FailedOn(c) # {}
    BY <2>1, <2>2 DEF Dropped, Usable
  <2>4. FirstFailed(c) \in Ancestors(c) /\ FirstFailed(c) \notin Chain /\ FirstFailed(c) \in Failed
    BY <2>1, <2>3, FirstFailedExists DEF FailedOn, Path
  <2>5. x \in Ancestors(c) /\ x \notin Chain
    BY <1>1, <2>4 DEF Above, Path
  <2>6. FirstFailed(c) \in Ancestors(x)
    <3>1. CASE x = FirstFailed(c)
      BY <2>1, <2>5, <3>1, AncestorsSelf
    <3>2. CASE x \in Above(c)
      <4>1. /\ Height[x] > Height[FirstFailed(c)]
            /\ Height[x] \in Nat /\ Height[FirstFailed(c)] \in Nat
        BY <2>1, <2>4, <2>5, <3>2, AncestorsLower DEF Above
      <4>2. QED
        BY <2>1, <2>4, <2>5, <4>1, AncestorsByHeight
    <3>3. QED
      BY <1>1, <3>1, <3>2
  <2>7. x \in linked
    BY <2>1, <2>5, LinkedClosed
  <2>8. QED
    BY <1>1, <2>4, <2>5, <2>6, <2>7
<1>2. \A x \in Removed : \E c \in Dropped : x \in Above(c) \cup {FirstFailed(c)}
  BY DEF Removed
<1>3. \A c \in Dropped : Above(c) \subseteq Marked
  BY DEF Marked
<1>4. Marked \subseteq Removed
  BY DEF Marked, Removed
<1>5. QED
  BY <1>1, <1>2, <1>3, <1>4

(* So nothing of it is an ancestor of a block whose failed ancestors, if   *)
(* any, are all in the active chain.                                       *)
LEMMA CleanIsKept ==
  ASSUME Types, LinkedWhenComplete, NEW x \in Index, Ancestors(x) \cap Failed \subseteq Chain
  PROVE  Ancestors(x) \cap Removed = {} /\ Ancestors(x) \cap Marked = {} /\ x \notin Removed
<1>1. ASSUME NEW y \in Ancestors(x), y \in Removed PROVE FALSE
  BY <1>1, DroppedFacts, AncestorsTransitive
<1>2. QED
  BY <1>1, DroppedFacts, AncestorsSelf

(* The result of FindMostWorkChain in these terms.                         *)
LEMMA FoundFacts ==
  /\ FindMostWorkChain.most = (IF Usable = {} THEN None ELSE Best(Usable))
  /\ FindMostWorkChain.marked = Marked
  /\ FindMostWorkChain.left = candidates \ Removed
BY DEF FindMostWorkChain, Usable, Dropped, Marked, Removed

(* While nothing was lost, the watermark is usable, and no usable block    *)
(* is known to be better than the best one.                                *)
LEMMA BestIsBest ==
  ASSUME IInv, Whole
  PROVE  /\ Usable # {}
         /\ \A x \in linked : Ancestors(x) \cap Failed = {} => ~Worse(Best(Usable), x)
<1>1. Types /\ LinkedWhenComplete /\ linked \subseteq Index /\ candidates \subseteq Index
  BY TypeFacts DEF IInv
<1>2. PICK u \in Index : Watermark(u)
  BY DEF IInv, Watermarked
<1>3. u \in Usable /\ Usable \subseteq Index
  BY <1>1, <1>2 DEF Watermark, Usable, FailedOn, Path
<1>4. /\ Best(Usable) \in Usable /\ Best(Usable) \in Index
      /\ \A x \in Usable \ {Best(Usable)} : Worse(x, Best(Usable))
  BY <1>1, <1>3, BestExists
<1>5. ASSUME NEW x \in linked, Ancestors(x) \cap Failed = {}, Worse(Best(Usable), x) PROVE FALSE
  <2>1. x \in Index /\ x \notin Failed
    BY <1>1, <1>5, AncestorsSelf
  <2>2. u = Best(Usable) \/ Worse(u, Best(Usable))
    BY <1>3, <1>4
  <2>3. Worse(u, x)
    BY <1>1, <1>4, <1>5, <2>1, <2>2, TypeFacts, WorseIsOrder DEF Worse
  <2>4. x \in Usable
    BY <1>2, <1>5, <2>1, <2>3 DEF Watermark, Usable, FailedOn, Path
  <2>5. x = Best(Usable) \/ Worse(x, Best(Usable))
    BY <1>4, <2>4
  <2>6. QED
    BY <1>1, <1>4, <1>5, <2>1, <2>5, TypeFacts, WorseIsOrder DEF Worse
<1>6. QED
  BY <1>3, <1>5

-----------------------------------------------------------------------------
(* ActivateBestChain.                                                      *)

(* The loop ends: the tip is the best usable block, or nothing is usable,  *)
(* or a step failed on a block t of the active chain.                      *)
LEMMA LoopEnds ==
  ASSUME IInv, failedChild' = failedChild \cup Marked, candidates' = candidates \ Removed,
         tip' \in Chain, halted' \in BOOLEAN,
         halted' \/ (tip' = tip /\ IF Usable = {} THEN TRUE ELSE Best(Usable) = tip),
         pending' = FALSE,
         UNCHANGED <<known, data, linked, childDirty, ids, unlinked, ops, descended, defied, failedValid>>
  PROVE  IInv'
<1>1. Types /\ LinkedWhenComplete /\ UNCHANGED <<seq, nextSeq, addr>>
  BY DEF IInv, ids
<1>2. Failed' = Failed \cup Marked
  BY DEF Failed
<1>3. /\ Marked \subseteq Removed /\ Removed \subseteq linked /\ Removed \cap Chain = {}
      /\ Removed \subseteq Failed'
      /\ \A x \in Removed : (Ancestors(x) \cap Failed) \ Chain # {}
  BY <1>1, <1>2, DroppedFacts
<1>4. /\ tip' \in linked /\ tip' \in data /\ tip' \in Index /\ Chain' \subseteq Chain
      /\ \A x \in Index : ~Worse(x, tip) => ~Worse(x, tip')
  BY LowerTip DEF Chain
<1>5. Types'
  <2>1. Genesis \notin Marked /\ Marked \subseteq known
    BY <1>1, <1>3, ChainFacts, TypeFacts
  <2>2. QED
    BY <1>1, <1>2, <1>4, <2>1 DEF Types, TypeOK
<1>6. LinkedWhenComplete' /\ CandidatesSort'
  BY <1>1, <1>4, TypeFacts DEF IInv, LinkedWhenComplete, CandidatesSort, Worse
<1>7. ChainSound'
  <2>1. Chain' \cap Failed' \subseteq Chain \cap Failed
    BY <1>2, <1>3, <1>4
  <2>2. QED
    BY <1>4, <2>1 DEF IInv, ChainSound, ActiveChainNotFailed
<1>8. Watermarked'
  <2>1. SUFFICES ASSUME Whole PROVE \E u \in Index : Watermark(u)'
    BY DEF Watermarked, Whole
  <2>2. PICK u \in Index : Watermark(u)
    BY <2>1 DEF IInv, Watermarked
  <2>3. Ancestors(u) \cap Marked = {} /\ u \notin Removed
    BY <1>1, <2>2, CleanIsKept DEF Watermark
  <2>4. ~Worse(u, tip')
    BY <1>4, <2>2 DEF Watermark
  <2>5. Watermark(u)'
    BY <1>1, <1>2, <1>3, <2>2, <2>3, <2>4 DEF Watermark, Worse
  <2>6. QED
    BY <2>5
<1>9. FailedHasInvalidAncestor'
  <2>1. SUFFICES ASSUME ~descended, NEW x \in Failed' PROVE Ancestors(x) \cap failedValid # {}
    BY DEF FailedHasInvalidAncestor
  <2>2. x \in Index /\ Ancestors(x) \cap Failed # {}
    BY <1>1, <1>2, <1>3, <2>1, TypeFacts, AncestorsSelf
  <2>3. PICK y \in Ancestors(x) : Ancestors(y) \cap failedValid # {}
    BY <2>1, <2>2 DEF IInv, FailedHasInvalidAncestor
  <2>4. QED
    BY <2>2, <2>3, AncestorsTransitive
<1>10. Settles'
  <2>1. SUFFICES ASSUME Whole, ~halted', NEW x \in Eligible' PROVE ~Worse(tip, x)
    BY <1>1 DEF Settles, Worse, Whole
  <2>2. x \in linked /\ Ancestors(x) \cap Failed = {}
    BY <1>2, <2>1 DEF Eligible
  <2>3. QED
    BY <2>1, <2>2, BestIsBest
<1>11. QED
  BY <1>5, <1>6, <1>7, <1>8, <1>9, <1>10 DEF IInv


(* Where ActivateBestChainStep stops on its way to m.                      *)
Ends(y, m) == y \in Bad \/ Work[y] > Work[tip] \/ y = m

Stop(m) == CHOOSE x \in Path(m) : Ends(x, m) /\ \A y \in Path(m) : Ends(y, m) => Height[x] <= Height[y]

(* It stops at the lowest block at which it may.                           *)
LEMMA StopExists ==
  ASSUME NEW m \in Index, m \notin Chain
  PROVE  /\ Stop(m) \in Path(m) /\ Ends(Stop(m), m)
         /\ \A y \in Path(m) : Ends(y, m) => Height[Stop(m)] <= Height[y]
<1> DEFINE E == {x \in Path(m) : Ends(x, m)}
           T == {Height[x] : x \in E}
<1>1. \A x \in E : Height[x] \in Nat
  BY AncestorsLower DEF Path
<1>2. m \in E
  BY AncestorsSelf DEF Path, Ends
<1>3. T \in SUBSET Nat /\ T # {}
  BY <1>1, <1>2
<1>4. PICK n \in T : \A k \in T : n <= k
  <2> HIDE DEF T
  <2> QED
    BY <1>3, LeastNatural
<1>5. PICK x \in E : n = Height[x]
  BY <1>4
<1>6. \A y \in E : Height[x] <= Height[y]
  BY <1>4, <1>5
<1>7. \E z \in Path(m) : Ends(z, m) /\ \A y \in Path(m) : Ends(y, m) => Height[z] <= Height[y]
  BY <1>6
<1>8. QED
  BY <1>7 DEF Stop

(* The block that ActivateBestChainStep marks, if it meets an invalid one. *)
Refused(m) == IF Stop(m) \in Bad THEN {Stop(m)} ELSE {}

(* What ActivateBestChainStep does, in terms of the new tip.               *)
LEMMA MoveFacts ==
  ASSUME IInv, NEW m \in Usable, m # tip, ActivateBestChainStep(m, candidates \ Removed)
  PROVE  /\ tip' \in Ancestors(m) /\ m \in linked /\ m \in Index
         /\ Ancestors(tip') \cap (Bad \cup Refused(m)) = {} /\ Ancestors(tip') \cap Failed \subseteq Chain
         /\ Refused(m) \subseteq linked \cap Bad /\ Refused(m) \cap Failed = {}
         /\ failedValid' = failedValid \cup Refused(m)
         /\ candidates' = {x \in candidates \ (Removed \cup Refused(m)) : ~Worse(x, tip')}
         /\ Refused(m) = {} => Work[tip'] > Work[tip] \/ tip' = m
<1> DEFINE stop == Stop(m)
<1>1. /\ Types /\ LinkedWhenComplete /\ m \in candidates /\ m \in linked /\ m \in Index
      /\ tip \in Index /\ FailedOn(m) = {} /\ candidates \subseteq Index
  BY TypeFacts DEF IInv, Usable
<1>2. m \notin Chain
  <2>1. ~Worse(m, tip)
    BY <1>1 DEF IInv, CandidatesSort
  <2>2. QED
    BY <1>1, <2>1, TypeFacts, AncestorIsWorse DEF Chain, Worse
<1>3. /\ stop \in Ancestors(m) /\ stop \notin Chain /\ Ends(stop, m)
      /\ \A y \in Path(m) : Ends(y, m) => Height[stop] <= Height[y]
  BY <1>1, <1>2, StopExists DEF Path
<1>4. /\ stop \in Blocks /\ stop \in Index /\ stop \in linked
      /\ Ancestors(stop) \subseteq Ancestors(m)
  <2>1. stop \in Index /\ stop \in linked /\ Ancestors(stop) \subseteq Ancestors(m)
    BY <1>1, <1>3, AncestorsTransitive, LinkedClosed
  <2>2. QED
    BY <1>1, <1>3, <2>1, ChainFacts DEF Index
<1>5. /\ Prev[stop] \in Index /\ stop \notin Ancestors(Prev[stop])
      /\ Ancestors(stop) = {stop} \cup Ancestors(Prev[stop])
      /\ Prev[stop] \in Ancestors(Prev[stop]) /\ stop \in Ancestors(stop)
  BY <1>4, AncestorsStep, AncestorsOfParent, AncestorsSelf
<1>6. Ancestors(m) \cap Failed \subseteq Chain
  BY <1>1 DEF FailedOn, Path
<1>7. Ancestors(Prev[stop]) \cap Bad = {}
  <2>1. SUFFICES ASSUME NEW y \in Ancestors(Prev[stop]), y \in Bad PROVE FALSE
    OBVIOUS
  <2>2. y \notin Chain
    BY <2>1 DEF IInv, ChainSound
  <2>3. y \in Path(m) /\ Ends(y, m)
    BY <1>4, <1>5, <2>1, <2>2 DEF Path, Ends
  <2>4. Height[stop] <= Height[y]
    BY <1>3, <2>3
  <2>5. y \in Ancestors(stop) /\ y # stop
    BY <1>5, <2>1
  <2>6. Height[y] \in Nat /\ Height[stop] \in Nat /\ Height[y] <= Height[stop] /\ Height[y] # Height[stop]
    BY <1>4, <2>5, AncestorsLower
  <2>7. QED
    BY <2>4, <2>6
<1>8. stop = CHOOSE x \in Path(m) :
                LET ends(y) == y \in Bad \/ Work[y] > Work[tip] \/ y = m
                IN  ends(x) /\ \A y \in Path(m) : ends(y) => Height[x] <= Height[y]
  BY DEF Stop, Ends
<1> HIDE DEF stop
<1>9. CASE stop \in Bad
  <2>1. Refused(m) = {stop}
    BY <1>9 DEF Refused, stop
  <2>2. /\ tip' = Prev[stop] /\ failedValid' = failedValid \cup {stop}
        /\ candidates' = (IF Prev[stop] \in Chain THEN candidates \ Removed
                          ELSE Pruned(candidates \ Removed, tip')) \ {stop}
    BY <1>8, <1>9 DEF ActivateBestChainStep
  <2>3. ASSUME Prev[stop] \in Chain, NEW x \in candidates PROVE ~Worse(x, tip')
    BY <1>1, <2>2, <2>3, LowerTip DEF IInv, CandidatesSort
  <2>4. candidates' = {x \in candidates \ (Removed \cup {stop}) : ~Worse(x, tip')}
    BY <2>2, <2>3 DEF Pruned
  <2>5. QED
    BY <1>1, <1>3, <1>4, <1>5, <1>6, <1>7, <1>9, <2>1, <2>2, <2>4
<1>10. CASE stop \notin Bad
  <2>1. Refused(m) = {}
    BY <1>10 DEF Refused, stop
  <2>2. /\ tip' = stop /\ failedValid' = failedValid
        /\ candidates' = Pruned(candidates \ Removed, tip')
    BY <1>8, <1>10 DEF ActivateBestChainStep
  <2>3. Ancestors(stop) \cap Bad = {}
    BY <1>5, <1>7, <1>10
  <2>4. Work[stop] > Work[tip] \/ stop = m
    BY <1>3, <1>10 DEF Ends
  <2>5. candidates' = {x \in candidates \ Removed : ~Worse(x, tip')}
    BY <2>2 DEF Pruned
  <2>6. QED
    BY <1>1, <1>3, <1>4, <1>6, <2>1, <2>2, <2>3, <2>4, <2>5
<1>11. QED
  BY <1>9, <1>10


(* The loop goes on, towards the best usable block.  If the new tip is     *)
(* better than the watermark, it is the next one.                          *)
LEMMA LoopMoves ==
  ASSUME IInv, failedChild' = failedChild \cup Marked, Usable # {}, Best(Usable) # tip,
         ActivateBestChainStep(Best(Usable), candidates \ Removed),
         pending' = (tip' # Best(Usable)),
         halted' = FALSE,
         UNCHANGED <<known, data, linked, childDirty, ids, unlinked, ops, descended, defied>>
  PROVE  IInv'
<1> DEFINE m == Best(Usable)
           R == Refused(m)
<1>1. /\ Types /\ LinkedWhenComplete /\ UNCHANGED <<seq, nextSeq, addr>>
      /\ seq \in [Index -> Int] /\ addr \in Orders /\ linked \subseteq Index
  BY TypeFacts DEF IInv, ids
<1>2. m \in Usable
  BY <1>1, TypeFacts, BestExists DEF Usable
<1>3. /\ tip' \in Ancestors(m) /\ m \in linked /\ m \in Index
      /\ Ancestors(tip') \cap (Bad \cup R) = {} /\ Ancestors(tip') \cap Failed \subseteq Chain
      /\ R \subseteq linked \cap Bad
      /\ failedValid' = failedValid \cup R
      /\ candidates' = {x \in candidates \ (Removed \cup R) : ~Worse(x, tip')}
  BY <1>2, MoveFacts
<1> HIDE DEF R, m
<1>4. Failed' = Failed \cup Marked \cup R
  BY <1>3 DEF Failed
<1>5. /\ Marked \subseteq Removed /\ Removed \subseteq linked /\ Removed \cap Chain = {}
      /\ Removed \subseteq Failed'
      /\ \A x \in Removed : (Ancestors(x) \cap Failed) \ Chain # {}
  BY <1>1, <1>4, DroppedFacts
<1>6. tip' \in linked /\ tip' \in Index /\ tip' \in Ancestors(tip')
  BY <1>1, <1>3, LinkedClosed, AncestorsTransitive, AncestorsSelf
<1>7. /\ Ancestors(tip') \cap Failed' \subseteq Chain \cap Failed /\ Ancestors(tip') \cap Bad = {}
      /\ tip' \notin Removed \cup R
  BY <1>1, <1>3, <1>4, <1>6, CleanIsKept
<1>8. Types'
  <2>1. Genesis \notin Marked /\ Marked \subseteq known
    BY <1>1, <1>5, ChainFacts, TypeFacts
  <2>2. Genesis \notin R /\ R \subseteq known
    BY <1>1, <1>3, AncestryAssumption, BlockTreeAssumption, TypeFacts
  <2>3. Failed' \subseteq known \ {Genesis}
    BY <1>1, <1>4, <2>1, <2>2 DEF Types, TypeOK
  <2>4. candidates' \subseteq candidates
    BY <1>3
  <2>5. QED
    BY <1>1, <1>6, <2>3, <2>4 DEF Types, TypeOK
<1>9. LinkedWhenComplete' /\ CandidatesSort' /\ ChainSound'
  <2>1. LinkedWhenComplete' /\ CandidatesSort'
    BY <1>1, <1>3 DEF IInv, LinkedWhenComplete, CandidatesSort, Worse
  <2>2. QED
    BY <1>7, <2>1 DEF IInv, ChainSound, ActiveChainNotFailed, Chain
<1>10. Watermarked'
  <2>1. SUFFICES ASSUME Whole PROVE \E u \in Index : Watermark(u)'
    BY DEF Watermarked, Whole
  <2>2. PICK u \in Index : Watermark(u)
    BY <2>1 DEF IInv, Watermarked
  <2>3. Ancestors(u) \cap (Failed' \cup Bad) = {} /\ u \notin Removed \cup R /\ u \in candidates
    BY <1>1, <1>3, <1>4, <2>2, CleanIsKept, AncestorsSelf DEF Watermark
  <2>4. ASSUME NEW x \in linked \ Failed', Worse(u, x), ~Worse(x, tip') PROVE x \in candidates'
    BY <1>3, <1>4, <1>5, <2>2, <2>4 DEF Watermark
  <2>5. CASE ~Worse(u, tip')
    <3>1. ASSUME NEW x \in linked \ Failed', Worse(u, x) PROVE x \in candidates'
      <4>1. ~Worse(x, tip')
        BY <1>1, <1>6, <2>5, <3>1, WorseIsOrder DEF Worse
      <4>2. QED
        BY <2>4, <3>1, <4>1
    <3>2. u \in candidates'
      BY <1>3, <2>3, <2>5
    <3>3. Watermark(u)'
      BY <1>1, <2>3, <2>5, <3>1, <3>2 DEF Watermark, Worse
    <3>4. QED
      BY <3>3
  <2>6. CASE Worse(u, tip')
    <3>0. Ancestors(tip') \cap (Failed' \cup Bad) = {}
      BY <1>7, <2>1 DEF IInv, ChainSound, ActiveChainNotFailed, Whole
    <3>1. ~Worse(tip', tip')
      BY <1>1, <1>6, WorseIsOrder DEF Worse
    <3>2. tip' \in candidates'
      BY <1>6, <2>4, <2>6, <3>0, <3>1
    <3>3. ASSUME NEW x \in linked \ Failed', Worse(tip', x) PROVE x \in candidates'
      <4>1. Worse(u, x) /\ ~Worse(x, tip')
        BY <1>1, <1>6, <2>6, <3>3, WorseIsOrder DEF Worse
      <4>2. QED
        BY <2>4, <3>3, <4>1
    <3>4. Watermark(tip)'
      BY <1>1, <3>0, <3>1, <3>2, <3>3 DEF Watermark, Worse
    <3>5. QED
      BY <1>6, <3>4
  <2>7. QED
    BY <2>5, <2>6
<1>11. FailedHasInvalidAncestor'
  <2>1. SUFFICES ASSUME ~descended, NEW x \in Failed' PROVE Ancestors(x) \cap failedValid' # {}
    BY DEF FailedHasInvalidAncestor
  <2>2. CASE x \in R
    BY <1>1, <1>3, <2>2, AncestorsSelf
  <2>3. CASE x \notin R
    <3>1. x \in Index /\ Ancestors(x) \cap Failed # {}
      BY <1>1, <1>4, <1>5, <2>1, <2>3, TypeFacts, AncestorsSelf
    <3>2. PICK y \in Ancestors(x) : Ancestors(y) \cap failedValid # {}
      BY <2>1, <3>1 DEF IInv, FailedHasInvalidAncestor
    <3>3. QED
      BY <1>3, <3>1, <3>2, AncestorsTransitive
  <2>4. QED
    BY <2>2, <2>3
<1>12. Settles'
  <2>1. SUFFICES ASSUME Whole, tip' = m, NEW x \in Eligible' PROVE ~Worse(m, x)
    BY <1>1 DEF Settles, Worse, Whole, m
  <2>2. x \in linked /\ Ancestors(x) \cap Failed = {}
    BY <1>4, <2>1 DEF Eligible
  <2>3. QED
    BY <2>1, <2>2, BestIsBest DEF m
<1>13. QED
  BY <1>8, <1>9, <1>10, <1>11, <1>12 DEF IInv

(* One turn of the loop.                                                   *)
LEMMA ActivateCases ==
  ASSUME Types, LinkedWhenComplete, ActivateBestChain
  PROVE  /\ failedChild' = failedChild \cup Marked
         /\ UNCHANGED <<known, data, linked, childDirty, ids, unlinked, ops, descended, defied>>
         /\ \/ /\ tip' \in Chain /\ halted' \in BOOLEAN
               /\ halted' \/ (tip' = tip /\ IF Usable = {} THEN TRUE ELSE Best(Usable) = tip)
               /\ candidates' = candidates \ Removed /\ pending' = FALSE
               /\ UNCHANGED failedValid
            \/ /\ Usable # {} /\ Best(Usable) # tip /\ Best(Usable) \in Usable
               /\ ActivateBestChainStep(Best(Usable), candidates \ Removed)
               /\ pending' = (tip' # Best(Usable)) /\ halted' = FALSE
<1>1. Usable # {} => Best(Usable) \in Usable /\ Best(Usable) # None
  BY TypeFacts, BestExists, BlockTreeAssumption DEF Usable
<1>2. /\ failedChild' = failedChild \cup FindMostWorkChain.marked
      /\ IF FindMostWorkChain.most \in {None, tip}
         THEN /\ candidates' = FindMostWorkChain.left
              /\ pending' = FALSE /\ halted' = FALSE
              /\ UNCHANGED <<tip, failedValid>>
         ELSE \/ /\ ActivateBestChainStep(FindMostWorkChain.most, FindMostWorkChain.left)
                 /\ pending' = (tip' # FindMostWorkChain.most) /\ halted' = FALSE
              \/ /\ StepFails(FindMostWorkChain.most, FindMostWorkChain.left)
                 /\ pending' = FALSE /\ halted' = TRUE
      /\ UNCHANGED <<known, data, linked, childDirty, ids, unlinked, ops, descended, defied>>
  BY DEF ActivateBestChain
<1>3. CASE FindMostWorkChain.most \in {None, tip}
  <2>1. tip' = tip /\ tip \in Chain
    BY <1>2, <1>3, ChainFacts
  <2>2. IF Usable = {} THEN TRUE ELSE Best(Usable) = tip
    BY <1>1, <1>3, FoundFacts
  <2>3. QED
    BY <1>2, <1>3, <2>1, <2>2, FoundFacts
<1>4. CASE /\ FindMostWorkChain.most \notin {None, tip}
           /\ ActivateBestChainStep(FindMostWorkChain.most, FindMostWorkChain.left)
           /\ pending' = (tip' # FindMostWorkChain.most) /\ halted' = FALSE
  BY <1>1, <1>2, <1>4, FoundFacts
<1>5. CASE /\ FindMostWorkChain.most \notin {None, tip}
           /\ StepFails(FindMostWorkChain.most, FindMostWorkChain.left)
           /\ pending' = FALSE /\ halted' = TRUE
  BY <1>2, <1>5, FoundFacts DEF StepFails
<1>6. QED
  BY <1>2, <1>3, <1>4, <1>5

(* Every step preserves the invariant.                                     *)
LEMMA NextIInv == ASSUME IInv, [Next]_vars PROVE IInv'
<1>1. Types /\ LinkedWhenComplete
  BY DEF IInv
<1>2. ASSUME NEW b \in Blocks, StoreBlock(b) PROVE IInv'
  BY <1>2, StoreBlockStep
<1>3. ASSUME NEW b \in Blocks, ReconsiderParent(b) PROVE IInv'
  <2>1. Prev[b] \in Index /\ ops' \in 0..MaxOps
    BY <1>1, <1>3, AncestorsStep DEF ReconsiderParent, Types, TypeOK
  <2>2. QED
    BY <1>3, <2>1, ReconsiderStep DEF ReconsiderParent
<1>4. CASE ActivateBestChain
  BY <1>1, <1>4, ActivateCases, LoopEnds, LoopMoves
<1>5. ASSUME NEW b \in RpcBlocks, InvalidateBlock(b) PROVE IInv'
  BY <1>5, InvalidateStep, BlockTreeAssumption
<1>11. ASSUME NEW b \in RpcBlocks, NEW x \in Index, InvalidateFails(b, x) PROVE IInv'
  BY <1>11, InvalidateFailsStep, BlockTreeAssumption
<1>6. ASSUME NEW b \in RpcBlocks, Reconsider(b) PROVE IInv'
  <2>1. b \in Index /\ ops' \in 0..MaxOps
    BY <1>1, <1>6, BlockTreeAssumption DEF Reconsider, Types, TypeOK, Index
  <2>2. QED
    BY <1>6, <2>1, ReconsiderStep DEF Reconsider
<1>7. CASE DisconnectBlocksAndReprocess(Reprocess)
  BY <1>7, ReprocessStep
<1>8. CASE Restart
  BY <1>8, RestartStep
<1>9. CASE UNCHANGED vars
  <2>1. UNCHANGED <<known, data, linked, failedValid, failedChild, childDirty, seq, nextSeq, addr,
                    unlinked, candidates, tip, pending, ops, descended, halted, defied>>
    BY <1>9 DEF vars, flags, ids
  <2>2. QED
    BY <2>1 DEF IInv, Types, TypeOK, LinkedWhenComplete, CandidatesSort, ChainSound, ActiveChainNotFailed, Watermarked,
                Watermark, FailedHasInvalidAncestor, Settles, Whole, Eligible, Chain, Failed, Worse
<1>10. QED
  BY <1>2, <1>3, <1>4, <1>5, <1>11, <1>6, <1>7, <1>8, <1>9 DEF Next, AcceptBlock, Rpc

-----------------------------------------------------------------------------
(* The inductive invariant holds in every state that is reached.           *)
THEOREM InvariantHolds == Spec => []IInv
<1>1. Init => IInv
  BY InitIInv
<1>2. IInv /\ [Next]_vars => IInv'
  BY NextIInv
<1>3. QED
  BY <1>1, <1>2, PTL DEF Spec

(* Whenever cs_main is free, the block index is consistent in the sense of *)
(* CheckBlockIndex: links, candidates, failed flags and the active chain   *)
(* agree, after any sequence of blocks, invalidations, reprocessings and   *)
(* restarts, and after disconnections that fail; a marked block in the     *)
(* active chain is the work of an InvalidateBlock that failed.             *)
THEOREM IndexTheorem == Spec => []IndexConsistent
<1>1. ASSUME IInv PROVE IndexConsistent
  <2>1. Types /\ LinkedWhenComplete
    BY <1>1 DEF IInv
  <2>2. candidates # {} \/ descended \/ defied # {}
    BY <1>1 DEF IInv, Watermarked, Watermark, Whole
  <2>3. \A c \in candidates : Ancestors(c) \subseteq linked
    BY <2>1, TypeFacts, LinkedClosed
  <2>4. QED
    BY <1>1, <2>1, <2>2, <2>3
       DEF IInv, Types, CandidatesSort, ChainSound, IndexConsistent, CandidatesCanBeWalked
<1>2. QED
  BY <1>1, InvariantHolds, PTL

(* When no thread is in ActivateBestChain, the tip is the best block whose *)
(* chain is complete and not marked, unless the last activation could not  *)
(* disconnect a block; and always a candidate is at least as good as any   *)
(* of them, so that PruneBlockIndexCandidates never forgets a block that a *)
(* later invalidation, reprocessing or retry needs.  This is until a       *)
(* descendant of a failed block is reconsidered or an InvalidateBlock      *)
(* fails.                                                                  *)
THEOREM SettledTheorem == Spec => []SettledOnBest
<1>1. ASSUME IInv PROVE SettledOnBest
  <2>1. SUFFICES ASSUME Whole, NEW b \in Eligible, Worse(tip, b)
                 PROVE  (pending \/ halted) /\ \E c \in candidates \cap Eligible : ~Worse(c, b)
    BY DEF SettledOnBest, Whole
  <2>2. pending \/ halted
    BY <1>1, <2>1 DEF IInv, Settles
  <2>3. PICK u \in Index : Watermark(u)
    BY <1>1, <2>1 DEF IInv, Watermarked
  <2>4. Types /\ b \in linked /\ b \in Index /\ Ancestors(b) \cap Failed = {} /\ b \notin Failed
    BY <1>1, <2>1, TypeFacts, AncestorsSelf DEF IInv, Eligible
  <2>5. u \in candidates \cap Eligible
    BY <2>3, <2>4, TypeFacts DEF Watermark, Eligible
  <2>6. ~Worse(b, b)
    BY <2>4, TypeFacts, WorseIsOrder DEF Worse
  <2>7. Worse(u, b) => b \in candidates
    BY <2>3, <2>4 DEF Watermark
  <2>8. QED
    BY <2>1, <2>2, <2>5, <2>6, <2>7
<1>2. QED
  BY <1>1, InvariantHolds, PTL

(* ActivateBestChain moves to a chain with less work only when it has just *)
(* met an invalid block, or a block that it cannot disconnect: then it     *)
(* returns with an error, on a block of the chain it was leaving.          *)
THEOREM WorkTheorem == Spec => WorkNeverDrops
<1>1. ASSUME IInv, ActivateBestChain, UNCHANGED failedValid, Work[tip'] < Work[tip]
      PROVE  halted' /\ ~pending' /\ tip' \in Chain
  <2>1. Types /\ LinkedWhenComplete /\ tip \in Index /\ Work[tip] \in Nat
    BY <1>1, TypeFacts, BlockTreeAssumption DEF IInv
  <2>2. tip' # tip
    BY <1>1, <2>1
  <2>3. ASSUME NEW m \in Usable, m # tip, ActivateBestChainStep(m, candidates \ Removed)
        PROVE  FALSE
    <3>1. Refused(m) = {}
      BY <1>1, <2>3, MoveFacts DEF Failed
    <3>2. Work[tip'] > Work[tip] \/ tip' = m
      BY <1>1, <2>3, <3>1, MoveFacts
    <3>3. m \in Index /\ Work[m] \in Nat /\ ~Worse(m, tip)
      BY <1>1, <2>1, <2>3, TypeFacts, BlockTreeAssumption DEF IInv, CandidatesSort, Usable
    <3>4. ~(Work[m] < Work[tip])
      BY <3>3 DEF Worse, WorseBy
    <3>5. tip' \in Index /\ Work[tip'] \in Nat
      BY <1>1, <2>3, MoveFacts, AncestorsSelf, BlockTreeAssumption
    <3>6. QED
      BY <1>1, <2>1, <3>2, <3>4, <3>5
  <2>4. QED
    BY <1>1, <2>1, <2>2, <2>3, ActivateCases
<1>2. ASSUME IInv, [Next]_vars
      PROVE  [Work[tip'] < Work[tip] /\ UNCHANGED failedValid /\ ActivateBestChain
                => halted' /\ ~pending' /\ tip' \in Chain]_vars
  BY <1>1, <1>2
<1>3. QED
  BY <1>2, InvariantHolds, PTL DEF Spec, WorkNeverDrops

=============================================================================
