------------------------------ MODULE BlockTree ------------------------------
(***************************************************************************)
(* The block index and the choice of the active chain: mapBlockIndex,      *)
(* setBlockIndexCandidates, mapBlocksUnlinked and chainActive of           *)
(* src/main.cpp, as AcceptBlock, ActivateBestChain, InvalidateBlock,       *)
(* ReconsiderBlock, DisconnectBlocksAndReprocess and LoadBlockIndexDB      *)
(* change them.                                                            *)
(*                                                                         *)
(* Each action is what one thread does while it holds cs_main.             *)
(* ActivateBestChain gives the lock up between two steps, so the other     *)
(* operations interleave with it.  What a block does to the coins is in    *)
(* module BlockCoins; here a block that ConnectBlock refuses is in Bad,    *)
(* and DisconnectTip may fail on any block, as it does where the coins     *)
(* have lost a coinstake flag (BlockCoins.DisconnectFails).  Disk errors,  *)
(* which shut the node down, are left out.                                 *)
(***************************************************************************)
EXTENDS Integers, FiniteSets, Ancestry

CONSTANTS
  Work,        \* nChainWork
  Bad,         \* ConnectBlock finds them invalid
  BadContext,  \* ContextualCheckBlock finds them invalid
  Checkpoints, \* the blocks a checkpoint names
  Orders,      \* the orders the addresses of the index entries may have
  Reprocess,   \* the argument of ReprocessBlocks (15 in swifttx.cpp)
  RpcBlocks,   \* the arguments of invalidateblock and reconsiderblock
  MaxOps,      \* bound: operator commands, reprocessings and restarts
  None         \* NULL

ASSUME BlockTreeAssumption ==
  /\ None \notin Index
  /\ Work \in [Index -> Nat] /\ \A b \in Blocks : Work[b] > Work[Prev[b]]
  /\ Orders \subseteq {at \in [Index -> Int] : \A a, b \in Index : at[a] = at[b] => a = b}
  /\ Bad \cup BadContext \cup Checkpoints \cup RpcBlocks \subseteq Blocks
  /\ Reprocess \in Nat /\ MaxOps \in Nat

VARIABLES
  known,       \* the entries of mapBlockIndex
  data,        \* ... with BLOCK_HAVE_DATA and BLOCK_VALID_TRANSACTIONS
  linked,      \* ... with nChainTx # 0
  failedValid, \* ... with BLOCK_FAILED_VALID
  failedChild, \* ... with BLOCK_FAILED_CHILD
  childDirty,  \* ... whose BLOCK_FAILED_CHILD goes to disk with the next flush
  seq,         \* nSequenceId
  nextSeq,     \* nBlockSequenceId
  addr,        \* the addresses of the entries
  unlinked,    \* mapBlocksUnlinked: b stands for the pair (b->pprev, b)
  candidates,  \* setBlockIndexCandidates
  tip,         \* chainActive.Tip()
  pending,     \* a thread is in ActivateBestChain, or on its way to it
  ops,         \* bound: operations counted by MaxOps
  descended,   \* history: a descendant of a failed block was reconsidered
  halted,      \* the last ActivateBestChain ended with a failed DisconnectTip
  defied       \* history: the blocks that InvalidateBlock could not disconnect

flags == <<failedValid, failedChild, childDirty>>
ids   == <<seq, nextSeq, addr>>
vars  == <<known, data, linked, flags, ids, unlinked, candidates, tip, pending, ops, descended,
           halted, defied>>

Chain == Ancestors(tip)

Failed == failedValid \cup failedChild

(* CBlockIndexWorkComparator: a sorts before b.  The sequence ids and the  *)
(* addresses are parameters, so that the order after a step can be named.  *)
WorseBy(s, at, a, b) ==
  \/ Work[a] < Work[b]
  \/ Work[a] = Work[b] /\ s[a] > s[b]
  \/ Work[a] = Work[b] /\ s[a] = s[b] /\ at[a] > at[b]
Worse(a, b) == WorseBy(seq, addr, a, b)

(* MUTANT of Pruned: the tip itself is deleted too.                        *)
PrunedWithTip(c, t) == {b \in c : Worse(t, b)}

(* PruneBlockIndexCandidates for the tip t.                                *)
Pruned(c, t) == {b \in c : ~Worse(b, t)}

Init ==
  /\ known = {Genesis} /\ data = {Genesis} /\ linked = {Genesis}
  /\ failedValid = {} /\ failedChild = {} /\ childDirty = {}
  /\ seq = [b \in Index |-> IF b = Genesis THEN 1 ELSE 0] /\ nextSeq = 2
  /\ addr \in Orders
  /\ unlinked = {}
  /\ candidates = {Genesis}
  /\ tip = Genesis
  /\ pending = FALSE
  /\ ops = 0 /\ descended = FALSE /\ halted = FALSE /\ defied = {}

-----------------------------------------------------------------------------
(* MUTANT of ReconsiderBlock: the flags of the descendants stay.           *)
ReconsiderOnly(b) ==
  /\ failedValid' = failedValid \ Ancestors(b)
  /\ failedChild' = failedChild \ Ancestors(b)
  /\ childDirty' = childDirty \ Ancestors(b)
  /\ candidates' = candidates \cup {x \in Failed \cap {b} : x \in data /\ x \in linked /\ Worse(tip, x)}
  /\ descended' = (descended \/ (Ancestors(b) \ {b}) \cap Failed # {})

(* ReconsiderBlock(b): the flags of b, its descendants and its ancestors   *)
(* are cleared; b and those descendants are candidates if they beat the    *)
(* tip, the ancestors are not tried.                                       *)
ReconsiderBlock(b) ==
  LET below == {x \in Failed : b \in Ancestors(x)}
      clear == below \cup Ancestors(b)
  IN  /\ failedValid' = failedValid \ clear
      /\ failedChild' = failedChild \ clear
      /\ childDirty' = childDirty \ clear
      /\ candidates' = candidates \cup {x \in below : x \in data /\ x \in linked /\ Worse(tip, x)}
      /\ descended' = (descended \/ (Ancestors(b) \ {b}) \cap Failed # {})

(* MUTANT of Waiting: only the children of b are linked with it.           *)
WaitingChildren(b) == {x \in unlinked : Prev[x] = b}

(* The blocks that wait for b, directly or through each other.             *)
Waiting(b) == {x \in unlinked : \A a \in Ancestors(x) \ Ancestors(b) : a \in unlinked} \cap
              {x \in Index : b \in Ancestors(x)}

(* The sequence ids ReceivedBlockTransactions hands out to b and to what   *)
(* waits for it, in the order of its queue: parents before children, and   *)
(* at one height in any order.                                             *)
Numbered(news) ==
  {s \in [news -> nextSeq..(nextSeq + Cardinality(news) - 1)] :
     \A x, y \in news : /\ x # y => s[x] # s[y]
                        /\ Height[x] < Height[y] => s[x] < s[y]}

(* ReceivedBlockTransactions(b).                                           *)
ReceivedBlockTransactions(b) ==
  /\ data' = data \cup {b}
  /\ IF Prev[b] \in linked
     THEN LET news == {b} \cup Waiting(b)
          IN  \E s \in Numbered(news) :
                /\ linked' = linked \cup news
                /\ seq' = [x \in Index |-> IF x \in news THEN s[x] ELSE seq[x]]
                /\ nextSeq' = nextSeq + Cardinality(news)
                /\ candidates' = candidates \cup {x \in news : ~WorseBy(seq', addr, x, tip)}
                /\ unlinked' = unlinked \ news
     ELSE /\ unlinked' = IF Prev[b] \in Failed THEN unlinked ELSE unlinked \cup {b}
          /\ UNCHANGED <<linked, seq, nextSeq, candidates>>

(* AcceptBlock of a block whose parent is known and not failed: the header *)
(* enters the index.  A block that is there with its data is left alone;   *)
(* else ContextualCheckBlock may fail it, the stake check may refuse it    *)
(* without a mark, or it is stored.                                        *)
StoreBlock(b) ==
  /\ Prev[b] \in known \ Failed /\ b \notin Failed
  /\ known' = known \cup {b}
  /\ \/ /\ b \in data
        /\ pending' = TRUE
        /\ UNCHANGED <<data, linked, failedValid, seq, nextSeq, unlinked, candidates>>
     \/ /\ b \notin data /\ b \in BadContext
        /\ failedValid' = failedValid \cup {b}
        /\ UNCHANGED <<data, linked, seq, nextSeq, unlinked, candidates, pending>>
     \/ /\ b \notin data /\ b \notin BadContext
        /\ UNCHANGED <<data, linked, failedValid, seq, nextSeq, unlinked, candidates, pending>>
     \/ /\ b \notin data /\ b \notin BadContext
        /\ ReceivedBlockTransactions(b)
        /\ pending' = TRUE
        /\ UNCHANGED failedValid
  /\ UNCHANGED <<failedChild, childDirty, addr, tip, ops, descended, halted, defied>>

(* AcceptBlock of a block whose parent is failed: refused, unless the      *)
(* parent is at a checkpoint and is reconsidered.                          *)
ReconsiderParent(b) ==
  /\ Prev[b] \in known \cap Failed /\ Prev[b] \in Checkpoints
  /\ ReconsiderBlock(Prev[b])
  /\ pending' = TRUE
  /\ UNCHANGED <<known, data, linked, ids, unlinked, tip, ops, halted, defied>>

AcceptBlock == \E b \in Blocks : StoreBlock(b) \/ ReconsiderParent(b)

-----------------------------------------------------------------------------
(* The blocks between c and the active chain, the failed ones among them,  *)
(* and the ones above the first failed one that FindMostWorkChain meets.   *)
Path(c)    == Ancestors(c) \ Chain
FailedOn(c) == Path(c) \cap Failed
FirstFailed(c) == CHOOSE x \in FailedOn(c) : \A y \in FailedOn(c) : Height[y] <= Height[x]
Above(c)   == {x \in Path(c) : Height[x] > Height[FirstFailed(c)]}

(* The best of the blocks in S.                                            *)
Best(S) == CHOOSE b \in S : \A x \in S \ {b} : Worse(x, b)

(* MUTANT of FindMostWorkChain: only the candidate itself is tested.       *)
FindMostWorkNoPath ==
  LET usable  == candidates \ Failed
      most    == IF usable = {} THEN None ELSE Best(usable)
  IN  [most |-> most, marked |-> {}, left |-> usable]

(* FindMostWorkChain: the best candidate without a failed block on its     *)
(* path; the better ones are dropped with their paths, which get           *)
(* BLOCK_FAILED_CHILD.                                                     *)
FindMostWorkChain ==
  LET usable  == {c \in candidates : FailedOn(c) = {}}
      most    == IF usable = {} THEN None ELSE Best(usable)
      dropped == {c \in candidates : \A u \in usable : Worse(u, c)}
  IN  [most   |-> most,
       marked |-> UNION {Above(c) : c \in dropped},
       left   |-> candidates \ UNION {Above(c) \cup {FirstFailed(c)} : c \in dropped}]

(* MUTANT of ActivateBestChainStep: the lock is released after one block.  *)
ActivateOneBlock(m, c) ==
  LET stop == CHOOSE x \in Path(m) : Prev[x] \in Chain
  IN  IF stop \in Bad
      THEN /\ tip' = Prev[stop] /\ candidates' = c \ {stop}
           /\ failedValid' = failedValid \cup {stop}
      ELSE /\ tip' = stop /\ candidates' = Pruned(c, tip') /\ UNCHANGED failedValid

(* ActivateBestChainStep towards m, with the candidates c: back to the     *)
(* fork, then forward until a block is refused, the chain beats the old    *)
(* tip, or m is reached.                                                   *)
ActivateBestChainStep(m, c) ==
  LET stop == CHOOSE x \in Path(m) :
                LET ends(y) == y \in Bad \/ Work[y] > Work[tip] \/ y = m
                IN  ends(x) /\ \A y \in Path(m) : ends(y) => Height[x] <= Height[y]
      forked == Prev[stop] \in Chain
  IN  IF stop \in Bad
      THEN /\ tip' = Prev[stop]
           /\ candidates' = (IF forked THEN c ELSE Pruned(c, tip')) \ {stop}
           /\ failedValid' = failedValid \cup {stop}
      ELSE /\ tip' = stop
           /\ candidates' = Pruned(c, tip')
           /\ UNCHANGED failedValid

(* ActivateBestChainStep returns false: DisconnectTip fails on a block     *)
(* above the fork, and the ones above it are gone.                         *)
StepFails(m, c) ==
  /\ tip' \in Chain \ Ancestors(m)
  /\ candidates' = c
  /\ UNCHANGED failedValid

(* MUTANT of ActivateBestChain: the loop does not end at the tip.          *)
ActivateGoesOn ==
  /\ pending
  /\ \E found \in {FindMostWorkChain} :
       /\ failedChild' = failedChild \cup found.marked
       /\ IF found.most \in {None, tip}
          THEN /\ candidates' = found.left
               /\ pending' = TRUE
               /\ UNCHANGED <<tip, failedValid>>
          ELSE /\ ActivateBestChainStep(found.most, found.left)
               /\ pending' = (tip' # found.most)
  /\ halted' = FALSE
  /\ UNCHANGED <<known, data, linked, childDirty, ids, unlinked, ops, descended, defied>>

(* One turn of ActivateBestChain's loop, which a failed step ends.         *)
ActivateBestChain ==
  /\ pending
  /\ \E found \in {FindMostWorkChain} :
       /\ failedChild' = failedChild \cup found.marked
       /\ IF found.most \in {None, tip}
          THEN /\ candidates' = found.left
               /\ pending' = FALSE /\ halted' = FALSE
               /\ UNCHANGED <<tip, failedValid>>
          ELSE \/ /\ ActivateBestChainStep(found.most, found.left)
                  /\ pending' = (tip' # found.most) /\ halted' = FALSE
               \/ /\ StepFails(found.most, found.left)
                  /\ pending' = FALSE /\ halted' = TRUE
  /\ UNCHANGED <<known, data, linked, childDirty, ids, unlinked, ops, descended, defied>>

-----------------------------------------------------------------------------
(* MUTANT of ReadmitCandidates: nChainTx and the data are not asked for.   *)
ReadmitHeaders(c, bad, t) == c \cup {x \in known : x \notin bad /\ ~Worse(x, t)}

(* MUTANT of ReadmitCandidates: of the blocks pruned when the tip was      *)
(* higher only the new tip comes back.                                     *)
ReadmitTip(c, bad, t) == c \cup {t}

(* "The resulting new best tip may not be in setBlockIndexCandidates       *)
(* anymore, so add them again."                                            *)
ReadmitCandidates(c, bad, t) == c \cup {x \in data : x \notin bad /\ x \in linked /\ ~Worse(x, t)}

(* The blocks InvalidateBlock(b) disconnects, each with                    *)
(* BLOCK_FAILED_CHILD.                                                     *)
Disconnected(b) == IF b \in Chain THEN {x \in Chain : b \in Ancestors(x)} ELSE {}

(* The invalidateblock RPC: InvalidateBlock(b).                            *)
InvalidateBlock(b) ==
  LET gone == Disconnected(b)
  IN  /\ b \in known /\ ops < MaxOps
      /\ failedValid' = failedValid \cup {b}
      /\ failedChild' = failedChild \cup gone
      /\ childDirty' = childDirty \cup gone \cup (failedChild \cap {b})
      /\ tip' = IF gone = {} THEN tip ELSE Prev[b]
      /\ candidates' = ReadmitCandidates(candidates \ (gone \cup {b}), Failed', tip')
      /\ pending' = TRUE
      /\ ops' = ops + 1
      /\ UNCHANGED <<known, data, linked, ids, unlinked, descended, halted, defied>>

(* The same when DisconnectTip fails on x, which is marked already:        *)
(* InvalidateBlock returns, and no candidate is added again.               *)
InvalidateFails(b, x) ==
  LET gone == {y \in Disconnected(b) : x \in Ancestors(y)}
  IN  /\ b \in known /\ ops < MaxOps
      /\ x \in Disconnected(b)
      /\ failedValid' = failedValid \cup {b}
      /\ failedChild' = failedChild \cup gone
      /\ childDirty' = childDirty \cup gone \cup (failedChild \cap {b})
      /\ tip' = x
      /\ candidates' = candidates \ (gone \cup {b})
      /\ pending' = TRUE
      /\ ops' = ops + 1
      /\ defied' = defied \cup {b}
      /\ UNCHANGED <<known, data, linked, ids, unlinked, descended, halted>>

(* The reconsiderblock RPC, and the blocks ReprocessBlocks reconsiders.    *)
Reconsider(b) ==
  /\ b \in known /\ ops < MaxOps
  /\ ReconsiderBlock(b)
  /\ pending' = TRUE
  /\ ops' = ops + 1
  /\ UNCHANGED <<known, data, linked, ids, unlinked, tip, halted, defied>>

(* DisconnectBlocksAndReprocess(n) calls DisconnectTip n + 1 times and     *)
(* ignores its result; the genesis block has no undo data and stays.       *)
DisconnectBlocksAndReprocess(n) ==
  /\ ops < MaxOps
  /\ tip' \in {x \in Chain : Height[x] >= Height[tip] - (n + 1)}
  /\ pending' = TRUE
  /\ ops' = ops + 1
  /\ UNCHANGED <<known, data, linked, flags, ids, unlinked, candidates, descended, halted, defied>>

(* A shutdown that flushed everything, and LoadBlockIndexDB: what is only  *)
(* in memory is computed again, the entries have new addresses.  A         *)
(* BLOCK_FAILED_CHILD that only FindMostWorkChain has set is on disk if a  *)
(* flush found the entry dirty for another reason, and is lost otherwise.  *)
(* PruneBlockIndexCandidates asserts that a candidate is left: otherwise   *)
(* the node does not start.                                                *)
Restart ==
  LET complete == {b \in data : Ancestors(b) \subseteq data}
  IN  /\ ops < MaxOps
      /\ \E kept \in SUBSET (failedChild \ childDirty) : failedChild' = childDirty \cup kept
      /\ childDirty' = failedChild'
      /\ seq' = [b \in Index |-> 0] /\ nextSeq' = 1
      /\ addr' \in Orders
      /\ linked' = complete
      /\ unlinked' = data \ complete
      /\ candidates' = {b \in complete \ (failedValid \cup failedChild') :
                          ~WorseBy(seq', addr', b, tip)}
      /\ candidates' # {}
      /\ pending' = TRUE
      /\ ops' = ops + 1
      /\ UNCHANGED <<known, data, failedValid, tip, descended, halted, defied>>

Rpc ==
  \E b \in RpcBlocks : \/ InvalidateBlock(b) \/ Reconsider(b)
                        \/ \E x \in Index : InvalidateFails(b, x)

Next ==
  \/ AcceptBlock
  \/ ActivateBestChain
  \/ Rpc
  \/ DisconnectBlocksAndReprocess(Reprocess)
  \/ Restart

(* A thread in ActivateBestChain keeps asking for cs_main until it gets    *)
(* it.                                                                     *)
Spec == Init /\ [][Next]_vars /\ WF_vars(ActivateBestChain)

-----------------------------------------------------------------------------
TypeOK ==
  /\ Genesis \in known /\ known \subseteq Index
  /\ linked \subseteq data /\ data \subseteq known
  /\ Failed \subseteq known \ {Genesis} /\ childDirty \subseteq failedChild
  /\ seq \in [Index -> 0..(nextSeq - 1)] /\ addr \in Orders
  /\ unlinked \subseteq data
  /\ candidates \subseteq data
  /\ tip \in linked
  /\ pending \in BOOLEAN /\ ops \in 0..MaxOps /\ halted \in BOOLEAN /\ defied \subseteq known

(* Every block whose ancestors all have their data has nChainTx, whatever  *)
(* the order in which blocks and parents arrived, and no other; the rest   *)
(* waits in mapBlocksUnlinked for a parent ("nChainTx == 0 is used to      *)
(* signal..." of CheckBlockIndex).                                         *)
LinkedWhenComplete ==
  /\ linked = {b \in data : Ancestors(b) \subseteq data}
  /\ unlinked = data \ linked

(* The assertion of FindMostWorkChain on every block it walks over, and    *)
(* the one of PruneBlockIndexCandidates that a candidate is left.  "If     *)
(* this block sorts worse than the current tip, it cannot be in            *)
(* setBlockIndexCandidates."  InvalidateBlock may leave none when it fails *)
(* on the tip, ReconsiderBlock of a descendant of a failed block when it   *)
(* clears the flags of ancestors that it does not try.                     *)
CandidatesCanBeWalked ==
  /\ candidates # {} \/ descended \/ defied # {}
  /\ \A c \in candidates : Ancestors(c) \subseteq linked /\ ~Worse(c, tip)

(* A block of the active chain that is marked invalid descends from one    *)
(* that InvalidateBlock failed to disconnect: there is no other way in.    *)
ActiveChainNotFailed == \A b \in Chain \cap Failed : Ancestors(b) \cap defied # {}

(* The blocks with data for which nothing on their chain is marked.        *)
Eligible == {b \in linked : Ancestors(b) \cap Failed = {}}

(* An eligible block is better than the tip only while an activation is    *)
(* under way, or after one that met a block it could not disconnect; and   *)
(* then a candidate is at least as good, so that the next activation tries *)
(* again: no operation forgets a candidate that a later one needs.  The    *)
(* exceptions: ReconsiderBlock of a descendant of a failed block clears    *)
(* the flags of the ancestors, but makes no candidates of them, and an     *)
(* InvalidateBlock that fails adds none again.                             *)
SettledOnBest ==
  ~descended /\ defied = {} =>
     \A b \in Eligible : Worse(tip, b) =>
        (pending \/ halted) /\ \E c \in candidates \cap Eligible : ~Worse(c, b)

(* "The failed mask cannot be set for blocks without invalid parents."     *)
(* The same exception: other descendants of the ancestors keep their flag. *)
FailedHasInvalidAncestor ==
  ~descended => \A b \in Failed : Ancestors(b) \cap failedValid # {}

(* The block index is consistent, in the sense of CheckBlockIndex, at      *)
(* every moment at which cs_main is free: links, candidates, failed flags  *)
(* and the active chain agree, in the ways the four parts say.             *)
IndexConsistent ==
  /\ TypeOK
  /\ LinkedWhenComplete
  /\ CandidatesCanBeWalked
  /\ ActiveChainNotFailed
  /\ FailedHasInvalidAncestor


(* A step to a chain with less work than the one it left is not one of     *)
(* ActivateBestChain, unless it has found an invalid block on the way, or  *)
(* met a block it cannot disconnect: then it stays on the chain it was     *)
(* leaving, and returns an error.                                          *)
WorkNeverDrops ==
  [][Work[tip'] < Work[tip] /\ UNCHANGED failedValid /\ ActivateBestChain
        => halted' /\ ~pending' /\ tip' \in Chain]_vars

(* The loop of ActivateBestChain ends, whatever blocks are refused or      *)
(* cannot be disconnected.                                                 *)
ActivationEnds == pending ~> ~pending

=============================================================================
