------------------------------ MODULE Ancestry ------------------------------
(***************************************************************************)
(* The tree of CBlockIndex entries (src/chain.h): every block but the      *)
(* genesis block has a parent, pprev, one lower.                           *)
(***************************************************************************)
EXTENDS Integers, FiniteSets

CONSTANTS
  Blocks,      \* every block but the genesis block
  Genesis,
  Prev,        \* Prev[b]: the parent of b
  Height       \* nHeight

Index == Blocks \cup {Genesis}

ASSUME AncestryAssumption ==
  /\ IsFiniteSet(Blocks) /\ Genesis \notin Blocks
  /\ Height \in [Index -> Nat] /\ Height[Genesis] = 0
  /\ \A b \in Blocks : Prev[b] \in Index /\ Height[b] = Height[Prev[b]] + 1

(* A set of blocks that a walk along pprev does not leave.                 *)
Closed(S) == \A x \in S \ {Genesis} : Prev[x] \in S

(* The blocks that a walk along pprev from b meets, b included: the least  *)
(* closed set with b.                                                      *)
AncestorSets ==
  [b \in Index |-> {a \in Index : \A S \in SUBSET Index : b \in S /\ Closed(S) => a \in S}]
Ancestors(b) == AncestorSets[b]
=============================================================================
