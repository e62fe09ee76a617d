--------------------------- MODULE AncestryProofs ---------------------------
(***************************************************************************)
(* Facts about the tree of blocks, about finite sets in some order and     *)
(* about loops as functions of their turns, that the proofs about the      *)
(* block index, the chain state on disk, the coins and the memory pool     *)
(* rest on.                                                                *)
(***************************************************************************)
EXTENDS Ancestry, FiniteSetTheorems, WellFoundedInduction, TLAPS

(* Ancestors spelled out.                                                  *)
LEMMA AncestorsIff ==
  ASSUME NEW b \in Index, NEW a
  PROVE  a \in Ancestors(b) <=>
           a \in Index /\ \A S \in SUBSET Index : b \in S /\ Closed(S) => a \in S
BY DEF Ancestors, AncestorSets

(* A closed set with b holds the ancestors of b.                           *)
LEMMA AncestorsLeast ==
  ASSUME NEW b \in Index, NEW S \in SUBSET Index, b \in S, Closed(S)
  PROVE  Ancestors(b) \subseteq S
BY AncestorsIff

(* The ancestors of b are blocks of the index, b is one of them.           *)
LEMMA AncestorsSelf ==
  ASSUME NEW b \in Index
  PROVE  Ancestors(b) \subseteq Index /\ b \in Ancestors(b)
BY AncestorsIff

(* The parent of an ancestor is an ancestor.                               *)
LEMMA AncestorsClosed ==
  ASSUME NEW b \in Index
  PROVE  Closed(Ancestors(b))
<1>1. SUFFICES ASSUME NEW x \in Ancestors(b) \ {Genesis}
               PROVE  Prev[x] \in Ancestors(b)
  BY DEF Closed
<1>2. x \in Blocks /\ Prev[x] \in Index
  BY <1>1, AncestorsSelf, AncestryAssumption DEF Index
<1>3. ASSUME NEW S \in SUBSET Index, b \in S, Closed(S)
      PROVE  Prev[x] \in S
  <2>1. x \in S
    BY <1>1, <1>3, AncestorsIff
  <2>2. QED
    BY <1>1, <1>3, <2>1 DEF Closed
<1>4. QED
  BY <1>2, <1>3, AncestorsIff

(* The ancestors of an ancestor are ancestors.                             *)
LEMMA AncestorsTransitive ==
  ASSUME NEW b \in Index, NEW a \in Ancestors(b)
  PROVE  a \in Index /\ Ancestors(a) \subseteq Ancestors(b)
<1>1. a \in Index /\ Ancestors(b) \in SUBSET Index
  BY AncestorsSelf
<1>2. QED
  BY <1>1, AncestorsClosed, AncestorsLeast

(* The genesis block is its only ancestor.                                 *)
LEMMA AncestorsGenesis == Genesis \in Index /\ Ancestors(Genesis) = {Genesis}
<1>1. Genesis \in Index /\ {Genesis} \in SUBSET Index /\ Closed({Genesis})
  BY DEF Index, Closed
<1>2. Ancestors(Genesis) \subseteq {Genesis}
  BY <1>1, AncestorsLeast
<1>3. QED
  BY <1>1, <1>2, AncestorsSelf

(* The walk from b is b and the walk from its parent.                      *)
LEMMA AncestorsStep ==
  ASSUME NEW b \in Blocks
  PROVE  /\ b \in Index /\ b # Genesis /\ Prev[b] \in Index
         /\ Ancestors(b) = {b} \cup Ancestors(Prev[b])
<1>1. b \in Index /\ b # Genesis /\ Prev[b] \in Index
  BY AncestryAssumption DEF Index
<1>2. Prev[b] \in Ancestors(b)
  BY <1>1, AncestorsClosed, AncestorsSelf DEF Closed
<1>3. {b} \cup Ancestors(Prev[b]) \subseteq Ancestors(b)
  BY <1>1, <1>2, AncestorsTransitive, AncestorsSelf
<1> DEFINE S == {b} \cup Ancestors(Prev[b])
<1>4. S \in SUBSET Index /\ b \in S
  BY <1>1, AncestorsSelf
<1>5. Closed(S)
  BY <1>1, AncestorsSelf, AncestorsClosed DEF Closed
<1>6. Ancestors(b) \subseteq S
  BY <1>1, <1>4, <1>5, AncestorsLeast
<1>7. QED
  BY <1>1, <1>3, <1>6

(* Heights are naturals; an ancestor is lower, but b itself.               *)
LEMMA AncestorsLower ==
  ASSUME NEW b \in Index, NEW a \in Ancestors(b)
  PROVE  /\ a \in Index /\ Height[a] \in Nat /\ Height[b] \in Nat
         /\ Height[a] <= Height[b]
         /\ Height[a] = Height[b] => a = b
<1>1. a \in Index /\ Height[a] \in Nat /\ Height[b] \in Nat
  BY AncestorsSelf, AncestryAssumption
<1> DEFINE S == {x \in Index : x = b \/ Height[x] < Height[b]}
<1>2. S \in SUBSET Index /\ b \in S
  OBVIOUS
<1>3. ASSUME NEW x \in S \ {Genesis} PROVE Prev[x] \in S
  <2>1. x \in Blocks /\ x \in Index
    BY <1>3 DEF Index
  <2>2. Prev[x] \in Index /\ Height[x] = Height[Prev[x]] + 1
    BY <2>1, AncestryAssumption
  <2>3. Height[x] \in Nat /\ Height[Prev[x]] \in Nat
    BY <2>1, <2>2, AncestryAssumption
  <2>4. Height[x] <= Height[b]
    BY <1>1, <1>3, <2>3
  <2>5. QED
    BY <1>1, <2>2, <2>3, <2>4
<1>4. Closed(S)
  BY <1>3 DEF Closed
<1>5. a \in S
  BY <1>2, <1>4, AncestorsLeast
<1>6. QED
  BY <1>1, <1>5

(* A block is not among the ancestors of its parent: taking it away from   *)
(* its own leaves those.                                                   *)
LEMMA AncestorsOfParent ==
  ASSUME NEW b \in Blocks
  PROVE  b \notin Ancestors(Prev[b]) /\ Ancestors(b) \ {b} = Ancestors(Prev[b])
<1>1. /\ b \in Index /\ Prev[b] \in Index /\ Ancestors(b) = {b} \cup Ancestors(Prev[b])
      /\ Height[b] = Height[Prev[b]] + 1
  BY AncestorsStep, AncestryAssumption
<1>2. b \notin Ancestors(Prev[b])
  <2>1. SUFFICES ASSUME b \in Ancestors(Prev[b]) PROVE FALSE
    OBVIOUS
  <2>2. Height[b] \in Nat /\ Height[Prev[b]] \in Nat /\ Height[b] <= Height[Prev[b]]
    BY <1>1, <2>1, AncestorsLower
  <2>3. QED
    BY <1>1, <2>2
<1>3. QED
  BY <1>1, <1>2

(* Of two ancestors of one block, one is an ancestor of the other.         *)
LEMMA AncestorsLinear ==
  ASSUME NEW b \in Index, NEW a \in Ancestors(b), NEW c \in Ancestors(b)
  PROVE  a \in Ancestors(c) \/ c \in Ancestors(a)
<1>1. a \in Index /\ c \in Index
  BY AncestorsSelf
<1> DEFINE S == {x \in Index : x \in Ancestors(a) \/ a \in Ancestors(x)}
<1>2. S \in SUBSET Index /\ b \in S
  OBVIOUS
<1>3. ASSUME NEW x \in S \ {Genesis} PROVE Prev[x] \in S
  <2>1. x \in Blocks /\ x \in Index /\ Prev[x] \in Index
    BY <1>3, AncestryAssumption DEF Index
  <2>2. CASE x \in Ancestors(a)
    BY <1>1, <1>3, <2>1, <2>2, AncestorsClosed DEF Closed
  <2>3. CASE a \in Ancestors(x)
    <3>1. a = x \/ a \in Ancestors(Prev[x])
      BY <2>1, <2>3, AncestorsStep
    <3>2. a = x => Prev[x] \in Ancestors(a)
      BY <1>1, <1>3, AncestorsSelf, AncestorsClosed DEF Closed
    <3>3. QED
      BY <2>1, <3>1, <3>2
  <2>4. QED
    BY <1>3, <2>2, <2>3
<1>4. Closed(S)
  BY <1>3 DEF Closed
<1>5. c \in S
  BY <1>2, <1>4, AncestorsLeast
<1>6. QED
  BY <1>5

(* A non-empty set of naturals has a least element.                        *)
LEMMA LeastNatural ==
  ASSUME NEW T \in SUBSET Nat, T # {}
  PROVE  \E x \in T : \A y \in T : x <= y
<1>1. PICK x \in T : \A y \in T : ~ (<<y, x>> \in OpToRel(<, Nat))
  BY WFMin, NatLessThanWellFounded, Zenon
<1>2. \A y \in T : ~ (y < x)
  BY <1>1 DEF OpToRel
<1>3. QED
  BY <1>2

(* The walk from b meets a block at every height below it.                 *)
LEMMA AncestorsHeights ==
  ASSUME NEW b \in Index, NEW h \in 0..Height[b]
  PROVE  \E a \in Ancestors(b) : Height[a] = h
<1> DEFINE T == {n \in Nat : n >= h /\ \E a \in Ancestors(b) : Height[a] = n}
<1>1. Height[b] \in Nat
  BY AncestryAssumption
<1>2. T \in SUBSET Nat /\ T # {}
  <2>1. Height[b] \in T
    BY <1>1, AncestorsSelf
  <2>2. QED
    BY <2>1
<1>3. PICK m \in T : \A n \in T : m <= n
  <2> HIDE DEF T
  <2> QED
    BY <1>2, LeastNatural
<1>4. PICK a \in Ancestors(b) : Height[a] = m
  BY <1>3
<1>5. CASE m = h
  BY <1>4, <1>5
<1>6. CASE m # h
  <2>1. m > h /\ m > 0 /\ a \in Index
    BY <1>1, <1>3, <1>6, AncestorsSelf
  <2>2. a # Genesis /\ a \in Blocks
    BY <1>4, <2>1, AncestryAssumption DEF Index
  <2>3. Prev[a] \in Ancestors(b)
    BY <2>2, AncestorsClosed DEF Closed
  <2>4. Prev[a] \in Index /\ Height[Prev[a]] \in Nat /\ m = Height[Prev[a]] + 1
    BY <1>4, <2>2, AncestryAssumption
  <2>5. m - 1 \in T
    BY <1>1, <2>1, <2>3, <2>4
  <2>6. QED
    BY <1>3, <2>5
<1>7. QED
  BY <1>5, <1>6

(* Every walk ends at the genesis block.                                   *)
LEMMA GenesisIsAncestor ==
  ASSUME NEW b \in Index
  PROVE  Genesis \in Ancestors(b)
<1>1. Height[b] \in Nat /\ 0 \in 0..Height[b]
  BY AncestryAssumption
<1>2. PICK a \in Ancestors(b) : Height[a] = 0
  BY <1>1, AncestorsHeights
<1>3. a \in Index /\ (a = Genesis \/ a \in Blocks)
  BY <1>2, AncestorsSelf DEF Index
<1>4. a \notin Blocks
  BY <1>2, AncestryAssumption
<1>5. QED
  BY <1>2, <1>3, <1>4

(* Two ancestors of one block at the same height are the same.             *)
LEMMA AncestorsUnique ==
  ASSUME NEW b \in Index, NEW a \in Ancestors(b), NEW c \in Ancestors(b), Height[a] = Height[c]
  PROVE  a = c
<1>1. a \in Index /\ c \in Index
  BY AncestorsSelf
<1>2. a \in Ancestors(c) \/ c \in Ancestors(a)
  BY AncestorsLinear
<1>3. QED
  BY <1>1, <1>2, AncestorsLower

(* Of two ancestors of one block the lower is an ancestor of the other.    *)
LEMMA AncestorsByHeight ==
  ASSUME NEW b \in Index, NEW a \in Ancestors(b), NEW c \in Ancestors(b), Height[a] <= Height[c]
  PROVE  a \in Ancestors(c)
<1>1. a \in Index /\ c \in Index /\ Height[a] \in Nat /\ Height[c] \in Nat
  BY AncestorsSelf, AncestryAssumption
<1>2. a \in Ancestors(c) \/ c \in Ancestors(a)
  BY AncestorsLinear
<1>3. c \in Ancestors(a) => a \in Ancestors(c)
  BY <1>1, AncestorsLower, AncestorsSelf
<1>4. QED
  BY <1>2, <1>3

(* The blocks are finitely many, and the walk from b has Height[b] + 1.    *)
LEMMA AncestorsCount ==
  ASSUME NEW b \in Index
  PROVE  IsFiniteSet(Index) /\ IsFiniteSet(Ancestors(b)) /\ Cardinality(Ancestors(b)) = Height[b] + 1
<1>1. IsFiniteSet(Index)
  BY AncestryAssumption, FS_AddElement DEF Index
<1>2. IsFiniteSet(Ancestors(b))
  BY <1>1, AncestorsSelf, FS_Subset
<1>3. Height[b] \in Nat
  BY AncestryAssumption
<1> DEFINE f == [a \in Ancestors(b) |-> Height[a]]
<1>4. f \in Bijection(Ancestors(b), 0..Height[b])
  <2>1. f \in [Ancestors(b) -> 0..Height[b]]
    <3>1. \A a \in Ancestors(b) : Height[a] \in 0..Height[b]
      BY AncestorsLower
    <3>2. QED
      BY <3>1
  <2>2. \A a, c \in Ancestors(b) : f[a] = f[c] => a = c
    BY AncestorsUnique
  <2>3. \A h \in 0..Height[b] : \E a \in Ancestors(b) : f[a] = h
    BY AncestorsHeights
  <2>4. QED
    BY <2>1, <2>2, <2>3 DEF Bijection, Injection, Surjection, IsInjective
<1>5. Cardinality(Ancestors(b)) = Cardinality(0..Height[b])
  <2> HIDE DEF f
  <2> QED
    BY <1>2, <1>4, FS_Bijection DEF ExistsBijection
<1>6. Cardinality(0..Height[b]) = Height[b] + 1
  BY <1>3, FS_Interval
<1>7. QED
  BY <1>1, <1>2, <1>5, <1>6

-----------------------------------------------------------------------------
(* R orders the elements of S, strictly and totally.                       *)
StrictOrder(R, S) ==
  /\ \A a \in S : <<a, a>> \notin R
  /\ \A a, b \in S : a # b => <<a, b>> \in R \/ <<b, a>> \in R
  /\ \A a, b, c \in S : <<a, b>> \in R /\ <<b, c>> \in R => <<a, c>> \in R

(* The position of b in S, counted from 0.                                 *)
Rank(b, S, R) == Cardinality({a \in S : <<a, b>> \in R})

(* In a finite ordered set every position is taken.                        *)
LEMMA PositionTaken ==
  ASSUME NEW S, IsFiniteSet(S), NEW R, StrictOrder(R, S), NEW k \in Nat, k < Cardinality(S)
  PROVE  \E b \in S : Rank(b, S, R) = k
<1>1. Cardinality(S) \in Nat
  BY FS_CardinalityType
<1> DEFINE Below(b) == {a \in S : <<a, b>> \in R}
           f == [b \in S |-> Cardinality(Below(b))]
           n == Cardinality(S)
<1>2. ASSUME NEW b \in S
      PROVE  IsFiniteSet(Below(b)) /\ Cardinality(Below(b)) \in 0..n - 1
  <2>1. Below(b) \in SUBSET S /\ b \in S /\ b \notin Below(b)
    BY DEF StrictOrder
  <2>2. IsFiniteSet(Below(b)) /\ Cardinality(Below(b)) <= n /\ (n = Cardinality(Below(b)) => S = Below(b))
    BY <2>1, FS_Subset
  <2>3. Cardinality(Below(b)) \in Nat
    BY <2>2, FS_CardinalityType
  <2>4. QED
    BY <1>1, <2>1, <2>2, <2>3
<1>3. ASSUME NEW b \in S, NEW c \in S, <<b, c>> \in R
      PROVE  Cardinality(Below(b)) # Cardinality(Below(c))
  <2>1. Below(b) \in SUBSET Below(c)
    BY <1>3 DEF StrictOrder
  <2>2. b \in Below(c) /\ b \notin Below(b)
    BY <1>3 DEF StrictOrder
  <2>3. Cardinality(Below(c)) = Cardinality(Below(b)) => Below(c) = Below(b)
    BY <1>2, <2>1, FS_Subset
  <2>4. QED
    BY <2>2, <2>3
<1>4. f \in Injection(S, 0..n - 1)
  <2>1. f \in [S -> 0..n - 1]
    BY <1>2
  <2>2. \A b, c \in S : f[b] = f[c] => b = c
    <3>1. \A b, c \in S : b # c => <<b, c>> \in R \/ <<c, b>> \in R
      BY DEF StrictOrder
    <3>2. QED
      BY <1>3, <3>1
  <2>3. QED
    BY <2>1, <2>2 DEF Injection, IsInjective
<1>5. IsFiniteSet(0..n - 1) /\ Cardinality(0..n - 1) = n
  <2>1. n \in Nat /\ 0 \in Int /\ n - 1 \in Int
    BY <1>1
  <2> HIDE DEF n
  <2>2. /\ IsFiniteSet(0..n - 1)
        /\ Cardinality(0..n - 1) = IF 0 > n - 1 THEN 0 ELSE (n - 1) - 0 + 1
    BY <2>1, FS_Interval, Zenon
  <2>3. QED
    BY <2>1, <2>2
<1>6. f \in Surjection(S, 0..n - 1)
  <2> HIDE DEF f
  <2> QED
    BY <1>4, <1>5, FS_Injection
<1>7. k \in 0..n - 1
  BY <1>1
<1>8. QED
  BY <1>6, <1>7 DEF Surjection, Rank

(* A finite ordered set that is not empty has a first element.             *)
LEMMA FirstExists ==
  ASSUME NEW S, IsFiniteSet(S), S # {}, NEW R, StrictOrder(R, S)
  PROVE  \E b \in S : \A a \in S : <<a, b>> \notin R
<1>1. Cardinality(S) \in Nat /\ Cardinality(S) # 0
  BY FS_CardinalityType, FS_EmptySet
<1>2. PICK b \in S : Cardinality({a \in S : <<a, b>> \in R}) = 0
  BY <1>1, PositionTaken DEF Rank
<1>3. IsFiniteSet({a \in S : <<a, b>> \in R})
  BY FS_Subset
<1>4. {a \in S : <<a, b>> \in R} = {}
  BY <1>2, <1>3, FS_EmptySet
<1>5. QED
  BY <1>4

-----------------------------------------------------------------------------
(* Induction over the turns of a loop: a set that holds 0, and i whenever  *)
(* it holds i - 1, holds every number up to n.                             *)
LEMMA Climb ==
  ASSUME NEW n \in Nat, NEW P, 0 \in P, \A i \in 1..n : i - 1 \in P => i \in P
  PROVE  0..n \subseteq P
<1> DEFINE Missed == {i \in Nat : i \in 0..n /\ i \notin P}
<1>1. SUFFICES ASSUME Missed # {} PROVE FALSE
  OBVIOUS
<1>2. PICK i \in Missed : \A k \in Missed : i <= k
  <2>1. Missed \in SUBSET Nat
    OBVIOUS
  <2> HIDE DEF Missed
  <2>2. QED
    BY <1>1, <2>1, LeastNatural
<1>3. i \in 0..n /\ i \notin P /\ i # 0 
  BY <1>2
<1>4. i \in 1..n /\ i - 1 \in 0..n /\ i - 1 \in Nat
  BY <1>3
<1>5. i - 1 \notin Missed
  BY <1>2, <1>4
<1>6. QED
  BY <1>3, <1>4, <1>5

(* The bodies of a loop over 1..n that works on values of S, one for each  *)
(* turn, and its runs: the values before the first turn and after each.    *)
Bodies(n, S) == [1..n -> [S -> S]]
Runs(n, S) == [0..n -> S]
IsRun(f, n, base, g) == f[0] = base /\ \A i \in 1..n : f[i] = g[i][f[i - 1]]

(* Every loop has a run.                                                   *)
LEMMA LoopExists ==
  ASSUME NEW n \in Nat, NEW S, NEW base \in S, NEW g \in Bodies(n, S)
  PROVE  \E f \in Runs(n, S) : IsRun(f, n, base, g)
<1> USE DEF Bodies
<1> DEFINE Ok(m, f) == f[0] = base /\ \A i \in 1..m : f[i] = g[i][f[i - 1]]
           P == {m \in 0..n : \E f \in [0..m -> S] : Ok(m, f)}
<1>1. 0 \in P
  <2> DEFINE f == [i \in 0..0 |-> base]
  <2>1. f \in [0..0 -> S] /\ Ok(0, f)
    OBVIOUS
  <2>2. 0 \in 0..n
    OBVIOUS
  <2> HIDE DEF f, Ok
  <2>3. QED
    BY <2>1, <2>2
<1>2. ASSUME NEW m \in 1..n, m - 1 \in P PROVE m \in P
  <2>1. PICK f \in [0..(m - 1) -> S] : Ok(m - 1, f)
    BY <1>2
  <2> DEFINE h == [i \in 0..m |-> IF i = m THEN g[m][f[m - 1]] ELSE f[i]]
  <2>2. m - 1 \in 0..(m - 1) /\ f[m - 1] \in S /\ g[m] \in [S -> S] /\ g[m][f[m - 1]] \in S
    OBVIOUS
  <2>3. h \in [0..m -> S]
    BY <2>2
  <2>4. h[0] = base
    BY <2>1
  <2>5. ASSUME NEW i \in 1..m PROVE h[i] = g[i][h[i - 1]]
    <3>1. CASE i = m
      BY <3>1
    <3>2. CASE i # m
      <4>1. i \in 1..(m - 1) /\ i \in 0..m /\ i - 1 \in 0..m /\ i - 1 # m
        BY <3>2
      <4>2. h[i] = f[i] /\ h[i - 1] = f[i - 1] /\ f[i] = g[i][f[i - 1]]
        BY <2>1, <4>1
      <4>3. QED
        BY <4>2
    <3>3. QED
      BY <3>1, <3>2
  <2> HIDE DEF h
  <2>6. Ok(m, h)
    BY <2>4, <2>5
  <2>7. m \in 0..n
    OBVIOUS
  <2> HIDE DEF Ok
  <2>8. QED
    BY <2>3, <2>6, <2>7
<1>3. n \in P
  <2> HIDE DEF P
  <2>1. 0..n \subseteq P
    BY <1>1, <1>2, Climb
  <2>2. QED
    BY <2>1
<1>4. QED
  BY <1>3 DEF Runs, IsRun
=============================================================================
