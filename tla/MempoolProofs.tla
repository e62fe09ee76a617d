--------------------------- MODULE MempoolProofs ---------------------------
(***************************************************************************)
(* Proofs about the memory pool and the orphans, for any finite set of     *)
(* transactions, any tree of valid blocks, any number of peers and any     *)
(* limit of orphans.                                                       *)
(*                                                                         *)
(* The loops of the pool are functions of their turns, so that what they   *)
(* keep is proved by Climb.  remove() leaves nobody in the pool who        *)
(* depends on a removed transaction (Shrinks); ConnectTip and              *)
(* DisconnectTip are sequences of such removals and of acceptances.        *)
(***************************************************************************)
EXTENDS Mempool, AncestryProofs

(* What the assumptions say of a transaction.                              *)
LEMMA PoolTxFacts ==
  ASSUME NEW t \in Txs
  PROVE  /\ Vin[t] \in Seq(Outpoints) /\ Len(Vin[t]) \in Nat
         /\ \A j \in 1..Len(Vin[t]) : Vin[t][j] \in Ins(t)
         /\ \A o \in Ins(t) : \E j \in 1..Len(Vin[t]) : o = Vin[t][j]
         /\ Ins(t) \subseteq Outpoints /\ \A o \in Ins(t) : o[1] \in Txs
         /\ Outputs[t] \in Nat
<1>1. Vin[t] \in Seq(Outpoints) /\ Outputs[t] \in Nat
  BY MempoolAssumption
<1>2. DOMAIN Vin[t] = 1..Len(Vin[t]) /\ Len(Vin[t]) \in Nat
  BY <1>1
<1>3. \A j \in 1..Len(Vin[t]) : Vin[t][j] \in Outpoints
  BY <1>1
<1> QED
  BY <1>1, <1>2, <1>3 DEF Ins, Range, Outpoints

(* A loose transaction spends something.                                   *)
LEMMA LooseSpends ==
  ASSUME NEW t \in Loose
  PROVE  t \in Txs /\ Ins(t) # {}
<1>1. t \in Txs /\ Vin[t] # <<>>
  BY MempoolAssumption DEF Txs
<1>2. Vin[t] \in Seq(Outpoints) /\ Len(Vin[t]) \in Nat
  BY <1>1, PoolTxFacts
<1>3. Len(Vin[t]) # 0
  BY <1>1, <1>2
<1> QED
  BY <1>1, <1>2, <1>3, PoolTxFacts

(* The outputs of a transaction can be counted.                            *)
LEMMA OutsCount ==
  ASSUME NEW t \in Txs
  PROVE  IsFiniteSet(Outs(t)) /\ Cardinality(Outs(t)) = Outputs[t]
<1> DEFINE n == Outputs[t]
           f == [k \in 1..n |-> <<t, k - 1>>]
<1>1. n \in Nat
  BY PoolTxFacts
<1>2. f \in Bijection(1..n, Outs(t))
  <2>1. f \in [1..n -> Outs(t)]
    BY <1>1 DEF Outs
  <2>2. \A i, j \in 1..n : f[i] = f[j] => i = j
    BY <1>1
  <2>3. \A o \in Outs(t) : \E k \in 1..n : f[k] = o
    <3> SUFFICES ASSUME NEW m \in 0..(n - 1) PROVE \E k \in 1..n : f[k] = <<t, m>>
      BY DEF Outs
    <3>1. m + 1 \in 1..n /\ f[m + 1] = <<t, m>>
      BY <1>1
    <3> QED
      BY <3>1
  <2> HIDE DEF f, n
  <2> QED
    BY <2>1, <2>2, <2>3 DEF Bijection, Injection, Surjection, IsInjective
<1>3. ExistsBijection(1..n, Outs(t))
  BY <1>2 DEF ExistsBijection
<1>4. IsFiniteSet(1..n) /\ Cardinality(1..n) = n
  <2>1. n \in Nat
    BY <1>1
  <2> HIDE DEF n
  <2>2. IsFiniteSet(1..n) /\ Cardinality(1..n) = IF 1 > n THEN 0 ELSE n - 1 + 1
    BY <2>1, FS_Interval
  <2> QED
    BY <2>1, <2>2
<1> HIDE DEF n
<1>5. IsFiniteSet(Outs(t)) /\ Cardinality(Outs(t)) = n
  BY <1>3, <1>4, FS_Bijection
<1> QED
  BY <1>5 DEF n

(* The outputs of a set of loose transactions: finitely many, and a        *)
(* transaction taken out takes its own with it.                            *)
LEMMA OutsOfCount ==
  ASSUME NEW X \in SUBSET Loose
  PROVE  /\ IsFiniteSet(OutsOf(X)) /\ Cardinality(OutsOf(X)) \in Nat
         /\ \A t \in X : Cardinality(OutsOf(X)) = Cardinality(OutsOf(X \ {t})) + Outputs[t]
<1>1. IsFiniteSet(X)
  BY MempoolAssumption, FS_Subset
<1>2. IsFiniteSet({Outs(t) : t \in X})
  <2> DEFINE T == {Outs(t) : t \in X}
             f == [t \in X |-> Outs(t)]
  <2>1. f \in Surjection(X, T)
    BY DEF Surjection
  <2> HIDE DEF f, T
  <2>2. IsFiniteSet(T)
    BY <1>1, <2>1, FS_Surjection
  <2> QED
    BY <2>2 DEF T
<1>3. \A t \in X : t \in Txs
  BY DEF Txs
<1>4. IsFiniteSet(OutsOf(X))
  <2> DEFINE T == {Outs(t) : t \in X}
  <2>1. \A U \in T : IsFiniteSet(U)
    BY <1>3, OutsCount
  <2> HIDE DEF T
  <2>2. IsFiniteSet(UNION T)
    BY <1>2, <2>1, FS_UNION DEF T
  <2> QED
    BY <2>2 DEF OutsOf, T
<1>5. ASSUME NEW t \in X PROVE Cardinality(OutsOf(X)) = Cardinality(OutsOf(X \ {t})) + Outputs[t]
  <2>1. OutsOf(X \ {t}) = OutsOf(X) \ Outs(t)
    BY DEF OutsOf, Outs
  <2>2. OutsOf(X) \cap Outs(t) = Outs(t)
    BY DEF OutsOf
  <2>3. Cardinality(OutsOf(X) \ Outs(t)) = Cardinality(OutsOf(X)) - Cardinality(OutsOf(X) \cap Outs(t))
    BY <1>4, FS_Difference
  <2>4. Cardinality(Outs(t)) = Outputs[t] /\ Outputs[t] \in Nat
    BY <1>3, OutsCount, PoolTxFacts
  <2>5. Cardinality(OutsOf(X)) \in Nat
    BY <1>4, FS_CardinalityType
  <2>6. Cardinality(OutsOf(X \ {t})) = Cardinality(OutsOf(X)) - Outputs[t]
    BY <2>1, <2>2, <2>3, <2>4, Zenon
  <2> QED
    BY <2>4, <2>5, <2>6
<1> QED
  BY <1>4, <1>5, FS_CardinalityType

-----------------------------------------------------------------------------
(* The elements of a sequence, of its tail and of two in a row.            *)
LEMMA RangeFacts ==
  ASSUME NEW X, NEW s \in Seq(X)
  PROVE  /\ Range(s) = {s[i] : i \in 1..Len(s)} /\ Range(s) \subseteq X
         /\ s # <<>> => Head(s) \in X /\ Tail(s) \in Seq(X) /\ Range(s) = {Head(s)} \cup Range(Tail(s))
<1>1. DOMAIN s = 1..Len(s) /\ Len(s) \in Nat
  OBVIOUS
<1>2. ASSUME s # <<>> PROVE Range(s) = {Head(s)} \cup Range(Tail(s))
  <2>1. Len(s) # 0 /\ Head(s) = s[1] /\ Tail(s) \in Seq(X) /\ Len(Tail(s)) = Len(s) - 1
    BY <1>2
  <2>2. DOMAIN Tail(s) = 1..(Len(s) - 1)
    BY <2>1
  <2>3. \A i \in 1..(Len(s) - 1) : Tail(s)[i] = s[i + 1]
    BY <2>1
  <2>4. \A i \in 1..Len(s) : i = 1 \/ (i - 1 \in 1..(Len(s) - 1) /\ s[i] = Tail(s)[i - 1])
    BY <1>1, <2>1, <2>3
  <2>5. Range(s) \subseteq {Head(s)} \cup Range(Tail(s))
    <3> SUFFICES ASSUME NEW i \in 1..Len(s) PROVE s[i] \in {Head(s)} \cup Range(Tail(s))
      BY <1>1 DEF Range
    <3> QED
      BY <2>1, <2>2, <2>4 DEF Range
  <2>6. \A i \in 1..(Len(s) - 1) : i + 1 \in 1..Len(s)
    BY <1>1
  <2>7. 1 \in 1..Len(s)
    BY <1>1, <2>1
  <2>8. {Head(s)} \cup Range(Tail(s)) \subseteq Range(s)
    BY <1>1, <2>1, <2>2, <2>3, <2>6, <2>7 DEF Range
  <2> QED
    BY <2>5, <2>8
<1>3. \A i \in 1..Len(s) : s[i] \in X
  OBVIOUS
<1> QED
  BY <1>1, <1>2, <1>3 DEF Range

(* Two sequences in a row have the elements of both.                       *)
LEMMA RangeConcat ==
  ASSUME NEW X, NEW s \in Seq(X), NEW r \in Seq(X)
  PROVE  s \o r \in Seq(X) /\ Len(s \o r) = Len(s) + Len(r) /\ Range(s \o r) = Range(s) \cup Range(r)
<1>1. s \o r \in Seq(X) /\ Len(s \o r) = Len(s) + Len(r) /\ Len(s) \in Nat /\ Len(r) \in Nat
  OBVIOUS
<1>2. /\ DOMAIN s = 1..Len(s) /\ DOMAIN r = 1..Len(r) /\ DOMAIN (s \o r) = 1..(Len(s) + Len(r))
  BY <1>1
<1>3. \A i \in 1..Len(s) : i \in 1..(Len(s) + Len(r)) /\ (s \o r)[i] = s[i]
  BY <1>1
<1>4. \A i \in 1..Len(r) : i + Len(s) \in 1..(Len(s) + Len(r)) /\ (s \o r)[i + Len(s)] = r[i]
  BY <1>1
<1>5. \A i \in 1..(Len(s) + Len(r)) :
        (i \in 1..Len(s)) \/ (i - Len(s) \in 1..Len(r) /\ (s \o r)[i] = r[i - Len(s)])
  BY <1>1
<1>6. Range(s \o r) \subseteq Range(s) \cup Range(r)
  BY <1>2, <1>3, <1>5 DEF Range
<1>7. Range(s) \cup Range(r) \subseteq Range(s \o r)
  BY <1>2, <1>3, <1>4 DEF Range
<1> QED
  BY <1>1, <1>6, <1>7

-----------------------------------------------------------------------------
(* The pool's maps: what mapNextTx may be, ...                             *)
Nexts    == UNION {[D -> Loose] : D \in SUBSET Outpoints}
PoolType == [txs : SUBSET Loose, next : Nexts, doubled : BOOLEAN]

(* ... that it points to transactions of the pool which spend the output,  *)
(* and that every input is entered unless there are double spends.         *)
PointsIntoPool(p) == \A o \in DOMAIN p.next : p.next[o] \in p.txs /\ o \in Ins(p.next[o])
AllEntered(p) == \A t \in p.txs : \A o \in Ins(t) : o \in DOMAIN p.next /\ p.next[o] = t
Linked(p) == p \in PoolType /\ PointsIntoPool(p) /\ (~p.doubled => AllEntered(p))

(* Nexts without its UNION.                                                *)
LEMMA NextsIff ==
  ASSUME NEW f
  PROVE  f \in Nexts <=> f \in [DOMAIN f -> Loose] /\ DOMAIN f \subseteq Outpoints
BY DEF Nexts

(* Erasing a transaction keeps the maps in order.                          *)
LEMMA EraseLinked ==
  ASSUME NEW p, Linked(p), NEW t \in p.txs
  PROVE  /\ Linked(EraseTx(p, t))
         /\ EraseTx(p, t).txs = p.txs \ {t} /\ EraseTx(p, t).doubled = p.doubled
<1> DEFINE q == EraseTx(p, t)
<1>1. p \in PoolType
  BY DEF Linked
<1>2. q = [txs |-> p.txs \ {t}, next |-> Erase(p.next, Ins(t)), doubled |-> p.doubled]
  BY DEF EraseTx
<1>3. DOMAIN q.next = DOMAIN p.next \ Ins(t) /\ \A o \in DOMAIN q.next : q.next[o] = p.next[o]
  BY <1>2 DEF Erase
<1>4. q.next \in Nexts
  <2>1. p.next \in [DOMAIN p.next -> Loose] /\ DOMAIN p.next \subseteq Outpoints
    BY <1>1, NextsIff DEF PoolType
  <2>2. q.next = [o \in DOMAIN p.next \ Ins(t) |-> p.next[o]]
    BY <1>2 DEF Erase
  <2>3. q.next \in [DOMAIN p.next \ Ins(t) -> Loose]
    BY <2>1, <2>2
  <2> QED
    BY <1>3, <2>1, <2>3, NextsIff
<1>5. q \in PoolType
  BY <1>1, <1>2, <1>4 DEF PoolType
<1> HIDE DEF q
<1>6. q.txs = p.txs \ {t} /\ q.doubled = p.doubled
  BY <1>2
<1>7. PointsIntoPool(q)
  BY <1>3, <1>6 DEF PointsIntoPool, Linked
<1>8. ~q.doubled => AllEntered(q)
  BY <1>3, <1>6 DEF AllEntered, Linked
<1> QED
  BY <1>5, <1>6, <1>7, <1>8 DEF Linked, q

(* Entering a transaction keeps the maps in order too: the inputs it       *)
(* overwrites are what doubled records.                                    *)
LEMMA AddLinked ==
  ASSUME NEW p, Linked(p), NEW t \in Loose
  PROVE  /\ Linked(AddUnchecked(p, t))
         /\ AddUnchecked(p, t).txs = p.txs \cup {t}
         /\ ~AddUnchecked(p, t).doubled => ~p.doubled
<1> DEFINE q == AddUnchecked(p, t)
<1>1. p \in PoolType /\ t \in Txs
  BY DEF Linked, Txs
<1>2. /\ q.txs = p.txs \cup {t}
      /\ q.next = [o \in DOMAIN p.next \cup Ins(t) |-> IF o \in Ins(t) THEN t ELSE p.next[o]]
      /\ q.doubled = (p.doubled \/ Ins(t) \cap DOMAIN p.next # {})
      /\ q = [txs |-> q.txs, next |-> q.next, doubled |-> q.doubled]
  BY DEF AddUnchecked
<1> HIDE DEF q
<1>3. DOMAIN q.next = DOMAIN p.next \cup Ins(t) 
  BY <1>2
<1>4. q.next \in Nexts
  <2>1. p.next \in [DOMAIN p.next -> Loose] /\ DOMAIN p.next \subseteq Outpoints /\ Ins(t) \subseteq Outpoints
    BY <1>1, NextsIff, PoolTxFacts DEF PoolType
  <2>2. q.next \in [DOMAIN p.next \cup Ins(t) -> Loose]
    BY <1>2, <2>1
  <2> QED
    BY <1>3, <2>1, <2>2, NextsIff
<1>5. q \in PoolType
  <2>1. q.txs \in SUBSET Loose /\ q.doubled \in BOOLEAN
    BY <1>1, <1>2 DEF PoolType
  <2> QED
    BY <1>2, <1>4, <2>1 DEF PoolType
<1>6. \A o \in DOMAIN q.next : q.next[o] = IF o \in Ins(t) THEN t ELSE p.next[o]
  BY <1>2, <1>3
<1>7. PointsIntoPool(q)
  BY <1>2, <1>3, <1>6 DEF PointsIntoPool, Linked
<1>8. ~q.doubled => ~p.doubled /\ Ins(t) \cap DOMAIN p.next = {}
  BY <1>1, <1>2 DEF PoolType
<1>9. ~q.doubled => AllEntered(q)
  BY <1>2, <1>3, <1>6, <1>8 DEF AllEntered, Linked
<1> QED
  BY <1>2, <1>5, <1>7, <1>8, <1>9 DEF Linked, q

-----------------------------------------------------------------------------
(* The turns of remove(), whatever set S of states they stay in.           *)
LEMMA RemoveLoopIs ==
  ASSUME NEW p, NEW queue, NEW recursive, NEW S, RemoveTurns(p, queue) \in Nat,
         [pool |-> p, queue |-> queue] \in S, \A s \in S : RemoveTurn(s, recursive) \in S
  PROVE  /\ RemoveLoop(p, queue, recursive) \in [0..RemoveTurns(p, queue) -> S]
         /\ RemoveLoop(p, queue, recursive)[0] = [pool |-> p, queue |-> queue]
         /\ \A k \in 1..RemoveTurns(p, queue) :
              RemoveLoop(p, queue, recursive)[k] = RemoveTurn(RemoveLoop(p, queue, recursive)[k - 1], recursive)
<1> DEFINE n == RemoveTurns(p, queue)
           base == [pool |-> p, queue |-> queue]
           g == [k \in 1..n |-> [s \in S |-> RemoveTurn(s, recursive)]]
           r == RemoveLoop(p, queue, recursive)
           Def(f) == f = [k \in 0..n |-> IF k = 0 THEN base ELSE RemoveTurn(f[k - 1], recursive)]
<1>1. n \in Nat /\ base \in S
  OBVIOUS
<1>2. r = CHOOSE f : Def(f)
  BY DEF RemoveLoop
<1>3. g \in Bodies(n, S)
  BY DEF Bodies
<1>4. \A f : \A k \in 1..n : f[k - 1] \in S => g[k][f[k - 1]] = RemoveTurn(f[k - 1], recursive)
  OBVIOUS
<1> HIDE DEF g, n, r, base
<1>5. PICK f \in Runs(n, S) : IsRun(f, n, base, g)
  BY <1>1, <1>3, LoopExists
<1>6. Def(f)
  <2>1. \A k \in 0..n : f[k] = IF k = 0 THEN base ELSE RemoveTurn(f[k - 1], recursive)
    BY <1>1, <1>4, <1>5 DEF Runs, IsRun
  <2> QED
    BY <1>5, <2>1 DEF Runs
<1>7. Def(r)
  <2> HIDE DEF Def
  <2> QED
    BY <1>2, <1>6
<1>8. r[0] = base /\ \A k \in 1..n : r[k] = RemoveTurn(r[k - 1], recursive)
  <2>1. \A k \in 0..n : r[k] = IF k = 0 THEN base ELSE RemoveTurn(r[k - 1], recursive)
    BY <1>7
  <2> QED
    BY <1>1, <2>1
<1> DEFINE P == {k \in 0..n : r[k] \in S}
<1>9. 0 \in P /\ \A k \in 1..n : k - 1 \in P => k \in P
  BY <1>1, <1>8
<1>10. 0..n \subseteq P
  <2> HIDE DEF P
  <2> QED
    BY <1>1, <1>9, Climb
<1>11. r \in [0..n -> S]
  BY <1>7, <1>10
<1> QED
  BY <1>8, <1>11 DEF r, n, base

(* The spenders of t that remove() queues: without double spends, all that *)
(* depend on t.                                                            *)
Depends(u, t) == Ins(u) \cap Outs(t) # {}

(* The spenders are transactions, one for each output, and no dependant is *)
(* missed.                                                                 *)
LEMMA SpendersFacts ==
  ASSUME NEW p, Linked(p), NEW t \in Txs
  PROVE  /\ Spenders(p, t) \in Seq(Txs) /\ Len(Spenders(p, t)) = Outputs[t]
         /\ ~p.doubled => \A u \in p.txs : Depends(u, t) => u \in Range(Spenders(p, t))
<1>1. Outputs[t] \in Nat
  BY PoolTxFacts
<1>2. p.next \in [DOMAIN p.next -> Loose] /\ p \in PoolType
  BY NextsIff DEF Linked, PoolType
<1>3. \A n \in 1..Outputs[t] :
        (IF <<t, n - 1>> \in DOMAIN p.next THEN p.next[<<t, n - 1>>] ELSE t) \in Txs
  BY <1>2 DEF Txs
<1>4. Spenders(p, t) \in [1..Outputs[t] -> Txs]
  BY <1>3 DEF Spenders
<1>5. Spenders(p, t) \in Seq(Txs) /\ Len(Spenders(p, t)) = Outputs[t]
  BY <1>1, <1>4
<1>6. ASSUME ~p.doubled, NEW u \in p.txs, Depends(u, t) PROVE u \in Range(Spenders(p, t))
  <2>1. PICK n \in 0..(Outputs[t] - 1) : <<t, n>> \in Ins(u)
    BY <1>6 DEF Depends, Outs
  <2>2. <<t, n>> \in DOMAIN p.next /\ p.next[<<t, n>>] = u
    BY <1>6, <2>1 DEF Linked, AllEntered
  <2>3. n + 1 \in 1..Outputs[t] /\ (n + 1) - 1 = n
    BY <1>1
  <2>4. Spenders(p, t)[n + 1] = u
    BY <2>2, <2>3 DEF Spenders
  <2> QED
    BY <1>4, <2>3, <2>4 DEF Range
<1> QED
  BY <1>5, <1>6

(* A turn keeps the types and takes one of what is left to look at.        *)
RemoveStates == {s \in [pool : PoolType, queue : Seq(Txs)] : Linked(s.pool)}
ToLookAt(s) == Len(s.queue) + Cardinality(OutsOf(s.pool.txs))

(* Every turn of remove() on a queue that is not empty lowers that         *)
(* measure: the transaction taken off the queue is counted there, or its   *)
(* outputs are.                                                            *)
LEMMA RemoveTurnFacts ==
  ASSUME NEW s \in RemoveStates, NEW recursive \in BOOLEAN
  PROVE  /\ RemoveTurn(s, recursive) \in RemoveStates /\ ToLookAt(s) \in Nat
         /\ s.queue = <<>> => RemoveTurn(s, recursive) = s
         /\ s.queue # <<>> => ToLookAt(RemoveTurn(s, recursive)) <= ToLookAt(s) - 1
<1> DEFINE t == Head(s.queue)
           r == RemoveTurn(s, recursive)
           more == IF recursive THEN Spenders(s.pool, t) ELSE <<>>
<1>1. /\ s \in [pool : PoolType, queue : Seq(Txs)] /\ Linked(s.pool)
      /\ s.queue \in Seq(Txs) /\ Len(s.queue) \in Nat /\ s.pool.txs \in SUBSET Loose
  BY DEF RemoveStates, PoolType
<1>2. ToLookAt(s) \in Nat /\ Cardinality(OutsOf(s.pool.txs)) \in Nat
  BY <1>1, OutsOfCount DEF ToLookAt
<1>3. CASE s.queue = <<>>
  BY <1>2, <1>3 DEF RemoveTurn
<1>4. ASSUME s.queue # <<>>
      PROVE  t \in Txs /\ Tail(s.queue) \in Seq(Txs) /\ Len(Tail(s.queue)) = Len(s.queue) - 1
  BY <1>1, <1>4, RangeFacts
<1>5. CASE s.queue # <<>> /\ t \notin s.pool.txs
  <2>1. r = [s EXCEPT !.queue = Tail(s.queue)]
    BY <1>5 DEF RemoveTurn
  <2>2. r \in RemoveStates /\ r.queue = Tail(s.queue) /\ r.pool = s.pool
    BY <1>1, <1>4, <1>5, <2>1 DEF RemoveStates
  <2>3. ToLookAt(r) = ToLookAt(s) - 1
    BY <1>1, <1>2, <1>4, <1>5, <2>2 DEF ToLookAt
  <2> QED
    BY <1>2, <1>5, <2>2, <2>3
<1>6. CASE s.queue # <<>> /\ t \in s.pool.txs
  <2>1. r = [pool |-> EraseTx(s.pool, t), queue |-> Tail(s.queue) \o more]
    BY <1>6 DEF RemoveTurn
  <2>2. Linked(EraseTx(s.pool, t)) /\ EraseTx(s.pool, t).txs = s.pool.txs \ {t}
    BY <1>1, <1>6, EraseLinked
  <2>3. more \in Seq(Txs) /\ Len(more) \in Nat /\ Len(more) <= Outputs[t]
    BY <1>1, <1>4, <1>6, SpendersFacts, PoolTxFacts
  <2> HIDE DEF more
  <2>4. Tail(s.queue) \o more \in Seq(Txs) /\ Len(Tail(s.queue) \o more) = Len(s.queue) - 1 + Len(more)
    BY <1>4, <1>6, <2>3, RangeConcat
  <2>5. r \in RemoveStates
    BY <2>1, <2>2, <2>4 DEF RemoveStates, Linked
  <2>6. Cardinality(OutsOf(s.pool.txs)) = Cardinality(OutsOf(s.pool.txs \ {t})) + Outputs[t]
    BY <1>1, <1>6, OutsOfCount
  <2>7. Cardinality(OutsOf(s.pool.txs \ {t})) \in Nat /\ Outputs[t] \in Nat
    BY <1>1, <1>4, <1>6, OutsOfCount, PoolTxFacts
  <2>8. ToLookAt(r) = Len(s.queue) - 1 + Len(more) + Cardinality(OutsOf(s.pool.txs \ {t}))
    <3>1. r.queue = Tail(s.queue) \o more /\ r.pool.txs = s.pool.txs \ {t}
      BY <2>1, <2>2
    <3> HIDE DEF r, t
    <3> QED
      BY <2>4, <3>1 DEF ToLookAt
  <2>9. ToLookAt(s) = Len(s.queue) + Cardinality(OutsOf(s.pool.txs \ {t})) + Outputs[t]
    BY <1>1, <2>6, <2>7 DEF ToLookAt
  <2> HIDE DEF r, t
  <2>10. ToLookAt(r) <= ToLookAt(s) - 1
    BY <1>1, <2>3, <2>7, <2>8, <2>9
  <2> QED
    BY <1>2, <1>6, <2>5, <2>10 DEF r
<1> QED
  BY <1>3, <1>5, <1>6

(* After so many turns the queue is empty.                                 *)
LEMMA RemoveEnds ==
  ASSUME NEW p, Linked(p), NEW queue \in Seq(Txs), NEW recursive \in BOOLEAN
  PROVE  /\ RemoveTurns(p, queue) \in Nat
         /\ RemoveLoop(p, queue, recursive)[RemoveTurns(p, queue)].queue = <<>>
<1> DEFINE n == RemoveTurns(p, queue)
           base == [pool |-> p, queue |-> queue]
           r == RemoveLoop(p, queue, recursive)
<1>1. base \in RemoveStates /\ ToLookAt(base) = n
  BY DEF RemoveStates, Linked, ToLookAt, RemoveTurns, OutsOf
<1>2. n \in Nat
  BY <1>1, RemoveTurnFacts
<1>3. /\ r \in [0..n -> RemoveStates] /\ r[0] = base
      /\ \A k \in 1..n : r[k] = RemoveTurn(r[k - 1], recursive)
  BY <1>1, <1>2, RemoveTurnFacts, RemoveLoopIs
<1> HIDE DEF n, r, base
<1> DEFINE P == {k \in 0..n : r[k].queue = <<>> \/ ToLookAt(r[k]) <= n - k}
<1>4. 0 \in P
  BY <1>1, <1>2, <1>3
<1>5. ASSUME NEW k \in 1..n, k - 1 \in P PROVE k \in P
  <2>1. k - 1 \in 0..n /\ r[k - 1] \in RemoveStates /\ k \in 0..n
    BY <1>2, <1>3
  <2>2. r[k] = RemoveTurn(r[k - 1], recursive) /\ r[k] \in RemoveStates
    BY <1>3, <2>1
  <2>3. ToLookAt(r[k]) \in Nat /\ ToLookAt(r[k - 1]) \in Nat
    BY <2>1, <2>2, RemoveTurnFacts
  <2>4. CASE r[k - 1].queue = <<>>
    BY <2>1, <2>2, <2>4, RemoveTurnFacts
  <2>5. CASE r[k - 1].queue # <<>>
    <3>1. ToLookAt(r[k]) <= ToLookAt(r[k - 1]) - 1
      BY <2>1, <2>2, <2>5, RemoveTurnFacts
    <3>2. ToLookAt(r[k - 1]) <= n - (k - 1)
      BY <1>5, <2>5
    <3> QED
      BY <1>2, <2>1, <2>3, <3>1, <3>2
  <2> QED
    BY <2>4, <2>5
<1>6. n \in P
  <2> HIDE DEF P
  <2>1. 0..n \subseteq P
    BY <1>2, <1>4, <1>5, Climb
  <2> QED
    BY <1>2, <2>1
<1>7. r[n].queue = <<>>
  <2>1. r[n] \in RemoveStates /\ r[n].queue \in Seq(Txs) /\ Len(r[n].queue) \in Nat
    BY <1>2, <1>3 DEF RemoveStates
  <2>2. Cardinality(OutsOf(r[n].pool.txs)) \in Nat
    <3>1. r[n].pool.txs \in SUBSET Loose
      BY <2>1 DEF RemoveStates, PoolType
    <3> QED
      BY <3>1, OutsOfCount
  <2>3. CASE ToLookAt(r[n]) <= n - n
    BY <1>2, <2>1, <2>2, <2>3 DEF ToLookAt
  <2> QED
    BY <1>6, <2>3
<1> QED
  BY <1>2, <1>7 DEF n, r

-----------------------------------------------------------------------------
(* q is what is left of p when transactions have been removed with all     *)
(* that depends on them.                                                   *)
Shrinks(p, q) ==
  /\ Linked(q) /\ q.txs \subseteq p.txs /\ q.doubled = p.doubled
  /\ ~p.doubled => \A u \in q.txs : \A t \in p.txs \ q.txs : ~Depends(u, t)

(* Removing nothing is such a removal, ...                                 *)
LEMMA ShrinksSame ==
  ASSUME NEW p, Linked(p)
  PROVE  Shrinks(p, p)
BY DEF Shrinks

(* ... and so are two in a row.                                            *)
LEMMA ShrinksTwice ==
  ASSUME NEW p, NEW q, NEW r, Shrinks(p, q), Shrinks(q, r)
  PROVE  Shrinks(p, r)
BY DEF Shrinks

(* remove() in the middle: who depends on a transaction that is gone is    *)
(* queued.                                                                 *)
RemovalOf(p, w) ==
  {s \in RemoveStates :
     /\ s.pool.txs \subseteq p.txs /\ s.pool.doubled = p.doubled
     /\ w \in s.pool.txs => w \in Range(s.queue)
     /\ ~p.doubled => \A u \in s.pool.txs : \A t \in (p.txs \cup {w}) \ s.pool.txs :
                        Depends(u, t) => u \in Range(s.queue)}

(* A turn of a recursive remove() keeps it so.                             *)
LEMMA RemovalTurn ==
  ASSUME NEW p, NEW w, NEW s \in RemovalOf(p, w)
  PROVE  RemoveTurn(s, TRUE) \in RemovalOf(p, w)
<1> DEFINE t == Head(s.queue)
           r == RemoveTurn(s, TRUE)
           more == Spenders(s.pool, t)
<1>1. /\ s \in RemoveStates /\ s \in [pool : PoolType, queue : Seq(Txs)] /\ Linked(s.pool)
      /\ s.queue \in Seq(Txs) /\ s.pool.txs \in SUBSET Loose
  BY DEF RemovalOf, RemoveStates, PoolType
<1>2. r \in RemoveStates
  BY <1>1, RemoveTurnFacts
<1>3. CASE s.queue = <<>>
  BY <1>3 DEF RemoveTurn
<1>4. ASSUME s.queue # <<>>
      PROVE  t \in Txs /\ Tail(s.queue) \in Seq(Txs) /\ Range(s.queue) = {t} \cup Range(Tail(s.queue))
  BY <1>1, <1>4, RangeFacts
<1>5. CASE s.queue # <<>> /\ t \notin s.pool.txs
  <2>1. r = [s EXCEPT !.queue = Tail(s.queue)]
    BY <1>5 DEF RemoveTurn
  <2>2. r.queue = Tail(s.queue) /\ r.pool = s.pool
    BY <1>1, <2>1
  <2> HIDE DEF r, t
  <2> QED
    BY <1>2, <1>4, <1>5, <2>2 DEF RemovalOf, r
<1>6. CASE s.queue # <<>> /\ t \in s.pool.txs
  <2>1. r = [pool |-> EraseTx(s.pool, t), queue |-> Tail(s.queue) \o more]
    BY <1>6 DEF RemoveTurn
  <2>3. /\ more \in Seq(Txs)
        /\ ~s.pool.doubled => \A u \in s.pool.txs : Depends(u, t) => u \in Range(more)
    BY <1>1, <1>4, <1>6, SpendersFacts
  <2> HIDE DEF r, t, more
  <2>2. r.pool.txs = s.pool.txs \ {t} /\ r.pool.doubled = s.pool.doubled
    BY <1>1, <1>6, <2>1, EraseLinked
  <2>4. Range(r.queue) = Range(Tail(s.queue)) \cup Range(more)
    <3>1. r.queue = Tail(s.queue) \o more
      BY <2>1
    <3>2. Range(Tail(s.queue) \o more) = Range(Tail(s.queue)) \cup Range(more)
      <4>1. Tail(s.queue) \in Seq(Txs)
        BY <1>4, <1>6
      <4> DEFINE rest == Tail(s.queue)
      <4> HIDE DEF rest
      <4>2. rest \in Seq(Txs)
        BY <4>1 DEF rest
      <4>3. Range(rest \o more) = Range(rest) \cup Range(more)
        BY <2>3, <4>2, RangeConcat
      <4> QED
        BY <4>3 DEF rest
    <3> QED
      BY <3>1, <3>2, Zenon
  <2>5. \A u \in r.pool.txs : u \in s.pool.txs /\ (u \in Range(s.queue) => u \in Range(r.queue))
    BY <1>4, <1>6, <2>2, <2>4
  <2>6. s.pool.doubled = p.doubled /\ s.pool.txs \subseteq p.txs /\ (w \in s.pool.txs => w \in Range(s.queue))
    BY DEF RemovalOf
  <2>7. ASSUME ~p.doubled, NEW u \in r.pool.txs, NEW x \in (p.txs \cup {w}) \ r.pool.txs, Depends(u, x)
        PROVE  u \in Range(r.queue)
    <3>1. CASE x = t
      BY <2>3, <2>4, <2>5, <2>6, <2>7, <3>1
    <3>2. CASE x # t
      <4>1. x \in (p.txs \cup {w}) \ s.pool.txs
        BY <2>2, <2>7, <3>2
      <4> QED
        BY <2>5, <2>7, <4>1 DEF RemovalOf
    <3> QED
      BY <3>1, <3>2
  <2> QED
    BY <1>2, <2>2, <2>5, <2>6, <2>7 DEF RemovalOf, r
<1> QED
  BY <1>3, <1>5, <1>6

(* remove() with descendants takes out the transaction, and all that       *)
(* depends on it even if it was not in the pool.                           *)
LEMMA RemoveRecursive ==
  ASSUME NEW p, Linked(p), NEW t \in Txs
  PROVE  /\ Shrinks(p, RemoveTx(p, t, TRUE))
         /\ t \notin RemoveTx(p, t, TRUE).txs
         /\ ~p.doubled => \A u \in RemoveTx(p, t, TRUE).txs : ~Depends(u, t)
<1> DEFINE queue == RemoveQueue(p, t, TRUE)
           base == [pool |-> p, queue |-> queue]
           n == RemoveTurns(p, queue)
           r == RemoveLoop(p, queue, TRUE)
           S == RemovalOf(p, t)
<1>1. /\ queue \in Seq(Txs) /\ t \in Range(queue)
      /\ ~p.doubled /\ t \notin p.txs => \A u \in p.txs : Depends(u, t) => u \in Range(queue)
  <2>1. <<t>> \in Seq(Txs) /\ Range(<<t>>) = {t}
    BY DEF Range
  <2>2. CASE t \in p.txs
    <3>1. queue = <<t>>
      BY <2>2 DEF RemoveQueue
    <3> QED
      BY <2>1, <2>2, <3>1
  <2>3. CASE t \notin p.txs
    <3>1. queue = <<t>> \o Spenders(p, t)
      BY <2>3 DEF RemoveQueue
    <3> HIDE DEF queue
    <3>2. queue \in Seq(Txs) /\ Range(queue) = {t} \cup Range(Spenders(p, t))
      <4>1. Spenders(p, t) \in Seq(Txs)
        BY SpendersFacts
      <4>2. <<t>> \o Spenders(p, t) \in Seq(Txs) /\ Range(<<t>> \o Spenders(p, t)) = Range(<<t>>) \cup Range(Spenders(p, t))
        <5> DEFINE a == <<t>>
                   b == Spenders(p, t)
        <5>1. a \in Seq(Txs) /\ b \in Seq(Txs)
          BY <2>1, <4>1
        <5> HIDE DEF a, b
        <5>2. a \o b \in Seq(Txs) /\ Range(a \o b) = Range(a) \cup Range(b)
          BY <5>1, RangeConcat
        <5> QED
          BY <5>2 DEF a, b
      <4> QED
        BY <2>1, <3>1, <4>2, Zenon
    <3> QED
      BY <3>2, SpendersFacts
  <2> QED
    BY <2>2, <2>3
<1> HIDE DEF queue
<1>2. base \in S
  <2>1. base \in RemoveStates
    BY <1>1 DEF RemoveStates, Linked
  <2> QED
    BY <1>1, <2>1 DEF RemovalOf
<1>3. n \in Nat /\ r[n].queue = <<>>
  BY <1>1, RemoveEnds
<1>4. r \in [0..n -> S]
  <2> HIDE DEF S
  <2>1. \A s \in S : RemoveTurn(s, TRUE) \in S
    BY RemovalTurn DEF S
  <2> QED
    BY <1>2, <1>3, <2>1, RemoveLoopIs
<1>6. r[n].pool = RemoveTx(p, t, TRUE)
  BY DEF RemoveTx, queue
<1> HIDE DEF r, n, S
<1>5. r[n] \in S
  BY <1>3, <1>4
<1>7. Range(r[n].queue) = {}
  BY <1>3 DEF Range
<1> DEFINE q == r[n].pool
<1>8. Linked(q) /\ q.txs \subseteq p.txs /\ q.doubled = p.doubled /\ t \notin q.txs
  BY <1>5, <1>7 DEF S, RemovalOf, RemoveStates
<1>9. ~p.doubled => \A u \in q.txs : \A x \in (p.txs \cup {t}) \ q.txs : ~Depends(u, x)
  BY <1>5, <1>7 DEF S, RemovalOf
<1>10. Shrinks(p, q)
  BY <1>8, <1>9 DEF Shrinks
<1> QED
  BY <1>6, <1>8, <1>9, <1>10

(* remove() without them takes out the transaction alone.                  *)
LEMMA RemoveAlone ==
  ASSUME NEW p, Linked(p), NEW t \in Txs
  PROVE  RemoveTx(p, t, FALSE) = IF t \in p.txs THEN EraseTx(p, t) ELSE p
<1> DEFINE queue == RemoveQueue(p, t, FALSE)
           base == [pool |-> p, queue |-> queue]
           n == RemoveTurns(p, queue)
           r == RemoveLoop(p, queue, FALSE)
           q == IF t \in p.txs THEN EraseTx(p, t) ELSE p
           S == {base, [pool |-> q, queue |-> <<>>]}
<1>1. queue = <<t>> /\ queue \in Seq(Txs)
  BY DEF RemoveQueue
<1>2. n \in Nat /\ r[n].queue = <<>>
  BY <1>1, RemoveEnds
<1>3. \A s \in S : RemoveTurn(s, FALSE) \in S
  <2>1. RemoveTurn(base, FALSE) = [pool |-> q, queue |-> <<>>]
    <3>1. base = [pool |-> p, queue |-> <<t>>]
      BY <1>1
    <3> HIDE DEF base
    <3>2. base.queue # <<>> /\ Head(base.queue) = t /\ Tail(base.queue) = <<>> /\ base.pool = p
      BY <3>1
    <3>3. Tail(base.queue) \o <<>> = <<>>
      BY <3>2
    <3>4. CASE t \in p.txs
      BY <3>2, <3>3, <3>4 DEF RemoveTurn
    <3>5. CASE t \notin p.txs
      BY <3>1, <3>2, <3>5 DEF RemoveTurn
    <3> QED
      BY <3>4, <3>5
  <2>2. RemoveTurn([pool |-> q, queue |-> <<>>], FALSE) = [pool |-> q, queue |-> <<>>]
    BY DEF RemoveTurn
  <2> HIDE DEF base, q
  <2> QED
    BY <2>1, <2>2
<1>4. r \in [0..n -> S]
  <2> HIDE DEF S
  <2>1. base \in S
    BY DEF S
  <2> QED
    BY <1>2, <1>3, <2>1, RemoveLoopIs
<1>5. RemoveTx(p, t, FALSE) = r[n].pool
  BY DEF RemoveTx
<1>7. base.queue # <<>>
  <2> HIDE DEF queue
  <2> QED
    BY <1>1
<1> HIDE DEF r, n, q, base, S
<1>6. r[n] \in S
  BY <1>2, <1>4
<1>8. r[n].pool = q
  BY <1>2, <1>6, <1>7 DEF S
<1> QED
  BY <1>5, <1>8 DEF q

-----------------------------------------------------------------------------
(* The other loops, turn by turn, in whatever set of pools they stay:      *)
(* removeConflicts().                                                      *)
LEMMA ConflictsLoopIs ==
  ASSUME NEW p, NEW t, NEW S, Len(Vin[t]) \in Nat,
         p \in S, \A i \in 1..Len(Vin[t]) : \A q \in S : RemoveSpender(q, Vin[t][i], t) \in S
  PROVE  /\ ConflictsLoop(p, t) \in [0..Len(Vin[t]) -> S] /\ ConflictsLoop(p, t)[0] = p
         /\ \A i \in 1..Len(Vin[t]) : ConflictsLoop(p, t)[i] = RemoveSpender(ConflictsLoop(p, t)[i - 1], Vin[t][i], t)
<1> DEFINE n == Len(Vin[t])
           Body(q, i) == RemoveSpender(q, Vin[t][i], t)
           g == [i \in 1..n |-> [q \in S |-> Body(q, i)]]
           r == ConflictsLoop(p, t)
           Def(f) == f = [i \in 0..n |-> IF i = 0 THEN p ELSE Body(f[i - 1], i)]
<1>1. r = CHOOSE f : Def(f)
  BY DEF ConflictsLoop
<1>2. n \in Nat /\ \A i \in 1..n : \A q \in S : Body(q, i) \in S
  OBVIOUS
<1> HIDE DEF Body, n, r
<1>3. g \in Bodies(n, S)
  BY <1>2 DEF Bodies
<1>4. \A f : \A i \in 1..n : f[i - 1] \in S => g[i][f[i - 1]] = Body(f[i - 1], i)
  OBVIOUS
<1> HIDE DEF g
<1>5. PICK f \in Runs(n, S) : IsRun(f, n, p, g)
  BY <1>2, <1>3, LoopExists
<1>6. Def(f)
  <2>1. f[0] = p /\ \A i \in 1..n : f[i] = g[i][f[i - 1]] /\ f[i - 1] \in S
    BY <1>2, <1>5 DEF Runs, IsRun
  <2>2. \A i \in 0..n : f[i] = IF i = 0 THEN p ELSE Body(f[i - 1], i)
    BY <1>2, <1>4, <2>1
  <2> QED
    BY <1>5, <2>2 DEF Runs
<1>7. Def(r)
  <2> HIDE DEF Def
  <2> QED
    BY <1>1, <1>6
<1>8. r[0] = p /\ \A i \in 1..n : r[i] = Body(r[i - 1], i)
  <2>1. \A i \in 0..n : r[i] = IF i = 0 THEN p ELSE Body(r[i - 1], i)
    BY <1>7
  <2> QED
    BY <1>2, <2>1
<1> DEFINE P == {i \in 0..n : r[i] \in S}
<1>9. 0 \in P
  BY <1>2, <1>8
<1>10. ASSUME NEW i \in 1..n, i - 1 \in P PROVE i \in P
  <2>1. r[i - 1] \in S /\ i \in 0..n
    BY <1>2, <1>10
  <2> QED
    BY <1>2, <1>8, <2>1
<1>11. 0..n \subseteq P
  <2> HIDE DEF P
  <2> QED
    BY <1>2, <1>9, <1>10, Climb
<1>12. r \in [0..n -> S]
  BY <1>7, <1>11
<1> QED
  BY <1>8, <1>12 DEF r, n, Body

(* removeForBlock().                                                       *)
LEMMA RemoveForBlockIs ==
  ASSUME NEW p, NEW vtx, NEW S, Len(vtx) \in Nat,
         p \in S, \A i \in 1..Len(vtx) : \A q \in S : RemoveForTx(q, vtx[i]) \in S
  PROVE  /\ RemoveForBlock(p, vtx) \in [0..Len(vtx) -> S] /\ RemoveForBlock(p, vtx)[0] = p
         /\ \A i \in 1..Len(vtx) : RemoveForBlock(p, vtx)[i] = RemoveForTx(RemoveForBlock(p, vtx)[i - 1], vtx[i])
<1> DEFINE n == Len(vtx)
           Body(q, i) == RemoveForTx(q, vtx[i])
           g == [i \in 1..n |-> [q \in S |-> Body(q, i)]]
           r == RemoveForBlock(p, vtx)
           Def(f) == f = [i \in 0..n |-> IF i = 0 THEN p ELSE Body(f[i - 1], i)]
<1>1. r = CHOOSE f : Def(f)
  BY DEF RemoveForBlock
<1>2. n \in Nat /\ \A i \in 1..n : \A q \in S : Body(q, i) \in S
  OBVIOUS
<1> HIDE DEF Body, n, r
<1>3. g \in Bodies(n, S)
  BY <1>2 DEF Bodies
<1>4. \A f : \A i \in 1..n : f[i - 1] \in S => g[i][f[i - 1]] = Body(f[i - 1], i)
  OBVIOUS
<1> HIDE DEF g
<1>5. PICK f \in Runs(n, S) : IsRun(f, n, p, g)
  BY <1>2, <1>3, LoopExists
<1>6. Def(f)
  <2>1. f[0] = p /\ \A i \in 1..n : f[i] = g[i][f[i - 1]] /\ f[i - 1] \in S
    BY <1>2, <1>5 DEF Runs, IsRun
  <2>2. \A i \in 0..n : f[i] = IF i = 0 THEN p ELSE Body(f[i - 1], i)
    BY <1>2, <1>4, <2>1
  <2> QED
    BY <1>5, <2>2 DEF Runs
<1>7. Def(r)
  <2> HIDE DEF Def
  <2> QED
    BY <1>1, <1>6
<1>8. r[0] = p /\ \A i \in 1..n : r[i] = Body(r[i - 1], i)
  <2>1. \A i \in 0..n : r[i] = IF i = 0 THEN p ELSE Body(r[i - 1], i)
    BY <1>7
  <2> QED
    BY <1>2, <2>1
<1> DEFINE P == {i \in 0..n : r[i] \in S}
<1>9. 0 \in P
  BY <1>2, <1>8
<1>10. ASSUME NEW i \in 1..n, i - 1 \in P PROVE i \in P
  <2>1. r[i - 1] \in S /\ i \in 0..n
    BY <1>2, <1>10
  <2> QED
    BY <1>2, <1>8, <2>1
<1>11. 0..n \subseteq P
  <2> HIDE DEF P
  <2> QED
    BY <1>2, <1>9, <1>10, Climb
<1>12. r \in [0..n -> S]
  BY <1>7, <1>11
<1> QED
  BY <1>8, <1>12 DEF r, n, Body

(* The removals of removeCoinbaseSpends().                                 *)
WithDescendants(p, t) == RemoveTx(p, t, TRUE)

(* The pool after each of them.                                            *)
LEMMA RemoveAllIs ==
  ASSUME NEW p, NEW ts, NEW S, Len(ts) \in Nat,
         p \in S, \A i \in 1..Len(ts) : \A q \in S : WithDescendants(q, ts[i]) \in S
  PROVE  /\ RemoveAll(p, ts) \in [0..Len(ts) -> S] /\ RemoveAll(p, ts)[0] = p
         /\ \A i \in 1..Len(ts) : RemoveAll(p, ts)[i] = WithDescendants(RemoveAll(p, ts)[i - 1], ts[i])
<1> DEFINE n == Len(ts)
           Body(q, i) == WithDescendants(q, ts[i])
           g == [i \in 1..n |-> [q \in S |-> Body(q, i)]]
           r == RemoveAll(p, ts)
           Def(f) == f = [i \in 0..n |-> IF i = 0 THEN p ELSE Body(f[i - 1], i)]
<1>1. r = CHOOSE f : Def(f)
  BY DEF RemoveAll, WithDescendants
<1>2. n \in Nat /\ \A i \in 1..n : \A q \in S : Body(q, i) \in S
  OBVIOUS
<1> HIDE DEF Body, n, r
<1>3. g \in Bodies(n, S)
  BY <1>2 DEF Bodies
<1>4. \A f : \A i \in 1..n : f[i - 1] \in S => g[i][f[i - 1]] = Body(f[i - 1], i)
  OBVIOUS
<1> HIDE DEF g
<1>5. PICK f \in Runs(n, S) : IsRun(f, n, p, g)
  BY <1>2, <1>3, LoopExists
<1>6. Def(f)
  <2>1. f[0] = p /\ \A i \in 1..n : f[i] = g[i][f[i - 1]] /\ f[i - 1] \in S
    BY <1>2, <1>5 DEF Runs, IsRun
  <2>2. \A i \in 0..n : f[i] = IF i = 0 THEN p ELSE Body(f[i - 1], i)
    BY <1>2, <1>4, <2>1
  <2> QED
    BY <1>5, <2>2 DEF Runs
<1>7. Def(r)
  <2> HIDE DEF Def
  <2> QED
    BY <1>1, <1>6
<1>8. r[0] = p /\ \A i \in 1..n : r[i] = Body(r[i - 1], i)
  <2>1. \A i \in 0..n : r[i] = IF i = 0 THEN p ELSE Body(r[i - 1], i)
    BY <1>7
  <2> QED
    BY <1>2, <2>1
<1> DEFINE P == {i \in 0..n : r[i] \in S}
<1>9. 0 \in P
  BY <1>2, <1>8
<1>10. ASSUME NEW i \in 1..n, i - 1 \in P PROVE i \in P
  <2>1. r[i - 1] \in S /\ i \in 0..n
    BY <1>2, <1>10
  <2> QED
    BY <1>2, <1>8, <2>1
<1>11. 0..n \subseteq P
  <2> HIDE DEF P
  <2> QED
    BY <1>2, <1>9, <1>10, Climb
<1>12. r \in [0..n -> S]
  BY <1>7, <1>11
<1> QED
  BY <1>8, <1>12 DEF r, n, Body

(* DisconnectTip().                                                        *)
LEMMA ResurrectBlockIs ==
  ASSUME NEW p, NEW fl, NEW b, NEW vtx, NEW S, Len(vtx) \in Nat,
         p \in S, \A i \in 1..Len(vtx) : \A q \in S : Resurrect(q, fl, b, vtx[i]) \in S
  PROVE  /\ ResurrectBlock(p, fl, b, vtx) \in [0..Len(vtx) -> S] /\ ResurrectBlock(p, fl, b, vtx)[0] = p
         /\ \A i \in 1..Len(vtx) : ResurrectBlock(p, fl, b, vtx)[i] = Resurrect(ResurrectBlock(p, fl, b, vtx)[i - 1], fl, b, vtx[i])
<1> DEFINE n == Len(vtx)
           Body(q, i) == Resurrect(q, fl, b, vtx[i])
           g == [i \in 1..n |-> [q \in S |-> Body(q, i)]]
           r == ResurrectBlock(p, fl, b, vtx)
           Def(f) == f = [i \in 0..n |-> IF i = 0 THEN p ELSE Body(f[i - 1], i)]
<1>1. r = CHOOSE f : Def(f)
  BY DEF ResurrectBlock
<1>2. n \in Nat /\ \A i \in 1..n : \A q \in S : Body(q, i) \in S
  OBVIOUS
<1> HIDE DEF Body, n, r
<1>3. g \in Bodies(n, S)
  BY <1>2 DEF Bodies
<1>4. \A f : \A i \in 1..n : f[i - 1] \in S => g[i][f[i - 1]] = Body(f[i - 1], i)
  OBVIOUS
<1> HIDE DEF g
<1>5. PICK f \in Runs(n, S) : IsRun(f, n, p, g)
  BY <1>2, <1>3, LoopExists
<1>6. Def(f)
  <2>1. f[0] = p /\ \A i \in 1..n : f[i] = g[i][f[i - 1]] /\ f[i - 1] \in S
    BY <1>2, <1>5 DEF Runs, IsRun
  <2>2. \A i \in 0..n : f[i] = IF i = 0 THEN p ELSE Body(f[i - 1], i)
    BY <1>2, <1>4, <2>1
  <2> QED
    BY <1>5, <2>2 DEF Runs
<1>7. Def(r)
  <2> HIDE DEF Def
  <2> QED
    BY <1>1, <1>6
<1>8. r[0] = p /\ \A i \in 1..n : r[i] = Body(r[i - 1], i)
  <2>1. \A i \in 0..n : r[i] = IF i = 0 THEN p ELSE Body(r[i - 1], i)
    BY <1>7
  <2> QED
    BY <1>2, <2>1
<1> DEFINE P == {i \in 0..n : r[i] \in S}
<1>9. 0 \in P
  BY <1>2, <1>8
<1>10. ASSUME NEW i \in 1..n, i - 1 \in P PROVE i \in P
  <2>1. r[i - 1] \in S /\ i \in 0..n
    BY <1>2, <1>10
  <2> QED
    BY <1>2, <1>8, <2>1
<1>11. 0..n \subseteq P
  <2> HIDE DEF P
  <2> QED
    BY <1>2, <1>9, <1>10, Climb
<1>12. r \in [0..n -> S]
  BY <1>7, <1>11
<1> QED
  BY <1>8, <1>12 DEF r, n, Body

-----------------------------------------------------------------------------
(* removeConflicts() removes with descendants, and if t is not in the pool *)
(* and there are no double spends, nothing is left that spends what t      *)
(* spends.                                                                 *)
LEMMA RemoveSpenderFacts ==
  ASSUME NEW p, Linked(p), NEW t, NEW o
  PROVE  /\ Shrinks(p, RemoveSpender(p, o, t))
         /\ ~p.doubled /\ t \notin p.txs => \A u \in RemoveSpender(p, o, t).txs : o \notin Ins(u)
<1>1. CASE o \in DOMAIN p.next /\ p.next[o] # t
  <2>1. RemoveSpender(p, o, t) = RemoveTx(p, p.next[o], TRUE)
    BY <1>1 DEF RemoveSpender
  <2>2. p.next[o] \in Txs
    BY <1>1, NextsIff DEF Linked, PoolType, Txs
  <2>3. /\ Shrinks(p, RemoveSpender(p, o, t))
        /\ p.next[o] \notin RemoveSpender(p, o, t).txs
    BY <2>1, <2>2, RemoveRecursive
  <2> QED
    BY <2>3 DEF Shrinks, Linked, AllEntered
<1>2. CASE ~(o \in DOMAIN p.next /\ p.next[o] # t)
  <2>1. RemoveSpender(p, o, t) = p
    BY <1>2 DEF RemoveSpender
  <2> QED
    BY <1>2, <2>1, ShrinksSame DEF Linked, AllEntered
<1> QED
  BY <1>1, <1>2

(* After all turns of removeConflicts() nobody spends an input of t.       *)
LEMMA ConflictsFacts ==
  ASSUME NEW p, Linked(p), NEW t \in Txs
  PROVE  /\ Shrinks(p, RemoveConflicts(p, t))
         /\ ~p.doubled /\ t \notin p.txs =>
              \A u \in RemoveConflicts(p, t).txs : Ins(u) \cap Ins(t) = {}
<1> DEFINE n == Len(Vin[t])
           r == ConflictsLoop(p, t)
           S == {q \in PoolType : Shrinks(p, q)}
<1>1. n \in Nat /\ \A o \in Ins(t) : \E j \in 1..n : o = Vin[t][j]
  BY PoolTxFacts
<1>2. p \in S
  BY ShrinksSame DEF Linked
<1>3. \A q \in S : Linked(q)
  BY DEF Shrinks
<1>4. \A j \in 1..n : \A q \in S : RemoveSpender(q, Vin[t][j], t) \in S
  <2> SUFFICES ASSUME NEW j \in 1..n, NEW q \in S PROVE RemoveSpender(q, Vin[t][j], t) \in S
    OBVIOUS
  <2>1. Shrinks(q, RemoveSpender(q, Vin[t][j], t))
    BY <1>3, RemoveSpenderFacts
  <2>2. Shrinks(p, RemoveSpender(q, Vin[t][j], t))
    BY <2>1, ShrinksTwice
  <2> QED
    BY <2>2 DEF Shrinks, Linked
<1>5. RemoveConflicts(p, t) = r[n]
  BY DEF RemoveConflicts
<1>6. r \in [0..n -> S] /\ r[0] = p /\ \A j \in 1..n : r[j] = RemoveSpender(r[j - 1], Vin[t][j], t)
  <2> HIDE DEF S
  <2> QED
    BY <1>1, <1>2, <1>4, ConflictsLoopIs
<1> HIDE DEF r, n
<1>7. r[n] \in S
  <2> HIDE DEF S
  <2> QED
    BY <1>1, <1>6
<1>8. ASSUME ~p.doubled, t \notin p.txs PROVE \A u \in r[n].txs : Ins(u) \cap Ins(t) = {}
  <2> DEFINE P == {j \in 0..n : \A i \in 1..j : \A u \in r[j].txs : Vin[t][i] \notin Ins(u)}
  <2>1. 0 \in P
    BY <1>1
  <2>2. ASSUME NEW j \in 1..n, j - 1 \in P PROVE j \in P
    <3>1. j - 1 \in 0..n /\ j \in 0..n /\ r[j - 1] \in S
      BY <1>1, <1>6
    <3>2. Linked(r[j - 1]) /\ ~r[j - 1].doubled /\ t \notin r[j - 1].txs
      BY <1>8, <3>1 DEF Shrinks
    <3>3. r[j] = RemoveSpender(r[j - 1], Vin[t][j], t)
      BY <1>6
    <3>4. r[j].txs \subseteq r[j - 1].txs /\ \A u \in r[j].txs : Vin[t][j] \notin Ins(u)
      BY <3>2, <3>3, RemoveSpenderFacts DEF Shrinks
    <3>5. ASSUME NEW i \in 1..j PROVE \A u \in r[j].txs : Vin[t][i] \notin Ins(u)
      <4>1. CASE i = j
        BY <3>4, <4>1
      <4>2. CASE i # j
        <5>1. i \in 1..(j - 1)
          BY <4>2
        <5> QED
          BY <2>2, <3>4, <5>1
      <4> QED
        BY <4>1, <4>2
    <3> QED
      BY <3>1, <3>5
  <2>3. n \in P
    <3> HIDE DEF P
    <3>1. 0..n \subseteq P
      BY <1>1, <2>1, <2>2, Climb
    <3> QED
      BY <1>1, <3>1
  <2>4. \A i \in 1..n : \A u \in r[n].txs : Vin[t][i] \notin Ins(u)
    BY <2>3
  <2> QED
    BY <1>1, <2>4
<1> QED
  BY <1>5, <1>7, <1>8

(* removeForBlock(): no transaction of the block stays, nothing that       *)
(* conflicts with one, and what depended on another transaction that left  *)
(* has left too.                                                           *)
LEMMA ForTxFacts ==
  ASSUME NEW p, Linked(p), NEW t \in Txs
  PROVE  /\ Linked(RemoveForTx(p, t)) /\ RemoveForTx(p, t).doubled = p.doubled
         /\ RemoveForTx(p, t).txs \subseteq p.txs \ {t}
         /\ ~p.doubled => \A u \in RemoveForTx(p, t).txs :
              /\ Ins(u) \cap Ins(t) = {}
              /\ \A x \in p.txs \ RemoveForTx(p, t).txs : x # t => ~Depends(u, x)
<1> DEFINE r == RemoveTx(p, t, FALSE)
           q == RemoveForTx(p, t)
<1>1. Linked(r) /\ r.txs = p.txs \ {t} /\ r.doubled = p.doubled
  <2>1. CASE t \in p.txs
    <3>1. r = EraseTx(p, t)
      BY <2>1, RemoveAlone
    <3> HIDE DEF r
    <3> QED
      BY <2>1, <3>1, EraseLinked
  <2>2. CASE t \notin p.txs
    BY <2>2, RemoveAlone
  <2> QED
    BY <2>1, <2>2
<1>2. q = RemoveConflicts(r, t)
  BY DEF RemoveForTx
<1> HIDE DEF r, q
<1>3. /\ Shrinks(r, q)
      /\ ~p.doubled => \A u \in q.txs : Ins(u) \cap Ins(t) = {}
  BY <1>1, <1>2, ConflictsFacts
<1> QED
  BY <1>1, <1>3 DEF Shrinks, q

(* What removeForTx leaves of the pool p.                                  *)
TxRemoved(p, q, t) ==
  /\ q.doubled = p.doubled /\ q.txs \subseteq p.txs \ {t}
  /\ ~p.doubled => \A u \in q.txs :
        /\ Ins(u) \cap Ins(t) = {}
        /\ \A x \in p.txs \ q.txs : x # t => ~Depends(u, x)

LEMMA TxIsRemoved ==
  ASSUME NEW p, Linked(p), NEW t \in Txs, NEW q, q = RemoveForTx(p, t)
  PROVE  TxRemoved(p, q, t)
<1>1. TxRemoved(p, RemoveForTx(p, t), t)
  BY ForTxFacts DEF TxRemoved
<1> QED
  BY <1>1, Zenon

(* After removeForBlock() no transaction of the block is left, nobody      *)
(* spends what the block spends, and who depends on a removed transaction  *)
(* is gone unless the block confirmed that one.                            *)
BlockRemoved(p, q, vtx) ==
  /\ Linked(q) /\ q.doubled = p.doubled /\ q.txs \subseteq p.txs \ Range(vtx)
  /\ ~p.doubled => \A u \in q.txs :
       /\ \A t \in Range(vtx) : Ins(u) \cap Ins(t) = {}
       /\ \A x \in p.txs \ q.txs : x \notin Range(vtx) => ~Depends(u, x)

LEMMA ForBlockFacts ==
  ASSUME NEW p, Linked(p), NEW vtx \in Seq(Txs), NEW q, q = RemoveForBlock(p, vtx)[Len(vtx)]
  PROVE  BlockRemoved(p, q, vtx)
<1> DEFINE n == Len(vtx)
           r == RemoveForBlock(p, vtx)
           S == {x \in PoolType : Linked(x)}
<1>1. n \in Nat /\ \A i \in 1..n : vtx[i] \in Txs
  OBVIOUS
<1>2. p \in S
  BY DEF Linked
<1>3. \A i \in 1..n : \A x \in S : RemoveForTx(x, vtx[i]) \in S
  BY <1>1, ForTxFacts DEF Linked
<1>4. r \in [0..n -> S] /\ r[0] = p /\ \A i \in 1..n : r[i] = RemoveForTx(r[i - 1], vtx[i])
  <2> HIDE DEF S
  <2> QED
    BY <1>1, <1>2, <1>3, RemoveForBlockIs
<1>5. q = r[n]
  OBVIOUS
<1>6. Range(vtx) = {vtx[i] : i \in 1..n}
  BY RangeFacts
<1> HIDE DEF r, n
<1> DEFINE Done(j) == {vtx[i] : i \in 1..j}
           Inv(j, x) ==
             /\ x.doubled = p.doubled /\ x.txs \subseteq p.txs \ Done(j)
             /\ ~p.doubled => \A u \in x.txs :
                  /\ \A t \in Done(j) : Ins(u) \cap Ins(t) = {}
                  /\ \A y \in p.txs \ x.txs : y \notin Done(j) => ~Depends(u, y)
           P == {j \in 0..n : Inv(j, r[j])}
<1>7. 0 \in P
  BY <1>1, <1>4
<1>8. ASSUME NEW j \in 1..n, j - 1 \in P PROVE j \in P
  <2>1. j - 1 \in 0..n /\ j \in 0..n /\ r[j - 1] \in S /\ vtx[j] \in Txs
    BY <1>1, <1>4
  <2>2. Linked(r[j - 1]) /\ r[j] = RemoveForTx(r[j - 1], vtx[j])
    BY <1>4, <2>1
  <2>3. Done(j) = Done(j - 1) \cup {vtx[j]}
    <3>1. \A i \in 1..j : i = j \/ i \in 1..(j - 1)
      OBVIOUS
    <3>2. \A i \in 1..(j - 1) : i \in 1..j
      OBVIOUS
    <3> QED
      BY <3>1, <3>2
  <2>4. /\ r[j].doubled = r[j - 1].doubled /\ r[j].txs \subseteq r[j - 1].txs \ {vtx[j]}
        /\ ~r[j - 1].doubled => \A u \in r[j].txs :
              /\ Ins(u) \cap Ins(vtx[j]) = {}
              /\ \A x \in r[j - 1].txs \ r[j].txs : x # vtx[j] => ~Depends(u, x)
    <3> DEFINE a == r[j - 1]
               z == r[j]
               t == vtx[j]
    <3>1. Linked(a) /\ t \in Txs /\ z = RemoveForTx(a, t)
      BY <2>1, <2>2
    <3> HIDE DEF a, z, t
    <3>2. TxRemoved(a, z, t)
      BY <3>1, TxIsRemoved
    <3> QED
      BY <3>2 DEF TxRemoved, a, z, t
  <2>5. Inv(j - 1, r[j - 1])
    BY <1>8
  <2> HIDE DEF Done
  <2>6. Inv(j, r[j])
    BY <2>3, <2>4, <2>5
  <2> QED
    BY <2>1, <2>6
<1>9. n \in P
  <2> HIDE DEF P
  <2>1. 0..n \subseteq P
    BY <1>1, <1>7, <1>8, Climb
  <2> QED
    BY <1>1, <2>1
<1>10. Inv(n, q)
  BY <1>5, <1>9
<1>11. Done(n) = Range(vtx) /\ Linked(q)
  BY <1>1, <1>4, <1>5, <1>6
<1> HIDE DEF Done
<1> QED
  BY <1>10, <1>11 DEF BlockRemoved

(* removeCoinbaseSpends(): removals with descendants, of all that is lost. *)
LEMMA RemoveAllFacts ==
  ASSUME NEW p, Linked(p), NEW ts \in Seq(Txs), NEW q, q = RemoveAll(p, ts)[Len(ts)]
  PROVE  Shrinks(p, q) /\ q.txs \cap Range(ts) = {}
<1> DEFINE n == Len(ts)
           r == RemoveAll(p, ts)
           S == {x \in PoolType : Shrinks(p, x)}
<1>1. n \in Nat /\ \A i \in 1..n : ts[i] \in Txs
  OBVIOUS
<1>2. p \in S
  BY ShrinksSame DEF Linked
<1>3. ASSUME NEW i \in 1..n, NEW x \in S
      PROVE  /\ WithDescendants(x, ts[i]) \in S
             /\ WithDescendants(x, ts[i]).txs \subseteq x.txs \ {ts[i]}
  <2>1. Linked(x) /\ ts[i] \in Txs
    BY <1>1 DEF Shrinks
  <2>2. Shrinks(x, WithDescendants(x, ts[i])) /\ ts[i] \notin WithDescendants(x, ts[i]).txs
    BY <2>1, RemoveRecursive DEF WithDescendants
  <2>3. Shrinks(p, WithDescendants(x, ts[i]))
    BY <2>2, ShrinksTwice
  <2> QED
    BY <2>2, <2>3 DEF Shrinks, Linked
<1>4. r \in [0..n -> S] /\ r[0] = p /\ \A i \in 1..n : r[i] = WithDescendants(r[i - 1], ts[i])
  <2>1. \A i \in 1..n : \A x \in S : WithDescendants(x, ts[i]) \in S
    BY <1>3
  <2> HIDE DEF S
  <2> QED
    BY <1>1, <1>2, <2>1, RemoveAllIs
<1>5. q = r[n]
  OBVIOUS
<1>6. Range(ts) = {ts[i] : i \in 1..n}
  BY RangeFacts
<1> HIDE DEF r, n, S
<1> DEFINE P == {j \in 0..n : \A i \in 1..j : ts[i] \notin r[j].txs}
<1>7. 0 \in P
  BY <1>1
<1>8. ASSUME NEW j \in 1..n, j - 1 \in P PROVE j \in P
  <2>1. j - 1 \in 0..n /\ j \in 0..n /\ r[j - 1] \in S /\ r[j] = WithDescendants(r[j - 1], ts[j])
    <3>1. j - 1 \in 0..n /\ j \in 0..n
      BY <1>1
    <3> QED
      BY <1>4, <3>1
  <2>2. r[j].txs \subseteq r[j - 1].txs \ {ts[j]}
    BY <1>3, <2>1
  <2>3. ASSUME NEW i \in 1..j PROVE ts[i] \notin r[j].txs
    <3>1. CASE i = j
      BY <2>2, <3>1
    <3>2. CASE i # j
      <4>1. i \in 1..(j - 1)
        BY <3>2
      <4> QED
        BY <1>8, <2>2, <4>1
    <3> QED
      BY <3>1, <3>2
  <2> QED
    BY <2>1, <2>3
<1>9. n \in P
  <2> HIDE DEF P
  <2>1. 0..n \subseteq P
    BY <1>1, <1>7, <1>8, Climb
  <2> QED
    BY <1>1, <2>1
<1>10. q \in S
  BY <1>1, <1>4, <1>5
<1> QED
  BY <1>5, <1>6, <1>9, <1>10 DEF S

(* A finite set can be put into an order.                                  *)
LEMMA InOrderFacts ==
  ASSUME NEW S, IsFiniteSet(S)
  PROVE  InOrder(S) \in Seq(S) /\ Len(InOrder(S)) = Cardinality(S) /\ Range(InOrder(S)) = S
<1> DEFINE n == Cardinality(S)
<1>1. n \in Nat /\ ExistsBijection(1..n, S)
  BY FS_CardinalityType
<1> HIDE DEF n
<1>2. PICK f : f \in Bijection(1..n, S)
  BY <1>1 DEF ExistsBijection
<1>3. f \in [1..n -> S] /\ Range(f) = S
  BY <1>2 DEF Bijection, Injection, Surjection, Range
<1>4. InOrder(S) \in [1..n -> S] /\ Range(InOrder(S)) = S
  BY <1>3 DEF InOrder, n
<1>5. InOrder(S) \in Seq(S) /\ Len(InOrder(S)) = n
  BY <1>1, <1>4
<1> QED
  BY <1>4, <1>5 DEF n

(* removeCoinbaseSpends() removes all it looks for, with their dependants. *)
LEMMA CoinbaseSpendsFacts ==
  ASSUME NEW p, Linked(p), NEW fl, NEW b
  PROVE  Shrinks(p, RemoveCoinbaseSpends(p, fl, b)) /\ RemoveCoinbaseSpends(p, fl, b).txs \cap Lost(p, fl, b) = {}
<1> DEFINE S == Lost(p, fl, b)
           ts == InOrder(S)
           q == RemoveCoinbaseSpends(p, fl, b)
<1>1. p.txs \in SUBSET Loose /\ S \in SUBSET Loose /\ Loose \subseteq Txs
  BY DEF Linked, PoolType, Lost, Txs
<1>2. IsFiniteSet(S)
  BY <1>1, MempoolAssumption, FS_Subset
<1>3. ts \in Seq(S) /\ Len(ts) = Cardinality(S) /\ Range(ts) = S
  BY <1>2, InOrderFacts
<1>4. q = RemoveAll(p, ts)[Cardinality(S)]
  BY DEF RemoveCoinbaseSpends
<1> HIDE DEF S, ts, q
<1>5. ts \in Seq(Txs)
  <2>1. S \subseteq Txs
    BY <1>1
  <2> QED
    BY <1>3, <2>1
<1>6. q = RemoveAll(p, ts)[Len(ts)]
  BY <1>3, <1>4
<1>7. Shrinks(p, q) /\ q.txs \cap Range(ts) = {}
  BY <1>5, <1>6, RemoveAllFacts
<1> QED
  BY <1>3, <1>7 DEF q, S

-----------------------------------------------------------------------------
(* The transactions of a chain: those of its tip and of the chain before.  *)
LEMMA ConfirmedFacts ==
  ASSUME NEW b \in Index
  PROVE  /\ Vtx[b] \in Seq(Txs) /\ Range(Vtx[b]) \subseteq Txs /\ Confirmed[b] \subseteq Txs
         /\ \A a \in Ancestors(b) : a \in Index /\ Range(Vtx[a]) \subseteq Confirmed[b]
         /\ \A t \in Confirmed[b] : \E a \in Ancestors(b) : t \in Range(Vtx[a])
<1>1. \A a \in Index : Vtx[a] \in Seq(Txs)
  BY MempoolAssumption
<1>2. \A a \in Index : Range(Vtx[a]) \subseteq Txs
  BY <1>1, RangeFacts
<1>3. \A a \in Ancestors(b) : a \in Index
  BY AncestorsSelf
<1> QED
  BY <1>1, <1>2, <1>3 DEF Confirmed

(* A block adds its own transactions, and none of them is on the chain     *)
(* before.                                                                 *)
LEMMA ConfirmedStep ==
  ASSUME NEW b \in Blocks
  PROVE  /\ b \in Index /\ Prev[b] \in Index /\ Confirmed[b] = Range(Vtx[b]) \cup Confirmed[Prev[b]]
         /\ Range(Vtx[b]) \cap Confirmed[Prev[b]] = {}
<1>1. b \in Index /\ Prev[b] \in Index /\ Ancestors(b) = {b} \cup Ancestors(Prev[b])
  BY AncestorsStep
<1>2. Confirmed[b] = Range(Vtx[b]) \cup Confirmed[Prev[b]]
  BY <1>1 DEF Confirmed
<1>3. \A i \in DOMAIN Vtx[b] : Vtx[b][i] \notin Confirmed[Prev[b]]
  BY MempoolAssumption
<1> QED
  BY <1>1, <1>2, <1>3 DEF Range

(* What a confirmed transaction spends comes from a confirmed one.         *)
LEMMA ParentsConfirmed ==
  ASSUME NEW b \in Index, NEW t \in Confirmed[b], NEW o \in Ins(t)
  PROVE  o[1] \in Confirmed[b]
<1>1. PICK a \in Ancestors(b) : t \in Range(Vtx[a])
  BY ConfirmedFacts
<1>2. a \in Index /\ Ancestors(a) \subseteq Ancestors(b)
  BY AncestorsSelf, AncestorsTransitive
<1>3. Confirmed[a] \subseteq Confirmed[b]
  BY <1>2 DEF Confirmed
<1>4. CASE a = Genesis
  <2>1. Vin[t] = <<>>
    BY <1>1, <1>4, MempoolAssumption
  <2> QED
    BY <2>1 DEF Ins, Range
<1>5. CASE a # Genesis
  <2>1. a \in Blocks
    BY <1>2, <1>5 DEF Index
  <2>2. PICK i \in DOMAIN Vtx[a] : t = Vtx[a][i]
    BY <1>1 DEF Range
  <2>3. Parents(t) \subseteq Confirmed[Prev[a]] \cup {Vtx[a][j] : j \in 1..(i - 1)}
    BY <2>1, <2>2, MempoolAssumption
  <2>4. DOMAIN Vtx[a] = 1..Len(Vtx[a]) /\ Len(Vtx[a]) \in Nat
    BY <1>2, ConfirmedFacts
  <2>5. {Vtx[a][j] : j \in 1..(i - 1)} \subseteq Range(Vtx[a])
    BY <2>2, <2>4 DEF Range
  <2>6. Parents(t) \subseteq Confirmed[a]
    BY <2>1, <2>3, <2>5, ConfirmedStep
  <2> QED
    BY <1>3, <2>6 DEF Parents
<1> QED
  BY <1>4, <1>5

(* A coin of the chain is an output of a confirmed transaction that no     *)
(* confirmed one spends.                                                   *)
LEMMA UtxoIff ==
  ASSUME NEW b \in Index, NEW o
  PROVE  o \in UtxoAt[b] <=> /\ o[1] \in Confirmed[b] /\ o \in Outs(o[1])
                             /\ \A t \in Confirmed[b] : o \notin Ins(t)
<1>1. \A t : o \in Outs(t) => o[1] = t
  BY DEF Outs
<1>2. UtxoAt[b] = OutsOf(Confirmed[b]) \ InsOf(Confirmed[b])
  BY DEF UtxoAt
<1>3. o \in OutsOf(Confirmed[b]) <=> \E t \in Confirmed[b] : o \in Outs(t)
  BY DEF OutsOf
<1>4. o \in InsOf(Confirmed[b]) <=> \E t \in Confirmed[b] : o \in Ins(t)
  BY DEF InsOf
<1>5. o \in UtxoAt[b] <=> /\ \E t \in Confirmed[b] : o \in Outs(t)
                          /\ ~\E t \in Confirmed[b] : o \in Ins(t)
  BY <1>2, <1>3, <1>4
<1> QED
  BY <1>1, <1>5

(* What AcceptToMemoryPool has found out when it accepts.                  *)
LEMMA AcceptedFacts ==
  ASSUME NEW p, NEW fl, NEW b \in Index, p.txs \cap Confirmed[b] = {}, NEW t \in Loose,
         Verdict(p, fl, b, t) = "accepted"
  PROVE  /\ t \notin p.txs /\ ~HaveCoins(b, t) /\ t \notin Confirmed[b]
         /\ \A o \in Ins(t) : Available(p, b, o)
         /\ \A u \in Parents(t) \ p.txs : ~Immature(fl, b, u)
<1>1. /\ t \notin p.txs /\ ~HaveCoins(b, t)
      /\ \A o \in Ins(t) : Available(p, b, o)
      /\ \A u \in Parents(t) \ p.txs : ~Immature(fl, b, u)
  BY DEF Verdict
<1>2. t \notin Confirmed[b]
  <2> SUFFICES ASSUME t \in Confirmed[b] PROVE FALSE
    OBVIOUS
  <2>1. PICK o \in Ins(t) : TRUE
    BY LooseSpends
  <2>2. o[1] \in Confirmed[b]
    BY ParentsConfirmed
  <2>3. o \in UtxoAt[b]
    BY <1>1, <2>2 DEF Available
  <2> QED
    BY <2>3, UtxoIff
<1> QED
  BY <1>1, <1>2

-----------------------------------------------------------------------------
(* PoolCanBeMined, of any pool and block.                                  *)
InputsThere(p, b) == \A t \in p.txs : \A o \in Ins(t) : Available(p, b, o)
CanBeMined(p, fl, b) ==
  InputsThere(p, b) /\ \A t \in p.txs : \A u \in Parents(t) \ p.txs : ~Immature(fl, b, u)

(* Accepting a transaction keeps it, ...                                   *)
LEMMA AddMined ==
  ASSUME NEW p, Linked(p), NEW fl, NEW b \in Index, p.txs \cap Confirmed[b] = {}, CanBeMined(p, fl, b),
         NEW t \in Loose, Verdict(p, fl, b, t) = "accepted"
  PROVE  CanBeMined(AddUnchecked(p, t), fl, b)
<1> DEFINE q == AddUnchecked(p, t)
<1>1. q.txs = p.txs \cup {t}
  BY AddLinked
<1>2. /\ t \notin p.txs /\ ~HaveCoins(b, t)
      /\ \A o \in Ins(t) : Available(p, b, o)
      /\ \A u \in Parents(t) \ p.txs : ~Immature(fl, b, u)
  BY AcceptedFacts
<1>3. ASSUME NEW o, Available(p, b, o) PROVE Available(q, b, o)
  BY <1>1, <1>2, <1>3 DEF Available, HaveCoins
<1> HIDE DEF q
<1>4. InputsThere(q, b)
  BY <1>1, <1>2, <1>3 DEF CanBeMined, InputsThere
<1>5. \A u \in q.txs : \A x \in Parents(u) \ q.txs : ~Immature(fl, b, x)
  BY <1>1, <1>2 DEF CanBeMined
<1> QED
  BY <1>4, <1>5 DEF CanBeMined, q

(* ... and so does removing transactions with all that depends on them.    *)
LEMMA ShrinksInputs ==
  ASSUME NEW p, NEW q, Shrinks(p, q), ~p.doubled, NEW b, InputsThere(p, b)
  PROVE  /\ InputsThere(q, b)
         /\ \A t \in q.txs : Parents(t) \ q.txs = Parents(t) \ p.txs
<1>1. ASSUME NEW t \in q.txs, NEW o \in Ins(t), o[1] \in p.txs PROVE o \in Outs(o[1]) /\ o[1] \in q.txs
  <2>1. t \in p.txs /\ Available(p, b, o)
    BY <1>1 DEF Shrinks, InputsThere
  <2>2. o \in Outs(o[1])
    BY <1>1, <2>1 DEF Available
  <2>3. Depends(t, o[1])
    BY <1>1, <2>2 DEF Depends
  <2> QED
    BY <1>1, <2>2, <2>3 DEF Shrinks
<1>2. InputsThere(q, b)
  <2> SUFFICES ASSUME NEW t \in q.txs, NEW o \in Ins(t) PROVE Available(q, b, o)
    BY DEF InputsThere
  <2>1. t \in p.txs /\ Available(p, b, o) /\ q.txs \subseteq p.txs
    BY DEF Shrinks, InputsThere
  <2> QED
    BY <1>1, <2>1 DEF Available
<1>3. ASSUME NEW t \in q.txs PROVE Parents(t) \ q.txs = Parents(t) \ p.txs
  BY <1>1, <1>3 DEF Shrinks, Parents
<1> QED
  BY <1>2, <1>3

(* The same with the maturity of what is spent.                            *)
LEMMA ShrinksMined ==
  ASSUME NEW p, NEW q, Shrinks(p, q), ~p.doubled, NEW fl, NEW b, CanBeMined(p, fl, b)
  PROVE  CanBeMined(q, fl, b)
BY ShrinksInputs DEF CanBeMined, Shrinks

-----------------------------------------------------------------------------
(* ConnectTip: what stays in the pool is not confirmed and can be mined on *)
(* the new tip.                                                            *)
LEMMA ConnectMined ==
  ASSUME NEW b \in Blocks, NEW p, Linked(p), p.txs \cap Confirmed[Prev[b]] = {},
         NEW q, q = RemoveForBlock(p, Vtx[b])[Len(Vtx[b])]
  PROVE  /\ Linked(q) /\ q.txs \cap Confirmed[b] = {} /\ q.doubled = p.doubled
         /\ \A fl : ~p.doubled /\ CanBeMined(p, fl, Prev[b]) => CanBeMined(q, fl, b)
<1> DEFINE c == Prev[b]
           vtx == Vtx[b]
<1>1. /\ b \in Index /\ c \in Index /\ Confirmed[b] = Range(vtx) \cup Confirmed[c]
      /\ Range(vtx) \cap Confirmed[c] = {}
  BY ConfirmedStep
<1>2. vtx \in Seq(Txs)
  BY <1>1, ConfirmedFacts
<1>3. /\ Linked(q) /\ q.doubled = p.doubled /\ q.txs \subseteq p.txs \ Range(vtx)
      /\ ~p.doubled => \A u \in q.txs :
           /\ \A t \in Range(vtx) : Ins(u) \cap Ins(t) = {}
           /\ \A x \in p.txs \ q.txs : x \notin Range(vtx) => ~Depends(u, x)
  <2>1. q = RemoveForBlock(p, vtx)[Len(vtx)]
    OBVIOUS
  <2> HIDE DEF vtx
  <2>2. BlockRemoved(p, q, vtx)
    BY <1>2, <2>1, ForBlockFacts
  <2> QED
    BY <2>2, Zenon DEF BlockRemoved
<1>4. p.txs \cap Confirmed[c] = {} /\ p.txs \subseteq Loose
  BY DEF Linked, PoolType
<1> HIDE DEF c, vtx
<1>5. q.txs \cap Confirmed[b] = {}
  BY <1>1, <1>3, <1>4
<1>6. ASSUME NEW fl, ~p.doubled, CanBeMined(p, fl, c) PROVE CanBeMined(q, fl, b)
  <2>1. ASSUME NEW t \in q.txs, NEW o \in Ins(t)
        PROVE  Available(q, b, o) /\ (o[1] \notin q.txs => ~Immature(fl, b, o[1]))
    <3>1. t \in p.txs /\ Available(p, c, o) /\ (o[1] \notin p.txs => ~Immature(fl, c, o[1]))
      BY <1>3, <1>6, <2>1 DEF CanBeMined, InputsThere, Parents
    <3>2. \A x \in Range(vtx) : o \notin Ins(x)
      BY <1>3, <1>6, <2>1
    <3>3. CASE o[1] \in q.txs
      BY <1>3, <3>1, <3>3 DEF Available
    <3>4. CASE o[1] \in p.txs \ q.txs
      <4>1. o \in Outs(o[1])
        BY <3>1, <3>4 DEF Available
      <4>2. Depends(t, o[1])
        BY <2>1, <4>1 DEF Depends
      <4>3. o[1] \in Range(vtx)
        BY <1>3, <1>6, <2>1, <3>4, <4>2
      <4>4. \A x \in Confirmed[c] : o \notin Ins(x)
        BY <1>1, <1>4, <3>4, ParentsConfirmed
      <4>5. o \in UtxoAt[b]
        BY <1>1, <3>2, <4>1, <4>3, <4>4, UtxoIff
      <4>6. ~Immature(fl, b, o[1])
        BY <1>4, <3>4 DEF Immature, Flagged, Minted
      <4> QED
        BY <3>4, <4>5, <4>6 DEF Available
    <3>5. CASE o[1] \notin p.txs
      <4>1. o \in UtxoAt[c] /\ ~Immature(fl, c, o[1])
        BY <3>1, <3>5 DEF Available
      <4>2. o[1] \in Confirmed[c] /\ o \in Outs(o[1]) /\ \A x \in Confirmed[c] : o \notin Ins(x)
        BY <1>1, <4>1, UtxoIff
      <4>3. o \in UtxoAt[b]
        BY <1>1, <3>2, <4>2, UtxoIff
      <4>4. ASSUME Immature(fl, b, o[1]) PROVE FALSE
        <5>1. PICK a \in Ancestors(b) : o[1] \in Range(Vtx[a]) /\ Height[b] + 1 - Height[a] < Maturity
          BY <4>4 DEF Immature
        <5>2. a # b
          BY <1>1, <4>2, <5>1 DEF vtx
        <5>3. a \in Ancestors(c)
          BY <5>2, AncestorsStep DEF c
        <5>4. Height[b] = Height[c] + 1 /\ Height[c] \in Nat /\ Height[a] \in Nat /\ Maturity \in Nat
          BY <1>1, <5>3, AncestorsLower, AncestryAssumption, MempoolAssumption DEF c
        <5>5. Height[c] + 1 - Height[a] < Maturity
          BY <5>1, <5>4
        <5> QED
          BY <4>1, <4>4, <5>1, <5>3, <5>5 DEF Immature
      <4> QED
        BY <1>3, <3>5, <4>3, <4>4 DEF Available
    <3> QED
      BY <3>3, <3>4, <3>5
  <2> QED
    BY <2>1 DEF CanBeMined, InputsThere, Parents
<1> QED
  BY <1>3, <1>5, <1>6 DEF c

-----------------------------------------------------------------------------
(* DisconnectTip in the middle: D are the transactions of the block whose  *)
(* turn is still to come.                                                  *)
InputsOrRest(p, b, D) ==
  \A t \in p.txs : \A o \in Ins(t) :
    Available(p, b, o) \/ (o[1] \in D \ p.txs /\ o \in Outs(o[1]))

(* One transaction of the disconnected block: it is entered, or what       *)
(* depends on it leaves, and then nobody waits for it any more.            *)
LEMMA ResurrectTurn ==
  ASSUME NEW fl, NEW b \in Index, NEW p, Linked(p), p.txs \cap Confirmed[b] = {}, NEW t \in Txs, NEW D,
         NEW q, q = Resurrect(p, fl, b, t)
  PROVE  /\ Linked(q) /\ q.txs \cap Confirmed[b] = {} /\ (~q.doubled => ~p.doubled)
         /\ ~q.doubled /\ InputsOrRest(p, b, D \cup {t}) => InputsOrRest(q, b, D)
<1>1. CASE t \in Loose /\ Verdict(p, fl, b, t) = "accepted"
  <2>1. q = AddUnchecked(p, t)
    BY <1>1 DEF Resurrect
  <2>2. Linked(q) /\ q.txs = p.txs \cup {t} /\ (~q.doubled => ~p.doubled)
    BY <1>1, <2>1, AddLinked
  <2>3. t \notin p.txs /\ ~HaveCoins(b, t) /\ t \notin Confirmed[b] /\ \A o \in Ins(t) : Available(p, b, o)
    BY <1>1, AcceptedFacts
  <2>4. ASSUME NEW o, Available(p, b, o) PROVE Available(q, b, o)
    BY <2>2, <2>3, <2>4 DEF Available, HaveCoins
  <2>5. ASSUME NEW o, o[1] \in (D \cup {t}) \ p.txs, o \in Outs(o[1])
        PROVE  Available(q, b, o) \/ (o[1] \in D \ q.txs /\ o \in Outs(o[1]))
    BY <2>2, <2>5 DEF Available
  <2>6. ASSUME InputsOrRest(p, b, D \cup {t}) PROVE InputsOrRest(q, b, D)
    BY <2>2, <2>3, <2>4, <2>5, <2>6 DEF InputsOrRest
  <2> QED
    BY <2>2, <2>3, <2>6
<1>2. CASE ~(t \in Loose /\ Verdict(p, fl, b, t) = "accepted")
  <2>1. q = RemoveTx(p, t, TRUE)
    BY <1>2 DEF Resurrect
  <2>2. Shrinks(p, q) /\ (~p.doubled => \A u \in q.txs : ~Depends(u, t))
    BY <2>1, RemoveRecursive
  <2>3. Linked(q) /\ q.txs \subseteq p.txs /\ q.doubled = p.doubled
    BY <2>2 DEF Shrinks
  <2>4. ASSUME ~q.doubled, InputsOrRest(p, b, D \cup {t}), NEW u \in q.txs, NEW o \in Ins(u)
        PROVE  Available(q, b, o) \/ (o[1] \in D \ q.txs /\ o \in Outs(o[1]))
    <3>1. Available(p, b, o) \/ (o[1] \in (D \cup {t}) \ p.txs /\ o \in Outs(o[1]))
      BY <2>3, <2>4 DEF InputsOrRest
    <3>2. CASE o[1] \in p.txs
      <4>1. o \in Outs(o[1]) /\ Depends(u, o[1])
        BY <2>4, <3>1, <3>2 DEF Available, Depends
      <4>2. o[1] \in q.txs
        BY <2>2, <2>3, <2>4, <3>2, <4>1 DEF Shrinks
      <4> QED
        BY <4>1, <4>2 DEF Available
    <3>3. CASE o[1] \notin p.txs /\ Available(p, b, o)
      BY <2>3, <3>3 DEF Available
    <3>4. CASE o[1] \in (D \cup {t}) \ p.txs /\ o \in Outs(o[1])
      <4>1. Depends(u, o[1])
        BY <2>4, <3>4 DEF Depends
      <4>2. o[1] # t
        BY <2>2, <2>3, <2>4, <4>1
      <4> QED
        BY <2>3, <3>4, <4>2
    <3> QED
      BY <3>1, <3>2, <3>3, <3>4
  <2> QED
    BY <2>3, <2>4 DEF InputsOrRest
<1> QED
  BY <1>1, <1>2

(* DisconnectTip: after the last transaction nobody waits, and             *)
(* removeCoinbaseSpends() takes care of the coins that are not mature any  *)
(* more.                                                                   *)
LEMMA DisconnectMined ==
  ASSUME NEW b \in Blocks, NEW fl, NEW old, NEW p, Linked(p), p.txs \cap Confirmed[b] = {},
         NEW q, q = RemoveCoinbaseSpends(ResurrectBlock(p, fl, Prev[b], Vtx[b])[Len(Vtx[b])], fl, Prev[b])
  PROVE  /\ Linked(q) /\ q.txs \cap Confirmed[Prev[b]] = {} /\ (~q.doubled => ~p.doubled)
         /\ ~q.doubled /\ CanBeMined(p, old, b) => CanBeMined(q, fl, Prev[b])
<1> DEFINE c == Prev[b]
           vtx == Vtx[b]
           n == Len(vtx)
           r == ResurrectBlock(p, fl, c, vtx)
           S == {x \in PoolType : Linked(x) /\ x.txs \cap Confirmed[c] = {}}
           Rest(j) == {vtx[i] : i \in (j + 1)..n}
           P == {j \in 0..n : /\ ~r[j].doubled => ~p.doubled
                              /\ ~r[j].doubled /\ CanBeMined(p, old, b) => InputsOrRest(r[j], c, Rest(j))}
<1>1. /\ b \in Index /\ c \in Index /\ Confirmed[b] = Range(vtx) \cup Confirmed[c]
      /\ Range(vtx) \cap Confirmed[c] = {}
  BY ConfirmedStep
<1>2. vtx \in Seq(Txs) /\ n \in Nat /\ Range(vtx) = {vtx[i] : i \in 1..n} /\ \A i \in 1..n : vtx[i] \in Txs
  <2>1. vtx \in Seq(Txs)
    BY <1>1, ConfirmedFacts
  <2> HIDE DEF vtx
  <2> QED
    BY <2>1, RangeFacts
<1>3. q = RemoveCoinbaseSpends(r[n], fl, c)
  OBVIOUS
<1> HIDE DEF c, vtx
<1>4. p \in S
  BY <1>1 DEF Linked
<1>5. \A i \in 1..n : \A x \in S : Resurrect(x, fl, c, vtx[i]) \in S
  BY <1>1, <1>2, ResurrectTurn DEF Linked
<1>6. r \in [0..n -> S] /\ r[0] = p /\ \A i \in 1..n : r[i] = Resurrect(r[i - 1], fl, c, vtx[i])
  <2> HIDE DEF S
  <2> QED
    BY <1>2, <1>4, <1>5, ResurrectBlockIs
<1> HIDE DEF r, n, S
<1>7. ASSUME CanBeMined(p, old, b) PROVE InputsOrRest(p, c, Range(vtx))
  <2> SUFFICES ASSUME NEW t \in p.txs, NEW o \in Ins(t)
               PROVE  Available(p, c, o) \/ (o[1] \in Range(vtx) \ p.txs /\ o \in Outs(o[1]))
    BY DEF InputsOrRest
  <2>1. Available(p, b, o)
    BY <1>7 DEF CanBeMined, InputsThere
  <2>2. CASE o[1] \in p.txs
    BY <2>1, <2>2 DEF Available
  <2>3. CASE o[1] \notin p.txs
    <3>1. o[1] \in Confirmed[b] /\ o \in Outs(o[1]) /\ \A x \in Confirmed[b] : o \notin Ins(x)
      BY <1>1, <2>1, <2>3, UtxoIff DEF Available
    <3>2. o[1] \in Confirmed[c] => o \in UtxoAt[c]
      BY <1>1, <3>1, UtxoIff
    <3> QED
      BY <1>1, <2>3, <3>1, <3>2 DEF Available
  <2> QED
    BY <2>2, <2>3
<1>8. 0 \in P
  <2>1. Rest(0) = Range(vtx)
    BY <1>2
  <2>2. 0 \in 0..n /\ r[0] = p
    BY <1>2, <1>6
  <2> HIDE DEF Rest
  <2> QED
    BY <1>7, <2>1, <2>2
<1>9. ASSUME NEW j \in 1..n, j - 1 \in P PROVE j \in P
  <2>1. j \in 0..n /\ j - 1 \in 0..n
    BY <1>2
  <2>2. r[j - 1] \in S /\ vtx[j] \in Txs /\ r[j] = Resurrect(r[j - 1], fl, c, vtx[j])
    BY <1>2, <1>6, <2>1
  <2>3. Rest(j - 1) = Rest(j) \cup {vtx[j]}
    <3>1. \A i \in ((j - 1) + 1)..n : i = j \/ i \in (j + 1)..n
      BY <1>2
    <3>2. j \in ((j - 1) + 1)..n /\ \A i \in (j + 1)..n : i \in ((j - 1) + 1)..n
      BY <1>2
    <3> QED
      BY <3>1, <3>2
  <2> HIDE DEF Rest
  <2>4. /\ ~r[j].doubled => ~r[j - 1].doubled
        /\ ~r[j].doubled /\ InputsOrRest(r[j - 1], c, Rest(j) \cup {vtx[j]}) => InputsOrRest(r[j], c, Rest(j))
    <3> DEFINE x == r[j - 1]
               y == r[j]
               D == Rest(j)
               t == vtx[j]
    <3>1. Linked(x) /\ x.txs \cap Confirmed[c] = {}
      BY <2>2 DEF S
    <3>2. c \in Index /\ t \in Txs /\ y = Resurrect(x, fl, c, t)
      BY <1>1, <2>2
    <3> HIDE DEF x, y, D, t
    <3>3. /\ ~y.doubled => ~x.doubled
          /\ ~y.doubled /\ InputsOrRest(x, c, D \cup {t}) => InputsOrRest(y, c, D)
      BY <3>1, <3>2, ResurrectTurn
    <3> QED
      BY <3>3 DEF x, y, D, t
  <2> QED
    BY <1>9, <2>1, <2>3, <2>4
<1>10. n \in P
  <2> HIDE DEF P
  <2>1. 0..n \subseteq P
    BY <1>2, <1>8, <1>9, Climb
  <2> QED
    BY <1>2, <2>1
<1>11. Rest(n) = {}
  BY <1>2
<1> HIDE DEF Rest
<1>12. r[n] \in S
  BY <1>2, <1>6
<1>13. Linked(r[n]) /\ r[n].txs \cap Confirmed[c] = {}
  BY <1>12 DEF S
<1>14. Shrinks(r[n], q) /\ q.txs \cap Lost(r[n], fl, c) = {}
  BY <1>3, <1>13, CoinbaseSpendsFacts
<1>15. Linked(q) /\ q.txs \subseteq r[n].txs /\ q.doubled = r[n].doubled
  BY <1>14 DEF Shrinks
<1>16. ASSUME ~q.doubled, CanBeMined(p, old, b) PROVE CanBeMined(q, fl, c)
  <2>1. InputsThere(r[n], c)
    BY <1>10, <1>11, <1>15, <1>16 DEF InputsOrRest, InputsThere
  <2>2. /\ InputsThere(q, c)
        /\ \A t \in q.txs : Parents(t) \ q.txs = Parents(t) \ r[n].txs
    BY <1>14, <1>15, <1>16, <2>1, ShrinksInputs
  <2>3. \A t \in q.txs : \A u \in Parents(t) \ r[n].txs : ~Immature(fl, c, u)
    BY <1>14, <1>15 DEF Lost
  <2> QED
    BY <2>2, <2>3 DEF CanBeMined
<1> QED
  BY <1>10, <1>13, <1>15, <1>16 DEF c

-----------------------------------------------------------------------------
(* The inductive invariant, of the pool and the chain: ...                 *)
PoolPart ==
  /\ tip \in Index /\ Linked(Pool) /\ mapTx \cap Confirmed[tip] = {}
  /\ ~doubled => CanBeMined(Pool, flagless, tip)

(* What a step has to establish that leaves p as the pool.                 *)
LEMMA PoolStep ==
  ASSUME NEW p, SetPool(p), Linked(p), tip' \in Index, p.txs \cap Confirmed[tip'] = {},
         ~p.doubled => CanBeMined(p, flagless', tip')
  PROVE  PoolPart'
<1>1. p \in PoolType
  BY DEF Linked
<1>2. p = [txs |-> p.txs, next |-> p.next, doubled |-> p.doubled]
  BY <1>1 DEF PoolType
<1>3. Pool' = p
  BY <1>2 DEF SetPool, Pool
<1>4. mapTx' = p.txs /\ doubled' = p.doubled
  BY DEF SetPool
<1> QED
  BY <1>3, <1>4 DEF PoolPart

(* A step that leaves the chain and the pool alone.                        *)
LEMMA PoolStays ==
  ASSUME PoolPart, UNCHANGED <<tip, flagless, pool>>
  PROVE  PoolPart'
BY DEF PoolPart, pool, Pool

(* ConnectTip keeps this part, ...                                         *)
LEMMA PoolConnect ==
  ASSUME PoolPart, NEW b \in Blocks, ConnectTip(b)
  PROVE  PoolPart'
<1> DEFINE q == RemoveForBlock(Pool, Vtx[b])[Len(Vtx[b])]
<1>1. Prev[b] = tip /\ tip' = b /\ flagless' = flagless /\ SetPool(q)
  BY DEF ConnectTip
<1>2. Linked(Pool) /\ Pool.txs \cap Confirmed[Prev[b]] = {} /\ (~Pool.doubled => CanBeMined(Pool, flagless, Prev[b]))
  BY <1>1 DEF PoolPart, Pool
<1>3. b \in Index
  BY DEF Index
<1>4. /\ Linked(q) /\ q.txs \cap Confirmed[b] = {} /\ q.doubled = Pool.doubled
      /\ ~Pool.doubled /\ CanBeMined(Pool, flagless, Prev[b]) => CanBeMined(q, flagless, b)
  <2>1. q = RemoveForBlock(Pool, Vtx[b])[Len(Vtx[b])]
    OBVIOUS
  <2> HIDE DEF q
  <2> QED
    BY <1>2, <2>1, ConnectMined
<1> HIDE DEF q
<1> QED
  BY <1>1, <1>2, <1>3, <1>4, PoolStep

(* ... DisconnectTip, whatever could be put back or not, ...               *)
LEMMA PoolDisconnect ==
  ASSUME PoolPart, DisconnectTip
  PROVE  PoolPart'
<1> DEFINE fl == FlaglessAfter(tip)
           q == RemoveCoinbaseSpends(ResurrectBlock(Pool, fl, Prev[tip], Vtx[tip])[Len(Vtx[tip])], fl, Prev[tip])
<1>1. tip # Genesis /\ tip' = Prev[tip] /\ flagless' = fl /\ SetPool(q)
  BY DEF DisconnectTip
<1>2. Linked(Pool) /\ Pool.txs \cap Confirmed[tip] = {} /\ (~Pool.doubled => CanBeMined(Pool, flagless, tip))
  BY DEF PoolPart, Pool
<1>3. tip \in Blocks
  BY <1>1 DEF PoolPart, Index
<1>4. Prev[tip] \in Index
  BY <1>3, ConfirmedStep
<1>5. /\ Linked(q) /\ q.txs \cap Confirmed[Prev[tip]] = {} /\ (~q.doubled => ~Pool.doubled)
      /\ ~q.doubled /\ CanBeMined(Pool, flagless, tip) => CanBeMined(q, fl, Prev[tip])
  BY <1>2, <1>3, DisconnectMined
<1> HIDE DEF q
<1> QED
  BY <1>1, <1>2, <1>4, <1>5, PoolStep

(* ... and so does a completed SwiftTX lock.                               *)
LEMMA PoolLock ==
  ASSUME PoolPart, NEW t \in Loose, LockConflicts(t)
  PROVE  PoolPart'
<1> DEFINE q == RemoveConflicts(Pool, t)
<1>1. tip' = tip /\ flagless' = flagless /\ SetPool(q) /\ t \in Txs
  BY DEF LockConflicts, Txs, chain
<1>2. Linked(Pool) /\ Pool.txs \cap Confirmed[tip] = {} /\ (~Pool.doubled => CanBeMined(Pool, flagless, tip))
  BY DEF PoolPart, Pool
<1>3. Shrinks(Pool, q)
  BY <1>1, <1>2, ConflictsFacts
<1>4. tip \in Index
  BY DEF PoolPart
<1> HIDE DEF q
<1>5. Linked(q) /\ q.txs \subseteq Pool.txs /\ q.doubled = Pool.doubled
  BY <1>3 DEF Shrinks
<1>6. ~q.doubled => CanBeMined(q, flagless, tip)
  BY <1>2, <1>3, <1>5, ShrinksMined
<1> QED
  BY <1>1, <1>2, <1>4, <1>5, <1>6, PoolStep

(* A transaction accepted by AcceptToMemoryPool, on whatever way.          *)
LEMMA PoolAccept ==
  ASSUME PoolPart, NEW t \in Loose, Verdict(Pool, flagless, tip, t) = "accepted",
         UNCHANGED chain, SetPool(AddUnchecked(Pool, t))
  PROVE  PoolPart'
<1> DEFINE q == AddUnchecked(Pool, t)
<1>1. tip \in Index /\ SetPool(q) /\ tip' = tip /\ flagless' = flagless
  BY DEF PoolPart, chain
<1>2. Linked(Pool) /\ Pool.txs \cap Confirmed[tip] = {} /\ (~Pool.doubled => CanBeMined(Pool, flagless, tip))
  BY DEF PoolPart, Pool
<1>3. Linked(q) /\ q.txs = Pool.txs \cup {t} /\ (~q.doubled => ~Pool.doubled)
  BY <1>2, AddLinked
<1>4. t \notin Confirmed[tip]
  BY <1>1, <1>2, AcceptedFacts
<1>5. ~q.doubled => CanBeMined(q, flagless, tip)
  BY <1>1, <1>2, <1>3, AddMined
<1> HIDE DEF q
<1>6. q.txs \cap Confirmed[tip] = {}
  BY <1>2, <1>3, <1>4
<1> QED
  BY <1>1, <1>3, <1>5, <1>6, PoolStep

-----------------------------------------------------------------------------
(* ... of the orphans and their index, ...                                 *)
OrphanPart ==
  /\ orphans \in [DOMAIN orphans -> Peers] /\ DOMAIN orphans \subseteq Loose
  /\ Cardinality(DOMAIN orphans) <= MaxOrphans /\ OrphanIndexExact

(* OrphanIndexExact of any set of orphans and any index.                   *)
Exact(os, by) ==
  /\ \A o \in os : \A u \in Parents(o) : u \in DOMAIN by /\ o \in by[u]
  /\ \A u \in DOMAIN by : by[u] # {} /\ \A o \in by[u] : o \in os /\ u \in Parents(o)

(* The property is the instance for the state.                             *)
LEMMA ExactIs ==
  OrphanIndexExact <=> Exact(DOMAIN orphans, byPrev)
BY DEF OrphanIndexExact, Exact, OrphansOf

(* AddOrphanTx enters an orphan under each of its parents.                 *)
LEMMA ExactWith ==
  ASSUME OrphanIndexExact, NEW t
  PROVE  Exact(DOMAIN orphans \cup {t}, ByPrevWith(t))
<1> DEFINE by == ByPrevWith(t)
<1>1. /\ DOMAIN by = DOMAIN byPrev \cup Parents(t)
      /\ \A u \in DOMAIN by : by[u] = OrphansOf(u) \cup (IF u \in Parents(t) THEN {t} ELSE {})
  BY DEF ByPrevWith
<1>2. Exact(DOMAIN orphans, byPrev)
  BY ExactIs
<1> HIDE DEF by
<1>3. \A u \in DOMAIN by : \A o : o \in by[u] <=> (u \in DOMAIN byPrev /\ o \in byPrev[u]) \/ (u \in Parents(t) /\ o = t)
  BY <1>1 DEF OrphansOf
<1>4. \A o \in DOMAIN orphans \cup {t} : \A u \in Parents(o) : u \in DOMAIN by /\ o \in by[u]
  BY <1>1, <1>2, <1>3 DEF Exact
<1>5. ASSUME NEW u \in DOMAIN by PROVE by[u] # {} /\ \A o \in by[u] : o \in DOMAIN orphans \cup {t} /\ u \in Parents(o)
  <2>1. \A o \in by[u] : o \in DOMAIN orphans \cup {t} /\ u \in Parents(o)
    BY <1>2, <1>3, <1>5 DEF Exact
  <2>2. by[u] # {}
    <3>1. CASE u \in Parents(t)
      BY <1>3, <1>5, <3>1
    <3>2. CASE u \notin Parents(t)
      <4>1. u \in DOMAIN byPrev /\ byPrev[u] # {}
        BY <1>1, <1>2, <1>5, <3>2 DEF Exact
      <4> QED
        BY <1>3, <1>5, <4>1
    <3> QED
      BY <3>1, <3>2
  <2> QED
    BY <2>1, <2>2
<1> QED
  BY <1>4, <1>5 DEF Exact, by

(* Erasing orphans takes them out under all their parents.                 *)
LEMMA ExactWithout ==
  ASSUME NEW os, NEW by, NEW S, Exact(os, by)
  PROVE  Exact(os \ S, ByPrevWithout(by, S))
<1> DEFINE kept == ByPrevWithout(by, S)
<1>1. /\ DOMAIN kept = {u \in DOMAIN by : ~(by[u] \subseteq S)}
      /\ \A u \in DOMAIN kept : kept[u] = by[u] \ S
  BY DEF ByPrevWithout
<1> HIDE DEF kept
<1>2. \A o \in os \ S : \A u \in Parents(o) : u \in DOMAIN kept /\ o \in kept[u]
  BY <1>1 DEF Exact
<1>3. \A u \in DOMAIN kept : kept[u] # {} /\ \A o \in kept[u] : o \in os \ S /\ u \in Parents(o)
  BY <1>1 DEF Exact
<1> QED
  BY <1>2, <1>3 DEF Exact, kept

(* LimitOrphanTxSize leaves no more than it may.                           *)
LEMMA EvictionsFacts ==
  ASSUME NEW os \in SUBSET Loose, NEW S \in Evictions(os)
  PROVE  Cardinality(os \ S) <= MaxOrphans
<1>1. IsFiniteSet(os) /\ MaxOrphans \in Nat
  BY MempoolAssumption, FS_Subset
<1>2. CASE Cardinality(os) <= MaxOrphans
  <2>1. S = {}
    BY <1>2 DEF Evictions
  <2>2. os \ S = os
    BY <2>1
  <2> QED
    BY <1>2, <2>2
<1>3. CASE ~(Cardinality(os) <= MaxOrphans)
  <2>1. Cardinality(os \ S) = MaxOrphans
    BY <1>3 DEF Evictions
  <2> QED
    BY <1>1, <2>1
<1> QED
  BY <1>2, <1>3

(* Erasing orphans leaves no more.                                         *)
LEMMA FewerOrphans ==
  ASSUME NEW os \in SUBSET Loose, Cardinality(os) <= MaxOrphans, NEW S
  PROVE  Cardinality(os \ S) <= MaxOrphans
<1>1. IsFiniteSet(os) /\ MaxOrphans \in Nat
  BY MempoolAssumption, FS_Subset
<1>2. Cardinality(os \ S) <= Cardinality(os) /\ Cardinality(os) \in Nat /\ Cardinality(os \ S) \in Nat
  BY <1>1, FS_Subset, FS_CardinalityType
<1> QED
  BY <1>1, <1>2

(* EraseOrphanTx, for whatever set of orphans, keeps this part, ...        *)
LEMMA OrphansErased ==
  ASSUME OrphanPart, NEW S, EraseOrphans(S)
  PROVE  OrphanPart' /\ DOMAIN orphans' = DOMAIN orphans \ S /\ \A o \in DOMAIN orphans' : orphans'[o] = orphans[o]
<1>1. orphans' = Erase(orphans, S) /\ byPrev' = ByPrevWithout(byPrev, S)
  BY DEF EraseOrphans
<1>2. DOMAIN orphans' = DOMAIN orphans \ S /\ \A o \in DOMAIN orphans' : orphans'[o] = orphans[o]
  BY <1>1 DEF Erase
<1>3. orphans' \in [DOMAIN orphans' -> Peers]
  BY <1>1, <1>2 DEF Erase, OrphanPart
<1>4. Exact(DOMAIN orphans', byPrev')
  BY <1>1, <1>2, ExactIs, ExactWithout DEF OrphanPart
<1>5. OrphanIndexExact'
  BY <1>4 DEF OrphanIndexExact, Exact, OrphansOf
<1>6. Cardinality(DOMAIN orphans') <= MaxOrphans
  BY <1>2, FewerOrphans DEF OrphanPart
<1> QED
  BY <1>2, <1>3, <1>5, <1>6 DEF OrphanPart

(* ... and so does AddOrphanTx with the limit after it.                    *)
LEMMA OrphanAdded ==
  ASSUME OrphanPart, NEW t \in Loose, NEW peer \in Peers,
         NEW S \in Evictions(DOMAIN orphans \cup {t}),
         orphans' = Erase(OrphansWith(t, peer), S), byPrev' = ByPrevWithout(ByPrevWith(t), S)
  PROVE  OrphanPart'
<1> DEFINE os == DOMAIN orphans \cup {t}
<1>1. os \in SUBSET Loose /\ S \in Evictions(os)
  BY DEF OrphanPart
<1>2. DOMAIN OrphansWith(t, peer) = os /\ \A o \in os : OrphansWith(t, peer)[o] \in Peers
  BY DEF OrphansWith, OrphanPart
<1>3. DOMAIN orphans' = os \ S /\ orphans' \in [os \ S -> Peers]
  BY <1>2 DEF Erase
<1>4. Exact(os \ S, byPrev')
  BY ExactWith, ExactWithout DEF OrphanPart
<1> HIDE DEF os
<1>5. OrphanIndexExact'
  BY <1>3, <1>4 DEF OrphanIndexExact, Exact, OrphansOf
<1>6. Cardinality(os \ S) <= MaxOrphans
  BY <1>1, EvictionsFacts
<1> QED
  BY <1>1, <1>3, <1>5, <1>6 DEF OrphanPart

-----------------------------------------------------------------------------
(* ... and of the "tx" message in progress: an orphan that depends on an   *)
(* accepted transaction is dealt with, still misses something, or its turn *)
(* is to come.                                                             *)
RelayType ==
  [queue : Seq(Loose), todo : SUBSET Loose, erase : SUBSET Loose, naughty : SUBSET Peers,
   accepted : SUBSET Loose]

Handled(o) ==
  \/ o \in relay.erase \cup relay.todo
  \/ orphans[o] \in relay.naughty
  \/ Verdict(Pool, flagless, tip, o) = "missing"
  \/ Parents(o) \cap Range(Tail(relay.queue)) # {}

RelayPart ==
  /\ relay \in RelayType /\ (Idle => relay = NoRelay)
  /\ Range(relay.queue) \subseteq relay.accepted /\ relay.todo \subseteq DOMAIN orphans
  /\ ~Idle => \A o \in DOMAIN orphans : Parents(o) \cap relay.accepted # {} => Handled(o)

(* One more element at the end of a sequence.                              *)
LEMMA AppendFacts ==
  ASSUME NEW X, NEW s \in Seq(X), s # <<>>, NEW e \in X
  PROVE  /\ Append(s, e) \in Seq(X) /\ Append(s, e) # <<>>
         /\ Range(Append(s, e)) = Range(s) \cup {e}
         /\ Range(Tail(Append(s, e))) = Range(Tail(s)) \cup {e}
<1>1. \A r \in Seq(X) : Append(r, e) \in Seq(X) /\ Append(r, e) # <<>> /\ Append(r, e) = r \o <<e>>
  OBVIOUS
<1>2. <<e>> \in Seq(X) /\ Range(<<e>>) = {e}
  BY DEF Range
<1>3. ASSUME NEW r \in Seq(X) PROVE Range(Append(r, e)) = Range(r) \cup {e}
  <2> DEFINE one == <<e>>
  <2>1. Append(r, e) = r \o one /\ one \in Seq(X) /\ Range(one) = {e}
    BY <1>1, <1>2
  <2> HIDE DEF one
  <2>2. Range(r \o one) = Range(r) \cup Range(one)
    BY <2>1, RangeConcat
  <2> QED
    BY <2>1, <2>2
<1>4. Tail(s) \in Seq(X) /\ Tail(Append(s, e)) = Append(Tail(s), e)
  OBVIOUS
<1> QED
  BY <1>1, <1>3, <1>4

(* Accepting t changes nothing for who does not depend on it.              *)
LEMMA MissingStays ==
  ASSUME NEW p, Linked(p), NEW fl, NEW b, NEW t \in Loose, NEW o, o # t, t \notin Parents(o),
         Verdict(p, fl, b, o) = "missing"
  PROVE  Verdict(AddUnchecked(p, t), fl, b, o) = "missing"
<1> DEFINE q == AddUnchecked(p, t)
<1>1. q.txs = p.txs \cup {t}
  BY AddLinked
<1>2. o \notin p.txs /\ ~HaveCoins(b, o) /\ \E u \in Parents(o) : ~HaveCoinsOrTx(p, b, u)
  BY DEF Verdict
<1> HIDE DEF q
<1>3. \E u \in Parents(o) : ~HaveCoinsOrTx(q, b, u)
  BY <1>1, <1>2 DEF HaveCoinsOrTx
<1>4. Verdict(q, fl, b, o) = "missing"
  BY <1>1, <1>2, <1>3 DEF Verdict
<1> QED
  BY <1>4 DEF q

(* No "tx" message in progress before and after a step.                    *)
LEMMA RelayIdle ==
  ASSUME RelayPart, Idle \/ relay' = NoRelay, relay' = relay \/ relay' = NoRelay
  PROVE  RelayPart'
<1>1. relay' = NoRelay
  BY DEF RelayPart
<1>2. NoRelay \in RelayType
  BY DEF NoRelay, RelayType
<1>3. NoRelay.queue = <<>> /\ NoRelay.todo = {} /\ Range(NoRelay.queue) = {}
  BY DEF NoRelay, Range
<1> QED
  BY <1>1, <1>2, <1>3 DEF RelayPart, Idle

(* The work queue starts with the transaction of the message, ...          *)
LEMMA RelayStart ==
  ASSUME OrphanPart, NEW t \in Loose, orphans' = orphans,
         relay' = [NoRelay EXCEPT !.queue = <<t>>, !.todo = OrphansOf(t), !.accepted = {t}]
  PROVE  RelayPart'
<1>1. /\ relay'.queue = <<t>> /\ relay'.todo = OrphansOf(t) /\ relay'.accepted = {t}
      /\ relay' = [queue |-> <<t>>, todo |-> OrphansOf(t), erase |-> {}, naughty |-> {}, accepted |-> {t}]
  BY DEF NoRelay
<1>2. OrphansOf(t) \subseteq DOMAIN orphans /\ OrphansOf(t) \subseteq Loose
  BY DEF OrphanPart, OrphanIndexExact, OrphansOf
<1>3. <<t>> \in Seq(Loose) /\ <<t>> # <<>> /\ Range(<<t>>) = {t}
  BY DEF Range
<1>4. relay' \in RelayType
  <2> DEFINE one == <<t>>
  <2>1. relay' = [queue |-> one, todo |-> OrphansOf(t), erase |-> {}, naughty |-> {}, accepted |-> {t}]
    BY <1>1
  <2>2. one \in Seq(Loose) /\ OrphansOf(t) \in SUBSET Loose /\ {t} \in SUBSET Loose
    BY <1>2, <1>3
  <2> HIDE DEF one
  <2> QED
    BY <2>1, <2>2 DEF RelayType
<1>5. \A o \in DOMAIN orphans : t \in Parents(o) => o \in OrphansOf(t)
  BY DEF OrphanPart, OrphanIndexExact
<1>6. \A o \in DOMAIN orphans' : Parents(o) \cap relay'.accepted # {} => o \in relay'.todo
  BY <1>1, <1>5
<1> QED
  BY <1>1, <1>2, <1>3, <1>4, <1>6 DEF RelayPart, Idle, Handled

(* ... goes on to the next one accepted, ...                               *)
LEMMA RelayNext ==
  ASSUME PoolPart, OrphanPart, RelayPart, NextInQueue
  PROVE  RelayPart'
<1> DEFINE s == relay.queue
<1>1. relay.todo = {} /\ Len(s) > 1 /\ relay \in RelayType /\ s \in Seq(Loose)
  BY DEF NextInQueue, RelayPart, RelayType
<1>2. relay' = [relay EXCEPT !.queue = Tail(s), !.todo = OrphansOf(s[2])]
  BY DEF NextInQueue
<1>3. /\ s # <<>> /\ Tail(s) \in Seq(Loose) /\ Tail(s) # <<>> /\ Head(Tail(s)) = s[2]
  BY <1>1
<1>4. Range(Tail(s)) = {s[2]} \cup Range(Tail(Tail(s))) /\ Range(s) = {Head(s)} \cup Range(Tail(s))
  BY <1>1, <1>3, RangeFacts
<1>5. OrphansOf(s[2]) \subseteq DOMAIN orphans /\ OrphansOf(s[2]) \subseteq Loose
  BY DEF OrphanPart, OrphanIndexExact, OrphansOf
<1>6. /\ relay'.queue = Tail(s) /\ relay'.todo = OrphansOf(s[2]) /\ relay'.accepted = relay.accepted
      /\ relay'.erase = relay.erase /\ relay'.naughty = relay.naughty
  BY <1>1, <1>2 DEF RelayType
<1>7. relay' \in RelayType
  BY <1>1, <1>2, <1>3, <1>5 DEF RelayType
<1>8. orphans' = orphans /\ Pool' = Pool /\ tip' = tip /\ flagless' = flagless
  BY DEF NextInQueue, pool, Pool, chain
<1>9. \A o \in DOMAIN orphans : Parents(o) \cap relay.accepted # {} => Handled(o)
  BY <1>3 DEF RelayPart, Idle
<1>10. \A o \in DOMAIN orphans : s[2] \in Parents(o) => o \in OrphansOf(s[2])
  BY DEF OrphanPart, OrphanIndexExact
<1> HIDE DEF s
<1>11. ASSUME NEW o \in DOMAIN orphans, Parents(o) \cap relay.accepted # {} PROVE Handled(o)'
  <2>1. Handled(o)
    BY <1>9, <1>11
  <2>2. CASE Parents(o) \cap Range(Tail(s)) = {}
    BY <1>1, <1>6, <1>8, <2>1, <2>2 DEF Handled, s
  <2>3. CASE Parents(o) \cap Range(Tail(s)) # {}
    BY <1>4, <1>6, <1>10, <2>3 DEF Handled
  <2> QED
    BY <2>2, <2>3
<1>12. Range(relay'.queue) \subseteq relay'.accepted
  BY <1>4, <1>6 DEF RelayPart, s
<1> QED
  BY <1>3, <1>5, <1>6, <1>7, <1>8, <1>11, <1>12 DEF RelayPart, Idle

(* ... and looks at the orphans of the one in hand.                        *)
LEMMA RelayVisit ==
  ASSUME PoolPart, OrphanPart, RelayPart, NEW o \in Loose, VisitOrphan(o)
  PROVE  RelayPart'
<1> DEFINE s == relay.queue
           verdict == IF orphans[o] \in relay.naughty THEN "missing" ELSE Verdict(Pool, flagless, tip, o)
           seen == [relay EXCEPT !.todo = @ \ {o}]
<1>1. o \in relay.todo /\ orphans' = orphans /\ tip' = tip /\ flagless' = flagless /\ relay \in RelayType
  BY DEF VisitOrphan, RelayPart, chain
<1>2. /\ s \in Seq(Loose) /\ relay.erase \in SUBSET Loose /\ relay.naughty \in SUBSET Peers
      /\ relay.accepted \in SUBSET Loose /\ Range(s) \subseteq relay.accepted
  BY <1>1 DEF RelayPart, RelayType
<1>3. s # <<>> /\ ~Idle
  BY <1>1 DEF RelayPart, NoRelay, Idle
<1>4. o \in DOMAIN orphans /\ orphans[o] \in Peers
  BY <1>1 DEF RelayPart, OrphanPart
<1>5. \A x \in DOMAIN orphans : Parents(x) \cap relay.accepted # {} =>
        \/ x \in relay.erase \cup relay.todo \/ orphans[x] \in relay.naughty
        \/ Verdict(Pool, flagless, tip, x) = "missing" \/ Parents(x) \cap Range(Tail(s)) # {}
  BY <1>3 DEF RelayPart, Handled
<1>6. seen = [queue |-> s, todo |-> relay.todo \ {o}, erase |-> relay.erase, naughty |-> relay.naughty,
              accepted |-> relay.accepted]
  <2>1. relay = [queue |-> relay.queue, todo |-> relay.todo, erase |-> relay.erase,
                 naughty |-> relay.naughty, accepted |-> relay.accepted]
    BY <1>1 DEF RelayType
  <2> QED
    BY <2>1
<1>7. CASE /\ verdict = "accepted" /\ SetPool(AddUnchecked(Pool, o))
           /\ relay' = [seen EXCEPT !.queue = QueueAfter(o), !.erase = @ \cup {o}, !.accepted = @ \cup {o}]
  <2> DEFINE r == Append(s, o)
             E == relay.erase \cup {o}
             N == relay.naughty
             A == relay.accepted \cup {o}
             q == AddUnchecked(Pool, o)
  <2>1. relay' = [queue |-> r, todo |-> relay.todo \ {o}, erase |-> E, naughty |-> N, accepted |-> A]
    BY <1>6, <1>7 DEF QueueAfter
  <2>2. r \in Seq(Loose) /\ r # <<>> /\ Range(r) = Range(s) \cup {o} /\ Range(Tail(r)) = Range(Tail(s)) \cup {o}
    BY <1>2, <1>3, AppendFacts
  <2>3. Range(r) \subseteq A /\ E \in SUBSET Loose /\ N \in SUBSET Peers /\ A \in SUBSET Loose
    BY <1>2, <2>2
  <2>4. Linked(Pool)
    BY DEF PoolPart
  <2>5. Pool' = q
    <3>1. Linked(q) /\ SetPool(q)
      BY <1>7, <2>4, AddLinked
    <3> HIDE DEF q
    <3>2. q = [txs |-> q.txs, next |-> q.next, doubled |-> q.doubled]
      BY <3>1 DEF Linked, PoolType
    <3> QED
      BY <3>1, <3>2 DEF SetPool, Pool
  <2>6. ASSUME NEW x \in DOMAIN orphans, Parents(x) \cap A # {}
        PROVE  \/ x \in E \cup (relay.todo \ {o}) \/ orphans[x] \in N
               \/ Verdict(Pool', flagless', tip', x) = "missing" \/ Parents(x) \cap Range(Tail(r)) # {}
    <3>1. CASE x = o
      BY <3>1
    <3>2. CASE o \in Parents(x)
      <4> HIDE DEF r, E, N
      <4> QED
        BY <2>2, <3>2
    <3>3. CASE x # o /\ o \notin Parents(x)
      <4>1. \/ x \in relay.erase \cup relay.todo \/ orphans[x] \in relay.naughty
            \/ Verdict(Pool, flagless, tip, x) = "missing" \/ Parents(x) \cap Range(Tail(s)) # {}
        BY <1>5, <2>6, <3>3
      <4>2. Verdict(Pool, flagless, tip, x) = "missing" => Verdict(q, flagless, tip, x) = "missing"
        BY <2>4, <3>3, MissingStays
      <4> HIDE DEF r, q
      <4> QED
        BY <1>1, <2>2, <2>5, <3>3, <4>1, <4>2
    <3> QED
      BY <3>1, <3>2, <3>3
  <2> HIDE DEF r, E, N, A
  <2>7. relay.todo \ {o} \in SUBSET Loose /\ relay.todo \ {o} \subseteq DOMAIN orphans
    BY <1>1 DEF RelayPart, RelayType
  <2>8. /\ relay'.queue = r /\ relay'.todo = relay.todo \ {o} /\ relay'.erase = E
        /\ relay'.naughty = N /\ relay'.accepted = A
    BY <2>1
  <2>9. relay' \in RelayType
    BY <2>1, <2>2, <2>3, <2>7 DEF RelayType
  <2>10. ASSUME NEW x \in DOMAIN orphans', Parents(x) \cap relay'.accepted # {} PROVE Handled(x)'
    BY <1>1, <2>6, <2>8, <2>10 DEF Handled
  <2> QED
    BY <1>1, <2>2, <2>3, <2>7, <2>8, <2>9, <2>10 DEF RelayPart, Idle
<1>8. CASE /\ verdict \in {"missing", "refused", "punished"} /\ UNCHANGED pool
           /\ \/ verdict = "missing" /\ relay' = seen
              \/ verdict = "refused" /\ relay' = [seen EXCEPT !.erase = @ \cup {o}]
              \/ /\ verdict = "punished"
                 /\ relay' = [seen EXCEPT !.erase = @ \cup {o}, !.naughty = @ \cup {orphans[o]}]
  <2> DEFINE E == IF verdict = "missing" THEN relay.erase ELSE relay.erase \cup {o}
             N == IF verdict = "punished" THEN relay.naughty \cup {orphans[o]} ELSE relay.naughty
             A == relay.accepted
  <2>1. relay' = [queue |-> s, todo |-> relay.todo \ {o}, erase |-> E, naughty |-> N, accepted |-> A]
    BY <1>6, <1>8
  <2>2. E \in SUBSET Loose /\ N \in SUBSET Peers /\ relay.erase \subseteq E /\ relay.naughty \subseteq N
    BY <1>2, <1>4
  <2>3. o \in E \/ orphans[o] \in N \/ Verdict(Pool, flagless, tip, o) = "missing"
    BY <1>8
  <2>4. Pool' = Pool
    BY <1>8 DEF pool, Pool
  <2> HIDE DEF E, N, verdict, seen
  <2>5. ASSUME NEW x \in DOMAIN orphans, Parents(x) \cap A # {}
        PROVE  \/ x \in E \cup (relay.todo \ {o}) \/ orphans[x] \in N
               \/ Verdict(Pool', flagless', tip', x) = "missing" \/ Parents(x) \cap Range(Tail(s)) # {}
    BY <1>1, <1>5, <2>2, <2>3, <2>4, <2>5
  <2>6. A \in SUBSET Loose /\ Range(s) \subseteq A
    BY <1>2
  <2> HIDE DEF s, A
  <2>7. relay.todo \ {o} \in SUBSET Loose /\ relay.todo \ {o} \subseteq DOMAIN orphans
    BY <1>1 DEF RelayPart, RelayType
  <2>8. /\ relay'.queue = s /\ relay'.todo = relay.todo \ {o} /\ relay'.erase = E
        /\ relay'.naughty = N /\ relay'.accepted = A
    BY <2>1
  <2>9. relay' \in RelayType
    BY <1>2, <2>1, <2>2, <2>6, <2>7 DEF RelayType
  <2>10. ASSUME NEW x \in DOMAIN orphans', Parents(x) \cap relay'.accepted # {} PROVE Handled(x)'
    BY <1>1, <2>5, <2>8, <2>10 DEF Handled
  <2> QED
    BY <1>1, <1>3, <2>6, <2>7, <2>8, <2>9, <2>10 DEF RelayPart, Idle
<1> QED
  BY <1>7, <1>8 DEF VisitOrphan

-----------------------------------------------------------------------------
(* The whole of it.                                                        *)
PoolInv == PoolPart /\ OrphanPart /\ RelayPart

(* A step that leaves the orphans alone.                                   *)
LEMMA OrphansStay ==
  ASSUME OrphanPart, UNCHANGED <<orphans, byPrev>>
  PROVE  OrphanPart'
BY DEF OrphanPart, OrphanIndexExact, OrphansOf

(* It holds at the start, ...                                              *)
LEMMA PoolInvInit ==
  ASSUME PoolInit
  PROVE  PoolInv
<1> DEFINE empty == <<>>
<1>1. empty \in [{} -> Loose] /\ DOMAIN empty = {} /\ empty \in [{} -> Peers] /\ Range(empty) = {}
  BY DEF Range
<1>2. /\ tip = Genesis /\ flagless = {} /\ mapTx = {} /\ mapNextTx = empty /\ doubled = FALSE
      /\ orphans = empty /\ byPrev = empty /\ relay = NoRelay
  BY DEF PoolInit
<1> HIDE DEF empty
<1>3. empty \in Nexts
  BY <1>1, NextsIff
<1>4. Pool \in PoolType /\ Pool.txs = {} /\ Pool.next = empty
  BY <1>2, <1>3 DEF Pool, PoolType
<1>5. Linked(Pool)
  BY <1>1, <1>4 DEF Linked, PointsIntoPool, AllEntered
<1>6. PoolPart
  BY <1>2, <1>4, <1>5 DEF PoolPart, Index, CanBeMined, InputsThere
<1>7. OrphanPart
  BY <1>1, <1>2, FS_EmptySet, MempoolAssumption DEF OrphanPart, OrphanIndexExact
<1>8. RelayPart
  <2>1. NoRelay \in RelayType /\ NoRelay.queue = <<>> /\ NoRelay.todo = {} /\ Range(NoRelay.queue) = {}
    BY DEF NoRelay, RelayType, Range
  <2> QED
    BY <1>2, <2>1 DEF RelayPart, Idle
<1> QED
  BY <1>6, <1>7, <1>8 DEF PoolInv

(* ... and every step keeps it.                                            *)
LEMMA PoolInvStep ==
  ASSUME PoolInv, [PoolNext]_poolVars
  PROVE  PoolInv'
<1> USE DEF PoolInv
<1>1. ASSUME NEW b \in Blocks, ConnectTip(b) PROVE PoolInv'
  <2>1. UNCHANGED <<orphans, byPrev>> /\ Idle /\ relay' = relay
    BY <1>1 DEF ConnectTip
  <2> QED
    BY <1>1, <2>1, PoolConnect, OrphansStay, RelayIdle
<1>2. ASSUME DisconnectTip PROVE PoolInv'
  <2>1. UNCHANGED <<orphans, byPrev>> /\ Idle /\ relay' = relay
    BY <1>2 DEF DisconnectTip
  <2> QED
    BY <1>2, <2>1, PoolDisconnect, OrphansStay, RelayIdle
<1>3. ASSUME NEW t \in Loose, LockConflicts(t) PROVE PoolInv'
  <2>1. UNCHANGED <<orphans, byPrev>> /\ Idle /\ relay' = relay
    BY <1>3 DEF LockConflicts
  <2> QED
    BY <1>3, <2>1, PoolLock, OrphansStay, RelayIdle
<1>4. ASSUME NEW t \in Loose, WalletTx(t) PROVE PoolInv'
  <2>1. UNCHANGED <<orphans, byPrev>> /\ Idle /\ relay' = relay
    BY <1>4 DEF WalletTx
  <2>2. Verdict(Pool, flagless, tip, t) = "accepted" /\ SetPool(AddUnchecked(Pool, t)) /\ UNCHANGED chain
    BY <1>4 DEF WalletTx, chain
  <2> QED
    BY <2>1, <2>2, PoolAccept, OrphansStay, RelayIdle
<1>5. ASSUME NEW t \in Loose, VisitOrphan(t) PROVE PoolInv'
  <2>1. UNCHANGED <<orphans, byPrev>> /\ UNCHANGED chain
    BY <1>5 DEF VisitOrphan, chain
  <2>2. \/ Verdict(Pool, flagless, tip, t) = "accepted" /\ SetPool(AddUnchecked(Pool, t))
        \/ UNCHANGED pool
    BY <1>5 DEF VisitOrphan
  <2>3. PoolPart'
    BY <2>1, <2>2, PoolAccept, PoolStays DEF chain
  <2> QED
    BY <1>5, <2>1, <2>3, OrphansStay, RelayVisit
<1>6. ASSUME NEW t \in Loose, NEW peer \in Peers, TxMessage(t, peer) PROVE PoolInv'
  <2>1. UNCHANGED chain /\ Idle
    BY <1>6 DEF TxMessage, chain
  <2>2. CASE /\ Verdict(Pool, flagless, tip, t) = "accepted" /\ SetPool(AddUnchecked(Pool, t))
             /\ relay' = [NoRelay EXCEPT !.queue = <<t>>, !.todo = OrphansOf(t), !.accepted = {t}]
             /\ UNCHANGED <<orphans, byPrev>>
    <3>1. PoolPart'
      BY <2>1, <2>2, PoolAccept
    <3>2. OrphanPart'
      BY <2>2, OrphansStay
    <3>3. RelayPart'
      BY <2>2, RelayStart
    <3> QED
      BY <3>1, <3>2, <3>3
  <2>3. CASE /\ \E S \in Evictions(DOMAIN orphans \cup {t}) :
                  /\ orphans' = Erase(OrphansWith(t, peer), S)
                  /\ byPrev' = ByPrevWithout(ByPrevWith(t), S)
             /\ UNCHANGED <<pool, relay>>
    BY <2>1, <2>3, PoolStays, OrphanAdded, RelayIdle DEF chain
  <2> QED
    BY <1>6, <2>2, <2>3 DEF TxMessage
<1>7. ASSUME NextInQueue PROVE PoolInv'
  <2>1. UNCHANGED <<tip, flagless, pool>> /\ UNCHANGED <<orphans, byPrev>>
    BY <1>7 DEF NextInQueue, chain
  <2> QED
    BY <1>7, <2>1, PoolStays, OrphansStay, RelayNext
<1>8. ASSUME QueueDone PROVE PoolInv'
  <2>1. UNCHANGED <<tip, flagless, pool>> /\ EraseOrphans(relay.erase) /\ relay' = NoRelay
    BY <1>8 DEF QueueDone, chain
  <2> QED
    BY <2>1, PoolStays, OrphansErased, RelayIdle
<1>9. ASSUME NEW peer \in Peers, EraseOrphansFor(peer) PROVE PoolInv'
  <2> DEFINE S == {o \in DOMAIN orphans : orphans[o] = peer}
  <2>1. UNCHANGED <<tip, flagless, pool>> /\ EraseOrphans(S) /\ Idle /\ relay' = relay
    BY <1>9 DEF EraseOrphansFor, chain
  <2> HIDE DEF S
  <2> QED
    BY <2>1, PoolStays, OrphansErased, RelayIdle
<1>10. ASSUME UNCHANGED poolVars PROVE PoolInv'
  <2>1. UNCHANGED <<tip, flagless, pool>> /\ UNCHANGED <<orphans, byPrev>> /\ relay' = relay
    BY <1>10 DEF poolVars, chain
  <2>2. RelayPart'
    BY <2>1 DEF RelayPart, Idle, Handled, Pool, pool
  <2> QED
    BY <2>1, <2>2, PoolStays, OrphansStay
<1> QED
  BY <1>1, <1>2, <1>3, <1>4, <1>5, <1>6, <1>7, <1>8, <1>9, <1>10 DEF PoolNext

(* The work of the queue: when it is done, the orphans that are left and   *)
(* depend on an accepted transaction still miss something.                 *)
LEMMA QueueLeaves ==
  ASSUME PoolInv, QueueDone
  PROVE  \A o \in DOMAIN orphans' :
           Parents(o) \cap relay.accepted # {} /\ orphans[o] \notin relay.naughty =>
             Verdict(Pool, flagless, tip, o) = "missing"
<1> SUFFICES ASSUME NEW o \in DOMAIN orphans', Parents(o) \cap relay.accepted # {},
                    orphans[o] \notin relay.naughty
             PROVE  Verdict(Pool, flagless, tip, o) = "missing"
  OBVIOUS
<1>1. relay.todo = {} /\ Len(relay.queue) = 1 /\ EraseOrphans(relay.erase)
  BY DEF QueueDone
<1>2. o \in DOMAIN orphans /\ o \notin relay.erase
  BY <1>1 DEF EraseOrphans, Erase
<1>3. relay.queue \in Seq(Loose) /\ relay.queue # <<>>
  BY <1>1 DEF PoolInv, RelayPart, RelayType
<1>4. Range(Tail(relay.queue)) = {}
  <2> DEFINE s == Tail(relay.queue)
  <2>1. Len(s) = 0 /\ s \in Seq(Loose)
    BY <1>1, <1>3
  <2> HIDE DEF s
  <2>2. DOMAIN s = 1..Len(s) /\ \A i \in 1..Len(s) : FALSE
    BY <2>1
  <2>3. Range(s) = {}
    BY <2>2 DEF Range
  <2> QED
    BY <2>3 DEF s
<1>5. Handled(o)
  BY <1>2, <1>3 DEF PoolInv, RelayPart, Idle
<1> QED
  BY <1>1, <1>2, <1>4, <1>5 DEF Handled

(* The inductive invariant holds in every reachable state.                 *)
LEMMA PoolInvAlways ==
  PoolSpec => []PoolInv
<1>1. PoolInit => PoolInv
  BY PoolInvInit
<1>2. PoolInv /\ [PoolNext]_poolVars => PoolInv'
  BY PoolInvStep
<1> QED
  BY <1>1, <1>2, PTL DEF PoolSpec

(* mapTx, mapNextTx and the active chain always agree: without double      *)
(* spends every input of the pool is entered for its own spender,          *)
(* mapNextTx never points to a transaction that is gone, no transaction of *)
(* the pool is confirmed, and no more than MaxOrphans orphans are kept.    *)
THEOREM PoolAlwaysConsistent ==
  PoolSpec => []PoolConsistent
<1>1. ASSUME PoolInv PROVE PoolConsistent
  <2>1. /\ tip \in Index /\ mapTx \cap Confirmed[tip] = {}
        /\ Pool \in PoolType /\ PointsIntoPool(Pool) /\ (~Pool.doubled => AllEntered(Pool))
    BY <1>1 DEF PoolInv, PoolPart, Linked
  <2>2. Pool.txs = mapTx /\ Pool.next = mapNextTx /\ Pool.doubled = doubled
    BY DEF Pool
  <2>3. mapTx \subseteq Loose /\ mapNextTx \in Nexts
    BY <2>1, <2>2 DEF PoolType
  <2>4. DOMAIN mapNextTx \subseteq Outpoints
    BY <2>3, NextsIff
  <2>5. PoolTypeOK
    BY <1>1, <2>1, <2>3, <2>4 DEF PoolInv, OrphanPart, RelayPart, PoolTypeOK
  <2>6. NextTxIsSpender
    BY <2>1, <2>2 DEF AllEntered, NextTxIsSpender
  <2>7. NextTxNotDangling
    BY <2>1, <2>2 DEF PointsIntoPool, NextTxNotDangling
  <2> QED
    BY <2>1, <2>5, <2>6, <2>7 DEF PoolConsistent, PoolNotConfirmed
<1>2. PoolInv => PoolConsistent
  BY <1>1
<1> QED
  BY <1>2, PoolInvAlways, PTL

(* Without double spends the pool can be mined on the tip in every         *)
(* reachable state: whatever blocks were connected and disconnected, each  *)
(* input is an output of the pool or an unspent coin of the chain that is  *)
(* mature, or a coinstake that DisconnectBlock has stripped of its flag.   *)
THEOREM PoolAlwaysMinable ==
  PoolSpec => []PoolCanBeMined
<1>1. ASSUME PoolInv PROVE PoolCanBeMined
  <2>1. Pool.txs = mapTx
    BY DEF Pool
  <2> QED
    BY <1>1, <2>1 DEF PoolInv, PoolPart, CanBeMined, InputsThere, PoolCanBeMined, Immature, Flagged
<1>2. PoolInv => PoolCanBeMined
  BY <1>1
<1> QED
  BY <1>2, PoolInvAlways, PTL

(* mapOrphanTransactionsByPrev lists exactly the orphans under exactly     *)
(* their parents, whoever was added, evicted, resolved or disconnected.    *)
THEOREM OrphanIndexAlwaysExact ==
  PoolSpec => []OrphanIndexExact
<1>1. PoolInv => OrphanIndexExact
  BY DEF PoolInv, OrphanPart
<1> QED
  BY <1>1, PoolInvAlways, PTL

(* When the work queue of a "tx" message is done, no orphan that depends   *)
(* on an accepted transaction is left behind although it misses nothing,   *)
(* however long the chains of orphans are.                                 *)
THEOREM OrphansAlwaysResolved ==
  PoolSpec => OrphansResolved
<1>1. PoolInv /\ [PoolNext]_poolVars =>
        [QueueDone => \A o \in DOMAIN orphans' :
           /\ Parents(o) \cap relay.accepted # {}
           /\ orphans[o] \notin relay.naughty
           => Verdict(Pool, flagless, tip, o) = "missing"]_poolVars
  BY QueueLeaves
<1> QED
  BY <1>1, PoolInvAlways, PTL DEF PoolSpec, OrphansResolved
=============================================================================
