-------------------------- MODULE ValidationProofs --------------------------
(***************************************************************************)
(* Proofs about the two structures that block validation works on.  The    *)
(* stack of coin views implements plain UTXO sets, for every set of        *)
(* transactions, CCoins values and blocks; the script check queue gives    *)
(* the right verdict for any number of workers, any finite set of checks   *)
(* and any batch size.                                                     *)
(***************************************************************************)
EXTENDS CoinsCache, CheckQueue, FiniteSetTheorems, WellFoundedInduction, TLAPS

-----------------------------------------------------------------------------
(*                              The coin views                             *)
-----------------------------------------------------------------------------
(* IInv is inductive: FlagsTruthful is what makes each operator of         *)
(* CoinsMap correct (a FRESH entry may be deleted only because nothing is  *)
(* below it), and PulledThroughTip is what keeps FlagsTruthful true when a *)
(* view is flushed: BatchWrite marks an entry that pcoinsTip lacks FRESH   *)
(* without looking at the database.                                        *)

(* A database is a map of its domain into Live, and such a map is one.     *)
LEMMA StoreTyping ==
  ASSUME NEW s
  PROVE  s \in Stores <=> /\ DOMAIN s \subseteq Txids
                          /\ s = [t \in DOMAIN s |-> s[t]]
                          /\ \A t \in DOMAIN s : s[t] \in Live
  BY DEF Stores

(* The same for the map of a cache.                                        *)
LEMMA CacheTyping ==
  ASSUME NEW c
  PROVE  c \in Caches <=> /\ DOMAIN c \subseteq Txids
                          /\ c = [t \in DOMAIN c |-> c[t]]
                          /\ \A t \in DOMAIN c : c[t] \in Entry
  BY DEF Caches

(* The empty map.                                                          *)
LEMMA EmptyCache == Empty \in Caches /\ DOMAIN Empty = {}
  BY CacheTyping DEF Empty

(* FetchCoins returns a cache, with one more entry at most.                *)
LEMMA FetchCoinsTyping ==
  ASSUME NEW c \in Caches, NEW t \in Txids, NEW base \in Coins \cup {Absent},
         NEW m, m = FetchCoins(c, base, t)
  PROVE  /\ m \in Caches
         /\ \A x \in DOMAIN c : x \in DOMAIN m /\ m[x] = c[x]
         /\ \A x \in DOMAIN m : x = t \/ x \in DOMAIN c
         /\ base # Absent => t \in DOMAIN m
         /\ t \in DOMAIN m /\ t \notin DOMAIN c => base # Absent /\ m[t].coins = base /\ ~m[t].dirty
         /\ t \in DOMAIN m /\ t \notin DOMAIN c /\ m[t].fresh => base = Pruned
         /\ t \in DOMAIN m /\ t \notin DOMAIN c /\ base = Pruned => m[t].fresh
<1>1. CASE t \in DOMAIN c \/ base = Absent
  BY <1>1 DEF FetchCoins
<1>2. CASE t \notin DOMAIN c /\ base # Absent
  <2>1. PICK f \in BOOLEAN : f = (base = Pruned)
    OBVIOUS
  <2> DEFINE e == [coins |-> base, dirty |-> FALSE, fresh |-> f]
  <2>2. m = [x \in DOMAIN c \cup {t} |-> IF x = t THEN e ELSE c[x]]
    BY <1>2, <2>1 DEF FetchCoins, Put
  <2>3. e \in Entry
    BY <1>2 DEF Entry, Coins
  <2>4. m \in Caches
    BY <2>2, <2>3, CacheTyping
  <2>5. m[t] = e
    BY <2>2
  <2>6. e.coins = base /\ e.dirty = FALSE /\ e.fresh = f
    OBVIOUS
  <2> HIDE DEF e
  <2>7. m[t].coins = base /\ ~m[t].dirty /\ (m[t].fresh => base = Pruned) /\ (base = Pruned => m[t].fresh)
    BY <2>5, <2>6, <2>1, Zenon
  <2>8. DOMAIN m = DOMAIN c \cup {t} /\ \A x \in DOMAIN c : m[x] = c[x]
    BY <2>2, <1>2
  <2> QED BY <2>4, <2>7, <2>8, <1>2
<1> QED BY <1>1, <1>2

(* ModifyCoins returns a cache; only the entry of t changes.               *)
LEMMA ModifyCoinsTyping ==
  ASSUME NEW c \in Caches, NEW t \in Txids, NEW base \in Coins \cup {Absent},
         NEW new \in Coins,
         NEW m, m = ModifyCoins(c, base, t, new)
  PROVE  /\ m \in Caches
         /\ \A x \in DOMAIN c \ {t} : x \in DOMAIN m /\ m[x] = c[x]
         /\ \A x \in DOMAIN m : x = t \/ x \in DOMAIN c
         /\ t \in DOMAIN m => m[t].coins = new /\ m[t].dirty
         /\ t \in DOMAIN m /\ m[t].fresh => ModifiedFresh(c, base, t)
         /\ t \in DOMAIN m /\ ~m[t].fresh => ~ModifiedFresh(c, base, t)
         /\ t \notin DOMAIN m => ModifiedFresh(c, base, t)
         /\ t \notin DOMAIN m => new = Pruned
<1>1. CASE ModifiedFresh(c, base, t) /\ new = Pruned
  <2>1. m = [x \in DOMAIN c \ {t} |-> c[x]]
    BY <1>1 DEF ModifyCoins, Drop
  <2> QED BY <2>1, <1>1, CacheTyping
<1>2. CASE ~(ModifiedFresh(c, base, t) /\ new = Pruned)
  <2>1. ModifiedFresh(c, base, t) \in BOOLEAN
    <3>1. t \in DOMAIN c => c[t].fresh \in BOOLEAN
      BY CacheTyping DEF Entry
    <3>2. (base \in {Absent, Pruned}) \in BOOLEAN
      OBVIOUS
    <3> QED BY <3>1, <3>2, Zenon DEF ModifiedFresh
  <2>2. PICK f \in BOOLEAN : f = ModifiedFresh(c, base, t)
    BY <2>1
  <2> DEFINE e == [coins |-> new, dirty |-> TRUE, fresh |-> f]
  <2>3. m = [x \in DOMAIN c \cup {t} |-> IF x = t THEN e ELSE c[x]]
    BY <1>2, <2>2, Zenon DEF ModifyCoins, Put
  <2>4. e \in Entry
    BY DEF Entry
  <2>5. m \in Caches
    BY <2>3, <2>4, CacheTyping
  <2>6. m[t] = e
    BY <2>3
  <2>7. e.coins = new /\ e.dirty = TRUE /\ e.fresh = f
    OBVIOUS
  <2> HIDE DEF e
  <2>8. /\ m[t].coins = new
        /\ m[t].dirty
        /\ m[t].fresh => ModifiedFresh(c, base, t)
        /\ ModifiedFresh(c, base, t) => m[t].fresh
    BY <2>6, <2>7, <2>2, Zenon
  <2>9. /\ DOMAIN m = DOMAIN c \cup {t}
        /\ \A x \in DOMAIN c \ {t} : m[x] = c[x]
    BY <2>3
  <2> QED BY <2>5, <2>8, <2>9, <1>2
<1> QED BY <1>1, <1>2

(* BatchWrite between caches: entry by entry, what the parent holds after. *)
LEMMA BatchWriteTyping ==
  ASSUME NEW p \in Caches, NEW c \in Caches,
         NEW m, m = BatchWrite(p, c)
  PROVE  /\ m \in Caches
         /\ \A t \in Txids :
              /\ t \in DOMAIN m => t \in DOMAIN p \/ (t \in DOMAIN c /\ c[t].dirty)
              /\ t \notin DOMAIN m /\ t \in DOMAIN c /\ c[t].dirty => c[t].coins = Pruned
              /\ t \notin DOMAIN m /\ t \in DOMAIN p =>
                   t \in DOMAIN c /\ c[t].dirty /\ p[t].fresh
              /\ t \in DOMAIN m /\ t \in DOMAIN c /\ c[t].dirty =>
                   m[t].coins = c[t].coins /\ m[t].dirty
              /\ t \in DOMAIN m /\ t \in DOMAIN c /\ c[t].dirty /\ t \in DOMAIN p =>
                   (m[t].fresh <=> p[t].fresh)
              /\ t \in DOMAIN m /\ ~(t \in DOMAIN c /\ c[t].dirty) => m[t] = p[t]
<1> DEFINE dirty   == {t \in DOMAIN c : c[t].dirty}
           fetched == {t \in dirty \ DOMAIN p : c[t].coins # Pruned}
           erased  == {t \in dirty \cap DOMAIN p : p[t].fresh /\ c[t].coins = Pruned}
           D       == (DOMAIN p \cup fetched) \ erased
           e(t)    == IF t \in fetched
                     THEN [coins |-> c[t].coins, dirty |-> TRUE, fresh |-> TRUE]
                     ELSE IF t \in dirty
                          THEN [coins |-> c[t].coins, dirty |-> TRUE, fresh |-> p[t].fresh]
                          ELSE p[t]
<1>1. m = [t \in D |-> e(t)]
  BY DEF BatchWrite
<1>2. D \subseteq Txids
  BY CacheTyping
<1>3. \A t \in D : e(t) \in Entry
  BY CacheTyping DEF Entry
<1>4. m \in Caches
  <2> HIDE DEF D, e
  <2> QED BY <1>1, <1>2, <1>3, CacheTyping
<1>5. \A t \in Txids :
        /\ t \in D => t \in DOMAIN p \/ (t \in DOMAIN c /\ c[t].dirty)
        /\ t \notin D /\ t \in DOMAIN c /\ c[t].dirty => c[t].coins = Pruned
        /\ t \notin D /\ t \in DOMAIN p => t \in DOMAIN c /\ c[t].dirty /\ p[t].fresh
  <2> TAKE t \in Txids
  <2>1. t \in D => t \in DOMAIN p \/ (t \in DOMAIN c /\ c[t].dirty)
    OBVIOUS
  <2>2. t \notin D /\ t \in DOMAIN c /\ c[t].dirty => c[t].coins = Pruned
    OBVIOUS
  <2>3. t \notin D /\ t \in DOMAIN p => t \in DOMAIN c /\ c[t].dirty /\ p[t].fresh
    BY Zenon
  <2> QED BY <2>1, <2>2, <2>3
<1>6. \A t \in D : t \in DOMAIN c /\ c[t].dirty =>
        e(t).coins = c[t].coins /\ e(t).dirty /\ (t \in DOMAIN p => (e(t).fresh <=> p[t].fresh))
  BY CacheTyping DEF Entry
<1>7. \A t \in D : ~(t \in DOMAIN c /\ c[t].dirty) => e(t) = p[t]
  OBVIOUS
<1> HIDE DEF D, e
<1> QED BY <1>1, <1>4, <1>5, <1>6, <1>7

(* BatchWrite into the database: it shows what the cache showed.           *)
LEMMA BatchWriteDBTyping ==
  ASSUME NEW d \in Stores, NEW c \in Caches
  PROVE  /\ BatchWriteDB(d, c) \in Stores
         /\ \A t \in Txids :
              DbCoins(BatchWriteDB(d, c), t) =
                IF t \in DOMAIN c /\ c[t].dirty
                THEN IF c[t].coins = Pruned THEN Absent ELSE c[t].coins
                ELSE DbCoins(d, t)
<1> DEFINE dirty == {t \in DOMAIN c : c[t].dirty}
           kept  == {t \in dirty : c[t].coins # Pruned}
           D     == (DOMAIN d \ dirty) \cup kept
           e(t)  == IF t \in kept THEN c[t].coins ELSE d[t]
<1>1. BatchWriteDB(d, c) = [t \in D |-> e(t)]
  BY DEF BatchWriteDB
<1>2. D \subseteq Txids
  BY CacheTyping, StoreTyping
<1>3. \A t \in D : e(t) \in Live
  BY CacheTyping, StoreTyping DEF Entry, Coins
<1>4. BatchWriteDB(d, c) \in Stores
  <2> HIDE DEF D, e
  <2> QED BY <1>1, <1>2, <1>3, StoreTyping
<1>5. ASSUME NEW t \in Txids
      PROVE  DbCoins(BatchWriteDB(d, c), t) =
               IF t \in DOMAIN c /\ c[t].dirty
               THEN IF c[t].coins = Pruned THEN Absent ELSE c[t].coins
               ELSE DbCoins(d, t)
  <2>1. DbCoins(BatchWriteDB(d, c), t) = IF t \in D THEN e(t) ELSE Absent
    <3> HIDE DEF D, e
    <3> QED BY <1>1 DEF DbCoins
  <2> QED BY <2>1 DEF DbCoins
<1> QED BY <1>4, <1>5

(* What the levels answer, given the types.                                *)
LEMMA AnswerTyping ==
  ASSUME TypeOK, NEW t \in Txids
  PROVE  /\ DbCoins(db, t) \in Live \cup {Absent}
         /\ TipCoins(t) \in Coins \cup {Absent}
         /\ ViewCoins(t) \in Coins \cup {Absent}
<1>1. DbCoins(db, t) \in Live \cup {Absent}
  BY StoreTyping DEF TypeOK, DbCoins
<1>2. TipCoins(t) \in Coins \cup {Absent}
  BY <1>1, CacheTyping DEF TypeOK, TipCoins, CacheCoins, Entry, Coins
<1>3. ViewCoins(t) \in Coins \cup {Absent}
  BY <1>2, CacheTyping DEF TypeOK, ViewCoins, CacheCoins, Entry
<1> QED BY <1>1, <1>2, <1>3

-----------------------------------------------------------------------------
(* Filling pcoinsTip from the database adds an entry and changes no        *)
(* answer.                                                                 *)
LEMMA TipFilled ==
  ASSUME TypeOK, TipFlags, NEW t \in Txids, db' = db,
         tip' = tip \/ tip' = FetchCoins(tip, DbCoins(db, t), t)
  PROVE  /\ tip' \in Caches
         /\ DOMAIN tip \subseteq DOMAIN tip'
         /\ TipFlags'
         /\ \A x \in Txids : TipCoins(x)' = TipCoins(x)
         /\ tip' = FetchCoins(tip, DbCoins(db, t), t) /\ TipCoins(t) # Absent => t \in DOMAIN tip'
<1>1. CASE tip' = tip /\ tip' # FetchCoins(tip, DbCoins(db, t), t)
  BY <1>1 DEF TypeOK, TipFlags, TipCoins, CacheCoins, DbCoins
<1>2. CASE tip' = FetchCoins(tip, DbCoins(db, t), t)
  <2>1. DbCoins(db, t) \in Live \cup {Absent} /\ DbCoins(db, t) # Pruned
    BY AnswerTyping, CoinsMapAssumption
  <2>2. /\ tip' \in Caches
        /\ \A x \in DOMAIN tip : x \in DOMAIN tip' /\ tip'[x] = tip[x]
        /\ \A x \in DOMAIN tip' : x = t \/ x \in DOMAIN tip
        /\ DbCoins(db, t) # Absent => t \in DOMAIN tip'
        /\ t \in DOMAIN tip' /\ t \notin DOMAIN tip =>
             tip'[t].coins = DbCoins(db, t) /\ ~tip'[t].fresh
    <3>1. tip \in Caches /\ DbCoins(db, t) \in Coins \cup {Absent}
      BY <2>1 DEF TypeOK, Coins
    <3> QED BY <1>2, <2>1, <3>1, FetchCoinsTyping
  <2>3. \A x \in Txids : DbCoins(db', x) = DbCoins(db, x)
    OBVIOUS
  <2>4. TipFlags'
    <3> SUFFICES ASSUME NEW x \in DOMAIN tip'
                 PROVE  /\ tip'[x].fresh => DbCoins(db, x) = Absent
                        /\ ~tip'[x].dirty => tip'[x].coins = DbCoins(db, x)
      BY DEF TipFlags
    <3>1. CASE x \in DOMAIN tip
      BY <3>1, <2>2 DEF TipFlags
    <3>2. CASE x \notin DOMAIN tip
      BY <3>2, <2>2
    <3> QED BY <3>1, <3>2
  <2>5. \A x \in Txids : TipCoins(x)' = TipCoins(x)
    BY <2>2 DEF TipCoins, CacheCoins
  <2>6. TipCoins(t) # Absent => t \in DOMAIN tip'
    BY <2>2 DEF TipCoins, CacheCoins
  <2> QED BY <2>2, <2>4, <2>5, <2>6
<1> QED BY <1>1, <1>2

(* IInv is inductive.                                                      *)
LEMMA InvInductive == IInv /\ [Next]_vars => IInv'
<1> SUFFICES ASSUME IInv, [Next]_vars PROVE IInv'
  OBVIOUS
<1> USE CoinsMapAssumption, CoinsCacheAssumption
<1>0. TypeOK /\ TipFlags /\ ViewFlags /\ PulledThroughTip
  BY DEF IInv, FlagsTruthful
<1>1. CASE OpenView
  <2>1. \A x : TipCoins(x)' = TipCoins(x)
    BY <1>1 DEF OpenView, TipCoins, CacheCoins, DbCoins
  <2> QED BY <1>1, <2>1, <1>0 DEF OpenView, IInv, TypeOK, FlagsTruthful, TipFlags, ViewFlags,
       PulledThroughTip, DbCoins
<1>2. ASSUME NEW t \in Txids, TipFetch(t) PROVE IInv'
  <2>1. /\ tip' \in Caches /\ DOMAIN tip \subseteq DOMAIN tip' /\ TipFlags'
        /\ \A x \in Txids : TipCoins(x)' = TipCoins(x)
    BY <1>2, <1>0, TipFilled DEF TipFetch
  <2>2. ViewFlags'
    BY <1>2, <1>0, <2>1, CacheTyping DEF TipFetch, ViewFlags, TypeOK
  <2>3. TypeOK' /\ PulledThroughTip'
    BY <1>2, <1>0, <2>1 DEF TipFetch, TypeOK, PulledThroughTip
  <2> QED BY <2>1, <2>2, <2>3 DEF IInv, FlagsTruthful
<1>3. ASSUME NEW t \in Txids, ViewFetch(t) PROVE IInv'
  <2>1. /\ tip' \in Caches /\ DOMAIN tip \subseteq DOMAIN tip' /\ TipFlags'
        /\ \A x \in Txids : TipCoins(x)' = TipCoins(x)
        /\ t \notin DOMAIN view /\ TipCoins(t) # Absent => t \in DOMAIN tip'
    BY <1>3, <1>0, TipFilled DEF ViewFetch, FillTip
  <2>2. TipCoins(t) \in Coins \cup {Absent}
    BY <1>0, AnswerTyping
  <2>3. /\ view' \in Caches
        /\ \A x \in DOMAIN view : x \in DOMAIN view' /\ view'[x] = view[x]
        /\ \A x \in DOMAIN view' : x = t \/ x \in DOMAIN view
        /\ t \in DOMAIN view' /\ t \notin DOMAIN view => TipCoins(t) # Absent /\ view'[t].coins = TipCoins(t)
        /\ t \in DOMAIN view' /\ t \notin DOMAIN view /\ view'[t].fresh => TipCoins(t) = Pruned
    BY <1>3, <1>0, <2>2, FetchCoinsTyping DEF ViewFetch, TypeOK
  <2>4. ViewFlags'
    <3> SUFFICES ASSUME NEW x \in DOMAIN view'
                 PROVE  /\ view'[x].fresh => Shown(TipCoins(x)') = Pruned
                        /\ ~view'[x].dirty => view'[x].coins = Shown(TipCoins(x)')
      BY DEF ViewFlags, Shown
    <3>1. x \in Txids /\ TipCoins(x)' = TipCoins(x)
      BY <2>3, <2>1, CacheTyping
    <3>2. CASE x \in DOMAIN view
      BY <3>2, <3>1, <2>3, <1>0 DEF ViewFlags
    <3>3. CASE x \notin DOMAIN view
      BY <3>3, <3>1, <2>3 DEF Shown
    <3> QED BY <3>2, <3>3
  <2>5. PulledThroughTip'
    BY <2>1, <2>3, <1>0, <1>3 DEF PulledThroughTip, ViewFetch
  <2>6. TypeOK'
    BY <2>1, <2>3, <1>0, <1>3 DEF TypeOK, ViewFetch
  <2> QED BY <2>1, <2>4, <2>5, <2>6 DEF IInv, FlagsTruthful
<1>4. ASSUME NEW t \in Txids, NEW new \in Coins, ViewModify(t, new) PROVE IInv'
  <2>1. /\ tip' \in Caches /\ DOMAIN tip \subseteq DOMAIN tip' /\ TipFlags'
        /\ \A x \in Txids : TipCoins(x)' = TipCoins(x)
        /\ t \notin DOMAIN view /\ TipCoins(t) # Absent => t \in DOMAIN tip'
    BY <1>4, <1>0, TipFilled DEF ViewModify, FillTip
  <2>2. TipCoins(t) \in Coins \cup {Absent}
    BY <1>0, AnswerTyping
  <2> DEFINE fresh == ModifiedFresh(view, TipCoins(t), t)
  <2>5. fresh => Shown(TipCoins(t)) = Pruned
    BY <1>0 DEF ViewFlags, Shown, ModifiedFresh
  <2>6. ~fresh => t \in DOMAIN tip'
    BY <1>0, <2>1 DEF PulledThroughTip, ModifiedFresh
  <2>7. /\ view' \in Caches
        /\ \A x \in DOMAIN view' \ {t} : x \in DOMAIN view /\ view'[x] = view[x]
        /\ t \in DOMAIN view' => view'[t].dirty
        /\ t \in DOMAIN view' /\ view'[t].fresh => fresh
        /\ t \in DOMAIN view' /\ ~view'[t].fresh => ~fresh
    <3>1. view \in Caches /\ view' = ModifyCoins(view, TipCoins(t), t, new)
      BY <1>4, <1>0 DEF ViewModify, TypeOK
    <3> QED BY <3>1, <2>2, ModifyCoinsTyping
  <2> HIDE DEF fresh
  <2>8. ViewFlags'
    <3> SUFFICES ASSUME NEW x \in DOMAIN view'
                 PROVE  /\ view'[x].fresh => Shown(TipCoins(x)') = Pruned
                        /\ ~view'[x].dirty => view'[x].coins = Shown(TipCoins(x)')
      BY DEF ViewFlags, Shown
    <3>1. x \in Txids /\ TipCoins(x)' = TipCoins(x)
      BY <2>7, <2>1, CacheTyping
    <3>2. CASE x # t
      BY <3>2, <3>1, <2>7, <1>0 DEF ViewFlags
    <3>3. CASE x = t
      BY <3>3, <3>1, <2>7, <2>5
    <3> QED BY <3>2, <3>3
  <2>9. PulledThroughTip'
    BY <2>1, <2>6, <2>7, <1>0, <1>4 DEF PulledThroughTip, ViewModify
  <2>10. TypeOK'
    BY <2>1, <2>7, <1>0, <1>4 DEF TypeOK, ViewModify
  <2> QED BY <2>1, <2>8, <2>9, <2>10 DEF IInv, FlagsTruthful
<1>5. CASE ViewGetBestBlock \/ \E b \in Blocks : ViewSetBestBlock(b)
  <2>1. /\ UNCHANGED <<db, dbBest, tip, view, viewOpen>> /\ viewOpen
        /\ tipBest' \in Hashes /\ viewBest' \in Hashes
    BY <1>5, <1>0 DEF ViewGetBestBlock, ViewSetBestBlock, TypeOK, Hashes, TipBestBlock, ViewBestBlock
  <2>2. \A x : TipCoins(x)' = TipCoins(x)
    BY <2>1 DEF TipCoins, CacheCoins, DbCoins
  <2> QED BY <2>1, <2>2, <1>0 DEF IInv, TypeOK, FlagsTruthful, TipFlags, ViewFlags,
       PulledThroughTip, DbCoins
<1>6. CASE ViewFlush
  <2>1. /\ tip' = BatchWrite(tip, view) /\ view' = Empty /\ db' = db
        /\ viewBest' = NoBlock /\ viewOpen' = FALSE
        /\ tipBest' = viewBest /\ dbBest' = dbBest
    BY <1>6 DEF ViewFlush
  <2>2. tip \in Caches /\ view \in Caches
    BY <1>0 DEF TypeOK
  <2>3. TipFlags'
    <3> SUFFICES ASSUME NEW x \in DOMAIN tip'
                 PROVE  /\ tip'[x].fresh => DbCoins(db, x) = Absent
                        /\ ~tip'[x].dirty => tip'[x].coins = DbCoins(db, x)
      BY <2>1 DEF TipFlags
    <3>1. x \in Txids
      BY <2>1, <2>2, BatchWriteTyping, CacheTyping
    <3>2. /\ x \in DOMAIN view /\ view[x].dirty =>
               tip'[x].dirty /\ (x \in DOMAIN tip => (tip'[x].fresh <=> tip[x].fresh))
          /\ ~(x \in DOMAIN view /\ view[x].dirty) => tip'[x] = tip[x]
          /\ x \in DOMAIN tip \/ (x \in DOMAIN view /\ view[x].dirty)
      BY <2>1, <2>2, <3>1, BatchWriteTyping
    <3>3. CASE x \in DOMAIN tip
      BY <3>2, <3>3, <1>0 DEF TipFlags
    <3>4. CASE x \notin DOMAIN tip
      <4>1. view[x].fresh
        BY <3>2, <3>4, <1>0, <2>2, CacheTyping DEF PulledThroughTip, Entry
      <4>2. Shown(DbCoins(db, x)) = Pruned
        BY <4>1, <3>2, <3>4, <1>0 DEF ViewFlags, TipCoins, CacheCoins
      <4>3. DbCoins(db, x) = Absent
        BY <4>2, <3>1, <1>0, AnswerTyping DEF Shown
      <4> QED BY <4>3, <3>2, <3>4
    <3> QED BY <3>3, <3>4
  <2>4. TypeOK'
    BY <2>1, <2>2, <1>0, BatchWriteTyping, EmptyCache DEF TypeOK, Hashes
  <2>5. ViewFlags' /\ PulledThroughTip'
    BY <2>1, EmptyCache DEF ViewFlags, PulledThroughTip
  <2> QED BY <2>3, <2>4, <2>5 DEF IInv, FlagsTruthful
<1>7. CASE ViewDestroy \/ Crash
  <2>1. /\ tip' \in {tip, Empty} /\ view' = Empty /\ db' = db
        /\ viewBest' = NoBlock /\ viewOpen' = FALSE
        /\ tipBest' \in Hashes /\ dbBest' = dbBest
    BY <1>7, <1>0 DEF ViewDestroy, Crash, TypeOK, Hashes
  <2>2. TypeOK'
    BY <2>1, <1>0, EmptyCache DEF TypeOK, Hashes
  <2>3. TipFlags'
    BY <2>1, <1>0, EmptyCache DEF TipFlags
  <2>4. ViewFlags' /\ PulledThroughTip'
    BY <2>1, EmptyCache DEF ViewFlags, PulledThroughTip
  <2> QED BY <2>2, <2>3, <2>4 DEF IInv, FlagsTruthful
<1>8. CASE TipFlush
  <2>1. /\ tip' = Empty /\ view' = view /\ db' = BatchWriteDB(db, tip)
        /\ viewBest' = viewBest /\ viewOpen' = viewOpen
        /\ tipBest' = tipBest /\ dbBest' \in Hashes /\ ~viewOpen
    BY <1>8, <1>0 DEF TipFlush, TypeOK
  <2>2. view = Empty
    BY <2>1, <1>0 DEF PulledThroughTip
  <2>3. TypeOK'
    BY <2>1, <1>0, EmptyCache, BatchWriteDBTyping DEF TypeOK
  <2> QED BY <2>1, <2>2, <2>3, <1>0, EmptyCache DEF IInv, FlagsTruthful, TipFlags, ViewFlags, PulledThroughTip
<1>9. CASE UNCHANGED vars
  <2>1. \A x : TipCoins(x)' = TipCoins(x)
    BY <1>9 DEF vars, TipCoins, CacheCoins, DbCoins
  <2> QED BY <1>9, <2>1, <1>0 DEF vars, IInv, TypeOK, FlagsTruthful, TipFlags, ViewFlags,
       PulledThroughTip, DbCoins
<1> QED BY <1>1, <1>2, <1>3, <1>4, <1>5, <1>6, <1>7, <1>8, <1>9 DEF Next

(* The caches start empty.                                                 *)
LEMMA InvInitially == Init => IInv
  BY EmptyCache DEF Init, IInv, TypeOK, FlagsTruthful, TipFlags, ViewFlags,
     PulledThroughTip, Hashes

(* Spec keeps the inductive invariant.                                     *)
THEOREM CacheInvariant == Spec => []IInv
<1>1. Init => IInv
  BY InvInitially
<1>2. IInv /\ [Next]_vars => IInv'
  BY InvInductive
<1> QED BY <1>1, <1>2, PTL DEF Spec

(* The flags of both caches tell the truth about the view below them:      *)
(* FetchCoins, ModifyCoins and BatchWrite of coins.cpp may rely on them.   *)
THEOREM FlagsAreTruthful == Spec => [](TypeOK /\ FlagsTruthful)
<1>1. IInv => TypeOK /\ FlagsTruthful
  BY DEF IInv
<1> QED BY <1>1, CacheInvariant, PTL

(* The assertion in CCoinsViewCache::BatchWrite cannot fail.               *)
THEOREM FlushAssertionNeverFails == Spec => []FlushAssertionHolds
<1>1. IInv => FlushAssertionHolds
  <2> SUFFICES ASSUME IInv, NEW t \in DOMAIN view \ DOMAIN tip
               PROVE  view[t].fresh
    BY DEF FlushAssertionHolds, BatchWriteAsserts
  <2> QED BY DEF IInv, PulledThroughTip
<1> QED BY <1>1, CacheInvariant, PTL

-----------------------------------------------------------------------------
(* The stack of caches implements three plain UTXO sets: no lookup, flush  *)
(* or destroyed view ever changes what a level shows except as UtxoViews   *)
(* says.                                                                   *)
THEOREM CachesImplementUtxoViews == Spec => ImplementsUtxoViews
<1> USE CoinsMapAssumption, CoinsCacheAssumption
<1>1. Init => Utxo!Init
  <2> SUFFICES ASSUME Init PROVE Utxo!Init
    OBVIOUS
  <2>1. TypeOK
    BY InvInitially DEF IInv
  <2>2. /\ \A t \in Txids : TipCoins(t) = DbCoins(db, t) /\ ViewCoins(t) = DbCoins(db, t)
        /\ TipBestBlock = dbBest /\ ViewBestBlock = dbBest
    BY EmptyCache DEF Init, TipCoins, ViewCoins, CacheCoins, TipBestBlock, ViewBestBlock
  <2>3. TipSet = DiskSet /\ ViewSet = DiskSet
    BY <2>2 DEF TipSet, ViewSet, DiskSet
  <2>4. DiskSet \in [Txids -> Coins]
    BY <2>1, AnswerTyping DEF DiskSet, Shown, Coins
  <2> QED BY <2>2, <2>3, <2>4 DEF Utxo!Init, Utxo!UtxoSet, Init, Hashes
<1>2. IInv /\ IInv' /\ [Next]_vars => [Utxo!Next]_Utxo!vars
  <2> SUFFICES ASSUME IInv, IInv', [Next]_vars
               PROVE  [Utxo!Next]_Utxo!vars
    OBVIOUS
  <2>0. TypeOK /\ TipFlags /\ ViewFlags /\ PulledThroughTip
    BY DEF IInv, FlagsTruthful
  <2>1. CASE OpenView
    <3>1. UNCHANGED <<db, dbBest, tip, tipBest, view, viewBest>>
      BY <2>1 DEF OpenView
    <3>2. UNCHANGED <<DiskSet, TipSet, ViewSet, TipBestBlock, ViewBestBlock>>
      BY <3>1 DEF DiskSet, TipSet, ViewSet, TipCoins, ViewCoins, CacheCoins, DbCoins,
         TipBestBlock, ViewBestBlock
    <3> QED BY <2>1, <3>1, <3>2 DEF OpenView, Utxo!OpenView, Utxo!Next
  <2>2. ASSUME NEW t \in Txids, TipFetch(t) PROVE UNCHANGED Utxo!vars
    <3>1. \A x \in Txids : TipCoins(x)' = TipCoins(x)
      BY <2>2, <2>0, TipFilled DEF TipFetch
    <3>2. UNCHANGED <<db, dbBest, tipBest, view, viewBest, viewOpen>>
      BY <2>2 DEF TipFetch
    <3>3. \A x \in Txids : ViewCoins(x)' = ViewCoins(x)
      BY <3>1, <3>2 DEF ViewCoins, CacheCoins
    <3> QED BY <3>1, <3>2, <3>3 DEF Utxo!vars, DiskSet, TipSet, ViewSet, DbCoins,
         TipBestBlock, ViewBestBlock
  <2>3. ASSUME NEW t \in Txids, ViewFetch(t) PROVE UNCHANGED Utxo!vars
    <3>1. \A x \in Txids : TipCoins(x)' = TipCoins(x)
      BY <2>3, <2>0, TipFilled DEF ViewFetch, FillTip
    <3>2. UNCHANGED <<db, dbBest, tipBest, viewBest, viewOpen>>
      BY <2>3 DEF ViewFetch
    <3>3. view' = FetchCoins(view, TipCoins(t), t)
      BY <2>3 DEF ViewFetch
    <3>4. TipCoins(t) \in Coins \cup {Absent}
      BY <2>0, AnswerTyping
    <3>5. \A x \in Txids : ViewCoins(x)' = ViewCoins(x)
      <4> TAKE x \in Txids
      <4>0. view \in Caches
        BY <2>0 DEF TypeOK
      <4>1. CASE x \in DOMAIN view
        <5>1. x \in DOMAIN view' /\ view'[x] = view[x]
          BY <4>0, <4>1, <3>3, <3>4, FetchCoinsTyping
        <5> QED BY <4>1, <5>1 DEF ViewCoins, CacheCoins
      <4>2. CASE x \notin DOMAIN view /\ x \in DOMAIN view'
        <5>1. x = t /\ TipCoins(t) # Absent
          BY <4>0, <4>2, <3>3, <3>4, FetchCoinsTyping
        <5>2. view'[x].coins = TipCoins(x)
          BY <5>1, <4>0, <4>2, <3>3, <3>4, FetchCoinsTyping
        <5> QED BY <4>2, <5>2 DEF ViewCoins, CacheCoins
      <4>3. CASE x \notin DOMAIN view /\ x \notin DOMAIN view'
        BY <4>3, <3>1 DEF ViewCoins, CacheCoins
      <4> QED BY <4>1, <4>2, <4>3
    <3> QED BY <3>1, <3>2, <3>5 DEF Utxo!vars, DiskSet, TipSet, ViewSet, DbCoins,
         TipBestBlock, ViewBestBlock
  <2>4. ASSUME NEW t \in Txids, NEW new \in Coins, ViewModify(t, new)
        PROVE  Utxo!Modify(t, new)
    <3>1. \A x \in Txids : TipCoins(x)' = TipCoins(x)
      BY <2>4, <2>0, TipFilled DEF ViewModify, FillTip
    <3>2. UNCHANGED <<db, dbBest, tipBest, viewBest, viewOpen>> /\ viewOpen
      BY <2>4 DEF ViewModify
    <3>3. view' = ModifyCoins(view, TipCoins(t), t, new) /\ view \in Caches
      BY <2>4, <2>0 DEF ViewModify, TypeOK
    <3>4. TipCoins(t) \in Coins \cup {Absent}
      BY <2>0, AnswerTyping
    <3>5. \A x \in Txids \ {t} : ViewCoins(x)' = ViewCoins(x)
      BY <3>1, <3>3, <3>4, ModifyCoinsTyping DEF ViewCoins, CacheCoins
    <3>6. Shown(ViewCoins(t)') = new
      <4>1. CASE t \in DOMAIN view'
        <5>1. view'[t].coins = new
          BY <4>1, <3>3, <3>4, ModifyCoinsTyping
        <5> QED BY <4>1, <5>1 DEF ViewCoins, CacheCoins, Shown, Coins
      <4>2. CASE t \notin DOMAIN view'
        <5>1. ModifiedFresh(view, TipCoins(t), t) /\ new = Pruned
          BY <4>2, <3>3, <3>4, ModifyCoinsTyping
        <5>2. Shown(TipCoins(t)) = Pruned
          BY <5>1, <2>0 DEF ModifiedFresh, ViewFlags, Shown
        <5>3. ViewCoins(t)' = TipCoins(t)
          BY <4>2, <3>1 DEF ViewCoins, CacheCoins
        <5> QED BY <5>1, <5>2, <5>3
      <4> QED BY <4>1, <4>2
    <3>7. ViewSet' = [ViewSet EXCEPT ![t] = new]
      BY <3>5, <3>6 DEF ViewSet, Shown
    <3> QED BY <3>1, <3>2, <3>7 DEF Utxo!Modify, DiskSet, TipSet, DbCoins,
         TipBestBlock, ViewBestBlock
  <2>5. CASE ViewGetBestBlock
    <3>1. UNCHANGED <<db, dbBest, tip, view, viewOpen>>
      BY <2>5 DEF ViewGetBestBlock
    <3>2. UNCHANGED <<TipBestBlock, ViewBestBlock>>
      BY <2>5 DEF ViewGetBestBlock, TipBestBlock, ViewBestBlock
    <3> QED BY <3>1, <3>2 DEF Utxo!vars, DiskSet, TipSet, ViewSet, TipCoins, ViewCoins,
         CacheCoins, DbCoins
  <2>6. ASSUME NEW b \in Blocks, ViewSetBestBlock(b) PROVE Utxo!SetBest(b)
    <3>1. UNCHANGED <<db, dbBest, tip, tipBest, view, viewOpen>> /\ viewOpen
      BY <2>6 DEF ViewSetBestBlock
    <3>2. TipBestBlock' = TipBestBlock /\ ViewBestBlock' = b
      BY <2>6 DEF ViewSetBestBlock, TipBestBlock, ViewBestBlock
    <3> QED BY <3>1, <3>2 DEF Utxo!SetBest, DiskSet, TipSet, ViewSet, TipCoins, ViewCoins,
         CacheCoins, DbCoins
  <2>7. CASE ViewFlush
    <3>1. /\ tip' = BatchWrite(tip, view) /\ view' = Empty /\ db' = db
          /\ viewBest' = NoBlock /\ viewOpen' = FALSE /\ viewOpen
          /\ tipBest' = viewBest /\ dbBest' = dbBest /\ viewBest # NoBlock
      BY <2>7 DEF ViewFlush
    <3>2. TipBestBlock' = ViewBestBlock /\ ViewBestBlock' = ViewBestBlock
      BY <3>1 DEF TipBestBlock, ViewBestBlock
    <3>3. ASSUME NEW x \in Txids PROVE Shown(TipCoins(x)') = Shown(ViewCoins(x))
      <4>0. tip \in Caches /\ view \in Caches
        BY <2>0 DEF TypeOK
      <4>1. CASE x \in DOMAIN view /\ view[x].dirty /\ x \in DOMAIN tip'
        <5>1. tip'[x].coins = view[x].coins
          BY <4>0, <4>1, <3>1, BatchWriteTyping
        <5> QED BY <4>1, <5>1 DEF TipCoins, ViewCoins, CacheCoins
      <4>2. CASE x \in DOMAIN view /\ view[x].dirty /\ x \notin DOMAIN tip'
        <5>1. view[x].coins = Pruned /\ (x \in DOMAIN tip => tip[x].fresh)
          BY <4>0, <4>2, <3>1, BatchWriteTyping
        <5>2. DbCoins(db, x) = Absent
          <6>1. CASE x \in DOMAIN tip
            BY <6>1, <5>1, <2>0 DEF TipFlags
          <6>2. CASE x \notin DOMAIN tip
            <7>1. Shown(DbCoins(db, x)) = Pruned
              BY <6>2, <4>2, <2>0 DEF PulledThroughTip, ViewFlags, TipCoins, CacheCoins
            <7> QED BY <7>1, <2>0, AnswerTyping DEF Shown
          <6> QED BY <6>1, <6>2
        <5>3. TipCoins(x)' = Absent
          BY <5>2, <4>2, <3>1 DEF TipCoins, CacheCoins
        <5>4. ViewCoins(x) = Pruned
          BY <5>1, <4>2 DEF ViewCoins, CacheCoins
        <5> QED BY <5>3, <5>4 DEF Shown
      <4>3. CASE ~(x \in DOMAIN view /\ view[x].dirty)
        <5>1. (x \in DOMAIN tip' <=> x \in DOMAIN tip) /\ (x \in DOMAIN tip => tip'[x] = tip[x])
          <6>1. x \in DOMAIN tip' => x \in DOMAIN tip
            BY <4>0, <4>3, <3>1, BatchWriteTyping
          <6>2. x \in DOMAIN tip => x \in DOMAIN tip'
            BY <4>0, <4>3, <3>1, BatchWriteTyping
          <6>3. x \in DOMAIN tip' => tip'[x] = tip[x]
            BY <4>0, <4>3, <3>1, BatchWriteTyping
          <6> QED BY <6>1, <6>2, <6>3
        <5>2. TipCoins(x)' = TipCoins(x)
          BY <5>1, <3>1 DEF TipCoins, CacheCoins
        <5>3. Shown(ViewCoins(x)) = Shown(TipCoins(x))
          <6>1. CASE x \in DOMAIN view
            <7>1. ViewCoins(x) = Shown(TipCoins(x))
              BY <6>1, <4>3, <2>0 DEF ViewFlags, ViewCoins, CacheCoins
            <7> QED BY <7>1 DEF Shown
          <6>2. CASE x \notin DOMAIN view
            BY <6>2 DEF ViewCoins, CacheCoins
          <6> QED BY <6>1, <6>2
        <5> QED BY <5>2, <5>3
      <4> QED BY <4>1, <4>2, <4>3
    <3>4. \A x \in Txids : ViewCoins(x)' = TipCoins(x)'
      BY <3>1, EmptyCache DEF ViewCoins, CacheCoins
    <3>5. TipSet' = ViewSet /\ ViewSet' = ViewSet
      BY <3>3, <3>4 DEF TipSet, ViewSet, Shown
    <3> QED BY <3>1, <3>2, <3>5 DEF Utxo!Commit, Utxo!Next, DiskSet, DbCoins
  <2>8. CASE ViewDestroy
    <3>1. /\ UNCHANGED <<db, dbBest, tip, tipBest>> /\ viewOpen
          /\ view' = Empty /\ viewBest' = NoBlock /\ viewOpen' = FALSE
      BY <2>8 DEF ViewDestroy
    <3>2. TipBestBlock' = TipBestBlock /\ ViewBestBlock' = TipBestBlock
      BY <3>1 DEF TipBestBlock, ViewBestBlock
    <3>3. \A x \in Txids : TipCoins(x)' = TipCoins(x) /\ ViewCoins(x)' = TipCoins(x)
      BY <3>1, EmptyCache DEF TipCoins, ViewCoins, CacheCoins, DbCoins
    <3>4. TipSet' = TipSet /\ ViewSet' = TipSet
      BY <3>3 DEF TipSet, ViewSet
    <3> QED BY <3>1, <3>2, <3>4 DEF Utxo!Abandon, Utxo!Next, DiskSet, DbCoins
  <2>9. CASE TipFlush
    <3>1. /\ UNCHANGED <<tipBest, view, viewBest, viewOpen>> /\ ~viewOpen
          /\ tip' = Empty /\ db' = BatchWriteDB(db, tip)
          /\ dbBest' = IF tipBest = NoBlock THEN dbBest ELSE tipBest
      BY <2>9 DEF TipFlush
    <3>2. view = Empty
      BY <3>1, <2>0 DEF PulledThroughTip
    <3>3. dbBest' = TipBestBlock /\ TipBestBlock' = TipBestBlock /\ ViewBestBlock' = ViewBestBlock
      BY <3>1 DEF TipBestBlock, ViewBestBlock
    <3>4. ASSUME NEW x \in Txids PROVE Shown(DbCoins(db', x)) = Shown(TipCoins(x))
      <4>1. DbCoins(db', x) = IF x \in DOMAIN tip /\ tip[x].dirty
                              THEN IF tip[x].coins = Pruned THEN Absent ELSE tip[x].coins
                              ELSE DbCoins(db, x)
        BY <3>1, <2>0, BatchWriteDBTyping DEF TypeOK
      <4>2. CASE x \in DOMAIN tip /\ tip[x].dirty
        BY <4>1, <4>2 DEF TipCoins, CacheCoins, Shown
      <4>3. CASE ~(x \in DOMAIN tip /\ tip[x].dirty)
        BY <4>1, <4>3, <2>0 DEF TipCoins, CacheCoins, TipFlags
      <4> QED BY <4>2, <4>3
    <3>5. \A x \in Txids : TipCoins(x)' = DbCoins(db', x) /\ ViewCoins(x)' = DbCoins(db', x)
      BY <3>1, <3>2, EmptyCache DEF TipCoins, ViewCoins, CacheCoins
    <3>6. \A x \in Txids : ViewCoins(x) = TipCoins(x)
      BY <3>2, EmptyCache DEF ViewCoins, CacheCoins
    <3>7. DiskSet' = TipSet /\ TipSet' = TipSet /\ ViewSet' = ViewSet
      BY <3>4, <3>5, <3>6 DEF DiskSet, TipSet, ViewSet
    <3> QED BY <3>1, <3>3, <3>7 DEF Utxo!Persist, Utxo!Next
  <2>10. CASE Crash
    <3>1. /\ UNCHANGED <<db, dbBest>> /\ tip' = Empty /\ tipBest' = NoBlock
          /\ view' = Empty /\ viewBest' = NoBlock /\ viewOpen' = FALSE
      BY <2>10 DEF Crash
    <3>2. TipBestBlock' = dbBest /\ ViewBestBlock' = dbBest
      BY <3>1 DEF TipBestBlock, ViewBestBlock
    <3>3. \A x \in Txids : TipCoins(x)' = DbCoins(db, x) /\ ViewCoins(x)' = DbCoins(db, x)
      BY <3>1, EmptyCache DEF TipCoins, ViewCoins, CacheCoins
    <3>4. DiskSet' = DiskSet /\ TipSet' = DiskSet /\ ViewSet' = DiskSet
      BY <3>1, <3>3 DEF DiskSet, TipSet, ViewSet
    <3> QED BY <3>1, <3>2, <3>4 DEF Utxo!Crash, Utxo!Next
  <2>11. CASE UNCHANGED vars
    BY <2>11 DEF vars, Utxo!vars, DiskSet, TipSet, ViewSet, TipCoins, ViewCoins, CacheCoins,
       DbCoins, TipBestBlock, ViewBestBlock
  <2> QED
    BY <2>1, <2>2, <2>3, <2>4, <2>5, <2>6, <2>7, <2>8, <2>9, <2>10, <2>11 DEF Next, Utxo!Next
<1> QED BY <1>1, <1>2, CacheInvariant, PTL DEF Spec, ImplementsUtxoViews, Utxo!Spec

-----------------------------------------------------------------------------
(*                        The script check queue                           *)
-----------------------------------------------------------------------------

(* Cardinalities of sets of checks are naturals.                           *)
LEMMA ChecksFinite ==
  ASSUME NEW S \in SUBSET Checks
  PROVE  IsFiniteSet(S) /\ Cardinality(S) \in Nat
BY CheckQueueAssumption, FS_Subset, FS_CardinalityType

(* Counting disjoint sets of checks, and what a subset leaves.             *)
LEMMA CountChecks ==
  ASSUME NEW S \in SUBSET Checks, NEW T \in SUBSET Checks
  PROVE  /\ S \cap T = {} => Cardinality(S \cup T) = Cardinality(S) + Cardinality(T)
         /\ T \subseteq S => Cardinality(S \ T) = Cardinality(S) - Cardinality(T)
<1>1. /\ IsFiniteSet(S) /\ IsFiniteSet(T)
      /\ Cardinality(S) \in Nat /\ Cardinality(T) \in Nat
  BY ChecksFinite
<1>2. Cardinality(S \cup T) = Cardinality(S) + Cardinality(T) - Cardinality(S \cap T)
  BY <1>1, FS_Union
<1>3. Cardinality(S \ T) = Cardinality(S) - Cardinality(S \cap T)
  BY <1>1, FS_Difference
<1>4. Cardinality({}) = 0
  BY FS_EmptySet
<1>5. S \cap T = {} => Cardinality(S \cap T) = 0
  BY <1>4, Zenon
<1>6. T \subseteq S => S \cap T = T
  OBVIOUS
<1>7. T \subseteq S => Cardinality(S \cap T) = Cardinality(T)
  BY <1>6, Zenon
<1>8. QED
  BY <1>1, <1>2, <1>3, <1>5, <1>7

(* The master is one of the threads.                                       *)
LEMMA MasterIsThread == Master \in Threads
BY DEF Threads

(* The part of Loop() below the while test keeps the types, whatever       *)
(* counters and program counters it is entered with.                       *)
LEMMA LoopTopTypes ==
  ASSUME QueueTypes, NEW t \in Threads, NEW ok \in BOOLEAN, NEW n \in Int,
         NEW tot \in Int, NEW idle \in Int, NEW pcs \in [Threads -> PCs],
         LoopTop(t, ok, n, tot, idle, pcs)
  PROVE  QueueTypes'
<1>1. CASE ReturnResult(t, ok, n, tot, idle, pcs)
  <2>1. verdict' \in {"none", "ok", "fail"}
    BY <1>1 DEF ReturnResult
  <2>2. fAllOk' \in BOOLEAN /\ unwinding' \in BOOLEAN
    BY <1>1 DEF ReturnResult
  <2>3. pc' \in [Threads -> PCs] /\ batch' \in [Threads -> SUBSET Checks]
    BY <1>1 DEF ReturnResult, QueueTypes, PCs
  <2>4. nIdle' \in Int /\ nTotal' \in Int /\ nTodo' \in Int
    BY <1>1 DEF LoopTop, ReturnResult
  <2>5. QED
    BY <1>1, <2>1, <2>2, <2>3, <2>4 DEF LoopTop, ReturnResult, QueueTypes
<1>2. CASE Sleep(t, ok, n, tot, idle, pcs)
  BY <1>2 DEF LoopTop, Sleep, QueueTypes, PCs
<1>3. CASE TakeBatch(t, ok, n, tot, idle, pcs)
  <2>1. PICK b \in SUBSET queue : /\ queue' = queue \ b
                                  /\ batch' = [batch EXCEPT ![t] = b]
                                  /\ left' = [left EXCEPT ![t] = b]
    BY <1>3 DEF TakeBatch
  <2>2. b \in SUBSET Checks
    BY <2>1 DEF QueueTypes
  <2>3. QED
    BY <1>3, <2>1, <2>2 DEF LoopTop, TakeBatch, QueueTypes, PCs
<1>4. QED
  BY <1>1, <1>2, <1>3 DEF LoopTop

(* Every variable of CCheckQueue and every local of Loop() keeps its sort. *)
LEMMA QueueTypesInductive == (QueueInit => QueueTypes) /\ (QueueTypes /\ [QueueNext]_queueVars => QueueTypes')
<1>1. QueueInit => QueueTypes
  <2> SUFFICES ASSUME QueueInit PROVE QueueTypes
    OBVIOUS
  <2>1. pc \in [Threads -> PCs]
    BY DEF QueueInit, PCs
  <2>2. /\ batch \in [Threads -> SUBSET Checks]
        /\ left \in [Threads -> SUBSET Checks]
    BY DEF QueueInit
  <2>3. fOk \in [Threads -> BOOLEAN] /\ fAllOk \in BOOLEAN /\ unwinding \in BOOLEAN
    BY DEF QueueInit
  <2>4. QED
    BY <2>1, <2>2, <2>3 DEF QueueInit, QueueTypes
<1>2. QueueTypes /\ [QueueNext]_queueVars => QueueTypes'
  <2> SUFFICES ASSUME QueueTypes, [QueueNext]_queueVars PROVE QueueTypes'
    OBVIOUS
  <2> USE DEF shared, local, hist
  <2>1. CASE OpenControl
    BY <2>1, MasterIsThread DEF OpenControl, QueueTypes, PCs
  <2>2. ASSUME NEW S \in SUBSET (Checks \ added), Add(S) PROVE QueueTypes'
    <3>1. Cardinality(S) \in Nat
      BY ChecksFinite
    <3>2. pc' \in [Threads -> PCs]
      BY <2>2 DEF Add, NotifyWorkers, QueueTypes, PCs
    <3>3. QED
      BY <2>2, <3>1, <3>2 DEF Add, QueueTypes
  <2>3. ASSUME NEW early \in BOOLEAN, Wait(early) PROVE QueueTypes'
    BY <2>3, MasterIsThread DEF Wait, QueueTypes, PCs
  <2>4. ASSUME NEW t \in Threads, Enter(t) PROVE QueueTypes'
    BY <2>4, LoopTopTypes DEF Enter, QueueTypes
  <2>5. ASSUME NEW t \in Threads, Cleanup(t) PROVE QueueTypes'
    <3> DEFINE n == nTodo - Cardinality(batch[t])
    <3>1. n \in Int
      BY ChecksFinite DEF QueueTypes
    <3>2. NotifyMaster(t, n) \in [Threads -> PCs]
      BY MasterIsThread DEF NotifyMaster, QueueTypes, PCs
    <3>3. (fAllOk /\ fOk[t]) \in BOOLEAN
      OBVIOUS
    <3>4. LoopTop(t, fAllOk /\ fOk[t], n, nTotal, nIdle, NotifyMaster(t, n))
      BY <2>5 DEF Cleanup
    <3>5. nTotal \in Int /\ nIdle \in Int
      BY DEF QueueTypes
    <3> HIDE DEF n
    <3>6. QED
      BY <3>1, <3>2, <3>3, <3>4, <3>5, LoopTopTypes
  <2>6. ASSUME NEW t \in Threads, WakeUp(t) PROVE QueueTypes'
    BY <2>6, LoopTopTypes DEF WakeUp, QueueTypes
  <2>7. ASSUME NEW t \in Threads, Execute(t) PROVE QueueTypes'
    BY <2>7 DEF Execute, QueueTypes
  <2>8. ASSUME NEW t \in Threads, SpuriousWakeup(t) PROVE QueueTypes'
    BY <2>8 DEF SpuriousWakeup, QueueTypes, PCs
  <2>9. ASSUME NEW t \in Threads, Interrupt(t) PROVE QueueTypes'
    BY <2>9 DEF Interrupt, QueueTypes, PCs
  <2>10. CASE UNCHANGED queueVars
    BY <2>10 DEF queueVars, QueueTypes
  <2>11. QED
    BY <2>1, <2>2, <2>3, <2>4, <2>5, <2>6, <2>7, <2>8, <2>9, <2>10
       DEF QueueNext, MasterStep, LoopStep
<1>3. QED
  BY <1>1, <1>2

-----------------------------------------------------------------------------
(* What is outstanding apart from the batch of thread t.                   *)
Rest(t) == queue \cup UNION {batch[u] : u \in Threads \ {t}}

(* The state a thread may reach the while test of Loop() in, with its own  *)
(* batch accounted for and itself counted neither as working nor waiting.  *)
AtLoopTop(t, ok, n, tot, idle, pcs) ==
  /\ ok \in BOOLEAN /\ n \in Int /\ tot \in Int /\ idle \in Int
  /\ pcs \in [Threads -> PCs]
  /\ \A u \in Threads : pcs[u] = pc[u] \/ (u = Master /\ pc[u] = "wait" /\ pcs[u] = "awake")
  /\ pc[t] \in {"enter", "work", "awake"} /\ left[t] = {}
  /\ idle = Cardinality(Waiting \ {t}) + (IF Master \in interrupted THEN 1 ELSE 0)
  /\ tot = idle + Cardinality(Working \ {t}) + 1
  /\ n = Cardinality(Rest(t))
  /\ pc[Master] # "closed" /\ ok => added \ Rest(t) \subseteq passed
  /\ ~ok => added \cap Bad # {}
  /\ pc[Master] = "closed" => ok

(* The thread sets are finite, so their cardinalities are naturals.        *)
LEMMA ThreadsFinite ==
  ASSUME NEW S \in SUBSET Threads
  PROVE  IsFiniteSet(S) /\ Cardinality(S) \in Nat
<1>1. IsFiniteSet(Threads)
  BY CheckQueueAssumption, FS_AddElement DEF Threads
<1>2. QED
  BY <1>1, FS_Subset, FS_CardinalityType

(* Removing a thread from a set that holds it lowers the count by one.     *)
LEMMA CountWithout ==
  ASSUME NEW S \in SUBSET Threads, NEW t \in Threads
  PROVE  /\ t \in S => Cardinality(S) = Cardinality(S \ {t}) + 1
         /\ t \notin S => S = S \ {t}
BY ThreadsFinite, FS_RemoveElement

(* Giving thread t a batch from the queue leaves Rest(t) outstanding.      *)
LEMMA OutstandingAfter ==
  ASSUME QueueTypes, NEW t \in Threads, NEW b \in SUBSET queue,
         queue' = queue \ b, batch' = [batch EXCEPT ![t] = b]
  PROVE  Outstanding' = Rest(t)
<1>1. ASSUME NEW c \in Outstanding' PROVE c \in Rest(t)
  <2>1. CASE c \in queue'
    BY <2>1 DEF Rest
  <2>2. ASSUME NEW u \in Threads, c \in batch'[u] PROVE c \in Rest(t)
    BY <2>2 DEF QueueTypes, Rest
  <2>3. QED
    BY <1>1, <2>1, <2>2 DEF Outstanding
<1>2. ASSUME NEW c \in Rest(t) PROVE c \in Outstanding'
  <2>1. CASE c \in queue /\ c \notin b
    BY <2>1 DEF Outstanding
  <2>2. CASE c \in b
    <3>1. c \in batch'[t]
      BY <2>2 DEF QueueTypes
    <3>2. QED
      BY <3>1 DEF Outstanding
  <2>3. ASSUME NEW u \in Threads \ {t}, c \in batch[u] PROVE c \in Outstanding'
    <3>1. c \in batch'[u]
      BY <2>3 DEF QueueTypes
    <3>2. QED
      BY <3>1 DEF Outstanding
  <2>4. QED
    BY <1>2, <2>1, <2>2, <2>3 DEF Rest
<1>3. QED
  BY <1>1, <1>2

(* Without its batch, thread t leaves Rest(t) of what was outstanding.     *)
LEMMA RestIsOutstandingWithout ==
  ASSUME QueueTypes, BatchInv, NEW t \in Threads
  PROVE  /\ Rest(t) = Outstanding \ batch[t]
         /\ batch[t] \subseteq Outstanding
         /\ Outstanding \in SUBSET Checks
<1>1. batch[t] \subseteq Outstanding
  BY DEF Outstanding
<1>2. Outstanding \in SUBSET Checks
  BY DEF Outstanding, QueueTypes
<1>3. ASSUME NEW c \in Rest(t) PROVE c \in Outstanding \ batch[t]
  <2>1. CASE c \in queue
    BY <2>1 DEF Outstanding, BatchInv
  <2>2. ASSUME NEW u \in Threads \ {t}, c \in batch[u] PROVE c \in Outstanding \ batch[t]
    BY <2>2 DEF Outstanding, BatchInv
  <2>3. QED
    BY <1>3, <2>1, <2>2 DEF Rest
<1>4. ASSUME NEW c \in Outstanding \ batch[t] PROVE c \in Rest(t)
  BY <1>4 DEF Outstanding, Rest
<1>5. QED
  BY <1>1, <1>2, <1>3, <1>4

(* What the three ways on from the while test have in common and where     *)
(* they differ.                                                            *)
LoopTopOutcome(t, ok, n, tot, idle, pcs) ==
  /\ Outstanding' = Rest(t)
  /\ \A u \in Threads \ {t} : /\ pc'[u] = pcs[u] /\ batch'[u] = batch[u]
                              /\ left'[u] = left[u] /\ fOk'[u] = fOk[u]
  /\ batch'[t] \subseteq queue /\ left'[t] = batch'[t]
  /\ queue' = queue \ batch'[t]
  /\ pc'[t] = "work" <=> batch'[t] # {}
  /\ pc'[t] = "work" => fOk'[t] = ok
  /\ nTodo' = n /\ UNCHANGED <<interrupted, added, passed>>
  /\ \/ /\ pc'[t] = "closed" /\ t = Master /\ n = 0 /\ fAllOk' = TRUE
        /\ nTotal' = tot - 1 /\ nIdle' = idle
        /\ verdict' = IF unwinding THEN "none" ELSE IF ok THEN "ok" ELSE "fail"
     \/ /\ pc'[t] = "wait" /\ fAllOk' = ok /\ verdict' = verdict
        /\ nTotal' = tot /\ nIdle' = idle + 1
     \/ /\ pc'[t] = "work" /\ fAllOk' = ok /\ verdict' = verdict
        /\ nTotal' = tot /\ nIdle' = idle /\ queue # {}

LEMMA LoopTopFacts ==
  ASSUME QueueTypes, NEW t \in Threads, NEW ok, NEW n, NEW tot, NEW idle, NEW pcs,
         AtLoopTop(t, ok, n, tot, idle, pcs), LoopTop(t, ok, n, tot, idle, pcs)
  PROVE  LoopTopOutcome(t, ok, n, tot, idle, pcs)
<1> USE DEF LoopTopOutcome
<1>1. CASE ReturnResult(t, ok, n, tot, idle, pcs)
  <2>1. Outstanding' = Rest(t)
    <3>1. {} \in SUBSET queue /\ queue' = queue \ {} /\ batch' = [batch EXCEPT ![t] = {}]
      BY <1>1 DEF ReturnResult
    <3>2. QED
      BY <3>1, OutstandingAfter
  <2>2. QED
    BY <1>1, <2>1 DEF LoopTop, ReturnResult, AtLoopTop, QueueTypes
<1>2. CASE Sleep(t, ok, n, tot, idle, pcs)
  <2>1. Outstanding' = Rest(t)
    <3>1. {} \in SUBSET queue /\ queue' = queue \ {} /\ batch' = [batch EXCEPT ![t] = {}]
      BY <1>2 DEF Sleep
    <3>2. QED
      BY <3>1, OutstandingAfter
  <2>2. QED
    BY <1>2, <2>1 DEF LoopTop, Sleep, AtLoopTop, QueueTypes
<1>3. CASE TakeBatch(t, ok, n, tot, idle, pcs)
  <2>1. PICK b \in SUBSET queue :
          /\ Cardinality(b) = NowSize(Cardinality(queue), tot, idle)
          /\ queue' = queue \ b
          /\ batch' = [batch EXCEPT ![t] = b]
          /\ left' = [left EXCEPT ![t] = b]
    BY <1>3 DEF TakeBatch
  <2>2. Outstanding' = Rest(t)
    BY <2>1, OutstandingAfter
  <2>3. b # {}
    <3>1. b \in SUBSET Checks
      BY DEF QueueTypes
    <3>2. NowSize(Cardinality(queue), tot, idle) # 0
      BY CheckQueueAssumption DEF NowSize
    <3>3. QED
      BY <2>1, <3>1, <3>2, FS_EmptySet
  <2>4. batch'[t] = b /\ left'[t] = b
    BY <2>1 DEF QueueTypes
  <2>5. QED
    BY <1>3, <2>1, <2>2, <2>3, <2>4 DEF LoopTop, TakeBatch, AtLoopTop, QueueTypes
<1>4. QED
  BY <1>1, <1>2, <1>3 DEF LoopTop

(* A thread that comes to the while test in order leaves all in order.     *)
LEMMA LoopTopInv ==
  ASSUME QueueInv, NEW t \in Threads, NEW ok, NEW n, NEW tot, NEW idle, NEW pcs,
         AtLoopTop(t, ok, n, tot, idle, pcs), LoopTop(t, ok, n, tot, idle, pcs)
  PROVE  QueueInv'
<1> USE MasterIsThread DEF QueueInv
<1>1. QueueTypes'
  BY LoopTopTypes DEF AtLoopTop
<1> DEFINE Outcome == LoopTopOutcome(t, ok, n, tot, idle, pcs)
<1>0. Outcome
  BY LoopTopFacts
<1>2. PoolInv'
  <2>1. Waiting \ {t} \in SUBSET Threads /\ Working \ {t} \in SUBSET Threads
    BY DEF Waiting, Working
  <2>2. Cardinality(Waiting \ {t}) \in Nat /\ Cardinality(Working \ {t}) \in Nat
    BY <2>1, ThreadsFinite
  <2>3. CASE pc'[t] = "closed"
    <3>1. Waiting' = Waiting \ {t} /\ Working' = Working \ {t}
      BY <2>3, <1>0 DEF LoopTopOutcome, Waiting, Working, AtLoopTop
    <3>2. QED
      BY <2>2, <2>3, <3>1, <1>0 DEF LoopTopOutcome, PoolInv, AtLoopTop
  <2>4. CASE pc'[t] = "wait"
    <3>1. Waiting' = (Waiting \ {t}) \cup {t} /\ Working' = Working \ {t}
      BY <2>4, <1>0 DEF LoopTopOutcome, Waiting, Working, AtLoopTop
    <3>2. Cardinality(Waiting') = Cardinality(Waiting \ {t}) + 1
      BY <2>1, <3>1, ThreadsFinite, FS_AddElement
    <3>3. QED
      BY <2>2, <2>4, <3>1, <3>2, <1>0 DEF LoopTopOutcome, PoolInv, AtLoopTop
  <2>5. CASE pc'[t] = "work"
    <3>1. Waiting' = Waiting \ {t} /\ Working' = (Working \ {t}) \cup {t}
      BY <2>5, <1>0 DEF LoopTopOutcome, Waiting, Working, AtLoopTop
    <3>2. Cardinality(Working') = Cardinality(Working \ {t}) + 1
      BY <2>1, <3>1, ThreadsFinite, FS_AddElement
    <3>3. QED
      BY <2>2, <2>5, <3>1, <3>2, <1>0 DEF LoopTopOutcome, PoolInv, AtLoopTop
  <2>6. QED
    BY <2>3, <2>4, <2>5, <1>0 DEF LoopTopOutcome
<1>3. BatchInv'
  <2>1. \A u \in Threads : pc'[u] = "work" <=> batch'[u] # {}
    BY <1>0 DEF LoopTopOutcome, AtLoopTop, BatchInv
  <2>2. \A u \in Threads : left'[u] \subseteq batch'[u] /\ batch'[u] \cap queue' = {}
    BY <1>0 DEF LoopTopOutcome, BatchInv
  <2>3. \A u, v \in Threads : u # v => batch'[u] \cap batch'[v] = {}
    BY <1>0 DEF LoopTopOutcome, BatchInv
  <2>4. Outstanding' \subseteq added'
    BY <1>0, RestIsOutstandingWithout DEF LoopTopOutcome, BatchInv
  <2>5. QED
    BY <2>1, <2>2, <2>3, <2>4 DEF BatchInv
<1>4. TodoCountsOutstanding'
  BY <1>0 DEF LoopTopOutcome, AtLoopTop, TodoCountsOutstanding
<1>5. pc[Master] # "closed" => (pc'[Master] = "closed" => t = Master)
  BY <1>0 DEF LoopTopOutcome, AtLoopTop
<1>6. pc[Master] = "closed" => t # Master /\ pc'[Master] = "closed" /\ Rest(t) = {} /\ ok
  <2> SUFFICES ASSUME pc[Master] = "closed" PROVE t # Master /\ pc'[Master] = "closed" /\ Rest(t) = {} /\ ok
    OBVIOUS
  <2>1. t # Master
    BY DEF AtLoopTop
  <2>2. pc'[Master] = "closed"
    BY <1>0, <2>1 DEF LoopTopOutcome, AtLoopTop
  <2>3. Rest(t) = {}
    BY RestIsOutstandingWithout DEF ResultInv
  <2>4. QED
    BY <2>1, <2>2, <2>3 DEF AtLoopTop
<1>7. pc'[t] = "closed" => t = Master /\ Outstanding' = {} /\ fAllOk' = TRUE
  <2>1. Rest(t) \in SUBSET Checks
    BY RestIsOutstandingWithout
  <2>2. n = 0 => Rest(t) = {}
    BY <2>1, ChecksFinite, FS_EmptySet DEF AtLoopTop
  <2>3. QED
    BY <1>0, <2>2 DEF LoopTopOutcome
<1>8. ResultInv'
  <2>1. passed' \subseteq added' \ Bad
    BY <1>0 DEF LoopTopOutcome, ResultInv
  <2>2. pc'[Master] # "closed" /\ fAllOk' => added' \ Outstanding' \subseteq passed'
    BY <1>0, <1>6 DEF LoopTopOutcome, AtLoopTop
  <2>3. ~fAllOk' => added' \cap Bad # {}
    BY <1>0 DEF LoopTopOutcome, AtLoopTop
  <2>4. \A u \in Threads : pc'[u] = "work" /\ fOk'[u] => batch'[u] \ left'[u] \subseteq passed'
    BY <1>0 DEF LoopTopOutcome, AtLoopTop, ResultInv
  <2>5. \A u \in Threads : pc'[u] = "work" /\ ~fOk'[u] => added' \cap Bad # {}
    BY <1>0 DEF LoopTopOutcome, AtLoopTop, ResultInv
  <2>6. pc'[Master] = "closed" => Outstanding' = {} /\ fAllOk'
    <3>1. CASE pc[Master] = "closed"
      <4>1. Outstanding' = {} /\ fAllOk' = ok
        BY <1>0, <1>6, <3>1 DEF LoopTopOutcome
      <4>2. QED
        BY <1>6, <3>1, <4>1
    <3>2. CASE pc[Master] # "closed"
      BY <1>5, <1>7, <3>2
    <3>3. QED
      BY <3>1, <3>2
  <2>7. pc'[Master] # "closed" => verdict' = "none"
    BY <1>0, <1>6 DEF LoopTopOutcome, AtLoopTop, ResultInv
  <2>8. pc'[Master] # "dead"
    BY <1>0 DEF LoopTopOutcome, AtLoopTop, ResultInv
  <2>9. QED
    BY <2>1, <2>2, <2>3, <2>4, <2>5, <2>6, <2>7, <2>8 DEF ResultInv
<1>9. VerdictCorrect'
  <2>1. CASE pc'[t] = "closed"
    <3>1. Rest(t) = {} /\ t = Master /\ pc[Master] # "closed"
      BY <1>0, <1>6, <1>7, <2>1 DEF LoopTopOutcome
    <3>2. ok => added \subseteq passed
      BY <3>1 DEF AtLoopTop
    <3>3. verdict' = IF unwinding THEN "none" ELSE IF ok THEN "ok" ELSE "fail"
      BY <1>0, <2>1 DEF LoopTopOutcome
    <3>4. added' = added /\ passed' = passed /\ passed \subseteq added \ Bad
      BY <1>0 DEF LoopTopOutcome, ResultInv
    <3>5. QED
      BY <3>2, <3>3, <3>4 DEF VerdictCorrect, AtLoopTop
  <2>2. CASE pc'[t] # "closed"
    BY <1>0, <2>2 DEF LoopTopOutcome, VerdictCorrect
  <2>3. QED
    BY <2>1, <2>2
<1>10. QED
  BY <1>1, <1>2, <1>3, <1>4, <1>8, <1>9

(* The invariant holds at the start and every step of every thread keeps   *)
(* it.                                                                     *)
LEMMA QueueInvInductive == (QueueInit => QueueInv) /\ (QueueInv /\ [QueueNext]_queueVars => QueueInv')
<1>1. QueueInit => QueueInv
  <2> SUFFICES ASSUME QueueInit PROVE QueueInv
    OBVIOUS
  <2>1. QueueTypes
    BY QueueTypesInductive
  <2>2. Outstanding = {} /\ Waiting = {} /\ Working = {}
    BY DEF QueueInit, Outstanding, Waiting, Working
  <2>3. PoolInv /\ TodoCountsOutstanding
    BY <2>2, FS_EmptySet DEF QueueInit, PoolInv, TodoCountsOutstanding
  <2>4. BatchInv
    BY <2>2 DEF QueueInit, BatchInv
  <2>5. ResultInv /\ VerdictCorrect
    BY <2>2, MasterIsThread DEF QueueInit, ResultInv, VerdictCorrect
  <2>6. QED
    BY <2>1, <2>3, <2>4, <2>5 DEF QueueInv
<1>2. QueueInv /\ [QueueNext]_queueVars => QueueInv'
  <2> SUFFICES ASSUME QueueInv, [QueueNext]_queueVars PROVE QueueInv'
    OBVIOUS
  <2>0. QueueTypes'
    BY QueueTypesInductive DEF QueueInv
  <2> USE MasterIsThread DEF QueueInv, shared, local, hist
  <2>1. CASE OpenControl
    <3>1. Outstanding' = Outstanding /\ Waiting' = Waiting /\ Working' = Working
      BY <2>1 DEF OpenControl, Outstanding, Waiting, Working, QueueTypes
    <3>2. PoolInv' /\ TodoCountsOutstanding'
      BY <2>1, <3>1 DEF OpenControl, PoolInv, TodoCountsOutstanding
    <3>3. BatchInv'
      BY <2>1, <3>1 DEF OpenControl, BatchInv, ResultInv, QueueTypes
    <3>4. ResultInv' /\ VerdictCorrect'
      BY <2>1, <3>1 DEF OpenControl, BatchInv, ResultInv, VerdictCorrect, QueueTypes, Outstanding
    <3>5. QED
      BY <2>0, <3>2, <3>3, <3>4
  <2>2. ASSUME NEW S \in SUBSET (Checks \ added), Add(S) PROVE QueueInv'
    <3>1. \A t \in Threads : \/ pc'[t] = pc[t]
                             \/ t \in Workers /\ pc[t] = "wait" /\ pc'[t] = "awake"
      <4>1. CASE pc' = pc
        BY <4>1
      <4>2. CASE pc' = [t \in Threads |-> IF t \in {w \in Workers : pc[w] = "wait"}
                                          THEN "awake" ELSE pc[t]]
        BY <4>2
      <4>3. ASSUME NEW w \in {w \in Workers : pc[w] = "wait"}, pc' = [pc EXCEPT ![w] = "awake"]
            PROVE  \A t \in Threads : \/ pc'[t] = pc[t]
                                      \/ t \in Workers /\ pc[t] = "wait" /\ pc'[t] = "awake"
        BY <4>3 DEF QueueTypes
      <4>4. QED
        BY <2>2, <4>1, <4>2, <4>3 DEF Add, NotifyWorkers
    <3>2. pc[Master] = "open" /\ pc'[Master] = "open"
      BY <2>2, <3>1, CheckQueueAssumption DEF Add
    <3>3. Outstanding' = Outstanding \cup S /\ Waiting' = Waiting /\ Working' = Working
      <4>1. Outstanding' = Outstanding \cup S
        BY <2>2 DEF Add, Outstanding
      <4>2. Waiting' = Waiting /\ Working' = Working
        BY <3>1 DEF Waiting, Working
      <4>3. QED
        BY <4>1, <4>2
    <3>4. TodoCountsOutstanding'
      <4>1. S \in SUBSET Checks /\ Outstanding \in SUBSET Checks /\ S \cap Outstanding = {}
        BY DEF Outstanding, QueueTypes, BatchInv
      <4>2. Cardinality(Outstanding \cup S) = Cardinality(Outstanding) + Cardinality(S)
        BY <4>1, CountChecks
      <4>3. QED
        BY <2>2, <3>3, <4>2 DEF Add, TodoCountsOutstanding
    <3>5. PoolInv'
      BY <2>2, <3>3 DEF Add, PoolInv
    <3>6. BatchInv'
      <4>1. \A t \in Threads : batch[t] \cap S = {}
        BY DEF Outstanding, BatchInv
      <4>2. QED
        BY <2>2, <3>1, <3>3, <4>1 DEF Add, BatchInv
    <3>7. ResultInv' /\ VerdictCorrect'
      BY <2>2, <3>1, <3>2, <3>3 DEF Add, ResultInv, VerdictCorrect
    <3>8. QED
      BY <2>0, <3>4, <3>5, <3>6, <3>7
  <2>3. ASSUME NEW early \in BOOLEAN, Wait(early) PROVE QueueInv'
    <3>1. Outstanding' = Outstanding /\ Waiting' = Waiting /\ Working' = Working
      BY <2>3 DEF Wait, Outstanding, Waiting, Working, QueueTypes
    <3>2. PoolInv' /\ TodoCountsOutstanding'
      BY <2>3, <3>1 DEF Wait, PoolInv, TodoCountsOutstanding
    <3>3. BatchInv'
      BY <2>3, <3>1 DEF Wait, BatchInv, QueueTypes
    <3>4. ResultInv' /\ VerdictCorrect'
      BY <2>3, <3>1 DEF Wait, ResultInv, VerdictCorrect, QueueTypes
    <3>5. QED
      BY <2>0, <3>2, <3>3, <3>4
  <2>4. ASSUME NEW t \in Threads, Enter(t) PROVE QueueInv'
    <3>1. Rest(t) = Outstanding /\ left[t] = {}
      <4>1. batch[t] = {} /\ left[t] = {}
        BY <2>4 DEF Enter, BatchInv
      <4>2. Rest(t) = Outstanding \ batch[t]
        BY RestIsOutstandingWithout
      <4>3. QED
        BY <4>1, <4>2
    <3>2. t \notin Waiting /\ t \notin Working
      BY <2>4 DEF Enter, Waiting, Working
    <3>3. Waiting \ {t} = Waiting /\ Working \ {t} = Working
      BY <3>2
    <3>4. Cardinality(Working) \in Nat /\ Cardinality(Waiting) \in Nat
      BY ThreadsFinite DEF Working, Waiting
    <3>5. AtLoopTop(t, fAllOk, nTodo, nTotal + 1, nIdle, pc)
      <4>1. /\ fAllOk \in BOOLEAN /\ nTodo \in Int /\ nTotal \in Int /\ nIdle \in Int
            /\ pc \in [Threads -> PCs] /\ pc[t] = "enter"
        BY <2>4 DEF QueueTypes, Enter
      <4>2. nTotal + 1 = nIdle + Cardinality(Working \ {t}) + 1
        BY <3>3, <3>4, <4>1 DEF PoolInv
      <4>5. nIdle = Cardinality(Waiting \ {t}) + (IF Master \in interrupted THEN 1 ELSE 0)
        BY <3>3, Zenon DEF PoolInv
      <4>6. nTodo = Cardinality(Rest(t)) /\ left[t] = {}
        BY <3>1, Zenon DEF TodoCountsOutstanding
      <4>3. /\ pc[Master] # "closed" /\ fAllOk => added \ Rest(t) \subseteq passed
            /\ ~fAllOk => added \cap Bad # {}
            /\ pc[Master] = "closed" => fAllOk
        BY <3>1 DEF ResultInv
      <4>4. QED
        BY <4>1, <4>2, <4>3, <4>5, <4>6 DEF AtLoopTop
    <3>6. QED
      BY <2>4, <3>5, LoopTopInv DEF Enter
  <2>5. ASSUME NEW t \in Threads, Cleanup(t) PROVE QueueInv'
    <3> DEFINE n == nTodo - Cardinality(batch[t])
               pcs == NotifyMaster(t, n)
               ok == fAllOk /\ fOk[t]
    <3>1. pc[t] = "work" /\ left[t] = {}
      BY <2>5 DEF Cleanup
    <3>2. t \in Working /\ Waiting \ {t} = Waiting
      BY <3>1 DEF Waiting, Working
    <3>3. /\ Cardinality(Working) = Cardinality(Working \ {t}) + 1
          /\ Cardinality(Working \ {t}) \in Nat /\ Cardinality(Waiting) \in Nat
      BY <3>2, CountWithout, ThreadsFinite DEF Waiting, Working
    <3>4. n = Cardinality(Rest(t)) /\ n \in Int
      <4>1. /\ Rest(t) = Outstanding \ batch[t] /\ Outstanding \cap batch[t] = batch[t]
            /\ Outstanding \in SUBSET Checks
        BY RestIsOutstandingWithout
      <4>2. batch[t] \in SUBSET Checks /\ batch[t] \subseteq Outstanding
        BY <4>1 DEF QueueTypes
      <4>3. Cardinality(Outstanding \ batch[t]) = Cardinality(Outstanding) - Cardinality(batch[t])
        BY <4>1, <4>2, CountChecks
      <4>4. Cardinality(Rest(t)) = Cardinality(Outstanding \ batch[t])
        BY <4>1, Zenon
      <4>5. Cardinality(batch[t]) \in Nat
        BY <4>2, ChecksFinite
      <4>6. QED
        BY <4>3, <4>4, <4>5 DEF TodoCountsOutstanding, QueueTypes
    <3>5. /\ pcs \in [Threads -> PCs]
          /\ \A u \in Threads : \/ pcs[u] = pc[u]
                                \/ u = Master /\ pc[u] = "wait" /\ pcs[u] = "awake"
      BY DEF NotifyMaster, QueueTypes, PCs
    <3>6. pc[Master] # "closed"
      BY <3>1 DEF BatchInv, ResultInv, Outstanding
    <3>7. ok => added \ Rest(t) \subseteq passed
      BY <3>1, <3>6, RestIsOutstandingWithout DEF ResultInv
    <3>8. ~ok => added \cap Bad # {}
      BY <3>1 DEF ResultInv
    <3>9. ok \in BOOLEAN
      OBVIOUS
    <3>10. nTotal \in Int /\ nIdle \in Int
      BY DEF QueueTypes
    <3>11. LoopTop(t, ok, n, nTotal, nIdle, pcs)
      BY <2>5 DEF Cleanup
    <3> HIDE DEF n, pcs, ok
    <3>12. AtLoopTop(t, ok, n, nTotal, nIdle, pcs)
      BY <3>1, <3>2, <3>3, <3>4, <3>5, <3>6, <3>7, <3>8, <3>9, <3>10
         DEF AtLoopTop, PoolInv
    <3>13. QED
      BY <3>11, <3>12, LoopTopInv
  <2>6. ASSUME NEW t \in Threads, WakeUp(t) PROVE QueueInv'
    <3>1. Rest(t) = Outstanding /\ left[t] = {}
      BY <2>6, RestIsOutstandingWithout DEF WakeUp, BatchInv
    <3>2. t \in Waiting /\ Working \ {t} = Working
      BY <2>6 DEF WakeUp, Waiting, Working
    <3>3. /\ Cardinality(Waiting) = Cardinality(Waiting \ {t}) + 1
          /\ Cardinality(Waiting \ {t}) \in Nat /\ Cardinality(Working) \in Nat
      BY <3>2, CountWithout, ThreadsFinite DEF Waiting, Working
    <3>4. AtLoopTop(t, fAllOk, nTodo, nTotal, nIdle - 1, pc)
      <4>1. /\ fAllOk \in BOOLEAN /\ nTodo \in Int /\ nTotal \in Int /\ nIdle \in Int
            /\ pc \in [Threads -> PCs] /\ pc[t] = "awake"
        BY <2>6 DEF QueueTypes, WakeUp
      <4>2. /\ nTotal = (nIdle - 1) + Cardinality(Working \ {t}) + 1
            /\ nIdle - 1 = Cardinality(Waiting \ {t}) + (IF Master \in interrupted THEN 1 ELSE 0)
        <5>1. Cardinality(Working \ {t}) = Cardinality(Working)
          BY <3>2, Zenon
        <5>2. QED
          BY <3>3, <4>1, <5>1 DEF PoolInv
      <4>5. nTodo = Cardinality(Rest(t)) /\ left[t] = {}
        BY <3>1, Zenon DEF TodoCountsOutstanding
      <4>3. /\ pc[Master] # "closed" /\ fAllOk => added \ Rest(t) \subseteq passed
            /\ ~fAllOk => added \cap Bad # {}
            /\ pc[Master] = "closed" => fAllOk
        BY <3>1 DEF ResultInv
      <4>4. QED
        BY <4>1, <4>2, <4>3, <4>5 DEF AtLoopTop
    <3>5. QED
      BY <2>6, <3>4, LoopTopInv DEF WakeUp
  <2>7. ASSUME NEW t \in Threads, Execute(t) PROVE QueueInv'
    <3>1. PICK c \in left[t] :
            /\ left' = [left EXCEPT ![t] = @ \ {c}]
            /\ fOk' = [fOk EXCEPT ![t] = @ /\ c \notin Bad]
            /\ passed' = IF fOk[t] /\ c \notin Bad THEN passed \cup {c} ELSE passed
      BY <2>7 DEF Execute
    <3>2. /\ pc[t] = "work"
          /\ UNCHANGED <<shared, pc, batch, unwinding, interrupted, added, verdict>>
      BY <2>7 DEF Execute
    <3>3. Outstanding' = Outstanding /\ Waiting' = Waiting /\ Working' = Working
      BY <3>2 DEF Outstanding, Waiting, Working
    <3>4. PoolInv' /\ TodoCountsOutstanding'
      BY <3>2, <3>3 DEF PoolInv, TodoCountsOutstanding
    <3>5. BatchInv'
      BY <3>1, <3>2, <3>3 DEF BatchInv, QueueTypes
    <3>6. c \in batch[t] /\ c \in added /\ c \in Outstanding
      BY <3>1 DEF BatchInv, Outstanding
    <3>7. passed \subseteq passed' /\ passed' \subseteq added \ Bad
      BY <3>1, <3>6 DEF ResultInv
    <3>8. pc[Master] # "closed"
      BY <3>6 DEF ResultInv
    <3>9. \A u \in Threads : pc[u] = "work" /\ fOk'[u] => batch[u] \ left'[u] \subseteq passed'
      <4>1. ASSUME fOk'[t] PROVE batch[t] \ left'[t] \subseteq passed'
        <5>1. fOk[t] /\ c \notin Bad
          BY <3>1, <4>1 DEF QueueTypes
        <5>2. left'[t] = left[t] \ {c} /\ passed' = passed \cup {c}
          BY <3>1, <5>1 DEF QueueTypes
        <5>3. QED
          BY <3>2, <5>1, <5>2 DEF ResultInv
      <4>2. \A u \in Threads \ {t} : fOk'[u] = fOk[u] /\ left'[u] = left[u]
        BY <3>1 DEF QueueTypes
      <4>3. QED
        BY <3>7, <4>1, <4>2 DEF ResultInv
    <3>10. \A u \in Threads : pc[u] = "work" /\ ~fOk'[u] => added \cap Bad # {}
      <4>1. ASSUME ~fOk'[t] PROVE added \cap Bad # {}
        BY <3>1, <3>2, <3>6, <4>1 DEF ResultInv, QueueTypes
      <4>2. \A u \in Threads \ {t} : fOk'[u] = fOk[u]
        BY <3>1 DEF QueueTypes
      <4>3. QED
        BY <4>1, <4>2 DEF ResultInv
    <3>11. ResultInv'
      BY <3>2, <3>3, <3>7, <3>8, <3>9, <3>10 DEF ResultInv
    <3>12. VerdictCorrect'
      BY <3>2, <3>8 DEF ResultInv, VerdictCorrect
    <3>13. QED
      BY <2>0, <3>4, <3>5, <3>11, <3>12
  <2>8. ASSUME NEW t \in Threads, SpuriousWakeup(t) PROVE QueueInv'
    <3>1. Outstanding' = Outstanding /\ Waiting' = Waiting /\ Working' = Working
      BY <2>8 DEF SpuriousWakeup, Outstanding, Waiting, Working, QueueTypes
    <3>2. PoolInv' /\ TodoCountsOutstanding'
      BY <2>8, <3>1 DEF SpuriousWakeup, PoolInv, TodoCountsOutstanding
    <3>3. BatchInv'
      BY <2>8, <3>1 DEF SpuriousWakeup, BatchInv, QueueTypes
    <3>4. ResultInv' /\ VerdictCorrect'
      BY <2>8, <3>1 DEF SpuriousWakeup, ResultInv, VerdictCorrect, QueueTypes
    <3>5. QED
      BY <2>0, <3>2, <3>3, <3>4
  <2>9. ASSUME NEW t \in Threads, Interrupt(t) PROVE QueueInv'
    <3>1. /\ t \in Waiting /\ t \notin interrupted /\ interrupted' = interrupted \cup {t}
          /\ UNCHANGED <<shared, local, hist>>
      BY <2>9 DEF Interrupt, Waiting
    <3>2. Outstanding' = Outstanding /\ Working' = Working
      BY <2>9 DEF Interrupt, Outstanding, Working, QueueTypes
    <3>3. TodoCountsOutstanding'
      BY <3>1, <3>2 DEF TodoCountsOutstanding
    <3>4. PoolInv'
      <4>1. CASE t = Master
        <5>1. Waiting' = Waiting \ {t}
          BY <2>9, <4>1 DEF Interrupt, Waiting, QueueTypes
        <5>2. /\ Cardinality(Waiting) = Cardinality(Waiting \ {t}) + 1
              /\ Cardinality(Waiting \ {t}) \in Nat
          BY <3>1, CountWithout, ThreadsFinite DEF Waiting
        <5>3. QED
          BY <3>1, <3>2, <4>1, <5>1, <5>2 DEF PoolInv
      <4>2. CASE t # Master
        <5>1. Waiting' = Waiting
          BY <2>9, <4>2 DEF Interrupt, Waiting, QueueTypes
        <5>2. QED
          BY <3>1, <3>2, <4>2, <5>1 DEF PoolInv
      <4>3. QED
        BY <4>1, <4>2
    <3>5. BatchInv'
      BY <2>9, <3>2 DEF Interrupt, BatchInv, QueueTypes
    <3>6. ResultInv' /\ VerdictCorrect'
      BY <2>9, <3>2 DEF Interrupt, ResultInv, VerdictCorrect, QueueTypes
    <3>7. QED
      BY <2>0, <3>3, <3>4, <3>5, <3>6
  <2>10. CASE UNCHANGED queueVars
    BY <2>10 DEF queueVars, QueueTypes, PoolInv, BatchInv, TodoCountsOutstanding, ResultInv,
                VerdictCorrect, Outstanding, Waiting, Working
  <2>11. QED
    BY <2>1, <2>2, <2>3, <2>4, <2>5, <2>6, <2>7, <2>8, <2>9, <2>10
       DEF QueueNext, MasterStep, LoopStep
<1>3. QED
  BY <1>1, <1>2

(* The counters of the pool and of the work never drop below zero, and     *)
(* every variable keeps its type.                                          *)
THEOREM QueueTypeCorrect == QueueSpec => []QueueTypeOK
<1>1. QueueInv => QueueTypeOK
  <2> SUFFICES ASSUME QueueInv PROVE QueueTypeOK
    OBVIOUS
  <2>1. /\ Cardinality(Waiting) \in Nat /\ Cardinality(Working) \in Nat
        /\ Cardinality(Outstanding) \in Nat
    <3>1. Outstanding \in SUBSET Checks
      BY DEF QueueInv, QueueTypes, Outstanding
    <3>2. QED
      BY <3>1, ThreadsFinite, ChecksFinite DEF Waiting, Working
  <2>2. QED
    BY <2>1 DEF QueueInv, PoolInv, TodoCountsOutstanding, QueueTypeOK
<1>2. QED
  BY <1>1, QueueInvInductive, PTL DEF QueueSpec

(* The result ConnectBlock acts on: Wait() returns true only if every      *)
(* script check of the block ran and succeeded, false only if one failed.  *)
THEOREM VerdictIsCorrect == QueueSpec => []VerdictCorrect
<1>1. QueueInv => VerdictCorrect
  BY DEF QueueInv
<1>2. QED
  BY <1>1, QueueInvInductive, PTL DEF QueueSpec

(* nTodo is the number of checks that were added and are not done yet,     *)
(* wherever they are: in the queue or in a worker's batch.                 *)
THEOREM TodoIsExact == QueueSpec => []TodoCountsOutstanding
<1>1. QueueInv => TodoCountsOutstanding
  BY DEF QueueInv
<1>2. QED
  BY <1>1, QueueInvInductive, PTL DEF QueueSpec

(* assert(isIdle) in CCheckQueueControl's constructor never fires, however *)
(* many workers there are and whichever of them were interrupted.          *)
THEOREM QueueIdleBetweenBlocks == QueueSpec => []IdleBetweenBlocks
<1>1. QueueInv => IdleBetweenBlocks
  <2> SUFFICES ASSUME QueueInv, pc[Master] = "closed" PROVE IsIdle
    BY DEF IdleBetweenBlocks
  <2>1. Outstanding = {} /\ fAllOk
    BY DEF QueueInv, ResultInv
  <2>2. Working = {}
    BY <2>1 DEF QueueInv, BatchInv, Outstanding, Working
  <2>3. nTodo = 0 /\ nTotal = nIdle + 0
    BY <2>1, <2>2, FS_EmptySet DEF QueueInv, TodoCountsOutstanding, PoolInv
  <2>4. nTotal = nIdle
    BY <2>3 DEF QueueInv, QueueTypes
  <2>5. QED
    BY <2>1, <2>3, <2>4 DEF IsIdle
<1>2. QED
  BY <1>1, QueueInvInductive, PTL DEF QueueSpec
=============================================================================
