------------------------------ MODULE CoinsMap ------------------------------
(***************************************************************************)
(* The map a CCoinsViewCache keeps (src/coins.cpp, src/coins.h): entries   *)
(* per transaction with their DIRTY and FRESH flags, what a lookup and a   *)
(* modification do to it, and how BatchWrite moves it into the view below, *)
(* another cache or the database (src/txdb.cpp).                           *)
(*                                                                         *)
(* A CCoins value is a member of Live (it has an unspent output) or Pruned *)
(* (it has none: coins.h compares all of these as equal, and Cleanup()     *)
(* leaves them with an empty vout).                                        *)
(***************************************************************************)

CONSTANTS
  Txids,    \* the transaction hashes
  Live,     \* the CCoins values with at least one unspent output
  Pruned,   \* every CCoins value without one
  Absent    \* what a view answers when GetCoins() returns false

ASSUME CoinsMapAssumption ==
  /\ Pruned \notin Live
  /\ Absent \notin Live
  /\ Absent # Pruned

Coins == Live \cup {Pruned}

(* CCoinsCacheEntry: DIRTY is "potentially different from the version in   *)
(* the parent view", FRESH is "the parent view does not have this entry".  *)
Entry == [coins : Coins, dirty : BOOLEAN, fresh : BOOLEAN]

Caches == UNION {[D -> Entry] : D \in SUBSET Txids}
Stores == UNION {[D -> Live] : D \in SUBSET Txids}

Empty == [t \in {} |-> Absent]

Put(c, t, e) == [x \in DOMAIN c \cup {t} |-> IF x = t THEN e ELSE c[x]]

Drop(c, t) == [x \in DOMAIN c \ {t} |-> c[x]]

-----------------------------------------------------------------------------
(* CCoinsViewDB::GetCoins.                                                 *)
DbCoins(db, t) == IF t \in DOMAIN db THEN db[t] ELSE Absent

(* CCoinsViewCache::GetCoins, where base is what the view below answers.   *)
CacheCoins(c, base, t) == IF t \in DOMAIN c THEN c[t].coins ELSE base

(* The unspent outputs an answer stands for: no entry and an entry without *)
(* unspent outputs are the same UTXO set.                                  *)
Shown(answer) == IF answer = Absent THEN Pruned ELSE answer

(* MUTANT of FetchCoins: every entry pulled in is marked FRESH.            *)
FetchCoinsAlwaysFresh(c, base, t) ==
  IF t \in DOMAIN c \/ base = Absent
  THEN c
  ELSE Put(c, t, [coins |-> base, dirty |-> FALSE, fresh |-> TRUE])

(* FetchCoins: a miss copies the answer of the view below into the cache.  *)
FetchCoins(c, base, t) ==
  IF t \in DOMAIN c \/ base = Absent
  THEN c
  ELSE Put(c, t, [coins |-> base, dirty |-> FALSE, fresh |-> base = Pruned])

(* The FRESH flag of the entry that ModifyCoins returns.                   *)
ModifiedFresh(c, base, t) ==
  IF t \in DOMAIN c THEN c[t].fresh ELSE base \in {Absent, Pruned}

(* ModifyCoins, the assignment through the CCoinsModifier it returns, and  *)
(* the modifier's destructor: new is the value the caller leaves.          *)
ModifyCoins(c, base, t, new) ==
  LET fresh == ModifiedFresh(c, base, t)
  IN  IF fresh /\ new = Pruned
      THEN Drop(c, t)
      ELSE Put(c, t, [coins |-> new, dirty |-> TRUE, fresh |-> fresh])

(* The assertion of CCoinsViewCache::BatchWrite: a modified, unspent entry *)
(* the parent cache lacks must be FRESH.                                   *)
BatchWriteAsserts(parent, child) ==
  \A t \in DOMAIN child \ DOMAIN parent :
    child[t].dirty /\ child[t].coins # Pruned => child[t].fresh

(* MUTANT of BatchWrite: a spent entry is deleted from the parent whether  *)
(* or not the parent's entry is FRESH.                                     *)
BatchWriteErasesSpent(parent, child) ==
  LET dirty == {t \in DOMAIN child : child[t].dirty}
      live  == {t \in dirty : child[t].coins # Pruned}
  IN  [t \in (DOMAIN parent \ dirty) \cup live |->
         IF t \in live
         THEN [coins |-> child[t].coins, dirty |-> TRUE,
               fresh |-> IF t \in DOMAIN parent THEN parent[t].fresh ELSE TRUE]
         ELSE parent[t]]

(* CCoinsViewCache::BatchWrite(mapCoins): push the child's modified        *)
(* entries into the parent cache.                                          *)
BatchWrite(parent, child) ==
  LET dirty  == {t \in DOMAIN child : child[t].dirty}
      added  == {t \in dirty \ DOMAIN parent : child[t].coins # Pruned}
      erased == {t \in dirty \cap DOMAIN parent :
                   parent[t].fresh /\ child[t].coins = Pruned}
  IN  [t \in (DOMAIN parent \cup added) \ erased |->
         IF t \in added
         THEN [coins |-> child[t].coins, dirty |-> TRUE, fresh |-> TRUE]
         ELSE IF t \in dirty
              THEN [coins |-> child[t].coins, dirty |-> TRUE, fresh |-> parent[t].fresh]
              ELSE parent[t]]

(* CCoinsViewDB::BatchWrite: one atomic LevelDB batch of the modified      *)
(* entries; the ones without unspent outputs are erased.                   *)
BatchWriteDB(db, child) ==
  LET dirty  == {t \in DOMAIN child : child[t].dirty}
      kept   == {t \in dirty : child[t].coins # Pruned}
  IN  [t \in (DOMAIN db \ dirty) \cup kept |->
         IF t \in kept THEN child[t].coins ELSE db[t]]

=============================================================================
