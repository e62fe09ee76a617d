------------------------------ MODULE AddrMan ------------------------------
(***************************************************************************)
(* The peer address tables: CAddrMan (src/addrman.cpp, src/addrman.h), its *)
(* dump to peers.dat and the load at the next start.                       *)
(*                                                                         *)
(* Every public operation holds CAddrMan::cs from end to end and is one    *)
(* action; am is the object as that lock protects it.  The bucket hashes   *)
(* are constants: any functions of the address, the source and the bucket. *)
(* Which entries are too old or failed too often (IsTerrible), whether an  *)
(* announcement brings news and the stochastic test of Add_ depend on      *)
(* clocks and dice and are free choices; Attempt_ and Connected_ change    *)
(* nothing else.  A restart writes the tables and reads them back: a crash *)
(* that falls back on an older peers.dat leads to a state an orderly       *)
(* restart reached at the time of that dump.                               *)
(***************************************************************************)
EXTENDS Integers, Sequences, FiniteSets

CONSTANTS
  Services,     \* the services (address and port) that are announced
  Ip,           \* Ip[a]: the address of service a without its port
  Sources,      \* the peers that announce them
  NewBuckets,   \* the buckets of the new table
  Places,       \* 0..ADDRMAN_BUCKET_SIZE-1
  TriedSlots,   \* <<bucket, place>> of the tried table
  NewBucket,    \* NewBucket[a][s]: GetNewBucket
  NewPlace,     \* NewPlace[a][b]: GetBucketPosition in new bucket b
  TriedSlot,    \* TriedSlot[a]: GetTriedBucket and the position in it
  MaxRefs,      \* ADDRMAN_NEW_BUCKETS_PER_ADDRESS
  GetAddrPct,   \* ADDRMAN_GETADDR_MAX_PCT
  MaxIds        \* bound: the entries created between two starts

ASSUME AddrManAssumption ==
  /\ \A a \in Services :
        /\ \A s \in Sources : NewBucket[a][s] \in NewBuckets
        /\ \A b \in NewBuckets : NewPlace[a][b] \in Places
        /\ TriedSlot[a] \in TriedSlots
  /\ IsFiniteSet(Services) /\ IsFiniteSet(NewBuckets) /\ IsFiniteSet(Places) /\ IsFiniteSet(TriedSlots)
  /\ MaxRefs \in Nat \ {0} /\ GetAddrPct \in 0..100 /\ MaxIds \in Nat

VARIABLE am
addrVars == am

None     == -1
Ips      == {Ip[a] : a \in Services}
NewSlots == NewBuckets \X Places
Slot(a, b) == <<b, NewPlace[a][b]>>

(* CAddrInfo(addr, source), and what Clear leaves of the tables.           *)
Info(a, s) == [addr |-> a, source |-> s, nRefCount |-> 0, fInTried |-> FALSE,
               nRandomPos |-> 0, success |-> FALSE]
Empty == [mapInfo |-> <<>>, mapAddr |-> <<>>, vRandom |-> <<>>, nIdCount |-> 0,
          vvNew |-> [t \in NewSlots |-> None], vvTried |-> [t \in TriedSlots |-> None],
          nNew |-> 0, nTried |-> 0]

AddrInit == am = Empty

-----------------------------------------------------------------------------
(* Find: the entry of a service is looked up by its address alone.         *)
Known(m, a) == Ip[a] \in DOMAIN m.mapAddr
IdOf(m, a)  == m.mapAddr[Ip[a]]

Put(f, k, v)  == [x \in DOMAIN f \cup {k} |-> IF x = k THEN v ELSE f[x]]
Drop(f, k)    == [x \in DOMAIN f \ {k} |-> f[x]]
PopBack(s)    == SubSeq(s, 1, Len(s) - 1)

(* Create, and the nNew++ of its only caller.                              *)
Create(m, a, s) ==
  LET id == m.nIdCount
  IN  [m EXCEPT !.nIdCount = id + 1,
                !.mapInfo  = Put(@, id, [Info(a, s) EXCEPT !.nRandomPos = Len(m.vRandom) + 1]),
                !.mapAddr  = Put(@, Ip[a], id),
                !.vRandom  = Append(@, id),
                !.nNew     = @ + 1]

(* Positions count from 1 here.                                            *)
SwapRandom(m, p1, p2) ==
  LET id1 == m.vRandom[p1]
      id2 == m.vRandom[p2]
  IN  IF p1 = p2 THEN m
      ELSE [m EXCEPT !.mapInfo[id1].nRandomPos = p2, !.mapInfo[id2].nRandomPos = p1,
                     !.vRandom[p1] = id2, !.vRandom[p2] = id1]

DeleteNoSwap(m, id) ==
  [m EXCEPT !.vRandom = PopBack(@), !.mapAddr = Drop(@, Ip[m.mapInfo[id].addr]),
            !.mapInfo = Drop(@, id), !.nNew = @ - 1]

Delete(m, id) ==
  LET swapped == SwapRandom(m, m.mapInfo[id].nRandomPos, Len(m.vRandom))
  IN  [swapped EXCEPT !.vRandom = PopBack(@), !.mapAddr = Drop(@, Ip[m.mapInfo[id].addr]),
                      !.mapInfo = Drop(@, id), !.nNew = @ - 1]

ClearNewKeep(m, t) ==
  IF m.vvNew[t] = None THEN m
  ELSE [m EXCEPT !.mapInfo[m.vvNew[t]].nRefCount = @ - 1, !.vvNew[t] = None]

ClearNew(m, t) ==
  IF m.vvNew[t] = None THEN m
  ELSE LET id == m.vvNew[t]
           m1 == [m EXCEPT !.mapInfo[id].nRefCount = @ - 1, !.vvNew[t] = None]
       IN  IF m1.mapInfo[id].nRefCount = 0 THEN Delete(m1, id) ELSE m1

(* MakeTried: out of every new bucket, then into the tried slot, whose     *)
(* occupant goes back to the new bucket of its own source.                 *)
NewSlotsOf(m, id) ==
  {Slot(m.mapInfo[id].addr, b) : b \in {b \in NewBuckets : m.vvNew[Slot(m.mapInfo[id].addr, b)] = id}}

LeaveNewUncounted(m, id) ==
  LET slots == NewSlotsOf(m, id)
  IN  [m EXCEPT !.vvNew = [t \in NewSlots |-> IF t \in slots THEN None ELSE @[t]],
                !.mapInfo[id].nRefCount = @ - Cardinality(slots)]

LeaveNew(m, id) ==
  LET slots == NewSlotsOf(m, id)
  IN  [m EXCEPT !.vvNew = [t \in NewSlots |-> IF t \in slots THEN None ELSE @[t]],
                !.mapInfo[id].nRefCount = @ - Cardinality(slots),
                !.nNew = @ - 1]

EvictDropped(m, t) ==
  IF m.vvTried[t] = None THEN m
  ELSE Delete([m EXCEPT !.vvTried[t] = None, !.nTried = @ - 1, !.nNew = @ + 1], m.vvTried[t])

Evict(m, t) ==
  IF m.vvTried[t] = None THEN m
  ELSE LET id == m.vvTried[t]
           nt == Slot(m.mapInfo[id].addr, NewBucket[m.mapInfo[id].addr][m.mapInfo[id].source])
           m1 == ClearNew([m EXCEPT !.mapInfo[id].fInTried = FALSE, !.vvTried[t] = None,
                                    !.nTried = @ - 1], nt)
       IN  [m1 EXCEPT !.mapInfo[id].nRefCount = 1, !.vvNew[nt] = id, !.nNew = @ + 1]

MakeTriedOver(m, id) ==
  LET t  == TriedSlot[m.mapInfo[id].addr]
      m1 == LeaveNew(m, id)
  IN  [m1 EXCEPT !.vvTried[t] = id, !.nTried = @ + 1, !.mapInfo[id].fInTried = TRUE]

MakeTried(m, id) ==
  LET t  == TriedSlot[m.mapInfo[id].addr]
      m1 == Evict(LeaveNew(m, id), t)
  IN  [m1 EXCEPT !.vvTried[t] = id, !.nTried = @ + 1, !.mapInfo[id].fInTried = TRUE]

-----------------------------------------------------------------------------
(* Add_ from the choice of the bucket on; terrible is IsTerrible of the    *)
(* entry already there.                                                    *)
Place(m, id, s, terrible) ==
  LET info == m.mapInfo[id]
      t    == Slot(info.addr, NewBucket[info.addr][s])
      over == m.vvNew[t] = None \/ terrible
                \/ (m.mapInfo[m.vvNew[t]].nRefCount > 1 /\ info.nRefCount = 0)
  IN  IF m.vvNew[t] = id THEN m
      ELSE IF over THEN [ClearNew(m, t) EXCEPT !.mapInfo[id].nRefCount = @ + 1, !.vvNew[t] = id]
      ELSE IF info.nRefCount = 0 THEN Delete(m, id) ELSE m

AddUnbounded(a, s) ==
  \E terrible \in BOOLEAN :
     IF Known(am, a)
     THEN /\ ~am.mapInfo[IdOf(am, a)].fInTried
          /\ am' = Place(am, IdOf(am, a), s, terrible)
     ELSE /\ am.nIdCount < MaxIds
          /\ am' = Place(Create(am, a, s), am.nIdCount, s, terrible)

(* Add: an entry that is tried, or already in MaxRefs buckets, stays as it *)
(* is; so does one the announcement brings no news of, or that fails the   *)
(* stochastic test (the steps that change nothing).                        *)
AddAddr(a, s) ==
  \E terrible \in BOOLEAN :
     IF Known(am, a)
     THEN LET info == am.mapInfo[IdOf(am, a)]
          IN  /\ ~info.fInTried /\ info.nRefCount # MaxRefs
              /\ am' = Place(am, IdOf(am, a), s, terrible)
     ELSE /\ am.nIdCount < MaxIds
          /\ am' = Place(Create(am, a, s), am.nIdCount, s, terrible)

(* Good: only for the very service the entry holds, port included.         *)
Good(a) ==
  /\ Known(am, a)
  /\ \E id \in {IdOf(am, a)} :
        /\ am.mapInfo[id].addr = a
        /\ \E m \in {[am EXCEPT !.mapInfo[id].success = TRUE]} :
              am' = IF m.mapInfo[id].fInTried \/ NewSlotsOf(m, id) = {} THEN m ELSE MakeTried(m, id)

(* The swaps of GetAddr_, after each of its turns.                         *)
Shuffle(m, pick) ==
  LET after[n \in 0..Len(pick)] ==
        IF n = 0 THEN m ELSE SwapRandom(after[n - 1], n, pick[n])
  IN  after

(* GetAddr_: a partial shuffle of vRandom.  It visits at least as many     *)
(* entries as it returns, and more when some are terrible.                 *)
GetAddr ==
  LET size   == Len(am.vRandom)
      wanted == (GetAddrPct * size) \div 100
  IN  \E visits \in IF wanted = 0 THEN {0} ELSE wanted..size :
      \E pick \in [1..visits -> 1..size] :
         /\ \A n \in 1..visits : pick[n] >= n
         /\ am' = Shuffle(am, pick)[visits]

-----------------------------------------------------------------------------
(* Serialize: the new entries, then the tried ones, in the order of their  *)
(* ids, and the buckets with the numbers of the new entries in that order. *)
NewIds(m)   == {id \in DOMAIN m.mapInfo : m.mapInfo[id].nRefCount # 0}
TriedIds(m) == {id \in DOMAIN m.mapInfo : m.mapInfo[id].fInTried}

Number(S, id) == Cardinality({x \in S : x < id})
Sorted(S) == [n \in 1..Cardinality(S) |-> CHOOSE id \in S : Number(S, id) = n - 1]

Bucket(m, b) == {m.vvNew[t] : t \in {t \in NewSlots : t[1] = b}} \ {None}

Serialize(m) ==
  [new     |-> [n \in 1..Cardinality(NewIds(m)) |-> m.mapInfo[Sorted(NewIds(m))[n]]],
   tried   |-> [n \in 1..Cardinality(TriedIds(m)) |-> m.mapInfo[Sorted(TriedIds(m))[n]]],
   buckets |-> [b \in NewBuckets |-> {Number(NewIds(m), id) : id \in Bucket(m, b)}]]

(* One entry read back: addresses, source and last success survive.        *)
Restored(info, m) ==
  [Info(info.addr, info.source) EXCEPT !.success = info.success,
                                       !.nRandomPos = Len(m.vRandom) + 1]

EnterInfo(m, id, info) ==
  [m EXCEPT !.mapInfo = Put(@, id, info), !.mapAddr = Put(@, Ip[info.addr], id),
            !.vRandom = Append(@, id), !.nIdCount = @ + 1]

(* A new entry: placed by its own source when the file's buckets are not   *)
(* those of this build, by the file's buckets otherwise.                   *)
ReadNew(m, info, layout) ==
  LET id == m.nIdCount
      t  == Slot(info.addr, NewBucket[info.addr][info.source])
      m1 == EnterInfo(m, id, Restored(info, m))
  IN  IF layout \/ m.vvNew[t] # None THEN m1
      ELSE [m1 EXCEPT !.vvNew[t] = id, !.mapInfo[id].nRefCount = 1]

ReadTried(m, info) ==
  LET t == TriedSlot[info.addr]
  IN  IF m.vvTried[t] # None THEN [m EXCEPT !.nTried = @ - 1]
      ELSE [EnterInfo(m, m.nIdCount, [Restored(info, m) EXCEPT !.fInTried = TRUE])
              EXCEPT !.vvTried[t] = m.nIdCount]

(* The entry that the file's buckets put into place t.  A file that was    *)
(* written here names one at most for each place, and none in more than    *)
(* MaxRefs buckets, so that the two tests of the loop change nothing.      *)
FromFile(m, buckets, t) ==
  LET here == {id \in buckets[t[1]] : Slot(m.mapInfo[id].addr, t[1]) = t}
  IN  IF here = {} THEN None ELSE CHOOSE id \in here : TRUE

(* MUTANT of ReadBuckets: an entry comes back in one of its buckets only.  *)
ReadBucketsOnce(m, buckets) ==
  LET first(id) == CHOOSE b \in NewBuckets : id \in buckets[b]
      table == [t \in NewSlots |-> LET id == FromFile(m, buckets, t)
                                   IN  IF id # None /\ first(id) = t[1] THEN id ELSE None]
  IN  [m EXCEPT !.vvNew = table,
                !.mapInfo = [id \in DOMAIN m.mapInfo |->
         [m.mapInfo[id] EXCEPT !.nRefCount = @ + Cardinality({t \in NewSlots : table[t] = id})]]]

(* The positions in the new table, from the buckets of the file.           *)
ReadBuckets(m, buckets) ==
  LET table == [t \in NewSlots |-> FromFile(m, buckets, t)]
  IN  [m EXCEPT !.vvNew = table,
                !.mapInfo = [id \in DOMAIN m.mapInfo |->
         [m.mapInfo[id] EXCEPT !.nRefCount = @ + Cardinality({t \in NewSlots : table[t] = id})]]]

(* The entries that found no place.                                        *)
Lost(m) == {id \in DOMAIN m.mapInfo : ~m.mapInfo[id].fInTried /\ m.mapInfo[id].nRefCount = 0}

(* The three loops of Unserialize over entries, after each of their turns. *)
ReadAllNew(m, new, layout) ==
  LET after[n \in 0..Len(new)] == IF n = 0 THEN m ELSE ReadNew(after[n - 1], new[n], layout)
  IN  after
ReadAllTried(m, tried) ==
  LET after[n \in 0..Len(tried)] == IF n = 0 THEN m ELSE ReadTried(after[n - 1], tried[n])
  IN  after
DeleteAll(m, ids) ==
  LET after[n \in 0..Len(ids)] == IF n = 0 THEN m ELSE Delete(after[n - 1], ids[n])
  IN  after

Unserialize(file, layout) ==
  LET start  == [Empty EXCEPT !.nNew = Len(file.new), !.nTried = Len(file.tried)]
      new    == ReadAllNew(start, file.new, layout)[Len(file.new)]
      tried  == ReadAllTried(new, file.tried)[Len(file.tried)]
      placed == IF layout THEN ReadBuckets(tried, file.buckets) ELSE tried
  IN  DeleteAll(placed, Sorted(Lost(placed)))[Cardinality(Lost(placed))]

(* A restart; layout says whether the build that reads the file has as     *)
(* many new buckets as the one that wrote it.                              *)
Restart(layout) == am' = Unserialize(Serialize(am), layout)

AddrNext ==
  \/ \E a \in Services, s \in Sources : AddAddr(a, s)
  \/ \E a \in Services : Good(a)
  \/ GetAddr
  \/ \E layout \in BOOLEAN : Restart(layout)

AddrSpec == AddrInit /\ [][AddrNext]_addrVars

-----------------------------------------------------------------------------
AddrIds == 0..MaxIds + Cardinality(Ips)

(* The tables have the shape the class declares.                           *)
AddrTypeOK ==
  /\ DOMAIN am.mapInfo \subseteq AddrIds /\ am.nIdCount \in AddrIds
  /\ \A id \in DOMAIN am.mapInfo :
        am.mapInfo[id] \in [addr : Services, source : Sources, nRefCount : 0..MaxRefs,
                            fInTried : BOOLEAN, nRandomPos : 1..Len(am.vRandom), success : BOOLEAN]
  /\ DOMAIN am.mapAddr \subseteq Ips
  /\ am.vvNew \in [NewSlots -> {None} \cup DOMAIN am.mapInfo]
  /\ am.vvTried \in [TriedSlots -> {None} \cup DOMAIN am.mapInfo]
  /\ am.nNew \in 0..Cardinality(Ips) /\ am.nTried \in 0..Cardinality(Ips)

Tried == {id \in DOMAIN am.mapInfo : am.mapInfo[id].fInTried}
Untried == DOMAIN am.mapInfo \ Tried

(* The reference count of an entry that is not tried is the number of new  *)
(* slots that hold it, at least one and each the one its hash gives, so    *)
(* the assertions of ClearNew, Delete and MakeTried hold (Check_ errors 2, *)
(* 3, 4, 12, 15 and 19).                                                   *)
RefCountsExact ==
  /\ \A id \in DOMAIN am.mapInfo :
        /\ am.mapInfo[id].nRefCount = Cardinality({t \in NewSlots : am.vvNew[t] = id})
        /\ am.mapInfo[id].nRefCount = 0 <=> id \in Tried
  /\ \A t \in NewSlots :
        am.vvNew[t] # None => /\ am.vvNew[t] \in Untried
                              /\ Slot(am.mapInfo[am.vvNew[t]].addr, t[1]) = t

(* A tried entry is in its own slot of the tried table, nothing else is,   *)
(* and a connection to it once succeeded (Check_ errors 1, 11, 13, 17 and  *)
(* 18).                                                                    *)
TriedPlacesExact ==
  \A t \in TriedSlots : \A id \in DOMAIN am.mapInfo :
     am.vvTried[t] = id <=> /\ id \in Tried
                            /\ TriedSlot[am.mapInfo[id].addr] = t
                            /\ am.mapInfo[id].success

(* The counters count the entries of the two tables (Check_ errors 7, 9    *)
(* and 10): Select_ loops under the lock until it meets an entry of the    *)
(* table a counter says is not empty, and Serialize asserts on them.       *)
CountsExact ==
  /\ am.nTried = Cardinality({t \in TriedSlots : am.vvTried[t] # None})
  /\ am.nNew = Cardinality({am.vvNew[t] : t \in NewSlots} \ {None})
  /\ Len(am.vRandom) = am.nNew + am.nTried

(* The address index and the random order name each entry exactly once     *)
(* (Check_ errors 5 and 14).                                               *)
IndexesExact ==
  /\ \A id \in DOMAIN am.mapInfo :
        /\ Ip[am.mapInfo[id].addr] \in DOMAIN am.mapAddr
        /\ am.mapAddr[Ip[am.mapInfo[id].addr]] = id
        /\ am.mapInfo[id].nRandomPos \in DOMAIN am.vRandom
        /\ am.vRandom[am.mapInfo[id].nRandomPos] = id
  /\ Cardinality(DOMAIN am.mapAddr) = Cardinality(DOMAIN am.mapInfo)
  /\ Len(am.vRandom) = Cardinality(DOMAIN am.mapInfo)

(* Check_ finds nothing: both tables, the counts and the two indexes       *)
(* agree, after any sequence of additions, evictions and restarts.         *)
Check == AddrTypeOK /\ RefCountsExact /\ TriedPlacesExact /\ CountsExact /\ IndexesExact

(* What the tables say of an address, ids and orders aside.                *)
View(m) ==
  [ip \in DOMAIN m.mapAddr |->
     LET id == m.mapAddr[ip]
     IN  [addr |-> m.mapInfo[id].addr, source |-> m.mapInfo[id].source,
          tried |-> m.mapInfo[id].fInTried, success |-> m.mapInfo[id].success,
          slots |-> {t \in NewSlots : m.vvNew[t] = id}]]

(* peers.dat loses nothing: a build with the same buckets reads back what  *)
(* was written, although ids and random order are new, and a build with    *)
(* other buckets still has every tried address.                            *)
RestartKeepsTables ==
  LET file  == Serialize(am)
      other == View(Unserialize(file, FALSE))
  IN  /\ View(Unserialize(file, TRUE)) = View(am)
      /\ \A id \in Tried : LET ip == Ip[am.mapInfo[id].addr]
                           IN  ip \in DOMAIN other /\ other[ip] = View(am)[ip]

(* A tried address is never forgotten in one step: the eviction of         *)
(* MakeTried puts it back among the new ones, whatever is in its place.    *)
TriedNotForgotten ==
  [][\A ip \in DOMAIN am.mapAddr :
        am.mapInfo[am.mapAddr[ip]].fInTried => ip \in DOMAIN am'.mapAddr]_addrVars
=============================================================================
