------------------------------- MODULE SwiftTX -------------------------------
(***************************************************************************)
(* The transaction locks of src/swifttx.cpp: lock requests ("ix"),         *)
(* consensus votes of masternodes ("txlvote"), the conflict check, the     *)
(* wallet's own requests and the hourly cleanup.                           *)
(*                                                                         *)
(* Three threads share the maps without a mutex: the message handler, the  *)
(* wallet's caller and ThreadCheckObfuScationPool.  A request is handled   *)
(* in two steps because it waits for cs_main in between; votes, cleanup    *)
(* and the wallet's requests are one step each.  (Two of them inside one   *)
(* std::map at the same time is undefined behaviour and not modelled.)     *)
(* The pool and the chain are environment: AcceptToMemoryPool may take any *)
(* request or refuse it, one that conflicts with another in the pool       *)
(* included, and the inputs may have any age.  So are the masternode list, *)
(* which says whose vote counts at the moment, and the time.  The rate     *)
(* limit on votes for unknown transactions decides only whether a vote is  *)
(* relayed and is left out.                                                *)
(***************************************************************************)
EXTENDS Integers, Sequences, FiniteSets, Functions

CONSTANTS
  Txs,           \* lock requests that IsIXTXValid lets through
  Vin,           \* Vin[t]: the outpoints t spends, in order
  Signers,       \* the masternodes
  VoteHeights,   \* VoteHeights[t]: the height of t's first input plus 3, on any
                 \* branch, and more or less when the tip moves while it is computed
  Required,      \* SWIFTTX_SIGNATURES_REQUIRED
  Lifetime,      \* 60 * 60 seconds, in ticks of the clock
  Self,          \* the node's own masternode, or Nobody
  WalletTxs,     \* those the node's wallet may send
  Nobody

(* A masternode for which the inputs are too young votes with height 0.    *)
Heights   == {0} \cup UNION {VoteHeights[t] : t \in Txs}
Outpoints == UNION {Range(Vin[t]) : t \in Txs}
LockVotes == [mn : Signers, tx : Txs, h : Heights]

ASSUME SwiftTXAssumption ==
  /\ Nobody \notin Txs \cup Signers \cup [tx : Txs, h : Heights]
  /\ \A t \in Txs : VoteHeights[t] \subseteq Nat \ {0} /\ Len(Vin[t]) > 0
  /\ Required \in Nat \ {0} /\ Lifetime \in Nat \ {0}
  /\ Self \in Signers \cup {Nobody} /\ WalletTxs \subseteq Txs

VARIABLES
  req,       \* mapTxLockReq: the inputs of the transaction kept for a hash
  rejected,  \* mapTxLockReqRejected
  lockVotes, \* mapTxLockVote
  locks,     \* mapTxLocks: the height, vecConsensusVotes (in no order, each
             \* with the number of copies before it), the time left (-1: expired)
  locked,    \* mapLockedInputs
  handling,  \* the request that waits for cs_main, with its height, or Nobody
  loose      \* history: locks that nobody has compared with others since their
             \* votes were complete, or whose inputs another's cleanup released

maps == <<req, rejected, lockVotes, locks, locked>>
swiftVars == <<maps, handling, loose>>

SwiftInit ==
  /\ req = <<>> /\ rejected = {} /\ lockVotes = {} /\ locks = <<>> /\ locked = <<>>
  /\ handling = Nobody
  /\ loose = {}

-----------------------------------------------------------------------------
(* map.insert(pair): an entry that is there stays.                         *)
Inserted(f, k, v) == [x \in DOMAIN f \cup {k} |-> IF x \in DOMAIN f THEN f[x] ELSE v]
Without(f, S) == Restrict(f, DOMAIN f \ S)

(* MUTANT of VoteHash: the height is part of the hash.                     *)
VoteHashWithHeight(v) == <<v.mn, v.tx, v.h>>

(* CConsensusVote::GetHash: the masternode and the transaction.            *)
VoteHash(v) == <<v.mn, v.tx>>

(* MUTANT of CountSignatures: the heights are not compared.                *)
CountAllSignatures(l) == Cardinality(l.votes)

(* CTransactionLock::CountSignatures.                                      *)
CountSignatures(l) ==
  IF l.h = 0 THEN -1
  ELSE Cardinality({x \in l.votes : x[1].h = l.h})

Complete(l) == CountSignatures(l) >= Required

(* CreateNewLock(t), which returns h: 0 and no lock when an input is       *)
(* missing or younger than 5 blocks.  A lock that votes have made before   *)
(* keeps its votes and its expiry.                                         *)
CreateNewLock(t, h) ==
  IF h = 0 THEN locks
  ELSE IF t \in DOMAIN locks
  THEN [locks EXCEPT ![t].h = h]
  ELSE Inserted(locks, t, [h |-> h, votes |-> {}, left |-> Lifetime])

(* The lock of t when the height makes its votes count at once.            *)
CompletedLate(t, l) == {u \in {t} \cap DOMAIN l : Complete(l[u])}

(* CheckForConflictingLocks for a transaction t with the inputs vin: the   *)
(* first input locked by another transaction expires both locks.           *)
ConflictAt(t, vin) == {i \in DOMAIN vin : vin[i] \in DOMAIN locked /\ locked[vin[i]] # t}
HasConflict(t, vin) == ConflictAt(t, vin) # {}

ExpireBoth(l, t, vin) ==
  LET i == CHOOSE x \in ConflictAt(t, vin) : \A y \in ConflictAt(t, vin) : x <= y
  IN  [u \in DOMAIN l |-> IF u \in {t, locked[vin[i]]} THEN [l[u] EXCEPT !.left = 0] ELSE l[u]]

(* MUTANT of LockInputs: only the first input is locked.                   *)
LockFirstInput(t, vin) ==
  IF vin = <<>> THEN locked ELSE Inserted(locked, vin[1], t)

(* mapLockedInputs gets the inputs that are not locked yet.                *)
LockInputs(t, vin) ==
  [o \in DOMAIN locked \cup Range(vin) |-> IF o \in DOMAIN locked THEN locked[o] ELSE t]

-----------------------------------------------------------------------------
(* "ix", up to the wait for cs_main.                                       *)
LockRequest(t) ==
  /\ handling = Nobody
  /\ t \notin DOMAIN req \cup rejected
  /\ \E h \in VoteHeights[t] \cup {0} :
       /\ locks' = CreateNewLock(t, h)
       /\ handling' = [tx |-> t, h |-> h]
  /\ loose' = loose \cup CompletedLate(t, locks')
  /\ UNCHANGED <<req, rejected, lockVotes, locked>>

(* DoConsensusVote: the node's own vote, when it is among the first        *)
(* SWIFTTX_SIGNATURES_TOTAL, is remembered and relayed, but not added to   *)
(* its own lock.                                                           *)
OwnLockVote(t, h) == IF Self = Nobody THEN {} ELSE {VoteHash([mn |-> Self, tx |-> t, h |-> h])}

(* AcceptToMemoryPool takes the transaction; nobody looks at the locks.    *)
RequestAccepted ==
  /\ handling # Nobody
  /\ LET t == handling.tx
     IN  /\ \E votes \in BOOLEAN : lockVotes' = IF votes THEN lockVotes \cup OwnLockVote(t, handling.h) ELSE lockVotes
         /\ req' = Inserted(req, t, Vin[t])
  /\ handling' = Nobody
  /\ UNCHANGED <<rejected, locks, locked, loose>>

(* AcceptToMemoryPool refuses it: inputs spent by a block, a duplicate, or *)
(* any other reason.  The conflict check sees the inputs just locked.      *)
RequestRejected ==
  /\ handling # Nobody
  /\ LET t    == handling.tx
         all  == LockInputs(t, Vin[t])
         full == t \in DOMAIN locks /\ Complete(locks[t])
     IN  /\ rejected' = rejected \cup {t}
         /\ locked' = all
         /\ IF full /\ HasConflict(t, Vin[t])
            THEN locks' = ExpireBoth(locks, t, Vin[t]) /\ UNCHANGED req
            ELSE /\ req' = IF full THEN Inserted(req, t, Vin[t]) ELSE req
                 /\ UNCHANGED locks
         /\ loose' = IF full THEN loose \ {t} ELSE loose
  /\ handling' = Nobody
  /\ UNCHANGED lockVotes

(* The wallet sends a request of its own for a transaction that it has     *)
(* just put into the pool (RelayWalletTransaction).                        *)
WalletRequest(t) ==
  /\ t \in WalletTxs \ DOMAIN req
  /\ req' = Inserted(req, t, Vin[t])
  /\ \E h \in VoteHeights[t] \cup {0} : locks' = CreateNewLock(t, h)
  /\ loose' = loose \cup CompletedLate(t, locks')
  /\ UNCHANGED <<rejected, lockVotes, locked, handling>>

-----------------------------------------------------------------------------
(* The lock of v's transaction with the signature of v.                    *)
WithSignature(v) ==
  LET l == Inserted(locks, v.tx, [h |-> 0, votes |-> {}, left |-> Lifetime])
  IN  [l EXCEPT ![v.tx].votes = @ \cup {<<v, Cardinality({x \in @ : x[1] = v})>>}]

(* A vote that completes the lock: mapTxLockReq[] makes an empty           *)
(* transaction for a request it does not have.                             *)
CompleteLock(t, l) ==
  LET vin == IF t \in DOMAIN req THEN req[t] ELSE <<>>
  IN  /\ req' = Inserted(req, t, <<>>)
      /\ IF HasConflict(t, vin)
         THEN locks' = ExpireBoth(l, t, vin) /\ UNCHANGED locked
         ELSE locks' = l /\ locked' = LockInputs(t, vin)
      /\ loose' = IF vin = <<>> THEN loose \cup {t} ELSE loose \ {t}

(* "txlvote": a vote is remembered before ProcessConsensusVote looks at    *)
(* it.  One of a masternode that is unknown, has another key or is not     *)
(* among the first SWIFTTX_SIGNATURES_TOTAL at the moment is dropped.      *)
ConsensusVote(v) ==
  /\ handling = Nobody
  /\ VoteHash(v) \notin lockVotes
  /\ lockVotes' = lockVotes \cup {VoteHash(v)}
  /\ \/ UNCHANGED <<req, locks, locked, loose>>
     \/ LET l == WithSignature(v)
        IN  IF Complete(l[v.tx])
            THEN CompleteLock(v.tx, l)
            ELSE locks' = l /\ UNCHANGED <<req, locked, loose>>
  /\ UNCHANGED <<rejected, handling>>

-----------------------------------------------------------------------------
(* MUTANT of Expired: only locks with a request are removed.               *)
ExpiredKnown == {t \in DOMAIN locks : locks[t].left < 0 /\ t \in DOMAIN req}

(* GetTime() > nExpiration.                                                *)
Expired == {t \in DOMAIN locks : locks[t].left < 0}

(* CleanTransactionLocksList, once a minute: of an expired lock with a     *)
(* request everything goes, of one without only the lock.  The inputs are  *)
(* released whichever transaction holds them.                              *)
CleanTransactionLocksList ==
  LET full  == Expired \cap DOMAIN req
      freed == UNION {Range(req[t]) : t \in full}
  IN  /\ Expired # {}
      /\ locked' = Without(locked, freed)
      /\ req' = Without(req, full)
      /\ rejected' = rejected \ full
      /\ lockVotes' = lockVotes \ {VoteHash(x[1]) : x \in UNION {locks[t].votes : t \in full}}
      /\ locks' = Without(locks, Expired)
      /\ loose' = (loose \cup {t \in DOMAIN locks : Range(Vin[t]) \cap freed # {}}) \ Expired
      /\ UNCHANGED handling

(* The clock.                                                              *)
Tick ==
  /\ \E t \in DOMAIN locks : locks[t].left >= 0
  /\ locks' = [t \in DOMAIN locks |-> [locks[t] EXCEPT !.left = IF @ < 0 THEN @ ELSE @ - 1]]
  /\ UNCHANGED <<req, rejected, lockVotes, locked, handling, loose>>

SwiftNext ==
  \/ \E t \in Txs : LockRequest(t) \/ WalletRequest(t)
  \/ RequestAccepted \/ RequestRejected
  \/ \E v \in LockVotes : ConsensusVote(v)
  \/ CleanTransactionLocksList
  \/ Tick

(* Time passes and the cleanup thread runs.                                *)
SwiftSpec == SwiftInit /\ [][SwiftNext]_swiftVars /\ WF_swiftVars(Tick) /\ WF_swiftVars(CleanTransactionLocksList)

-----------------------------------------------------------------------------
SwiftTypeOK ==
  /\ DOMAIN req \cup rejected \cup DOMAIN locks \cup loose \subseteq Txs
  /\ \A t \in DOMAIN req : req[t] \in {<<>>, Vin[t]}
  /\ \A t \in DOMAIN locks : locks[t] \in [h : VoteHeights[t] \cup {0}, left : -1..Lifetime,
                                          votes : SUBSET ([mn : Signers, tx : {t}, h : Heights] \X Nat)]
  /\ DOMAIN locked \subseteq Outpoints
  /\ \A o \in DOMAIN locked : o \in Range(Vin[locked[o]])

(* A lock counts masternodes, not votes: whatever is delivered again, by   *)
(* whatever height, before or after a cleanup, no masternode signs a lock  *)
(* twice.                                                                  *)
SignersDistinct ==
  \A t \in DOMAIN locks : \A x, y \in locks[t].votes : x[1].mn = y[1].mn => x = y

(* A complete lock holds all the inputs of its transaction while its hour  *)
(* lasts and it is not cancelled, whatever conflicting transactions are    *)
(* requested, accepted, voted for or cleaned up beside it: no two of them  *)
(* are final for the same input.  The locks in loose are those for which   *)
(* the code does not see to it: the request came after the votes and was   *)
(* accepted (no vote is left that would compare the inputs), or it was     *)
(* rejected before the last vote (an empty transaction is compared), or    *)
(* the cleanup of a conflicting lock released the inputs; the next vote    *)
(* for a request that is kept mends it.                                    *)
CompleteHoldsInputs ==
  \A t \in DOMAIN locks \ loose :
    Complete(locks[t]) /\ locks[t].left > 0 =>
      \A o \in Range(Vin[t]) : o \in DOMAIN locked /\ locked[o] = t

(* The empty transaction that completing a lock leaves in mapTxLockReq,    *)
(* and that peers then get for it, stands only for requests that were      *)
(* rejected: no request is hidden by it.                                   *)
EmptyRequestWasRejected == \A t \in DOMAIN req : req[t] = <<>> => t \in rejected

(* Locks, requests and locked inputs agree: see the two parts.             *)
LocksConsistent == SwiftTypeOK /\ CompleteHoldsInputs /\ EmptyRequestWasRejected

(* "keep transaction locks in memory for an hour": every lock is removed,  *)
(* with or without a request, cancelled or not.                            *)
LocksEnd == \A t \in Txs : t \in DOMAIN locks ~> t \notin DOMAIN locks
=============================================================================
