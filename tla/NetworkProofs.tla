---------------------------- MODULE NetworkProofs ----------------------------
(***************************************************************************)
(* Proofs about the connections and the peer addresses.  The connections,  *)
(* for any number of nodes, slots, services and threads that call          *)
(* ConnectNode, and however they and the socket and message handlers       *)
(* interleave; the address tables, for any services, sources, buckets and  *)
(* hashes, and any sequence of additions, successes, shuffles and restarts.*)
(***************************************************************************)
EXTENDS Net, AddrMan, FiniteSetTheorems, WellFoundedInduction, TLAPS

-----------------------------------------------------------------------------
(*                             The connections                             *)
-----------------------------------------------------------------------------
(* The inductive invariant.  Two updates that meet, or a use of a deleted  *)
(* node, end the model and change nothing else, so it holds after one as   *)
(* well.                                                                   *)

NodeRecords ==
  [st : {"open", "disconnected", "deleted"}, addr : Addrs \cup {"none"}, nRefCount : Int,
   fInbound : BOOLEAN, fNetworkNode : BOOLEAN, master : BOOLEAN, fDisconnect : BOOLEAN,
   socket : BOOLEAN, mute : BOOLEAN, grant : BOOLEAN, fSyncStarted : BOOLEAN]

Calls == [pc : {"idle", "find", "dial", "found", "got"}, for : {"none", "open", "check", "mix"},
          addr : Addrs \cup {"none"}, id : 0..MaxNodes, grant : BOOLEAN, late : BOOLEAN]

SockStates == [pc : {"disconnect", "delete", "doomed", "accept", "take", "service"},
               copy : SUBSET Ids, todo : SUBSET Ids, cur : 0..MaxNodes]

MsgStates == [pc : {"take", "loop", "process", "send"}, copy : SUBSET Ids, todo : SUBSET Ids,
              cur : 0..MaxNodes]

Types ==
  /\ node \in [Ids -> NodeRecords]
  /\ sem \in Nat /\ nSyncStarted \in Int
  /\ sock \in SockStates /\ msg \in MsgStates
  /\ conn \in [Threads -> Calls]
  /\ lost \in [Ids -> Nat]
  /\ mishaps \subseteq {"raced", "freed"}

(* Where the threads are: the handlers keep no copy outside their loops,   *)
(* what the socket handler has yet to test is disconnected, the node the   *)
(* message handler is at is in its copy, a call has a node when it has     *)
(* found or made one, and only OpenNetworkConnection has a slot.           *)
SockInv ==
  /\ sock.pc # "service" => sock.copy = {}
  /\ sock.pc = "doomed" => sock.cur \in Ids
  /\ sock.pc # "doomed" => sock.cur = 0
  /\ \A n \in sock.todo : node[n].st = "disconnected" /\ n # sock.cur
MsgInv ==
  /\ msg.pc = "take" => msg.copy = {}
  /\ msg.todo \subseteq msg.copy
  /\ msg.pc \in {"process", "send"} => msg.cur \in msg.copy
CallInv(x) ==
  /\ x.pc \in {"found", "got"} => x.id \in Ids
  /\ x.grant => x.for = "open"
  /\ x.pc = "idle" => x.for = "none"
ThreadsInv == SockInv /\ MsgInv /\ \A c \in Threads : CallInv(conn[c])

(* What nRefCount counts: the copies the handlers walk over, and the rest. *)
Users(n)  == {c \in Threads : Uses(c, n)}
Copies(n) == B(n \in sock.copy) + B(n \in msg.copy)
OtherReferences(n) ==
  lost[n] + Cardinality(Users(n))
    + B(node[n].st = "open" /\ Owned(n)) + B(node[n].st = "open" /\ node[n].master)
References(n) == Copies(n) + OtherReferences(n)

(* A call that moved its slot to the node and has not come to its end.     *)
Moved(c, n) == Uses(c, n) /\ conn[c].for = "open" /\ ~conn[c].grant

(* No handler uses the node, and a call only with a late reference.        *)
AllLate(n) ==
  n \notin sock.copy /\ n \notin msg.copy /\ \A c \in Threads : Uses(c, n) => conn[c].late

(* A node with a place: its count is exact, a slot it has outside vNodes   *)
(* stays because a reference was lost or is about to be, and when it has   *)
(* been tested for deletion, references to it are late.                    *)
Counted(n) ==
  /\ node[n].nRefCount = References(n)
  /\ node[n].grant => node[n].st = "open" \/ lost[n] > 0 \/ \E c \in Threads : Moved(c, n)
  /\ sock.cur = n => node[n].st = "disconnected" /\ AllLate(n)

(* A deleted one: nobody has it in hand but with a late reference.         *)
Unused(n) == node[n] = Deleted /\ lost[n] = 0 /\ AllLate(n) /\ sock.cur # n

NodeInv(n) == IF node[n].st = "deleted" THEN Unused(n) ELSE Counted(n)
NodesInv == \A n \in Ids : NodeInv(n)

Granted == {n \in Ids : node[n].grant}
Slotted == {c \in Threads : conn[c].grant}
Syncing == {n \in Ids : node[n].fSyncStarted}

SlotsInv == sem + Cardinality(Granted) + Cardinality(Slotted) = MaxOutbound
SyncInv == nSyncStarted = Cardinality(Syncing)

IInv == Types /\ ThreadsInv /\ NodesInv /\ SlotsInv /\ SyncInv

(* What a step leaves to a node: the calls that use it go on using it.     *)
CallsKept(n) ==
  \A c \in Threads : /\ Uses(c, n)' <=> Uses(c, n)
                     /\ Uses(c, n) => conn'[c].late = conn[c].late
                     /\ Moved(c, n) => Moved(c, n)'

-----------------------------------------------------------------------------
(* Facts about the operators.                                              *)

(* A non-empty set of places has a first one.                              *)
LEMMA FirstFacts ==
  ASSUME NEW S \in SUBSET Ids, S # {}
  PROVE  First(S) \in S
<1>1. S \in SUBSET Nat
  BY NetAssumption DEF Ids
<1>2. PICK x \in S : \A y \in S : ~ (<<y, x>> \in OpToRel(<, Nat))
  BY <1>1, WFMin, NatLessThanWellFounded, Zenon
<1>3. \A y \in S : ~ (y < x)
  BY <1>1, <1>2 DEF OpToRel
<1>4. \A y \in S : x <= y
  BY <1>1, <1>3
<1>5. QED
  BY <1>4 DEF First

(* There are finitely many places, and so finitely many in any set.        *)
LEMMA PlacesFinite ==
  /\ IsFiniteSet(Ids) /\ Cardinality(Ids) = MaxNodes
  /\ \A S \in SUBSET Ids : IsFiniteSet(S) /\ Cardinality(S) \in 0..MaxNodes
<1>1. IsFiniteSet(Ids) /\ Cardinality(Ids) = MaxNodes
  BY FS_Interval, NetAssumption DEF Ids
<1>2. ASSUME NEW S \in SUBSET Ids PROVE IsFiniteSet(S) /\ Cardinality(S) \in 0..MaxNodes
  <2>1. IsFiniteSet(S) /\ Cardinality(S) <= Cardinality(Ids)
    BY <1>1, FS_Subset
  <2>2. QED
    BY <1>1, <2>1, FS_CardinalityType
<1>3. QED
  BY <1>1, <1>2

(* The records of the model have their types.                              *)
LEMMA RecordFacts ==
  /\ \A a \in Addrs \cup {"none"}, b \in BOOLEAN : Node(a, b) \in NodeRecords
  /\ Deleted \in NodeRecords /\ NoCall \in Calls
<1>1. \A a \in Addrs \cup {"none"}, b \in BOOLEAN : Node(a, b) \in NodeRecords
  BY DEF Node, NodeRecords
<1>2. Deleted \in NodeRecords
  <2> DEFINE d == Node("none", FALSE)
             e == [d EXCEPT !.st = "deleted"]
  <2>1. d \in NodeRecords
    BY <1>1
  <2>2. Deleted = [e EXCEPT !.nRefCount = 0]
    BY DEF Deleted
  <2> HIDE DEF d
  <2>3. e \in NodeRecords
    BY <2>1 DEF NodeRecords
  <2> HIDE DEF e
  <2>4. QED
    BY <2>2, <2>3 DEF NodeRecords
<1>3. NoCall \in Calls
  BY NetAssumption DEF NoCall, Calls
<1>4. QED
  BY <1>1, <1>2, <1>3

(* e is d but for its socket and its part in synchronisation.              *)
Kept(d, e) ==
  /\ e.st = d.st /\ e.nRefCount = d.nRefCount /\ e.fInbound = d.fInbound
  /\ e.fNetworkNode = d.fNetworkNode /\ e.master = d.master /\ e.grant = d.grant

(* Closing a socket, or forgetting about it, is no more than that.         *)
LEMMA CloseFacts ==
  ASSUME NEW d \in NodeRecords, NEW b \in BOOLEAN
  PROVE  /\ Close(d, b) \in NodeRecords /\ Kept(d, Close(d, b))
         /\ Close(d, b).fSyncStarted = d.fSyncStarted
         /\ DisconnectOldProtocol(d, b) \in NodeRecords /\ Kept(d, DisconnectOldProtocol(d, b))
         /\ DisconnectOldProtocol(d, b).fSyncStarted = d.fSyncStarted
<1>1. Close(d, b) \in NodeRecords /\ Kept(d, Close(d, b)) /\ Close(d, b).fSyncStarted = d.fSyncStarted
  BY DEF Close, Kept, NodeRecords
<1>2. /\ DisconnectOldProtocol(d, b) \in NodeRecords /\ Kept(d, DisconnectOldProtocol(d, b))
      /\ DisconnectOldProtocol(d, b).fSyncStarted = d.fSyncStarted
  BY DEF DisconnectOldProtocol, Kept, NodeRecords
<1>3. QED
  BY <1>1, <1>2

(* A node taken out of vNodes gives up its slot, its mixing flag and the   *)
(* reference of the connection itself.                                     *)
LEMMA DisconnectedFacts ==
  ASSUME NEW d \in NodeRecords
  PROVE  LET e == DisconnectedNode(d)
         IN  /\ e \in NodeRecords /\ e.st = "disconnected" /\ ~e.grant /\ ~e.master
             /\ e.nRefCount = d.nRefCount - B(d.fNetworkNode \/ d.fInbound)
             /\ e.fSyncStarted = d.fSyncStarted
<1>1. Close(d, FALSE) \in NodeRecords /\ Kept(d, Close(d, FALSE)) /\ Close(d, FALSE).fSyncStarted = d.fSyncStarted
  BY CloseFacts
<1>2. B(d.fNetworkNode \/ d.fInbound) \in Int
  BY DEF B
<1> DEFINE c == Close(d, FALSE)
           k == B(d.fNetworkNode \/ d.fInbound)
           e == DisconnectedNode(d)
<1>3. e = [c EXCEPT !.st = "disconnected", !.grant = FALSE, !.master = FALSE, !.nRefCount = @ - k]
  BY DEF DisconnectedNode
<1> HIDE DEF c, k, e
<1>4. c \in NodeRecords /\ Kept(d, c) /\ c.fSyncStarted = d.fSyncStarted /\ k \in Int
  BY <1>1, <1>2 DEF c, k
<1>5. /\ e \in NodeRecords /\ e.st = "disconnected" /\ ~e.grant /\ ~e.master
      /\ e.nRefCount = c.nRefCount - k /\ e.fSyncStarted = c.fSyncStarted
  <2> DEFINE f == [c EXCEPT !.st = "disconnected", !.grant = FALSE, !.master = FALSE]
  <2>1. e = [f EXCEPT !.nRefCount = c.nRefCount - k]
    BY <1>3
  <2>2. /\ f \in NodeRecords /\ f.st = "disconnected" /\ ~f.grant /\ ~f.master
        /\ f.nRefCount = c.nRefCount /\ f.fSyncStarted = c.fSyncStarted
    BY <1>4 DEF NodeRecords
  <2> HIDE DEF f
  <2>3. c.nRefCount - k \in Int
    BY <1>4 DEF NodeRecords
  <2>4. QED
    BY <2>1, <2>2, <2>3 DEF NodeRecords
<1>6. QED
  BY <1>4, <1>5 DEF Kept, e, k

(* There are finitely many threads, and what one of them adds to a set or  *)
(* takes from it.                                                          *)
LEMMA ThreadsFinite ==
  ASSUME NEW S \in SUBSET Threads
  PROVE  /\ IsFiniteSet(S) /\ Cardinality(S) \in Nat /\ (Cardinality(S) = 0 <=> S = {})
         /\ \A c \in Threads : /\ Cardinality(S \cup {c}) = Cardinality(S) + B(c \notin S)
                               /\ Cardinality(S \ {c}) = Cardinality(S) - B(c \in S)
<1>1. IsFiniteSet(S)
  BY NetAssumption, FS_Subset
<1>2. Cardinality(S) \in Nat /\ (Cardinality(S) = 0 <=> S = {})
  BY <1>1, FS_CardinalityType, FS_EmptySet
<1>3. ASSUME NEW c \in Threads
      PROVE  /\ Cardinality(S \cup {c}) = Cardinality(S) + B(c \notin S)
             /\ Cardinality(S \ {c}) = Cardinality(S) - B(c \in S)
  <2>1. CASE c \in S
    <3>1. Cardinality(S \cup {c}) = Cardinality(S)
      <4>1. S \cup {c} = S
        BY <2>1
      <4>2. QED
        BY <4>1
    <3>2. Cardinality(S \ {c}) = Cardinality(S) - 1
      BY <1>1, <2>1, FS_RemoveElement
    <3>3. B(c \notin S) = 0 /\ B(c \in S) = 1
      BY <2>1 DEF B
    <3>4. QED
      BY <1>2, <3>1, <3>2, <3>3
  <2>2. CASE c \notin S
    <3>1. Cardinality(S \ {c}) = Cardinality(S)
      <4>1. S \ {c} = S
        BY <2>2
      <4>2. QED
        BY <4>1
    <3>2. Cardinality(S \cup {c}) = Cardinality(S) + 1
      BY <1>1, <2>2, FS_AddElement
    <3>3. B(c \notin S) = 1 /\ B(c \in S) = 0
      BY <2>2 DEF B
    <3>4. QED
      BY <1>2, <3>1, <3>2, <3>3
  <2>3. QED
    BY <2>1, <2>2
<1>4. QED
  BY <1>1, <1>2, <1>3

(* A set of threads of which only one can come or go.                      *)
LEMMA OneThread ==
  ASSUME NEW S \in SUBSET Threads, NEW T \in SUBSET Threads, NEW c \in Threads,
         \A d \in Threads \ {c} : d \in T <=> d \in S
  PROVE  Cardinality(T) = Cardinality(S) - B(c \in S) + B(c \in T)
<1>1. Cardinality(S) \in Nat /\ Cardinality(T) \in Nat
  BY ThreadsFinite
<1>2. Cardinality(S \ {c}) = Cardinality(T \ {c})
  <2>1. S \ {c} = T \ {c}
    OBVIOUS
  <2>2. QED
    BY <2>1
<1>3. Cardinality(S \ {c}) = Cardinality(S) - B(c \in S)
  BY ThreadsFinite
<1>4. Cardinality(T \ {c}) = Cardinality(T) - B(c \in T)
  BY ThreadsFinite
<1> DEFINE s == B(c \in S)
           t == B(c \in T)
<1>5. s \in Int /\ t \in Int
  BY DEF B
<1>6. Cardinality(S \ {c}) = Cardinality(S) - s /\ Cardinality(T \ {c}) = Cardinality(T) - t
  BY <1>3, <1>4
<1> HIDE DEF s, t
<1>7. Cardinality(T) = Cardinality(S) - s + t
  BY <1>1, <1>2, <1>5, <1>6
<1>8. QED
  BY <1>7 DEF s, t

(* The calls that use a node, and those that have a slot, when one call    *)
(* goes on.                                                                *)
LEMMA OneCall ==
  ASSUME conn \in [Threads -> Calls], NEW c \in Threads, NEW x \in Calls,
         conn' = [conn EXCEPT ![c] = x]
  PROVE  /\ conn' \in [Threads -> Calls] /\ conn'[c] = x
         /\ \A d \in Threads \ {c} : conn'[d] = conn[d]
         /\ \A n \in Ids : Cardinality(Users(n)') = Cardinality(Users(n)) - B(Uses(c, n)) + B(Uses(c, n)')
         /\ Cardinality(Slotted') = Cardinality(Slotted) - B(conn[c].grant) + B(x.grant)
         /\ \A n \in Ids : ~Uses(c, n) /\ ~Uses(c, n)' => CallsKept(n)
<1>1. conn' \in [Threads -> Calls] /\ conn'[c] = x /\ \A d \in Threads \ {c} : conn'[d] = conn[d]
  OBVIOUS
<1>2. ASSUME NEW n \in Ids
      PROVE Cardinality(Users(n)') = Cardinality(Users(n)) - B(Uses(c, n)) + B(Uses(c, n)')
  <2> DEFINE S == Users(n)
             T == Users(n)'
  <2>1. S \in SUBSET Threads /\ T \in SUBSET Threads
    BY DEF Users
  <2>2. (c \in S <=> Uses(c, n)) /\ (c \in T <=> Uses(c, n)')
    BY DEF Users
  <2>3. \A d \in Threads \ {c} : d \in T <=> d \in S
    BY <1>1 DEF Users, Uses, Holds, Mixing
  <2>4. B(c \in S) = B(Uses(c, n)) /\ B(c \in T) = B(Uses(c, n)')
    BY <2>2 DEF B
  <2> HIDE DEF S, T
  <2>5. Cardinality(T) = Cardinality(S) - B(c \in S) + B(c \in T)
    BY <2>1, <2>3, OneThread
  <2>6. QED
    BY <2>4, <2>5 DEF S, T
<1>3. Cardinality(Slotted') = Cardinality(Slotted) - B(conn[c].grant) + B(x.grant)
  <2> DEFINE S == Slotted
             T == Slotted'
  <2>1. S \in SUBSET Threads /\ T \in SUBSET Threads
    BY DEF Slotted
  <2>2. (c \in S <=> conn[c].grant) /\ (c \in T <=> x.grant)
    BY <1>1 DEF Slotted
  <2>3. \A d \in Threads \ {c} : d \in T <=> d \in S
    BY <1>1 DEF Slotted
  <2>4. B(c \in S) = B(conn[c].grant) /\ B(c \in T) = B(x.grant)
    BY <2>2 DEF B
  <2> HIDE DEF S, T
  <2>5. Cardinality(T) = Cardinality(S) - B(c \in S) + B(c \in T)
    BY <2>1, <2>3, OneThread
  <2>6. QED
    BY <2>4, <2>5 DEF S, T
<1>4. ASSUME NEW n \in Ids, ~Uses(c, n), ~Uses(c, n)' PROVE CallsKept(n)
  BY <1>1, <1>4 DEF CallsKept, Uses, Holds, Mixing, Moved
<1>5. QED
  BY <1>1, <1>2, <1>3, <1>4

(* A node that a step leaves alone, or of which it changes only the socket *)
(* or the part in synchronisation, and that the same calls use.            *)
LEMMA Frame ==
  ASSUME NEW n \in Ids, NodeInv(n),
         node'[n] = node[n] \/ (node[n].st # "deleted" /\ Kept(node[n], node'[n])),
         lost'[n] = lost[n],
         n \in sock'.copy <=> n \in sock.copy, n \in msg'.copy <=> n \in msg.copy,
         sock'.cur = n <=> sock.cur = n, CallsKept(n)
  PROVE  NodeInv(n)'
<1>1. AllLate(n)' <=> AllLate(n)
  BY DEF AllLate, CallsKept
<1>2. CASE node[n].st = "deleted"
  BY <1>1, <1>2 DEF NodeInv, Unused, Kept
<1>3. CASE node[n].st # "deleted"
  <2>1. node'[n].st # "deleted" /\ Kept(node[n], node'[n])
    BY <1>3 DEF Kept
  <2>2. Users(n)' = Users(n)
    BY DEF Users, CallsKept
  <2>3. References(n)' = References(n)
    BY <2>1, <2>2 DEF References, Copies, OtherReferences, Kept, Owned, B
  <2>4. Counted(n)
    BY <1>3 DEF NodeInv
  <2>5. node'[n].grant => node'[n].st = "open" \/ lost'[n] > 0 \/ \E c \in Threads : Moved(c, n)'
    BY <2>1, <2>4 DEF Counted, CallsKept, Kept
  <2>6. Counted(n)'
    BY <1>1, <2>1, <2>3, <2>4, <2>5 DEF Counted, Kept
  <2>7. QED
    BY <2>1, <2>6 DEF NodeInv
<1>4. QED
  BY <1>2, <1>3

(* A step of a handler leaves the calls where they are.                    *)
LEMMA SameCalls ==
  ASSUME UNCHANGED conn
  PROVE  /\ \A n \in Ids : CallsKept(n) /\ Users(n)' = Users(n)
         /\ Slotted' = Slotted
BY DEF CallsKept, Users, Uses, Holds, Mixing, Moved, Slotted

(* What a new connection starts with, and a deleted one is left with.      *)
LEMMA NewFacts ==
  /\ \A a, b : LET d == Node(a, b)
               IN  /\ d.st = "open" /\ d.nRefCount = 1 /\ d.fInbound = b /\ ~d.fNetworkNode
                   /\ ~d.master /\ ~d.grant /\ ~d.fSyncStarted
  /\ Deleted.st = "deleted" /\ ~Deleted.grant /\ ~Deleted.fSyncStarted
<1>1. \A a, b : LET d == Node(a, b)
               IN  /\ d.st = "open" /\ d.nRefCount = 1 /\ d.fInbound = b /\ ~d.fNetworkNode
                   /\ ~d.master /\ ~d.grant /\ ~d.fSyncStarted
  BY DEF Node
<1>2. Deleted.st = "deleted" /\ ~Deleted.grant /\ ~Deleted.fSyncStarted
  BY DEF Deleted, Node
<1>3. QED
  BY <1>1, <1>2

(* A step that changes only sockets, flags and synchronisation.            *)
LEMMA QuietStep ==
  ASSUME IInv, \A n \in Ids : node'[n] = node[n] \/ (node[n].st # "deleted" /\ Kept(node[n], node'[n])),
         UNCHANGED <<conn, lost>>, sock'.copy = sock.copy, sock'.cur = sock.cur, msg'.copy = msg.copy
  PROVE  NodesInv' /\ Granted' = Granted /\ Slotted' = Slotted /\ \A n \in Ids : node'[n].st = node[n].st
<1>1. ASSUME NEW n \in Ids PROVE NodeInv(n)'
  BY SameCalls, Frame DEF IInv, NodesInv
<1>2. Granted' = Granted /\ \A n \in Ids : node'[n].st = node[n].st
  BY DEF Granted, Kept
<1>3. QED
  BY <1>1, <1>2, SameCalls DEF NodesInv

(* A counter that counts a set of places.                                  *)
LEMMA CountFacts ==
  ASSUME NEW S \in SUBSET Ids
  PROVE  /\ \A n \in Ids \ S : Cardinality(S \cup {n}) = Cardinality(S) + 1
         /\ \A T \in SUBSET S : Cardinality(S \ T) = Cardinality(S) - Cardinality(T)
<1>1. IsFiniteSet(S)
  BY PlacesFinite
<1>2. \A n \in Ids \ S : Cardinality(S \cup {n}) = Cardinality(S) + 1
  BY <1>1, FS_AddElement
<1>3. ASSUME NEW T \in SUBSET S PROVE Cardinality(S \ T) = Cardinality(S) - Cardinality(T)
  <2>1. S \cap T = T
    OBVIOUS
  <2>2. QED
    BY <1>1, <2>1, FS_Difference
<1>4. QED
  BY <1>2, <1>3

-----------------------------------------------------------------------------
(* ThreadSocketHandler.                                                    *)

(* Nodes are taken out of vNodes.                                          *)
LEMMA DisconnectStep == ASSUME IInv, DisconnectNodes PROVE IInv'
<1>1. PICK gone \in SUBSET vNodes :
        /\ node' = [n \in Ids |-> IF n \in gone THEN DisconnectedNode(node[n]) ELSE node[n]]
        /\ sem' = sem + GrantsOf(gone)
        /\ lost' = [n \in Ids |-> lost[n] + B(n \in gone /\ node[n].master)]
  BY DEF DisconnectNodes
<1>2. /\ sock.pc = "disconnect"
      /\ sock' = [sock EXCEPT !.pc = "delete", !.todo = {n \in Ids : node'[n].st = "disconnected"}]
      /\ UNCHANGED <<nSyncStarted, msg, conn, mishaps>>
  BY DEF DisconnectNodes
<1>3. \A n \in Ids : node[n] \in NodeRecords /\ lost[n] \in Nat
  BY DEF IInv, Types
<1>4. \A n \in gone : n \in Ids /\ node[n].st = "open"
  BY DEF vNodes
<1>5. /\ \A n \in gone : LET e == node'[n]
                         IN  /\ e \in NodeRecords /\ e.st = "disconnected" /\ ~e.grant /\ ~e.master
                             /\ e.nRefCount = node[n].nRefCount - B(node[n].fNetworkNode \/ node[n].fInbound)
                             /\ e.fSyncStarted = node[n].fSyncStarted
      /\ \A n \in Ids \ gone : node'[n] = node[n]
  BY <1>1, <1>3, <1>4, DisconnectedFacts
<1>6. /\ \A n \in gone : lost'[n] = lost[n] + B(node[n].master)
      /\ \A n \in Ids \ gone : lost'[n] = lost[n]
  BY <1>1, <1>3, <1>4 DEF B
<1>7. Granted' = Granted \ {n \in gone : node[n].grant} /\ Syncing' = Syncing
  BY <1>4, <1>5 DEF Granted, Syncing
<1>8. GrantsOf(gone) \in Nat /\ Cardinality(Granted') = Cardinality(Granted) - GrantsOf(gone)
  <2> DEFINE T == {n \in gone : node[n].grant}
  <2>1. T \in SUBSET Granted /\ Granted \in SUBSET Ids /\ T \in SUBSET Ids
    BY <1>4 DEF Granted
  <2>2. GrantsOf(gone) = Cardinality(T) /\ Granted' = Granted \ T
    BY <1>7 DEF GrantsOf
  <2> HIDE DEF T
  <2>3. Cardinality(T) \in Nat
    BY <2>1, PlacesFinite
  <2>4. Cardinality(Granted \ T) = Cardinality(Granted) - Cardinality(T)
    BY <2>1, CountFacts
  <2>5. QED
    BY <2>2, <2>3, <2>4
<1>9. Types'
  <2>1. node' \in [Ids -> NodeRecords]
    BY <1>1, <1>3, <1>5
  <2>2. lost' \in [Ids -> Nat]
    <3>1. \A n \in Ids : lost[n] + B(n \in gone /\ node[n].master) \in Nat
      BY <1>3 DEF B
    <3>2. QED
      BY <1>1, <3>1
  <2>3. sock' \in SockStates
    BY <1>2 DEF IInv, Types, SockStates
  <2>4. QED
    BY <1>1, <1>2, <1>8, <2>1, <2>2, <2>3 DEF IInv, Types
<1>10. /\ sock'.copy = sock.copy /\ sock'.pc = "delete" /\ sock'.cur = sock.cur /\ sock.cur = 0 /\ sock.copy = {}
       /\ sock'.todo = {n \in Ids : node'[n].st = "disconnected"}
  BY <1>2 DEF IInv, Types, SockStates, ThreadsInv, SockInv
<1>11. ThreadsInv'
  <2>1. \A n \in Ids : n # 0
    BY NetAssumption DEF Ids
  <2>2. SockInv'
    BY <1>10, <2>1 DEF SockInv
  <2>3. MsgInv'
    BY <1>2 DEF IInv, ThreadsInv, MsgInv
  <2>4. QED
    BY <1>2, <2>2, <2>3 DEF IInv, ThreadsInv
<1>12. ASSUME NEW n \in gone PROVE NodeInv(n)'
  <2>1. Counted(n) /\ n \in Ids /\ n # 0
    BY <1>4, NetAssumption DEF IInv, NodesInv, NodeInv, Ids
  <2>2. Users(n)' = Users(n) /\ Cardinality(Users(n)) \in Nat
    BY <1>2, <2>1, SameCalls, ThreadsFinite DEF Users
  <2>3. node'[n].nRefCount = References(n)'
    <3>1. Copies(n)' = Copies(n) /\ Copies(n) \in Int
      BY <1>2, <1>10 DEF Copies, B
    <3>2. OtherReferences(n)' = OtherReferences(n) - B(node[n].fNetworkNode \/ node[n].fInbound)
      BY <1>3, <1>4, <1>5, <1>6, <2>1, <2>2 DEF OtherReferences, Owned, B
    <3>3. OtherReferences(n) \in Int
      BY <1>3, <2>1, <2>2 DEF OtherReferences, B
    <3>4. PICK k \in Int : k = B(node[n].fNetworkNode \/ node[n].fInbound)
      BY DEF B
    <3>5. QED
      BY <1>5, <2>1, <3>1, <3>2, <3>3, <3>4 DEF Counted, References
  <2>4. Counted(n)'
    BY <1>5, <1>10, <2>1, <2>3 DEF Counted
  <2>5. QED
    BY <1>5, <2>4 DEF NodeInv
<1>13. ASSUME NEW n \in Ids \ gone PROVE NodeInv(n)'
  BY <1>2, <1>5, <1>6, <1>10, SameCalls, Frame DEF IInv, NodesInv
<1>14. NodesInv'
  BY <1>12, <1>13 DEF NodesInv
<1>15. SlotsInv'
  <2>1. Cardinality(Granted) \in Nat /\ Cardinality(Slotted) \in Nat /\ Slotted' = Slotted
    BY <1>2, PlacesFinite, ThreadsFinite, SameCalls DEF Granted, Slotted
  <2>2. QED
    BY <1>1, <1>8, <2>1 DEF IInv, Types, SlotsInv
<1>16. SyncInv'
  BY <1>2, <1>7 DEF IInv, SyncInv
<1>17. QED
  BY <1>9, <1>11, <1>14, <1>15, <1>16 DEF IInv

(* A node without references outside vNodes is in nobody's hands.          *)
LEMMA DeletableFacts ==
  ASSUME IInv, NEW n \in Ids, node[n].st = "disconnected", node[n].nRefCount <= 0
  PROVE  n \notin sock.copy /\ n \notin msg.copy /\ lost[n] = 0 /\ Users(n) = {}
<1>1. Counted(n) /\ lost[n] \in Nat
  BY DEF IInv, NodesInv, NodeInv, Types
<1>2. References(n) <= 0
  BY <1>1 DEF Counted
<1>3. Copies(n) \in Nat /\ (Copies(n) = 0 => n \notin sock.copy /\ n \notin msg.copy)
  BY DEF Copies, B
<1>4. Cardinality(Users(n)) \in Nat /\ (Cardinality(Users(n)) = 0 => Users(n) = {})
  BY ThreadsFinite DEF Users
<1>5. OtherReferences(n) \in Nat /\ (OtherReferences(n) = 0 => lost[n] = 0 /\ Cardinality(Users(n)) = 0)
  BY <1>1, <1>4 DEF OtherReferences, B
<1>6. Copies(n) = 0 /\ OtherReferences(n) = 0
  BY <1>2, <1>3, <1>5 DEF References
<1>7. QED
  BY <1>3, <1>4, <1>5, <1>6

(* The test of nRefCount.                                                  *)
LEMMA TestStep == ASSUME IInv, NEW n \in Ids, TestNode(n) PROVE IInv'
<1>1. /\ sock.pc = "delete" /\ sock.todo # {} /\ n = First(sock.todo)
      /\ sock' = [sock EXCEPT !.todo = @ \ {n}, !.cur = IF Deletable(node[n]) THEN n ELSE 0,
                              !.pc = IF Deletable(node[n]) THEN "doomed" ELSE "delete"]
      /\ UNCHANGED <<node, sem, nSyncStarted, msg, conn, lost, mishaps>>
  BY DEF TestNode, counters
<1>2. n \in sock.todo /\ node[n].st = "disconnected" /\ sock.cur = 0 /\ sock.copy = {}
  BY <1>1, FirstFacts DEF IInv, Types, SockStates, ThreadsInv, SockInv
<1>3. PICK cur \in {0, n}, at \in {"delete", "doomed"} :
        /\ sock' = [sock EXCEPT !.todo = @ \ {n}, !.cur = cur, !.pc = at]
        /\ at = "doomed" => cur = n /\ node[n].nRefCount <= 0
        /\ at = "delete" => cur = 0
  BY <1>1 DEF Deletable
<1>4. /\ sock' \in SockStates
      /\ sock'.copy = sock.copy /\ sock'.todo = sock.todo \ {n} /\ sock'.pc = at /\ sock'.cur = cur
  <2>1. sock \in SockStates /\ cur \in 0..MaxNodes /\ at \in {"delete", "doomed"}
    BY NetAssumption DEF IInv, Types, Ids
  <2>2. PICK todo \in SUBSET Ids : todo = sock.todo \ {n} /\ sock' = [sock EXCEPT !.todo = todo, !.cur = cur, !.pc = at]
    BY <1>3, <2>1 DEF SockStates
  <2>3. QED
    BY <2>1, <2>2 DEF SockStates
<1>5. ThreadsInv'
  <2>1. SockInv'
    <3>1. \A m \in Ids : m # 0
      BY NetAssumption DEF Ids
    <3>2. \A m \in sock'.todo : m \in Ids /\ m \in sock.todo /\ m # n
      BY <1>4 DEF SockStates
    <3>3. QED
      BY <1>1, <1>2, <1>3, <1>4, <3>1, <3>2 DEF IInv, ThreadsInv, SockInv
  <2>2. MsgInv'
    BY <1>1 DEF IInv, ThreadsInv, MsgInv
  <2>3. QED
    BY <1>1, <2>1, <2>2 DEF IInv, ThreadsInv
<1>6. ASSUME NEW m \in Ids \ {n} PROVE NodeInv(m)'
  <2>1. sock'.cur = m <=> sock.cur = m
    BY <1>2, <1>3, <1>4, NetAssumption DEF Ids
  <2>2. QED
    BY <1>1, <1>4, <2>1, SameCalls, Frame DEF IInv, NodesInv
<1>7. NodeInv(n)'
  <2>1. CASE cur = 0
    <3>1. sock'.cur = n <=> sock.cur = n
      BY <1>2, <1>4, <2>1
    <3>2. QED
      BY <1>1, <1>4, <3>1, SameCalls, Frame DEF IInv, NodesInv
  <2>2. CASE at = "doomed"
    <3>1. n \notin sock.copy /\ n \notin msg.copy /\ Users(n) = {}
      BY <1>2, <1>3, <2>2, DeletableFacts
    <3>2. Users(n)' = Users(n)
      BY <1>1, SameCalls
    <3>3. AllLate(n)'
      BY <1>1, <1>4, <3>1, <3>2 DEF AllLate, Users
    <3>4. Counted(n)
      BY <1>2 DEF IInv, NodesInv, NodeInv
    <3>5. References(n)' = References(n)
      BY <1>1, <1>4, <3>2 DEF References, Copies, OtherReferences, Owned
    <3>6. node'[n].grant => node'[n].st = "open" \/ lost'[n] > 0 \/ \E c \in Threads : Moved(c, n)'
      BY <1>1, <3>4 DEF Counted, Moved, Uses, Holds, Mixing
    <3>7. Counted(n)'
      BY <1>1, <1>2, <3>3, <3>4, <3>5, <3>6 DEF Counted
    <3>8. QED
      BY <1>1, <1>2, <3>7 DEF NodeInv
  <2>3. QED
    BY <1>3, <2>1, <2>2
<1>8. NodesInv'
  BY <1>6, <1>7 DEF NodesInv
<1>9. Granted' = Granted /\ Syncing' = Syncing /\ Slotted' = Slotted
  BY <1>1, SameCalls DEF Granted, Syncing
<1>10. QED
  BY <1>1, <1>4, <1>5, <1>8, <1>9 DEF IInv, Types, SlotsInv, SyncInv

(* The node is deleted, with the slot it may have got since.               *)
LEMMA DeleteStep == ASSUME IInv, NEW n \in Ids, DeleteNode(n) PROVE IInv'
<1>1. /\ sock.pc = "doomed" /\ n = sock.cur
      /\ node' = [node EXCEPT ![n] = Deleted]
      /\ nSyncStarted' = nSyncStarted - SyncPeers(node[n])
      /\ sem' = sem + B(node[n].grant)
      /\ lost' = [lost EXCEPT ![n] = 0]
      /\ sock' = [sock EXCEPT !.pc = "delete", !.cur = 0]
      /\ UNCHANGED <<msg, conn, mishaps>>
  BY DEF DeleteNode
<1>2. Counted(n) /\ node[n].st = "disconnected" /\ AllLate(n) /\ n # 0
  <2>1. node[n].st # "deleted"
    BY <1>1 DEF IInv, NodesInv, NodeInv, Unused
  <2>2. QED
    BY <1>1, <2>1, NetAssumption DEF IInv, NodesInv, NodeInv, Counted, Ids
<1>3. /\ sock' \in SockStates
      /\ sock'.copy = sock.copy /\ sock'.todo = sock.todo /\ sock'.pc = "delete" /\ sock'.cur = 0
  <2>1. sock \in SockStates /\ 0 \in 0..MaxNodes
    BY NetAssumption DEF IInv, Types
  <2>2. QED
    BY <1>1, <2>1 DEF SockStates
<1>4. /\ node' \in [Ids -> NodeRecords] /\ lost' \in [Ids -> Nat]
      /\ node'[n] = Deleted /\ lost'[n] = 0
      /\ \A m \in Ids \ {n} : node'[m] = node[m] /\ lost'[m] = lost[m]
  BY <1>1, RecordFacts DEF IInv, Types
<1>5. ThreadsInv'
  <2>1. SockInv'
    <3>1. ASSUME NEW m \in sock'.todo PROVE m \in Ids /\ m \in sock.todo /\ m # n /\ m # 0
      <4>1. m \in sock.todo
        BY <1>3
      <4>2. m \in Ids
        BY <1>3 DEF SockStates
      <4>3. m # n
        BY <1>1, <4>1 DEF IInv, ThreadsInv, SockInv
      <4>4. QED
        BY <4>1, <4>2, <4>3, NetAssumption DEF Ids
    <3>2. QED
      BY <1>1, <1>3, <1>4, <3>1 DEF IInv, ThreadsInv, SockInv
  <2>2. MsgInv'
    BY <1>1 DEF IInv, ThreadsInv, MsgInv
  <2>3. QED
    BY <1>1, <2>1, <2>2 DEF IInv, ThreadsInv
<1>6. NodeInv(n)'
  <2>1. AllLate(n)'
    BY <1>1, <1>2, <1>3 DEF AllLate, Uses, Holds, Mixing
  <2>2. QED
    BY <1>2, <1>3, <1>4, <2>1, NewFacts DEF NodeInv, Unused
<1>7. ASSUME NEW m \in Ids \ {n} PROVE NodeInv(m)'
  <2>1. sock'.cur = m <=> sock.cur = m
    BY <1>1, <1>3, NetAssumption DEF Ids
  <2>2. QED
    BY <1>1, <1>3, <1>4, <2>1, SameCalls, Frame DEF IInv, NodesInv
<1>8. NodesInv'
  BY <1>6, <1>7 DEF NodesInv
<1>9. Granted' = Granted \ {n} /\ Syncing' = Syncing \ {n}
  BY <1>4, NewFacts DEF Granted, Syncing
<1>10. sem' \in Nat /\ SlotsInv'
  <2>1. /\ sem \in Nat /\ Granted \in SUBSET Ids /\ Cardinality(Granted) \in Nat
        /\ Cardinality(Slotted) \in Nat /\ Slotted' = Slotted
    BY <1>1, PlacesFinite, ThreadsFinite, SameCalls DEF IInv, Types, Granted, Slotted
  <2>2. PICK k \in Nat : k = B(node[n].grant)
    BY DEF B
  <2>3. Cardinality(Granted \ {n}) = Cardinality(Granted) - k
    <3>1. CASE node[n].grant
      <4>1. n \in Granted /\ k = 1
        BY <2>2, <3>1 DEF Granted, B
      <4>2. Cardinality(Granted \ {n}) = Cardinality(Granted) - Cardinality({n}) /\ Cardinality({n}) = 1
        BY <2>1, <4>1, CountFacts, FS_Singleton
      <4>3. QED
        BY <4>1, <4>2
    <3>2. CASE ~node[n].grant
      <4>1. Granted \ {n} = Granted /\ k = 0
        BY <2>2, <3>2 DEF Granted, B
      <4>2. QED
        BY <2>1, <4>1
    <3>3. QED
      BY <3>1, <3>2
  <2>4. sem' = sem + k /\ Cardinality(Granted') = Cardinality(Granted) - k
    BY <1>1, <1>9, <2>2, <2>3
  <2>5. QED
    BY <2>1, <2>2, <2>4 DEF IInv, SlotsInv
<1>11. nSyncStarted' \in Int /\ SyncInv'
  <2>1. nSyncStarted \in Int /\ Syncing \in SUBSET Ids /\ Cardinality(Syncing) \in Nat
    BY PlacesFinite DEF IInv, Types, Syncing
  <2>2. CASE node[n].fSyncStarted
    <3>1. n \in Syncing /\ nSyncStarted' = nSyncStarted - 1
      BY <1>1, <2>2 DEF Syncing, SyncPeers, B
    <3>2. Cardinality(Syncing \ {n}) = Cardinality(Syncing) - Cardinality({n}) /\ Cardinality({n}) = 1
      BY <2>1, <3>1, CountFacts, FS_Singleton
    <3>3. QED
      BY <1>9, <2>1, <3>1, <3>2 DEF IInv, SyncInv
  <2>3. CASE ~node[n].fSyncStarted
    <3>1. Syncing \ {n} = Syncing /\ nSyncStarted' = nSyncStarted
      BY <1>1, <2>1, <2>3 DEF Syncing, SyncPeers, B
    <3>2. QED
      BY <1>9, <2>1, <3>1 DEF IInv, SyncInv
  <2>4. QED
    BY <2>2, <2>3
<1>12. QED
  BY <1>1, <1>3, <1>4, <1>5, <1>8, <1>10, <1>11 DEF IInv, Types

(* All have been tested.                                                   *)
LEMMA DeleteDoneStep == ASSUME IInv, DeleteDone PROVE IInv'
<1>1. /\ sock.pc = "delete" /\ sock.todo = {} /\ sock' = [sock EXCEPT !.pc = "accept"]
      /\ UNCHANGED <<node, sem, nSyncStarted, msg, conn, lost, mishaps>>
  BY DEF DeleteDone, counters
<1>2. /\ sock' \in SockStates
      /\ sock'.copy = sock.copy /\ sock'.todo = sock.todo /\ sock'.pc = "accept" /\ sock'.cur = sock.cur
  BY <1>1 DEF IInv, Types, SockStates
<1>3. ThreadsInv'
  BY <1>1, <1>2 DEF IInv, ThreadsInv, SockInv, MsgInv
<1>4. NodesInv' /\ Granted' = Granted /\ Slotted' = Slotted
  BY <1>1, <1>2, QuietStep
<1>5. Syncing' = Syncing
  BY <1>1 DEF Syncing
<1>6. QED
  BY <1>1, <1>2, <1>3, <1>4, <1>5 DEF IInv, Types, SlotsInv, SyncInv

(* A place is used again.                                                  *)
LEMMA NewNodeFacts ==
  ASSUME IInv, Free # {}, NEW d \in NodeRecords, d.st = "open", ~d.grant, ~d.fSyncStarted,
         node' = [node EXCEPT ![First(Free)] = d]
  PROVE  /\ \E k \in Ids :
              /\ k = First(Free) /\ Unused(k) /\ \A c \in Threads : conn[c].id # k
              /\ node'[k] = d /\ \A n \in Ids \ {k} : node'[n] = node[n]
         /\ node' \in [Ids -> NodeRecords]
         /\ Granted' = Granted /\ Syncing' = Syncing
<1>1. PICK k \in Free : k = First(Free)
  BY FirstFacts DEF Free
<1>2. k \in Ids /\ Unused(k) /\ \A c \in Threads : conn[c].id # k
  BY <1>1 DEF Free, IInv, NodesInv, NodeInv
<1>3. /\ node'[k] = d /\ \A n \in Ids \ {k} : node'[n] = node[n]
      /\ node' \in [Ids -> NodeRecords]
  BY <1>1, <1>2 DEF IInv, Types
<1>4. Granted' = Granted /\ Syncing' = Syncing
  BY <1>2, <1>3, NewFacts DEF Granted, Syncing, Unused
<1>5. QED
  BY <1>1, <1>2, <1>3, <1>4

(* No call uses the place of a new node.                                   *)
LEMMA NobodyUses ==
  ASSUME NEW k \in Ids, \A c \in Threads : conn[c].id # k
  PROVE  Users(k) = {} /\ Cardinality(Users(k)) = 0 /\ \A c \in Threads : ~Uses(c, k)
<1>1. Users(k) = {} /\ \A c \in Threads : ~Uses(c, k)
  BY DEF Users, Uses, Holds
<1>2. QED
  BY <1>1, FS_EmptySet

(* A connection is accepted, or none.                                      *)
LEMMA AcceptStep == ASSUME IInv, Accept PROVE IInv'
<1>1. /\ sock.pc = "accept" /\ sock' = [sock EXCEPT !.pc = "take"]
      /\ UNCHANGED <<sem, nSyncStarted, msg, conn, lost, mishaps>>
  BY DEF Accept, counters
<1>2. /\ sock' \in SockStates
      /\ sock'.copy = sock.copy /\ sock'.todo = sock.todo /\ sock'.pc = "take" /\ sock'.cur = sock.cur
  BY <1>1 DEF IInv, Types, SockStates
<1>3. sock.cur = 0 /\ sock.copy = {}
  BY <1>1 DEF IInv, ThreadsInv, SockInv
<1>4. /\ node' \in [Ids -> NodeRecords] /\ Granted' = Granted /\ Syncing' = Syncing /\ NodesInv'
      /\ \A n \in sock.todo : node'[n].st = "disconnected"
  <2>1. CASE node' = node
    BY <1>1, <1>2, <2>1, QuietStep DEF IInv, Types, Syncing, ThreadsInv, SockInv
  <2>2. CASE node' # node
    <3> DEFINE d == Node("none", TRUE)
    <3>1. Free # {} /\ node' = [node EXCEPT ![First(Free)] = d]
      BY <2>2 DEF Accept
    <3>2. /\ d \in NodeRecords /\ d.st = "open" /\ d.nRefCount = 1 /\ d.fInbound /\ ~d.master /\ ~d.grant
          /\ ~d.fSyncStarted
      BY RecordFacts, NewFacts
    <3> HIDE DEF d
    <3>3. PICK k \in Ids :
            /\ Unused(k) /\ \A c \in Threads : conn[c].id # k
            /\ node'[k] = d /\ \A n \in Ids \ {k} : node'[n] = node[n]
            /\ node' \in [Ids -> NodeRecords]
            /\ Granted' = Granted /\ Syncing' = Syncing
      BY <3>1, <3>2, NewNodeFacts
    <3>4. Cardinality(Users(k)') = 0 /\ k # 0
      BY <1>1, <3>3, NobodyUses, SameCalls, NetAssumption DEF Ids
    <3>5. NodeInv(k)'
      <4>1. lost'[k] = 0 /\ Copies(k)' = 0
        BY <1>1, <1>2, <3>3 DEF Unused, AllLate, Copies, B
      <4>2. OtherReferences(k)' = 1
        BY <3>2, <3>3, <3>4, <4>1 DEF OtherReferences, Owned, B
      <4>3. Counted(k)'
        BY <1>2, <1>3, <3>2, <3>3, <3>4, <4>1, <4>2 DEF Counted, References
      <4>4. QED
        BY <3>2, <3>3, <4>3 DEF NodeInv
    <3>6. ASSUME NEW n \in Ids \ {k} PROVE NodeInv(n)'
      BY <1>1, <1>2, <3>3, <3>6, SameCalls, Frame DEF IInv, NodesInv
    <3>7. ASSUME NEW n \in sock.todo PROVE node'[n].st = "disconnected"
      <4>1. n \in Ids /\ node[n].st = "disconnected" /\ node[k].st = "deleted"
        BY <3>3, NewFacts DEF IInv, Types, SockStates, ThreadsInv, SockInv, Unused
      <4>2. QED
        BY <3>3, <4>1
    <3>8. QED
      BY <3>3, <3>5, <3>6, <3>7 DEF NodesInv
  <2>3. QED
    BY <2>1, <2>2
<1>5. ThreadsInv'
  <2>1. SockInv'
    BY <1>1, <1>2, <1>4 DEF IInv, ThreadsInv, SockInv
  <2>2. QED
    BY <1>1, <2>1 DEF IInv, ThreadsInv, MsgInv
<1>6. QED
  BY <1>1, <1>2, <1>4, <1>5, SameCalls DEF IInv, Types, SlotsInv, SyncInv

(* A handler takes a copy of vNodes with a reference to each, or releases  *)
(* the references of its copy.                                             *)
LEMMA CopyFacts ==
  ASSUME IInv, UNCHANGED <<conn, lost>>, sock'.cur = sock.cur, NEW k \in {-1, 1}, NEW ns \in SUBSET Ids,
         node' = [n \in Ids |-> IF n \in ns THEN [node[n] EXCEPT !.nRefCount = @ + k] ELSE node[n]],
         \A n \in ns : node[n].st # "deleted" /\ (n = sock.cur => n \in sock.copy \cup msg.copy),
         \A n \in Ids : Copies(n)' = Copies(n) + (IF n \in ns THEN k ELSE 0),
         sock'.copy \cup msg'.copy \subseteq sock.copy \cup msg.copy \cup ns
  PROVE  /\ node' \in [Ids -> NodeRecords] /\ Granted' = Granted /\ Syncing' = Syncing /\ NodesInv'
         /\ \A n \in Ids : node'[n].st = node[n].st
<1>1. \A n \in Ids : node[n] \in NodeRecords /\ lost[n] \in Nat
  BY DEF IInv, Types
<1>2. ASSUME NEW n \in Ids
      PROVE  LET e == node'[n]
                 d == node[n]
             IN  /\ e \in NodeRecords /\ e.nRefCount = d.nRefCount + (IF n \in ns THEN k ELSE 0)
                 /\ e.st = d.st /\ e.fInbound = d.fInbound /\ e.fNetworkNode = d.fNetworkNode
                 /\ e.master = d.master /\ e.grant = d.grant /\ e.fSyncStarted = d.fSyncStarted
                 /\ n \notin ns => e = d
  <2>1. CASE n \in ns
    <3>1. node'[n] = [node[n] EXCEPT !.nRefCount = node[n].nRefCount + k]
      BY <2>1
    <3>2. node[n].nRefCount + k \in Int
      BY <1>1 DEF NodeRecords
    <3>3. QED
      BY <1>1, <2>1, <3>1, <3>2 DEF NodeRecords
  <2>2. CASE n \notin ns
    BY <1>1, <2>2 DEF NodeRecords
  <2>3. QED
    BY <2>1, <2>2
<1>3. node' \in [Ids -> NodeRecords]
  BY <1>2
<1>4. Granted' = Granted /\ Syncing' = Syncing
  BY <1>2 DEF Granted, Syncing
<1>5. ASSUME NEW n \in Ids PROVE NodeInv(n)'
  <2>1. CallsKept(n) /\ Users(n)' = Users(n)
    BY SameCalls
  <2>2. NodeInv(n)
    BY DEF IInv, NodesInv
  <2>3. CASE node[n].st = "deleted"
    <3>1. AllLate(n) /\ n \notin ns /\ sock.cur # n /\ lost[n] = 0 /\ node[n] = Deleted
      BY <2>2, <2>3 DEF NodeInv, Unused
    <3>2. AllLate(n)'
      BY <2>1, <3>1 DEF AllLate, CallsKept
    <3>3. QED
      BY <1>2, <2>3, <3>1, <3>2 DEF NodeInv, Unused
  <2>4. CASE node[n].st # "deleted"
    <3>1. Cardinality(Users(n)) \in Nat
      BY ThreadsFinite DEF Users
    <3>2. OtherReferences(n)' = OtherReferences(n) /\ OtherReferences(n) \in Int /\ Copies(n) \in Int
      BY <1>1, <1>2, <2>1, <3>1 DEF OtherReferences, Copies, Owned, B
    <3>3. References(n)' = References(n) + (IF n \in ns THEN k ELSE 0)
      BY <3>2 DEF References
    <3>4. Counted(n)'
      <4>1. Counted(n)
        BY <2>2, <2>4 DEF NodeInv
      <4>2. node'[n].nRefCount = References(n)'
        <5>1. node'[n].nRefCount = node[n].nRefCount + (IF n \in ns THEN k ELSE 0)
          BY <1>2
        <5>2. node[n].nRefCount = References(n)
          BY <4>1 DEF Counted
        <5>3. QED
          BY <3>3, <5>1, <5>2
      <4>3. node'[n].grant => node'[n].st = "open" \/ lost'[n] > 0 \/ \E c \in Threads : Moved(c, n)'
        BY <1>2, <2>1, <4>1 DEF Counted, CallsKept
      <4>4. sock'.cur = n => node'[n].st = "disconnected" /\ AllLate(n)'
        <5>1. SUFFICES ASSUME sock.cur = n PROVE node'[n].st = "disconnected" /\ AllLate(n)'
          OBVIOUS
        <5>2. node[n].st = "disconnected" /\ AllLate(n)
          BY <4>1, <5>1 DEF Counted
        <5>3. n \notin sock'.copy /\ n \notin msg'.copy
          BY <5>1, <5>2 DEF AllLate
        <5>4. QED
          BY <1>2, <2>1, <5>2, <5>3 DEF AllLate, CallsKept
      <4>5. QED
        BY <4>2, <4>3, <4>4 DEF Counted
    <3>5. QED
      BY <1>2, <2>4, <3>4 DEF NodeInv
  <2>5. QED
    BY <2>3, <2>4
<1>6. QED
  BY <1>2, <1>3, <1>4, <1>5 DEF NodesInv

(* vNodes are nodes that are there, and so are those of a copy.            *)
LEMMA CopyAlive ==
  ASSUME IInv
  PROVE  /\ vNodes \in SUBSET Ids /\ \A n \in vNodes : node[n].st # "deleted"
         /\ sock.copy \in SUBSET Ids /\ \A n \in sock.copy : node[n].st # "deleted"
         /\ msg.copy \in SUBSET Ids /\ \A n \in msg.copy : node[n].st # "deleted"
         /\ sock.cur \notin vNodes
<1>1. vNodes \in SUBSET Ids /\ \A n \in vNodes : node[n].st # "deleted"
  BY DEF vNodes
<1>2. sock.copy \in SUBSET Ids /\ msg.copy \in SUBSET Ids
  BY DEF IInv, Types, MsgStates, SockStates
<1>3. \A n \in sock.copy \cup msg.copy : node[n].st # "deleted"
  BY <1>2 DEF IInv, NodesInv, NodeInv, Unused, AllLate
<1>4. sock.cur \notin vNodes
  BY DEF vNodes, IInv, NodesInv, NodeInv, Counted
<1>5. QED
  BY <1>1, <1>2, <1>3, <1>4

(* The socket handler begins and ends a round.                             *)
LEMMA SocketCopyStep == ASSUME IInv, SocketTake \/ SocketRelease PROVE IInv'
<1>1. UNCHANGED <<sem, nSyncStarted, msg, conn, lost, mishaps>>
  BY DEF SocketTake, SocketRelease, counters
<1>2. /\ sock' \in SockStates /\ sock'.pc \in {"service", "disconnect"} /\ sock.pc \in {"take", "service"}
      /\ sock'.pc # "service" => sock'.copy = {}
      /\ sock'.cur = sock.cur /\ sock'.todo = sock.todo
  <2>1. sock \in SockStates /\ vNodes \in SUBSET Ids
    BY CopyAlive DEF IInv, Types
  <2>2. QED
    BY <2>1 DEF SocketTake, SocketRelease, SockStates
<1>3. /\ node' \in [Ids -> NodeRecords] /\ Granted' = Granted /\ Syncing' = Syncing /\ NodesInv'
      /\ \A n \in Ids : node'[n].st = node[n].st
  <2>1. CASE SocketTake
    <3>1. sock.copy = {} /\ sock'.copy = vNodes
      BY <2>1 DEF SocketTake, IInv, Types, SockStates, ThreadsInv, SockInv
    <3>2. PICK ns \in SUBSET Ids : ns = vNodes
      BY CopyAlive
    <3>3. node' = [n \in Ids |-> IF n \in ns THEN [node[n] EXCEPT !.nRefCount = @ + 1] ELSE node[n]]
      BY <2>1, <3>2 DEF SocketTake, AddRefs
    <3>4. \A n \in Ids : Copies(n)' = Copies(n) + (IF n \in ns THEN 1 ELSE 0)
      BY <1>1, <3>1, <3>2 DEF Copies, B
    <3>5. QED
      BY <1>1, <1>2, <3>1, <3>2, <3>3, <3>4, CopyAlive, CopyFacts
  <2>2. CASE SocketRelease
    <3>1. sock'.copy = {}
      BY <2>2 DEF SocketRelease, IInv, Types, SockStates
    <3>2. PICK ns \in SUBSET Ids : ns = sock.copy
      BY CopyAlive
    <3>3. node' = [n \in Ids |-> IF n \in ns THEN [node[n] EXCEPT !.nRefCount = @ + (-1)] ELSE node[n]]
      <4>1. \A n \in Ids : node[n].nRefCount \in Int
        BY DEF IInv, Types, NodeRecords
      <4>2. \A n \in Ids : node[n].nRefCount - 1 = node[n].nRefCount + (-1)
        BY <4>1
      <4>3. QED
        BY <2>2, <3>2, <4>2 DEF SocketRelease, Releases
    <3>4. \A n \in Ids : Copies(n)' = Copies(n) + (IF n \in ns THEN -1 ELSE 0)
      BY <1>1, <3>1, <3>2 DEF Copies, B
    <3>5. QED
      BY <1>1, <1>2, <3>1, <3>2, <3>3, <3>4, CopyAlive, CopyFacts
  <2>3. QED
    BY <2>1, <2>2
<1>4. ThreadsInv'
  <2>1. SockInv'
    <3>1. \A n \in sock'.todo : n \in Ids /\ n \in sock.todo
      BY <1>2 DEF SockStates
    <3>2. QED
      BY <1>2, <1>3, <3>1 DEF IInv, ThreadsInv, SockInv
  <2>2. QED
    BY <1>1, <2>1 DEF IInv, ThreadsInv, MsgInv
<1>5. QED
  BY <1>1, <1>2, <1>3, <1>4, SameCalls DEF IInv, Types, SlotsInv, SyncInv

(* The message handler begins and ends a round.                            *)
LEMMA MessageCopyStep == ASSUME IInv, MessageTake \/ MessageRelease PROVE IInv'
<1>1. UNCHANGED <<sem, nSyncStarted, sock, conn, lost, mishaps>>
  BY DEF MessageTake, MessageRelease, counters
<1>2. /\ msg' \in MsgStates
      /\ msg'.pc \in {"take", "loop"} /\ (msg'.pc = "take" => msg'.copy = {}) /\ msg'.todo \subseteq msg'.copy
  BY NetAssumption, CopyAlive DEF MessageTake, MessageRelease, MsgStates
<1>3. /\ node' \in [Ids -> NodeRecords] /\ Granted' = Granted /\ Syncing' = Syncing /\ NodesInv'
      /\ \A n \in Ids : node'[n].st = node[n].st
  <2>1. CASE MessageTake
    <3>1. msg.copy = {} /\ msg'.copy = vNodes
      BY <2>1 DEF MessageTake, IInv, ThreadsInv, MsgInv
    <3>2. PICK ns \in SUBSET Ids : ns = vNodes
      BY CopyAlive
    <3>3. node' = [n \in Ids |-> IF n \in ns THEN [node[n] EXCEPT !.nRefCount = @ + 1] ELSE node[n]]
      BY <2>1, <3>2 DEF MessageTake, AddRefs
    <3>4. \A n \in Ids : Copies(n)' = Copies(n) + (IF n \in ns THEN 1 ELSE 0)
      BY <1>1, <3>1, <3>2 DEF Copies, B
    <3>5. QED
      BY <1>1, <3>1, <3>2, <3>3, <3>4, CopyAlive, CopyFacts
  <2>2. CASE MessageRelease
    <3>1. msg'.copy = {}
      BY <2>2 DEF MessageRelease
    <3>2. PICK ns \in SUBSET Ids : ns = msg.copy
      BY CopyAlive
    <3>3. node' = [n \in Ids |-> IF n \in ns THEN [node[n] EXCEPT !.nRefCount = @ + (-1)] ELSE node[n]]
      <4>1. \A n \in Ids : node[n].nRefCount \in Int
        BY DEF IInv, Types, NodeRecords
      <4>2. \A n \in Ids : node[n].nRefCount - 1 = node[n].nRefCount + (-1)
        BY <4>1
      <4>3. QED
        BY <2>2, <3>2, <4>2 DEF MessageRelease, Releases
    <3>4. \A n \in Ids : Copies(n)' = Copies(n) + (IF n \in ns THEN -1 ELSE 0)
      BY <1>1, <3>1, <3>2 DEF Copies, B
    <3>5. QED
      BY <1>1, <3>1, <3>2, <3>3, <3>4, CopyAlive, CopyFacts
  <2>3. QED
    BY <2>1, <2>2
<1>4. ThreadsInv'
  <2>1. SockInv'
    <3>1. \A n \in sock.todo : n \in Ids
      BY DEF IInv, Types, SockStates
    <3>2. QED
      BY <1>1, <1>3, <3>1 DEF IInv, ThreadsInv, SockInv
  <2>2. MsgInv'
    BY <1>2 DEF MsgInv
  <2>3. QED
    BY <1>1, <2>1, <2>2 DEF IInv, ThreadsInv
<1>5. QED
  BY <1>1, <1>2, <1>3, <1>4, SameCalls DEF IInv, Types, SlotsInv, SyncInv

(* Where the threads are, when they are where they were.                   *)
LEMMA SameThreads ==
  ASSUME IInv, UNCHANGED <<sock, msg, conn>>, \A n \in Ids : node'[n].st = node[n].st
  PROVE  ThreadsInv'
<1>1. \A n \in sock.todo : n \in Ids
  BY DEF IInv, Types, SockStates
<1>2. SockInv'
  BY <1>1 DEF IInv, ThreadsInv, SockInv
<1>3. QED
  BY <1>2 DEF IInv, ThreadsInv, MsgInv

(* A socket fails.                                                         *)
LEMMA SocketFailsStep == ASSUME IInv, NEW n \in Ids, SocketFails(n) PROVE IInv'
<1>1. UNCHANGED <<sem, nSyncStarted, sock, msg, conn, lost, mishaps>> /\ n \in sock.copy
  BY DEF SocketFails, counters
<1>2. node[n] \in NodeRecords /\ node[n].st # "deleted" /\ node \in [Ids -> NodeRecords]
  BY <1>1, CopyAlive DEF IInv, Types
<1>3. PICK e \in NodeRecords : /\ node' = [node EXCEPT ![n] = e] /\ Kept(node[n], e)
                               /\ e.fSyncStarted = node[n].fSyncStarted
  <2>1. CASE \E mute \in BOOLEAN : node' = [node EXCEPT ![n] = Close(@, mute)]
    BY <1>2, <2>1, CloseFacts
  <2>2. CASE node' = [node EXCEPT ![n].fDisconnect = TRUE]
    <3> DEFINE e == [node[n] EXCEPT !.fDisconnect = TRUE]
    <3>1. e \in NodeRecords /\ Kept(node[n], e) /\ e.fSyncStarted = node[n].fSyncStarted
      BY <1>2 DEF NodeRecords, Kept
    <3>2. QED
      BY <2>2, <3>1
  <2>3. QED
    BY <2>1, <2>2 DEF SocketFails
<1>4. /\ node' \in [Ids -> NodeRecords] /\ node'[n] = e /\ \A m \in Ids \ {n} : node'[m] = node[m]
  BY <1>2, <1>3
<1>5. NodesInv' /\ Granted' = Granted /\ Slotted' = Slotted /\ \A m \in Ids : node'[m].st = node[m].st
  BY <1>1, <1>2, <1>3, <1>4, QuietStep
<1>6. Syncing' = Syncing
  BY <1>3, <1>4 DEF Syncing
<1>7. ThreadsInv'
  BY <1>1, <1>5, SameThreads
<1>8. QED
  BY <1>1, <1>4, <1>5, <1>6, <1>7 DEF IInv, Types, SlotsInv, SyncInv

-----------------------------------------------------------------------------
(* ThreadMessageHandler, at one node.                                      *)

(* The socket handler and the calls, when they are where they were.        *)
LEMMA SameSocket ==
  ASSUME IInv, UNCHANGED <<sock, conn>>, MsgInv', \A n \in Ids : node'[n].st = node[n].st
  PROVE  ThreadsInv'
<1>1. \A n \in sock.todo : n \in Ids
  BY DEF IInv, Types, SockStates
<1>2. SockInv'
  BY <1>1 DEF IInv, ThreadsInv, SockInv
<1>3. QED
  BY <1>2 DEF IInv, ThreadsInv

(* It comes to the next node.                                              *)
LEMMA VisitStep == ASSUME IInv, NEW n \in Ids, Visit(n) PROVE IInv'
<1>1. /\ msg.todo # {} /\ n = First(msg.todo)
      /\ msg' = [msg EXCEPT !.todo = @ \ {n}, !.cur = IF node[n].fDisconnect THEN 0 ELSE n,
                            !.pc = IF node[n].fDisconnect THEN "loop" ELSE "process"]
      /\ UNCHANGED <<node, sem, nSyncStarted, sock, conn, lost, mishaps>>
  BY DEF Visit, counters
<1>2. n \in msg.todo /\ msg.todo \subseteq msg.copy
  BY <1>1, FirstFacts DEF IInv, Types, MsgStates, ThreadsInv, MsgInv
<1>3. PICK cur \in {0, n}, at \in {"loop", "process"} :
        msg' = [msg EXCEPT !.todo = @ \ {n}, !.cur = cur, !.pc = at] /\ (at = "process" => cur = n)
  BY <1>1
<1>4. /\ msg' \in MsgStates
      /\ msg'.copy = msg.copy /\ msg'.todo \subseteq msg.todo /\ msg'.pc = at /\ msg'.cur = cur
  <2>1. msg \in MsgStates /\ cur \in 0..MaxNodes /\ at \in {"take", "loop", "process", "send"}
    BY NetAssumption DEF IInv, Types, Ids
  <2>2. PICK todo \in SUBSET Ids : todo = msg.todo \ {n} /\ msg' = [msg EXCEPT !.todo = todo, !.cur = cur, !.pc = at]
    BY <1>3, <2>1 DEF MsgStates
  <2>3. QED
    BY <2>1, <2>2 DEF MsgStates
<1>5. ThreadsInv'
  <2>1. MsgInv'
    BY <1>2, <1>3, <1>4 DEF IInv, ThreadsInv, MsgInv
  <2>2. QED
    BY <1>1, <2>1 DEF IInv, ThreadsInv, SockInv
<1>6. NodesInv' /\ Granted' = Granted /\ Slotted' = Slotted
  BY <1>1, <1>4, QuietStep
<1>7. Syncing' = Syncing
  BY <1>1 DEF Syncing
<1>8. QED
  BY <1>1, <1>4, <1>5, <1>6, <1>7 DEF IInv, Types, SlotsInv, SyncInv

(* ProcessMessages, and a ping that meets a closed socket.                 *)
LEMMA ProcessStep == ASSUME IInv, NEW n \in Ids, Process(n) \/ PingFails(n) PROVE IInv'
<1>1. /\ msg.cur = n /\ msg.pc \in {"process", "send"}
      /\ msg' = [msg EXCEPT !.pc = "send"] \/ msg' = [msg EXCEPT !.pc = "loop", !.cur = 0]
      /\ UNCHANGED <<sem, nSyncStarted, sock, conn, lost, mishaps>>
  BY DEF Process, PingFails, counters
<1>2. node[n] \in NodeRecords /\ node[n].st # "deleted" /\ node \in [Ids -> NodeRecords]
  BY <1>1, CopyAlive DEF IInv, Types, ThreadsInv, MsgInv
<1>3. PICK e \in NodeRecords : /\ node' = [node EXCEPT ![n] = e] /\ Kept(node[n], e)
                               /\ e.fSyncStarted = node[n].fSyncStarted
  <2>1. CASE \E mute \in BOOLEAN : node' = [node EXCEPT ![n] = Close(@, mute)]
    BY <1>2, <2>1, CloseFacts
  <2>2. CASE node' = [node EXCEPT ![n].fDisconnect = TRUE]
    <3> DEFINE e == [node[n] EXCEPT !.fDisconnect = TRUE]
    <3>1. e \in NodeRecords /\ Kept(node[n], e) /\ e.fSyncStarted = node[n].fSyncStarted
      BY <1>2 DEF NodeRecords, Kept
    <3>2. QED
      BY <2>2, <3>1
  <2>3. CASE \E old \in BOOLEAN : node' = [node EXCEPT ![n] = DisconnectOldProtocol(@, old)]
    BY <1>2, <2>3, CloseFacts
  <2>4. CASE node' = node
    <3>1. node' = [node EXCEPT ![n] = node[n]] /\ Kept(node[n], node[n])
      BY <1>2, <2>4 DEF Kept
    <3>2. QED
      BY <1>2, <3>1
  <2>5. QED
    BY <2>1, <2>2, <2>3, <2>4 DEF Process, PingFails
<1>4. /\ node' \in [Ids -> NodeRecords] /\ node'[n] = e /\ \A m \in Ids \ {n} : node'[m] = node[m]
  BY <1>2, <1>3
<1>5. /\ msg' \in MsgStates
      /\ msg'.copy = msg.copy /\ msg'.todo = msg.todo
      /\ msg'.pc # "take" /\ (msg'.pc \in {"process", "send"} => msg'.cur = msg.cur)
  <2>1. msg \in MsgStates /\ 0 \in 0..MaxNodes
    BY NetAssumption DEF IInv, Types
  <2>2. QED
    BY <1>1, <2>1 DEF MsgStates
<1>6. NodesInv' /\ Granted' = Granted /\ Slotted' = Slotted /\ \A m \in Ids : node'[m].st = node[m].st
  BY <1>1, <1>2, <1>3, <1>4, <1>5, QuietStep
<1>7. ThreadsInv'
  <2>1. MsgInv'
    BY <1>1, <1>5 DEF IInv, ThreadsInv, MsgInv
  <2>2. QED
    BY <1>1, <1>6, <2>1, SameSocket
<1>8. Syncing' = Syncing
  BY <1>3, <1>4 DEF Syncing
<1>9. QED
  BY <1>1, <1>4, <1>5, <1>6, <1>7, <1>8 DEF IInv, Types, SlotsInv, SyncInv

(* SendMessages: nSyncStarted counts the peers we synchronise from.        *)
LEMMA SendStep == ASSUME IInv, NEW n \in Ids, Send(n) PROVE IInv'
<1>1. PICK ban \in BOOLEAN, start \in BOOLEAN :
        /\ start => ~node[n].fSyncStarted
        /\ node' = [node EXCEPT ![n].fDisconnect = @ \/ ban, ![n].fSyncStarted = @ \/ start]
        /\ nSyncStarted' = nSyncStarted + B(start)
  BY DEF Send
<1>2. /\ msg.cur = n /\ msg.pc = "send" /\ msg' = [msg EXCEPT !.pc = "loop", !.cur = 0]
      /\ UNCHANGED <<sem, sock, conn, lost, mishaps>>
  BY DEF Send
<1>3. node[n] \in NodeRecords /\ node[n].st # "deleted" /\ node \in [Ids -> NodeRecords]
  BY <1>2, CopyAlive DEF IInv, Types, ThreadsInv, MsgInv
<1>4. PICK e \in NodeRecords : /\ node' = [node EXCEPT ![n] = e] /\ Kept(node[n], e)
                               /\ e.fSyncStarted <=> (node[n].fSyncStarted \/ start)
  <2>1. PICK f \in BOOLEAN, g \in BOOLEAN : /\ f = (node[n].fDisconnect \/ ban)
                                            /\ g = (node[n].fSyncStarted \/ start)
    BY <1>3 DEF NodeRecords
  <2> DEFINE e == [node[n] EXCEPT !.fDisconnect = f, !.fSyncStarted = g]
  <2>2. e \in NodeRecords /\ Kept(node[n], e) /\ e.fSyncStarted = g
    BY <1>3 DEF NodeRecords, Kept
  <2>3. node' = [node EXCEPT ![n] = e]
    BY <1>1, <1>3, <2>1
  <2>4. QED
    BY <2>1, <2>2, <2>3
<1>5. /\ node' \in [Ids -> NodeRecords] /\ node'[n] = e /\ \A m \in Ids \ {n} : node'[m] = node[m]
  BY <1>3, <1>4
<1>6. /\ msg' \in MsgStates
      /\ msg'.copy = msg.copy /\ msg'.todo = msg.todo /\ msg'.pc = "loop"
  <2>1. msg \in MsgStates /\ 0 \in 0..MaxNodes
    BY NetAssumption DEF IInv, Types
  <2>2. QED
    BY <1>2, <2>1 DEF MsgStates
<1>7. NodesInv' /\ Granted' = Granted /\ Slotted' = Slotted /\ \A m \in Ids : node'[m].st = node[m].st
  BY <1>2, <1>3, <1>4, <1>5, <1>6, QuietStep
<1>8. ThreadsInv'
  <2>1. MsgInv'
    BY <1>2, <1>6 DEF IInv, ThreadsInv, MsgInv
  <2>2. QED
    BY <1>2, <1>7, <2>1, SameSocket
<1>9. nSyncStarted' \in Int /\ SyncInv'
  <2>1. Syncing \in SUBSET Ids /\ Cardinality(Syncing) \in Nat
    BY PlacesFinite DEF Syncing
  <2>2. nSyncStarted \in Int /\ nSyncStarted = Cardinality(Syncing)
    BY DEF IInv, Types, SyncInv
  <2>3. CASE start
    <3>1. n \notin Syncing /\ Syncing' = Syncing \cup {n}
      <4>1. ~node[n].fSyncStarted /\ node'[n].fSyncStarted
        BY <1>1, <1>4, <1>5, <2>3
      <4>2. \A m \in Ids : m \in Syncing' <=> m \in Syncing \/ m = n
        BY <1>5, <4>1 DEF Syncing
      <4>3. Syncing' \in SUBSET Ids
        BY DEF Syncing
      <4>4. QED
        BY <2>1, <4>1, <4>2, <4>3 DEF Syncing
    <3>2. Cardinality(Syncing \cup {n}) = Cardinality(Syncing) + 1
      BY <2>1, <3>1, CountFacts
    <3>3. QED
      BY <1>1, <2>2, <2>3, <3>1, <3>2 DEF SyncInv, B
  <2>4. CASE ~start
    <3>1. Syncing' = Syncing
      BY <1>4, <1>5, <2>4 DEF Syncing
    <3>2. QED
      BY <1>1, <2>2, <2>4, <3>1 DEF SyncInv, B
  <2>5. QED
    BY <2>3, <2>4
<1>10. QED
  BY <1>2, <1>5, <1>6, <1>7, <1>8, <1>9 DEF IInv, Types, SlotsInv

-----------------------------------------------------------------------------
(* The threads that call ConnectNode.                                      *)

(* NoCall holds nothing.                                                   *)
LEMMA NoCallFacts == NoCall \in Calls /\ CallInv(NoCall) /\ NoCall.pc = "idle" /\ ~NoCall.grant
BY RecordFacts DEF NoCall, CallInv

(* FindNode gives a node that is there, or none.                           *)
LEMMA CallFacts ==
  ASSUME IInv, NEW a \in Addrs \cup {"none"}, NEW f \in {"open", "check", "mix"}, NEW g \in BOOLEAN,
         g => f = "open"
  PROVE  LET x == Call(a, f, g)
         IN  x \in Calls /\ CallInv(x) /\ x.pc \in {"dial", "found"} /\ x.grant = g
<1>1. FindNode(a) # {} => First(FindNode(a)) \in Ids
  BY FirstFacts DEF FindNode, vNodes
<1>2. PICK at \in {"dial", "found"}, id \in 0..MaxNodes :
        /\ Call(a, f, g) = [NoCall EXCEPT !.pc = at, !.for = f, !.addr = a, !.id = id, !.grant = g]
        /\ at = "found" => id \in Ids
  <2>1. CASE FindNode(a) = {}
    <3>1. Call(a, f, g) = [NoCall EXCEPT !.pc = "dial", !.for = f, !.addr = a, !.id = 0, !.grant = g]
      BY <2>1 DEF Call
    <3>2. 0 \in 0..MaxNodes
      BY NetAssumption
    <3>3. QED
      BY <3>1, <3>2
  <2>2. CASE FindNode(a) # {}
    <3>1. Call(a, f, g) = [NoCall EXCEPT !.pc = "found", !.for = f, !.addr = a,
                                         !.id = First(FindNode(a)), !.grant = g]
      BY <2>2 DEF Call
    <3>2. First(FindNode(a)) \in 0..MaxNodes
      BY <1>1, <2>2, NetAssumption DEF Ids
    <3>3. QED
      BY <1>1, <2>2, <3>1, <3>2
  <2>3. QED
    BY <2>1, <2>2
<1>3. Call(a, f, g) = [pc |-> at, for |-> f, addr |-> a, id |-> id, grant |-> g, late |-> FALSE]
  BY <1>2 DEF NoCall
<1>4. QED
  <2> DEFINE x == Call(a, f, g)
  <2>1. /\ x.pc = at /\ x.for = f /\ x.addr = a /\ x.id = id /\ x.grant = g /\ x.late = FALSE
        /\ x = [pc |-> at, for |-> f, addr |-> a, id |-> id, grant |-> g, late |-> FALSE]
    BY <1>3
  <2> HIDE DEF x
  <2>2. x \in Calls
    BY <2>1 DEF Calls
  <2>3. CallInv(x)
    BY <1>2, <2>1 DEF CallInv
  <2>4. QED
    BY <2>1, <2>2, <2>3 DEF x

(* The handlers, when one call goes on and no node that was disconnected   *)
(* is anything else.                                                       *)
LEMMA OtherThreads ==
  ASSUME IInv, UNCHANGED <<sock, msg>>, NEW c \in Threads, NEW x \in Calls, CallInv(x),
         conn' = [conn EXCEPT ![c] = x],
         \A n \in Ids : node[n].st = "disconnected" => node'[n].st = "disconnected"
  PROVE  ThreadsInv'
<1>1. \A n \in sock.todo : n \in Ids
  BY DEF IInv, Types, SockStates
<1>2. SockInv'
  BY <1>1 DEF IInv, ThreadsInv, SockInv
<1>3. \A d \in Threads : conn'[d] = IF d = c THEN x ELSE conn[d]
  BY DEF IInv, Types
<1>4. ASSUME NEW d \in Threads PROVE CallInv(conn[d])'
  <2>1. CallInv(conn[d])
    BY DEF IInv, ThreadsInv
  <2>2. QED
    BY <1>3, <2>1 DEF CallInv
<1>5. QED
  BY <1>2, <1>4 DEF IInv, ThreadsInv, MsgInv

(* A step of a call that has no reference to count, before or after.       *)
LEMMA CallStep ==
  ASSUME IInv, NEW c \in Threads, NEW x \in Calls, CallInv(x), conn' = [conn EXCEPT ![c] = x],
         UNCHANGED <<node, lost, sock, msg>>, x.pc # "got", conn[c].pc # "got"
  PROVE  /\ NodesInv' /\ ThreadsInv' /\ Granted' = Granted /\ Syncing' = Syncing
         /\ conn' \in [Threads -> Calls]
         /\ Cardinality(Slotted') = Cardinality(Slotted) - B(conn[c].grant) + B(x.grant)
<1>1. /\ conn' \in [Threads -> Calls] /\ conn'[c] = x
      /\ Cardinality(Slotted') = Cardinality(Slotted) - B(conn[c].grant) + B(x.grant)
      /\ \A n \in Ids : ~Uses(c, n) /\ ~Uses(c, n)' => CallsKept(n)
  BY OneCall DEF IInv, Types
<1>2. ASSUME NEW n \in Ids PROVE NodeInv(n)'
  <2>1. CallsKept(n)
    BY <1>1 DEF Uses, Holds
  <2>2. QED
    BY <2>1, Frame DEF IInv, NodesInv
<1>3. ThreadsInv'
  BY OtherThreads
<1>4. QED
  BY <1>1, <1>2, <1>3 DEF NodesInv, Granted, Syncing

(* The slots, when one call takes or gives back one.                       *)
LEMMA SlotMoves ==
  ASSUME IInv, NEW b \in BOOLEAN, NEW g \in BOOLEAN, Granted' = Granted,
         sem' = sem + B(b) - B(g), g => sem > 0,
         Cardinality(Slotted') = Cardinality(Slotted) - B(b) + B(g)
  PROVE  sem' \in Nat /\ SlotsInv'
<1>1. sem \in Nat /\ Cardinality(Granted) \in Nat /\ Cardinality(Slotted) \in Nat
  BY PlacesFinite, ThreadsFinite DEF IInv, Types, Granted, Slotted
<1>2. PICK i \in Nat, j \in Nat : i = B(b) /\ j = B(g) /\ (sem > 0 \/ j = 0) /\ j <= 1
  BY DEF B
<1>3. sem' = sem + i - j /\ Cardinality(Slotted') = Cardinality(Slotted) - i + j
  BY <1>2
<1>4. Cardinality(Granted') = Cardinality(Granted)
  OBVIOUS
<1>5. sem' \in Nat
  BY <1>1, <1>2, <1>3
<1>6. QED
  BY <1>1, <1>2, <1>3, <1>4, <1>5 DEF IInv, SlotsInv

(* A call of ConnectNode, with a slot or without.                          *)
LEMMA OpenStep ==
  ASSUME IInv, NEW c \in Threads, NEW a \in Addrs, NEW named \in BOOLEAN, NEW grant \in BOOLEAN,
         Open(c, a, named, grant)
  PROVE  IInv'
<1> DEFINE x == [NoCall EXCEPT !.pc = IF named THEN "dial" ELSE "find",
                               !.for = "open", !.addr = a, !.grant = grant]
<1>1. /\ conn[c].pc = "idle" /\ (grant => sem > 0) /\ sem' = sem - B(grant)
      /\ conn' = [conn EXCEPT ![c] = x]
      /\ UNCHANGED <<node, nSyncStarted, sock, msg, lost, mishaps>>
  BY DEF Open
<1>2. x \in Calls /\ CallInv(x) /\ x.pc \in {"dial", "find"} /\ x.grant = grant
  <2>1. PICK at \in {"dial", "find"} : x = [NoCall EXCEPT !.pc = at, !.for = "open", !.addr = a, !.grant = grant]
    OBVIOUS
  <2> HIDE DEF x
  <2>2. x = [pc |-> at, for |-> "open", addr |-> a, id |-> 0, grant |-> grant, late |-> FALSE]
    BY <2>1 DEF NoCall
  <2>3. QED
    BY <2>2, NetAssumption DEF Calls, CallInv
<1> HIDE DEF x
<1>3. /\ NodesInv' /\ ThreadsInv' /\ Granted' = Granted /\ Syncing' = Syncing
      /\ conn' \in [Threads -> Calls]
      /\ Cardinality(Slotted') = Cardinality(Slotted) - B(conn[c].grant) + B(x.grant)
  BY <1>1, <1>2, CallStep
<1>4. ~conn[c].grant
  BY <1>1 DEF IInv, ThreadsInv, CallInv
<1>5. sem' = sem + B(FALSE) - B(grant)
  BY <1>1 DEF B, IInv, Types
<1>6. Cardinality(Slotted') = Cardinality(Slotted) - B(FALSE) + B(grant)
  BY <1>2, <1>3, <1>4 DEF B
<1>7. sem' \in Nat /\ SlotsInv'
  BY <1>1, <1>3, <1>5, <1>6, SlotMoves
<1>8. QED
  BY <1>1, <1>3, <1>7 DEF IInv, Types, SyncInv

(* FindNode under cs_vNodes.                                               *)
LEMMA FindStep == ASSUME IInv, NEW c \in Threads, Find(c) PROVE IInv'
<1>1. /\ conn[c].pc = "find" /\ conn' = [conn EXCEPT ![c] = Call(@.addr, "open", @.grant)]
      /\ UNCHANGED <<node, sem, nSyncStarted, sock, msg, lost, mishaps>>
  BY DEF Find, counters
<1>2. conn \in [Threads -> Calls] /\ conn[c].addr \in Addrs \cup {"none"} /\ conn[c].grant \in BOOLEAN
  BY DEF IInv, Types, Calls
<1>3. PICK x \in Calls : /\ conn' = [conn EXCEPT ![c] = x]
                         /\ CallInv(x) /\ x.pc \in {"dial", "found"} /\ x.grant = conn[c].grant
  BY <1>1, <1>2, CallFacts
<1>4. /\ NodesInv' /\ ThreadsInv' /\ Granted' = Granted /\ Syncing' = Syncing
      /\ conn' \in [Threads -> Calls]
      /\ Cardinality(Slotted') = Cardinality(Slotted) - B(conn[c].grant) + B(x.grant)
  BY <1>1, <1>3, CallStep
<1>5. Cardinality(Slotted') = Cardinality(Slotted)
  <2>1. Cardinality(Slotted) \in Nat /\ B(conn[c].grant) \in Int
    BY ThreadsFinite DEF Slotted, B
  <2>2. QED
    BY <1>3, <1>4, <2>1
<1>6. QED
  BY <1>1, <1>4, <1>5 DEF IInv, Types, SlotsInv, SyncInv

(* The same for a masternode connection.                                   *)
LEMMA MasternodeStep ==
  ASSUME IInv, NEW c \in Threads, NEW a \in Addrs, NEW f \in {"check", "mix"}, Masternode(c, a, f)
  PROVE  IInv'
<1>1. /\ conn[c].pc = "idle" /\ conn' = [conn EXCEPT ![c] = Call(a, f, FALSE)]
      /\ UNCHANGED <<node, sem, nSyncStarted, sock, msg, lost, mishaps>>
  BY DEF Masternode, counters
<1>2. PICK x \in Calls : /\ conn' = [conn EXCEPT ![c] = x]
                         /\ CallInv(x) /\ x.pc \in {"dial", "found"} /\ ~x.grant
  BY <1>1, CallFacts
<1>3. /\ NodesInv' /\ ThreadsInv' /\ Granted' = Granted /\ Syncing' = Syncing
      /\ conn' \in [Threads -> Calls]
      /\ Cardinality(Slotted') = Cardinality(Slotted) - B(conn[c].grant) + B(x.grant)
  BY <1>1, <1>2, CallStep
<1>4. Cardinality(Slotted') = Cardinality(Slotted)
  <2>1. Cardinality(Slotted) \in Nat /\ B(conn[c].grant) = 0 /\ B(x.grant) = 0
    BY <1>1, <1>2, ThreadsFinite DEF IInv, ThreadsInv, CallInv, Slotted, B
  <2>2. QED
    BY <1>3, <2>1
<1>5. QED
  BY <1>1, <1>3, <1>4 DEF IInv, Types, SlotsInv, SyncInv

(* A call that ends without a connection gives back its slot.              *)
LEMMA DialFailsStep == ASSUME IInv, NEW c \in Threads, DialFails(c) PROVE IInv'
<1>1. /\ conn[c].pc = "dial" /\ sem' = sem + B(conn[c].grant) /\ conn' = [conn EXCEPT ![c] = NoCall]
      /\ UNCHANGED <<node, nSyncStarted, sock, msg, lost, mishaps>>
  BY DEF DialFails
<1>2. /\ NodesInv' /\ ThreadsInv' /\ Granted' = Granted /\ Syncing' = Syncing
      /\ conn' \in [Threads -> Calls]
      /\ Cardinality(Slotted') = Cardinality(Slotted) - B(conn[c].grant) + B(NoCall.grant)
  BY <1>1, NoCallFacts, CallStep
<1>3. conn[c].grant \in BOOLEAN
  BY DEF IInv, Types, Calls
<1>4. sem' = sem + B(conn[c].grant) - B(FALSE)
  BY <1>1 DEF B, IInv, Types
<1>5. Cardinality(Slotted') = Cardinality(Slotted) - B(conn[c].grant) + B(FALSE)
  BY <1>2, NoCallFacts DEF B
<1>6. sem' \in Nat /\ SlotsInv'
  BY <1>2, <1>3, <1>4, <1>5, SlotMoves
<1>7. QED
  BY <1>1, <1>2, <1>6 DEF IInv, Types, SyncInv

(* The count of node n when it becomes e with l references lost, and the   *)
(* call that changes it stood for u of its references and stands for v.    *)
Balance(n, e, l, u, v) ==
  node[n].nRefCount + (l - lost[n]) + (v - u)
    + (B(e.st = "open" /\ (e.fNetworkNode \/ e.fInbound)) - B(node[n].st = "open" /\ Owned(n)))
    + (B(e.st = "open" /\ e.master) - B(node[n].st = "open" /\ node[n].master))

(* A call at node n, which it found or has in hand, goes on to x and       *)
(* leaves n as e, with l references lost.  What the count is changed by is *)
(* what its holders are.                                                   *)
GoesOn(c, n, x, e, l) ==
  /\ conn[c].id = n /\ node[n].st # "deleted" /\ CallInv(x) /\ (x.id = n \/ x.pc = "idle")
  /\ conn' = [conn EXCEPT ![c] = x] /\ node' = [node EXCEPT ![n] = e]
  /\ lost' = [lost EXCEPT ![n] = l] /\ UNCHANGED <<sock, msg>>
  /\ e.st = node[n].st /\ e.fSyncStarted = node[n].fSyncStarted
  /\ e.nRefCount = Balance(n, e, l, B(Uses(c, n)), B(Uses(c, n)'))
  /\ e.grant => \/ e.st = "open" \/ l > 0 \/ Moved(c, n)'
                \/ node[n].grant /\ ~Moved(c, n) /\ l >= lost[n]
  /\ sock.cur = n /\ Uses(c, n)' => x.late

(* That keeps the invariant.                                               *)
LEMMA AtNode ==
  ASSUME IInv, NEW c \in Threads, NEW n \in Ids, NEW x \in Calls, NEW e \in NodeRecords, NEW l \in Nat,
         GoesOn(c, n, x, e, l)
  PROVE  /\ node' \in [Ids -> NodeRecords] /\ lost' \in [Ids -> Nat] /\ conn' \in [Threads -> Calls]
         /\ ThreadsInv' /\ NodesInv' /\ Syncing' = Syncing
         /\ node'[n] = e /\ \A m \in Ids \ {n} : node'[m] = node[m]
         /\ Cardinality(Slotted') = Cardinality(Slotted) - B(conn[c].grant) + B(x.grant)
<1>0. /\ conn[c].id = n /\ node[n].st # "deleted" /\ CallInv(x) /\ (x.id = n \/ x.pc = "idle")
      /\ conn' = [conn EXCEPT ![c] = x] /\ node' = [node EXCEPT ![n] = e]
      /\ lost' = [lost EXCEPT ![n] = l] /\ UNCHANGED <<sock, msg>>
      /\ e.st = node[n].st /\ e.fSyncStarted = node[n].fSyncStarted
  BY DEF GoesOn
<1>1. /\ node' \in [Ids -> NodeRecords] /\ node'[n] = e /\ \A m \in Ids \ {n} : node'[m] = node[m]
      /\ lost' \in [Ids -> Nat] /\ lost'[n] = l /\ \A m \in Ids \ {n} : lost'[m] = lost[m]
      /\ lost[n] \in Nat /\ node[n] \in NodeRecords
  BY <1>0 DEF IInv, Types
<1>2. /\ conn' \in [Threads -> Calls] /\ conn'[c] = x /\ \A d \in Threads \ {c} : conn'[d] = conn[d]
      /\ Cardinality(Users(n)') = Cardinality(Users(n)) - B(Uses(c, n)) + B(Uses(c, n)')
      /\ Cardinality(Slotted') = Cardinality(Slotted) - B(conn[c].grant) + B(x.grant)
      /\ \A m \in Ids : ~Uses(c, m) /\ ~Uses(c, m)' => CallsKept(m)
  <2>1. conn \in [Threads -> Calls] /\ conn' = [conn EXCEPT ![c] = x]
    BY <1>0 DEF IInv, Types
  <2>2. QED
    BY <2>1, OneCall
<1>3. ThreadsInv'
  <2>1. \A m \in Ids : node'[m].st = node[m].st
    BY <1>0, <1>1
  <2>2. QED
    BY <1>0, <2>1, OtherThreads
<1>4. Syncing' = Syncing
  BY <1>0, <1>1 DEF Syncing
<1>5. Counted(n)
  BY <1>0 DEF IInv, NodesInv, NodeInv
<1>6. node'[n].nRefCount = References(n)'
  <2> DEFINE u == B(Uses(c, n))
             v == B(Uses(c, n)')
             o == B(node[n].st = "open" /\ Owned(n))
             p == B(e.st = "open" /\ (e.fNetworkNode \/ e.fInbound))
             q == B(node[n].st = "open" /\ node[n].master)
             r == B(e.st = "open" /\ e.master)
             k == Copies(n)
             s == Cardinality(Users(n))
  <2>1. u \in Int /\ v \in Int /\ o \in Int /\ p \in Int /\ q \in Int /\ r \in Int /\ k \in Int
    BY DEF B, Copies
  <2>2. s \in Nat
    BY ThreadsFinite DEF Users
  <2>3. e.nRefCount = node[n].nRefCount + (l - lost[n]) + (v - u) + (p - o) + (r - q)
    BY DEF GoesOn, Balance
  <2>4. node[n].nRefCount = k + (lost[n] + s + o + q)
    BY <1>5 DEF Counted, References, OtherReferences
  <2>5. Copies(n)' = k
    BY <1>0 DEF Copies
  <2>6. B(node[n].st = "open" /\ Owned(n))' = p /\ B(node[n].st = "open" /\ node[n].master)' = r
    BY <1>1 DEF Owned, B
  <2>7. Cardinality(Users(n)') = s - u + v
    BY <1>2
  <2>8. References(n)' = k + (l + (s - u + v) + p + r)
    BY <1>1, <2>5, <2>6, <2>7 DEF References, OtherReferences
  <2> HIDE DEF u, v, o, p, q, r, k, s
  <2>9. QED
    BY <1>1, <2>1, <2>2, <2>3, <2>4, <2>8
<1>7. node'[n].grant => node'[n].st = "open" \/ lost'[n] > 0 \/ \E d \in Threads : Moved(d, n)'
  <2>1. CASE node[n].grant /\ ~Moved(c, n) /\ l >= lost[n]
    <3>1. node[n].st = "open" \/ lost[n] > 0 \/ \E d \in Threads : Moved(d, n)
      BY <1>5, <2>1 DEF Counted
    <3>2. \A d \in Threads \ {c} : Moved(d, n) => Moved(d, n)'
      BY <1>2 DEF Moved, Uses, Holds, Mixing
    <3>3. lost[n] > 0 => lost'[n] > 0
      BY <1>1, <2>1
    <3>4. QED
      BY <1>0, <1>1, <2>1, <3>1, <3>2, <3>3
  <2>2. QED
    BY <1>1, <2>1 DEF GoesOn
<1>8. sock'.cur = n => node'[n].st = "disconnected" /\ AllLate(n)'
  <2>1. \A d \in Threads \ {c} : (Uses(d, n)' <=> Uses(d, n)) /\ conn'[d].late = conn[d].late
    BY <1>2 DEF Uses, Holds, Mixing
  <2>2. QED
    BY <1>0, <1>1, <1>2, <1>5, <2>1 DEF Counted, AllLate, GoesOn
<1>9. NodeInv(n)'
  BY <1>0, <1>1, <1>6, <1>7, <1>8 DEF NodeInv, Counted
<1>10. ASSUME NEW m \in Ids \ {n} PROVE NodeInv(m)'
  <2>1. ~Uses(c, m) /\ ~Uses(c, m)'
    BY <1>0, <1>2 DEF Uses, Holds
  <2>2. CallsKept(m)
    BY <1>2, <2>1
  <2>3. QED
    BY <1>0, <1>1, <2>2, Frame DEF IInv, NodesInv
<1>11. QED
  BY <1>1, <1>2, <1>3, <1>4, <1>9, <1>10 DEF NodesInv

(* The node that FindNode gave gets a reference and its mixing flag.       *)
LEMMA FoundStep == ASSUME IInv, NEW c \in Threads, FoundAddRef(c) PROVE IInv'
<1>1. PICK n \in Ids : n = conn[c].id
  BY DEF FoundAddRef, IInv, ThreadsInv, CallInv
<1>2. /\ conn[c].pc = "found" /\ node[n].st # "deleted"
      /\ node' = [node EXCEPT ![n].master = Mixing(c), ![n].nRefCount = @ + 1]
      /\ lost' = [lost EXCEPT ![n] = @ + B(n \in vNodes /\ node[n].master) + B(n \notin vNodes /\ Mixing(c))]
      /\ conn' = [conn EXCEPT ![c].pc = "got", ![c].late = (sock.cur = n)]
      /\ UNCHANGED <<sem, nSyncStarted, sock, msg, mishaps>>
  BY <1>1 DEF FoundAddRef, counters
<1>3. /\ node \in [Ids -> NodeRecords] /\ lost \in [Ids -> Nat] /\ conn \in [Threads -> Calls]
      /\ node[n] \in NodeRecords /\ conn[c] \in Calls /\ lost[n] \in Nat
  BY DEF IInv, Types
<1>4. PICK M \in BOOLEAN, late \in BOOLEAN : M = Mixing(c) /\ late = (sock.cur = n)
  BY DEF Mixing
<1>5. PICK x \in Calls :
        /\ conn' = [conn EXCEPT ![c] = x]
        /\ x.pc = "got" /\ x.id = n /\ x.for = conn[c].for /\ x.grant = conn[c].grant /\ x.late = late
        /\ CallInv(x)
  <2> DEFINE x == [conn[c] EXCEPT !.pc = "got", !.late = late]
  <2>1. conn' = [conn EXCEPT ![c] = x]
    BY <1>2, <1>3, <1>4
  <2>2. /\ x \in Calls /\ x.pc = "got" /\ x.id = n /\ x.for = conn[c].for /\ x.grant = conn[c].grant
        /\ x.late = late
    BY <1>1, <1>3 DEF Calls
  <2> HIDE DEF x
  <2>3. CallInv(x)
    BY <2>2 DEF IInv, ThreadsInv, CallInv
  <2>4. QED
    BY <2>1, <2>2, <2>3
<1>6. PICK e \in NodeRecords :
        /\ node' = [node EXCEPT ![n] = e]
        /\ e.nRefCount = node[n].nRefCount + 1 /\ e.master = M /\ e.st = node[n].st
        /\ e.fInbound = node[n].fInbound /\ e.fNetworkNode = node[n].fNetworkNode
        /\ e.grant = node[n].grant /\ e.fSyncStarted = node[n].fSyncStarted
  <2> DEFINE e == [node[n] EXCEPT !.master = M, !.nRefCount = node[n].nRefCount + 1]
  <2>1. node' = [node EXCEPT ![n] = e] /\ node[n].nRefCount + 1 \in Int
    BY <1>2, <1>3, <1>4 DEF NodeRecords
  <2>2. /\ e \in NodeRecords /\ e.nRefCount = node[n].nRefCount + 1 /\ e.master = M /\ e.st = node[n].st
        /\ e.fInbound = node[n].fInbound /\ e.fNetworkNode = node[n].fNetworkNode
        /\ e.grant = node[n].grant /\ e.fSyncStarted = node[n].fSyncStarted
    BY <1>3, <2>1 DEF NodeRecords
  <2> HIDE DEF e
  <2>3. QED
    BY <2>1, <2>2
<1>7. PICK l \in Nat :
        /\ lost' = [lost EXCEPT ![n] = l] /\ l >= lost[n]
        /\ l - lost[n] = B(node[n].st = "open" /\ node[n].master) + B(node[n].st # "open" /\ M)
  <2> DEFINE l == lost[n] + B(n \in vNodes /\ node[n].master) + B(n \notin vNodes /\ Mixing(c))
  <2>1. l \in Nat /\ l = lost[n] + B(node[n].st = "open" /\ node[n].master) + B(node[n].st # "open" /\ M)
    BY <1>3, <1>4 DEF B, vNodes
  <2>2. lost' = [lost EXCEPT ![n] = l]
    BY <1>2, <1>3
  <2> HIDE DEF l
  <2>3. l >= lost[n] /\ l - lost[n] = B(node[n].st = "open" /\ node[n].master) + B(node[n].st # "open" /\ M)
    BY <1>3, <2>1 DEF B
  <2>4. QED
    BY <2>1, <2>2, <2>3
<1>8. ~Uses(c, n) /\ (Uses(c, n)' <=> ~M) /\ ~Moved(c, n)
  <2>1. conn'[c] = x
    BY <1>3, <1>5
  <2>2. QED
    BY <1>1, <1>2, <1>4, <1>5, <2>1 DEF Uses, Holds, Mixing, Moved
<1>9. e.nRefCount = Balance(n, e, l, B(Uses(c, n)), B(Uses(c, n)'))
  <2>1. B(Uses(c, n)') - B(Uses(c, n)) = B(~M)
    BY <1>8 DEF B
  <2>2. B(e.st = "open" /\ (e.fNetworkNode \/ e.fInbound)) - B(node[n].st = "open" /\ Owned(n)) = 0
    BY <1>6 DEF B, Owned
  <2>3. B(e.st = "open" /\ e.master) = B(node[n].st = "open" /\ M)
    BY <1>6 DEF B
  <2> DEFINE p == B(node[n].st = "open" /\ node[n].master)
             q == B(node[n].st # "open" /\ M)
             r == B(node[n].st = "open" /\ M)
  <2>4. p \in Int /\ q \in Int /\ r \in Int /\ q + r + B(~M) = 1 /\ B(~M) \in Int /\ node[n].nRefCount \in Int
    BY <1>3 DEF B, NodeRecords
  <2>5. l - lost[n] = p + q /\ e.nRefCount = node[n].nRefCount + 1
    BY <1>6, <1>7
  <2> HIDE DEF p, q, r
  <2>6. e.nRefCount = node[n].nRefCount + (l - lost[n]) + B(~M) + 0 + (r - p)
    BY <2>4, <2>5
  <2>7. QED
    BY <2>1, <2>2, <2>3, <2>6 DEF p, r, Balance
<1>10. /\ node' \in [Ids -> NodeRecords] /\ lost' \in [Ids -> Nat] /\ conn' \in [Threads -> Calls]
       /\ ThreadsInv' /\ NodesInv' /\ Syncing' = Syncing
       /\ node'[n] = e /\ \A m \in Ids \ {n} : node'[m] = node[m]
       /\ Cardinality(Slotted') = Cardinality(Slotted) - B(conn[c].grant) + B(x.grant)
  <2>1. e.grant => \/ e.st = "open" \/ l > 0 \/ Moved(c, n)'
                   \/ node[n].grant /\ ~Moved(c, n) /\ l >= lost[n]
    BY <1>6, <1>7, <1>8
  <2>2. sock.cur = n /\ Uses(c, n)' => x.late
    BY <1>4, <1>5
  <2>3. conn[c].id = n /\ node[n].st # "deleted" /\ UNCHANGED <<sock, msg>>
    BY <1>1, <1>2
  <2>4. CallInv(x) /\ x.id = n /\ conn' = [conn EXCEPT ![c] = x]
    BY <1>5
  <2>5. /\ node' = [node EXCEPT ![n] = e] /\ lost' = [lost EXCEPT ![n] = l]
        /\ e.st = node[n].st /\ e.fSyncStarted = node[n].fSyncStarted
    BY <1>6, <1>7
  <2>6. GoesOn(c, n, x, e, l)
    BY <1>9, <2>1, <2>2, <2>3, <2>4, <2>5 DEF GoesOn
  <2>7. QED
    BY <2>6, AtNode
<1>11. Cardinality(Slotted') = Cardinality(Slotted) /\ Granted' = Granted
  <2>1. Cardinality(Slotted) \in Nat /\ B(conn[c].grant) \in Int
    BY ThreadsFinite DEF Slotted, B
  <2>2. Cardinality(Slotted') = Cardinality(Slotted)
    BY <1>5, <1>10, <2>1
  <2>3. QED
    BY <1>6, <1>10, <2>2 DEF Granted
<1>12. QED
  BY <1>2, <1>10, <1>11 DEF IInv, Types, SlotsInv, SyncInv

(* What the rest of a call finds: a node whose count includes its own      *)
(* reference.                                                              *)
LEMMA GotFacts ==
  ASSUME IInv, NEW c \in Threads, NEW n \in Ids, Got(c, n)
  PROVE  /\ node \in [Ids -> NodeRecords] /\ lost \in [Ids -> Nat] /\ conn \in [Threads -> Calls]
         /\ node[n] \in NodeRecords /\ conn[c] \in Calls /\ lost[n] \in Nat
         /\ conn[c].id = n /\ conn[c].pc = "got" /\ node[n].st # "deleted" /\ CallInv(conn[c])
         /\ Uses(c, n) <=> conn[c].for # "mix"
         /\ Counted(n)
<1>1. /\ node \in [Ids -> NodeRecords] /\ lost \in [Ids -> Nat] /\ conn \in [Threads -> Calls]
      /\ node[n] \in NodeRecords /\ conn[c] \in Calls /\ lost[n] \in Nat
  BY DEF IInv, Types
<1>2. /\ conn[c].id = n /\ conn[c].pc = "got" /\ node[n].st # "deleted" /\ CallInv(conn[c])
      /\ Uses(c, n) <=> conn[c].for # "mix"
  BY DEF Got, Holds, Uses, Mixing, IInv, ThreadsInv
<1>3. Counted(n)
  BY <1>2 DEF IInv, NodesInv, NodeInv
<1>4. QED
  BY <1>1, <1>2, <1>3

(* The slot of OpenNetworkConnection moves to the node, whose own slot, if *)
(* it has one, is given back.                                              *)
LEMMA MoveToStep == ASSUME IInv, NEW c \in Threads, NEW n \in Ids, MoveTo(c, n) PROVE IInv'
<1>1. /\ Got(c, n) /\ conn[c].for = "open" /\ conn[c].grant
      /\ sem' = sem + MoveGrant(node[n])
      /\ node' = [node EXCEPT ![n].grant = TRUE] /\ conn' = [conn EXCEPT ![c].grant = FALSE]
      /\ UNCHANGED <<nSyncStarted, sock, msg, lost, mishaps>>
  BY DEF MoveTo
<1>2. /\ node \in [Ids -> NodeRecords] /\ lost \in [Ids -> Nat] /\ conn \in [Threads -> Calls]
      /\ node[n] \in NodeRecords /\ conn[c] \in Calls /\ lost[n] \in Nat
      /\ conn[c].id = n /\ conn[c].pc = "got" /\ node[n].st # "deleted" /\ CallInv(conn[c])
      /\ Uses(c, n) /\ Counted(n)
  BY <1>1, GotFacts
<1>3. PICK x \in Calls :
        /\ conn' = [conn EXCEPT ![c] = x] /\ x.pc = "got" /\ x.id = n /\ x.for = "open" /\ ~x.grant
        /\ x.late = conn[c].late /\ CallInv(x)
  <2> DEFINE x == [conn[c] EXCEPT !.grant = FALSE]
  <2>1. conn' = [conn EXCEPT ![c] = x]
    BY <1>1, <1>2
  <2>2. /\ x \in Calls /\ x.pc = "got" /\ x.id = n /\ x.for = "open" /\ ~x.grant /\ x.late = conn[c].late
    BY <1>1, <1>2 DEF Calls
  <2> HIDE DEF x
  <2>3. QED
    BY <2>1, <2>2 DEF CallInv
<1>4. PICK e \in NodeRecords :
        /\ node' = [node EXCEPT ![n] = e]
        /\ e.nRefCount = node[n].nRefCount /\ e.master = node[n].master /\ e.st = node[n].st
        /\ e.fInbound = node[n].fInbound /\ e.fNetworkNode = node[n].fNetworkNode
        /\ e.grant /\ e.fSyncStarted = node[n].fSyncStarted
  <2> DEFINE e == [node[n] EXCEPT !.grant = TRUE]
  <2>1. node' = [node EXCEPT ![n] = e]
    BY <1>1, <1>2
  <2>2. /\ e \in NodeRecords /\ e.nRefCount = node[n].nRefCount /\ e.master = node[n].master
        /\ e.st = node[n].st /\ e.fInbound = node[n].fInbound /\ e.fNetworkNode = node[n].fNetworkNode
        /\ e.grant /\ e.fSyncStarted = node[n].fSyncStarted
    BY <1>2 DEF NodeRecords
  <2> HIDE DEF e
  <2>3. QED
    BY <2>1, <2>2
<1>5. Uses(c, n)' /\ Moved(c, n)'
  <2>1. conn'[c] = x
    BY <1>2, <1>3
  <2>2. QED
    BY <1>3, <2>1 DEF Uses, Holds, Mixing, Moved
<1>6. PICK l \in Nat : l = lost[n] /\ lost' = [lost EXCEPT ![n] = l]
  BY <1>1, <1>2
<1>7. e.nRefCount = Balance(n, e, l, B(Uses(c, n)), B(Uses(c, n)'))
  <2>1. l - lost[n] = 0 /\ B(Uses(c, n)') - B(Uses(c, n)) = 0 /\ node[n].nRefCount \in Int
    BY <1>2, <1>5, <1>6 DEF B, NodeRecords
  <2>2. /\ B(e.st = "open" /\ (e.fNetworkNode \/ e.fInbound)) - B(node[n].st = "open" /\ Owned(n)) = 0
        /\ B(e.st = "open" /\ e.master) - B(node[n].st = "open" /\ node[n].master) = 0
    BY <1>4 DEF B, Owned
  <2>3. QED
    BY <1>4, <2>1, <2>2 DEF Balance
<1>8. sock.cur = n => x.late
  BY <1>2, <1>3 DEF Counted, AllLate
<1>9. /\ node' \in [Ids -> NodeRecords] /\ lost' \in [Ids -> Nat] /\ conn' \in [Threads -> Calls]
      /\ ThreadsInv' /\ NodesInv' /\ Syncing' = Syncing
      /\ node'[n] = e /\ \A m \in Ids \ {n} : node'[m] = node[m]
      /\ Cardinality(Slotted') = Cardinality(Slotted) - B(conn[c].grant) + B(x.grant)
  <2>1. e.grant => \/ e.st = "open" \/ l > 0 \/ Moved(c, n)'
                   \/ node[n].grant /\ ~Moved(c, n) /\ l >= lost[n]
    BY <1>5
  <2>2. conn[c].id = n /\ node[n].st # "deleted" /\ UNCHANGED <<sock, msg>>
    BY <1>1, <1>2
  <2>3. CallInv(x) /\ x.id = n /\ conn' = [conn EXCEPT ![c] = x]
    BY <1>3
  <2>4. /\ node' = [node EXCEPT ![n] = e] /\ lost' = [lost EXCEPT ![n] = l]
        /\ e.st = node[n].st /\ e.fSyncStarted = node[n].fSyncStarted
    BY <1>4, <1>6
  <2>5. GoesOn(c, n, x, e, l)
    BY <1>7, <1>8, <2>1, <2>2, <2>3, <2>4 DEF GoesOn
  <2>6. QED
    BY <2>5, AtNode
<1>10. sem' \in Nat /\ SlotsInv'
  <2>1. /\ sem \in Nat /\ Granted \in SUBSET Ids /\ Cardinality(Granted) \in Nat
        /\ Cardinality(Slotted) \in Nat /\ B(conn[c].grant) = 1 /\ B(x.grant) = 0
    BY <1>1, <1>3, PlacesFinite, ThreadsFinite DEF IInv, Types, Granted, Slotted, B
  <2>2. Cardinality(Slotted') = Cardinality(Slotted) - 1
    BY <1>9, <2>1
  <2>3. CASE node[n].grant
    <3>1. Granted' = Granted /\ sem' = sem + 1
      BY <1>1, <1>4, <1>9, <2>3 DEF Granted, MoveGrant, B
    <3>2. QED
      BY <2>1, <2>2, <3>1 DEF IInv, SlotsInv
  <2>4. CASE ~node[n].grant
    <3>1. n \notin Granted /\ Granted' = Granted \cup {n} /\ sem' = sem
      BY <1>1, <1>4, <1>9, <2>1, <2>4 DEF Granted, MoveGrant, B
    <3>2. Cardinality(Granted \cup {n}) = Cardinality(Granted) + 1
      BY <2>1, <3>1, CountFacts
    <3>3. QED
      BY <2>1, <2>2, <3>1, <3>2 DEF IInv, SlotsInv
  <2>5. QED
    BY <2>3, <2>4
<1>11. QED
  BY <1>1, <1>9, <1>10 DEF IInv, Types, SyncInv

(* A call that has no slot, or no longer, ends with node n as e and l      *)
(* references to it lost.                                                  *)
Ends(c, n, e, l) ==
  /\ Got(c, n) /\ ~conn[c].grant /\ conn' = [conn EXCEPT ![c] = NoCall]
  /\ node' = [node EXCEPT ![n] = e] /\ lost' = [lost EXCEPT ![n] = l]
  /\ UNCHANGED <<sem, nSyncStarted, sock, msg, mishaps>>
  /\ e.st = node[n].st /\ e.fSyncStarted = node[n].fSyncStarted /\ e.grant = node[n].grant /\ l >= lost[n]
  /\ e.nRefCount = Balance(n, e, l, B(Uses(c, n)), 0)
  /\ Moved(c, n) => node[n].st = "open" \/ l > 0

(* That keeps it as well.                                                  *)
LEMMA CallEnds ==
  ASSUME IInv, NEW c \in Threads, NEW n \in Ids, NEW e \in NodeRecords, NEW l \in Nat, Ends(c, n, e, l)
  PROVE  IInv'
<1>1. conn[c].id = n /\ conn[c].pc = "got" /\ node[n].st # "deleted" /\ conn \in [Threads -> Calls]
  BY GotFacts DEF Ends
<1>2. PICK x \in Calls : x = NoCall /\ CallInv(x) /\ x.pc = "idle" /\ ~x.grant
  BY NoCallFacts
<1>3. ~Uses(c, n)' /\ B(Uses(c, n)') = 0
  <2>1. conn'[c] = x
    BY <1>1, <1>2 DEF Ends
  <2>2. QED
    BY <1>2, <2>1 DEF Uses, Holds, B
<1>4. /\ node' \in [Ids -> NodeRecords] /\ lost' \in [Ids -> Nat] /\ conn' \in [Threads -> Calls]
      /\ ThreadsInv' /\ NodesInv' /\ Syncing' = Syncing
      /\ node'[n] = e /\ \A m \in Ids \ {n} : node'[m] = node[m]
  <2>1. e.grant => \/ e.st = "open" \/ l > 0 \/ Moved(c, n)'
                   \/ node[n].grant /\ ~Moved(c, n) /\ l >= lost[n]
    BY DEF Ends
  <2>2. sock.cur = n /\ Uses(c, n)' => x.late
    BY <1>3
  <2>3. e.nRefCount = Balance(n, e, l, B(Uses(c, n)), B(Uses(c, n)'))
    BY <1>3 DEF Ends
  <2>4. /\ conn' = [conn EXCEPT ![c] = x] /\ CallInv(x) /\ (x.id = n \/ x.pc = "idle")
        /\ UNCHANGED <<sock, msg>> /\ conn[c].id = n /\ node[n].st # "deleted"
    BY <1>1, <1>2 DEF Ends
  <2>5. /\ node' = [node EXCEPT ![n] = e] /\ lost' = [lost EXCEPT ![n] = l]
        /\ e.st = node[n].st /\ e.fSyncStarted = node[n].fSyncStarted
    BY DEF Ends
  <2>6. GoesOn(c, n, x, e, l)
    BY <2>1, <2>2, <2>3, <2>4, <2>5 DEF GoesOn
  <2>7. QED
    BY <2>6, AtNode
<1>5. Cardinality(Slotted') = Cardinality(Slotted) /\ Granted' = Granted
  <2>1. Cardinality(Slotted) \in Nat /\ B(conn[c].grant) = 0 /\ B(x.grant) = 0
    BY <1>2, ThreadsFinite DEF Slotted, B, Ends
  <2>2. Cardinality(Slotted') = Cardinality(Slotted) - B(conn[c].grant) + B(x.grant)
    BY <1>1, <1>2, OneCall DEF Ends
  <2>3. Cardinality(Slotted') = Cardinality(Slotted)
    BY <2>1, <2>2
  <2>4. QED
    BY <1>4, <2>3 DEF Granted, Ends
<1>6. QED
  BY <1>4, <1>5 DEF IInv, Types, SlotsInv, SyncInv, Ends

(* The node is a network node: the reference becomes that of the           *)
(* connection, or is lost.                                                 *)
LEMMA NetworkNodeStep == ASSUME IInv, NEW c \in Threads, NEW n \in Ids, NetworkNode(c, n) PROVE IInv'
<1>1. /\ Got(c, n) /\ conn[c].for = "open" /\ ~conn[c].grant
      /\ node' = [node EXCEPT ![n].fNetworkNode = TRUE]
      /\ lost' = [lost EXCEPT ![n] = @ + B(node[n].st # "open" \/ Owned(n))]
      /\ conn' = [conn EXCEPT ![c] = NoCall]
      /\ UNCHANGED <<sem, nSyncStarted, sock, msg, mishaps>>
  BY DEF NetworkNode, counters
<1>2. /\ node \in [Ids -> NodeRecords] /\ lost \in [Ids -> Nat]
      /\ node[n] \in NodeRecords /\ lost[n] \in Nat /\ Uses(c, n)
  BY <1>1, GotFacts
<1>3. PICK e \in NodeRecords :
        /\ node' = [node EXCEPT ![n] = e]
        /\ e.nRefCount = node[n].nRefCount /\ e.master = node[n].master /\ e.st = node[n].st
        /\ e.fNetworkNode /\ e.grant = node[n].grant /\ e.fSyncStarted = node[n].fSyncStarted
  <2> DEFINE e == [node[n] EXCEPT !.fNetworkNode = TRUE]
  <2>1. node' = [node EXCEPT ![n] = e]
    BY <1>1, <1>2
  <2>2. /\ e \in NodeRecords /\ e.nRefCount = node[n].nRefCount /\ e.master = node[n].master
        /\ e.st = node[n].st /\ e.fNetworkNode
        /\ e.grant = node[n].grant /\ e.fSyncStarted = node[n].fSyncStarted
    BY <1>2 DEF NodeRecords
  <2> HIDE DEF e
  <2>3. QED
    BY <2>1, <2>2
<1>4. PICK k \in {0, 1} : k = B(node[n].st # "open" \/ Owned(n))
  BY DEF B
<1>5. PICK l \in Nat : l = lost[n] + k /\ lost' = [lost EXCEPT ![n] = l] /\ l >= lost[n]
  <2>1. lost' = [lost EXCEPT ![n] = lost[n] + k]
    BY <1>1, <1>2, <1>4
  <2>2. lost[n] + k \in Nat /\ lost[n] + k >= lost[n]
    BY <1>2
  <2>3. QED
    BY <2>1, <2>2
<1>6. node[n].st = "open" \/ l > 0
  BY <1>2, <1>4, <1>5 DEF B
<1>7. e.nRefCount = Balance(n, e, l, B(Uses(c, n)), 0)
  <2>1. l - lost[n] = k /\ B(Uses(c, n)) = 1 /\ node[n].nRefCount \in Int
    BY <1>2, <1>5 DEF B, NodeRecords
  <2>2. B(e.st = "open" /\ (e.fNetworkNode \/ e.fInbound)) - B(node[n].st = "open" /\ Owned(n)) = 1 - k
    BY <1>3, <1>4 DEF B
  <2>3. B(e.st = "open" /\ e.master) - B(node[n].st = "open" /\ node[n].master) = 0
    BY <1>3 DEF B
  <2>4. QED
    BY <1>3, <2>1, <2>2, <2>3 DEF Balance
<1>8. QED
  BY <1>1, <1>3, <1>5, <1>6, <1>7, CallEnds DEF Ends

(* A mixing thread leaves its reference to the flag.                       *)
LEMMA MixingKeepsStep == ASSUME IInv, NEW c \in Threads, NEW n \in Ids, MixingKeeps(c, n) PROVE IInv'
<1>1. /\ Got(c, n) /\ conn[c].for = "mix" /\ conn' = [conn EXCEPT ![c] = NoCall]
      /\ UNCHANGED <<node, sem, nSyncStarted, sock, msg, lost, mishaps>>
  BY DEF MixingKeeps, Mixing, counters
<1>2. /\ node \in [Ids -> NodeRecords] /\ lost \in [Ids -> Nat]
      /\ node[n] \in NodeRecords /\ lost[n] \in Nat /\ ~Uses(c, n) /\ ~conn[c].grant
  BY <1>1, GotFacts DEF CallInv
<1>3. PICK e \in NodeRecords, l \in Nat :
        e = node[n] /\ l = lost[n] /\ node' = [node EXCEPT ![n] = e] /\ lost' = [lost EXCEPT ![n] = l]
  BY <1>1, <1>2
<1>4. e.nRefCount = Balance(n, e, l, B(Uses(c, n)), 0)
  <2>1. l - lost[n] = 0 /\ B(Uses(c, n)) = 0 /\ node[n].nRefCount \in Int
    BY <1>2, <1>3 DEF B, NodeRecords
  <2>2. /\ B(e.st = "open" /\ (e.fNetworkNode \/ e.fInbound)) - B(node[n].st = "open" /\ Owned(n)) = 0
        /\ B(e.st = "open" /\ e.master) - B(node[n].st = "open" /\ node[n].master) = 0
    BY <1>3 DEF B, Owned
  <2>3. QED
    BY <1>3, <2>1, <2>2 DEF Balance
<1>5. ~Moved(c, n)
  BY <1>2 DEF Moved
<1>6. l >= lost[n]
  BY <1>3
<1>7. QED
  BY <1>1, <1>2, <1>3, <1>4, <1>5, <1>6, CallEnds DEF Ends

(* A node without one of its references.                                   *)
LEMMA ReferenceDropped ==
  ASSUME NEW d \in NodeRecords, NEW m \in BOOLEAN
  PROVE  LET e == [d EXCEPT !.master = m, !.nRefCount = d.nRefCount - 1]
         IN  /\ e \in NodeRecords /\ e.nRefCount = d.nRefCount - 1 /\ e.master = m /\ e.st = d.st
             /\ e.fInbound = d.fInbound /\ e.fNetworkNode = d.fNetworkNode
             /\ e.grant = d.grant /\ e.fSyncStarted = d.fSyncStarted
<1>1. d.nRefCount - 1 \in Int
  BY DEF NodeRecords
<1>2. QED
  BY <1>1 DEF NodeRecords

(* The other masternode threads release theirs.                            *)
LEMMA ReleaseStep == ASSUME IInv, NEW c \in Threads, NEW n \in Ids, Release(c, n) PROVE IInv'
<1>1. /\ Got(c, n) /\ conn[c].for = "check" /\ node' = [node EXCEPT ![n].nRefCount = @ - 1]
      /\ conn' = [conn EXCEPT ![c] = NoCall]
      /\ UNCHANGED <<sem, nSyncStarted, sock, msg, lost, mishaps>>
  BY DEF Release, counters
<1>2. /\ node \in [Ids -> NodeRecords] /\ lost \in [Ids -> Nat]
      /\ node[n] \in NodeRecords /\ lost[n] \in Nat /\ Uses(c, n) /\ ~conn[c].grant
  BY <1>1, GotFacts DEF CallInv
<1>3. PICK e \in NodeRecords :
        /\ node' = [node EXCEPT ![n] = e]
        /\ e.nRefCount = node[n].nRefCount - 1 /\ e.master = node[n].master /\ e.st = node[n].st
        /\ e.fInbound = node[n].fInbound /\ e.fNetworkNode = node[n].fNetworkNode
        /\ e.grant = node[n].grant /\ e.fSyncStarted = node[n].fSyncStarted
  <2> DEFINE e == [node[n] EXCEPT !.nRefCount = node[n].nRefCount - 1]
  <2>1. node' = [node EXCEPT ![n] = e] /\ node[n].nRefCount - 1 \in Int
    BY <1>1, <1>2 DEF NodeRecords
  <2>2. /\ e \in NodeRecords /\ e.nRefCount = node[n].nRefCount - 1 /\ e.master = node[n].master
        /\ e.st = node[n].st /\ e.fInbound = node[n].fInbound /\ e.fNetworkNode = node[n].fNetworkNode
        /\ e.grant = node[n].grant /\ e.fSyncStarted = node[n].fSyncStarted
    BY <1>2, <2>1 DEF NodeRecords
  <2> HIDE DEF e
  <2>3. QED
    BY <2>1, <2>2
<1>4. PICK l \in Nat : l = lost[n] /\ lost' = [lost EXCEPT ![n] = l] /\ l >= lost[n]
  BY <1>1, <1>2
<1>5. e.nRefCount = Balance(n, e, l, B(Uses(c, n)), 0)
  <2>1. l - lost[n] = 0 /\ B(Uses(c, n)) = 1 /\ node[n].nRefCount \in Int
    BY <1>2, <1>4 DEF B, NodeRecords
  <2>2. /\ B(e.st = "open" /\ (e.fNetworkNode \/ e.fInbound)) - B(node[n].st = "open" /\ Owned(n)) = 0
        /\ B(e.st = "open" /\ e.master) - B(node[n].st = "open" /\ node[n].master) = 0
    BY <1>3 DEF B, Owned
  <2>3. QED
    BY <1>3, <2>1, <2>2 DEF Balance
<1>6. ~Moved(c, n)
  BY <1>1 DEF Moved
<1>7. QED
  BY <1>1, <1>2, <1>3, <1>4, <1>5, <1>6, CallEnds DEF Ends

(* A new connection.                                                       *)
LEMMA DialStep == ASSUME IInv, NEW c \in Threads, Dial(c) PROVE IInv'
<1>1. PICK failed \in BOOLEAN :
        LET d == [Node(conn[c].addr, FALSE) EXCEPT !.master = Mixing(c)]
        IN  node' = [node EXCEPT ![First(Free)] = IF failed THEN Close(d, FALSE) ELSE d]
  BY DEF Dial
<1>2. /\ conn[c].pc = "dial" /\ Free # {}
      /\ conn' = [conn EXCEPT ![c].pc = "got", ![c].id = First(Free)]
      /\ UNCHANGED <<sem, nSyncStarted, sock, msg, lost, mishaps>>
  BY DEF Dial, counters
<1>3. /\ conn \in [Threads -> Calls] /\ conn[c] \in Calls /\ CallInv(conn[c])
      /\ conn[c].addr \in Addrs \cup {"none"}
  BY DEF IInv, Types, Calls, ThreadsInv
<1>4. PICK M \in BOOLEAN : M = Mixing(c)
  BY DEF Mixing
<1>5. PICK e \in NodeRecords :
        /\ node' = [node EXCEPT ![First(Free)] = e]
        /\ e.st = "open" /\ e.nRefCount = 1 /\ ~e.fInbound /\ ~e.fNetworkNode
        /\ e.master = M /\ ~e.grant /\ ~e.fSyncStarted
  <2> DEFINE b == Node(conn[c].addr, FALSE)
             d == [b EXCEPT !.master = M]
  <2>1. /\ b \in NodeRecords /\ b.st = "open" /\ b.nRefCount = 1 /\ ~b.fInbound /\ ~b.fNetworkNode
        /\ ~b.grant /\ ~b.fSyncStarted
    BY <1>3, RecordFacts, NewFacts
  <2>2. node' = [node EXCEPT ![First(Free)] = IF failed THEN Close(d, FALSE) ELSE d]
    BY <1>1, <1>4
  <2> HIDE DEF b
  <2>3. /\ d \in NodeRecords /\ d.st = "open" /\ d.nRefCount = 1 /\ ~d.fInbound /\ ~d.fNetworkNode
        /\ d.master = M /\ ~d.grant /\ ~d.fSyncStarted
    BY <2>1 DEF NodeRecords
  <2> HIDE DEF d
  <2>4. Close(d, FALSE) \in NodeRecords /\ Kept(d, Close(d, FALSE)) /\ Close(d, FALSE).fSyncStarted = d.fSyncStarted
    BY <2>3, CloseFacts
  <2>5. QED
    BY <2>2, <2>3, <2>4 DEF Kept
<1>6. PICK k \in Ids :
        /\ k = First(Free) /\ Unused(k) /\ \A d \in Threads : conn[d].id # k
        /\ node'[k] = e /\ \A n \in Ids \ {k} : node'[n] = node[n]
        /\ node' \in [Ids -> NodeRecords]
        /\ Granted' = Granted /\ Syncing' = Syncing
  BY <1>2, <1>5, NewNodeFacts
<1>7. PICK x \in Calls :
        /\ conn' = [conn EXCEPT ![c] = x]
        /\ x.pc = "got" /\ x.id = k /\ x.for = conn[c].for /\ x.grant = conn[c].grant /\ CallInv(x)
  <2> DEFINE x == [conn[c] EXCEPT !.pc = "got", !.id = k]
  <2>1. conn' = [conn EXCEPT ![c] = x]
    BY <1>2, <1>3, <1>6
  <2>2. k \in 0..MaxNodes
    BY NetAssumption DEF Ids
  <2>3. x \in Calls /\ x.pc = "got" /\ x.id = k /\ x.for = conn[c].for /\ x.grant = conn[c].grant
    BY <1>3, <2>2 DEF Calls
  <2> HIDE DEF x
  <2>4. QED
    BY <1>3, <2>1, <2>3 DEF CallInv
<1>8. /\ conn' \in [Threads -> Calls] /\ conn'[c] = x
      /\ Cardinality(Users(k)') = Cardinality(Users(k)) - B(Uses(c, k)) + B(Uses(c, k)')
      /\ Cardinality(Slotted') = Cardinality(Slotted) - B(conn[c].grant) + B(x.grant)
      /\ \A m \in Ids : ~Uses(c, m) /\ ~Uses(c, m)' => CallsKept(m)
  BY <1>3, <1>7, OneCall
<1>9. Uses(c, k)' <=> ~M
  BY <1>4, <1>7, <1>8 DEF Uses, Holds, Mixing
<1>10. Cardinality(Users(k)') = B(~M)
  <2>1. Cardinality(Users(k)) = 0 /\ B(Uses(c, k)) = 0 /\ B(Uses(c, k)') = B(~M) /\ B(~M) \in Int
    BY <1>6, <1>9, NobodyUses DEF B
  <2>2. QED
    BY <1>8, <2>1
<1>11. ThreadsInv'
  <2>1. node[k].st = "deleted"
    BY <1>6, NewFacts DEF Unused
  <2>2. \A n \in Ids : node[n].st = "disconnected" => node'[n].st = "disconnected"
    BY <1>6, <2>1
  <2>3. QED
    BY <1>2, <1>7, <2>2, OtherThreads
<1>12. NodeInv(k)'
  <2>1. lost'[k] = 0 /\ Copies(k)' = 0 /\ sock'.cur # k
    BY <1>2, <1>6 DEF Unused, AllLate, Copies, B
  <2>2. B(node[k].st = "open" /\ Owned(k))' = 0 /\ B(node[k].st = "open" /\ node[k].master)' = B(M)
    BY <1>5, <1>6 DEF Owned, B
  <2>3. OtherReferences(k)' = 0 + B(~M) + 0 + B(M)
    BY <1>10, <2>1, <2>2 DEF OtherReferences
  <2>4. References(k)' = 1
    BY <2>1, <2>3 DEF References, B
  <2>5. QED
    BY <1>5, <1>6, <2>1, <2>4 DEF NodeInv, Counted
<1>13. ASSUME NEW m \in Ids \ {k} PROVE NodeInv(m)'
  <2>1. ~Uses(c, m) /\ ~Uses(c, m)'
    BY <1>2, <1>7, <1>8 DEF Uses, Holds
  <2>2. CallsKept(m)
    BY <1>8, <2>1
  <2>3. QED
    BY <1>2, <1>6, <2>2, Frame DEF IInv, NodesInv
<1>14. NodesInv'
  BY <1>12, <1>13 DEF NodesInv
<1>15. Cardinality(Slotted') = Cardinality(Slotted)
  <2>1. Cardinality(Slotted) \in Nat /\ B(conn[c].grant) \in Int
    BY ThreadsFinite DEF Slotted, B
  <2>2. QED
    BY <1>7, <1>8, <2>1
<1>16. QED
  BY <1>2, <1>6, <1>8, <1>11, <1>14, <1>15 DEF IInv, Types, SlotsInv, SyncInv

(* The mixing connections that are done give up their references.          *)
LEMMA MixingDoneStep == ASSUME IInv, ProcessMasternodeConnections PROVE IInv'
<1>1. PICK done \in SUBSET {n \in vNodes : node[n].master} :
        node' = [n \in Ids |-> IF n \in done THEN [node[n] EXCEPT !.master = FALSE, !.nRefCount = @ - 1]
                               ELSE node[n]]
  BY DEF ProcessMasternodeConnections
<1>2. UNCHANGED <<sem, nSyncStarted, sock, msg, conn, lost, mishaps>>
  BY DEF ProcessMasternodeConnections, counters
<1>3. \A n \in done : n \in Ids /\ node[n].st = "open" /\ node[n].master
  BY DEF vNodes
<1>4. \A n \in Ids : node[n] \in NodeRecords /\ lost[n] \in Nat
  BY DEF IInv, Types
<1>5. /\ \A n \in done : LET e == node'[n]
                         IN  /\ e \in NodeRecords /\ e.nRefCount = node[n].nRefCount - 1 /\ ~e.master
                             /\ e.st = node[n].st /\ e.fInbound = node[n].fInbound
                             /\ e.fNetworkNode = node[n].fNetworkNode
                             /\ e.grant = node[n].grant /\ e.fSyncStarted = node[n].fSyncStarted
      /\ \A n \in Ids \ done : node'[n] = node[n]
  BY <1>1, <1>3, <1>4, ReferenceDropped, Zenon
<1>6. node' \in [Ids -> NodeRecords]
  BY <1>1, <1>3, <1>4, <1>5
<1>7. ASSUME NEW n \in done PROVE NodeInv(n)'
  <2>1. Counted(n) /\ n \in Ids /\ node[n].st = "open"
    BY <1>3 DEF IInv, NodesInv, NodeInv
  <2>2. CallsKept(n) /\ Users(n)' = Users(n) /\ Cardinality(Users(n)) \in Nat
    BY <1>2, <2>1, SameCalls, ThreadsFinite DEF Users
  <2>3. OtherReferences(n)' = OtherReferences(n) - 1 /\ OtherReferences(n) \in Int
    BY <1>2, <1>3, <1>4, <1>5, <2>2 DEF OtherReferences, Owned, B
  <2>4. Copies(n)' = Copies(n) /\ Copies(n) \in Int
    BY <1>2 DEF Copies, B
  <2>5. node'[n].nRefCount = References(n)'
    BY <1>5, <2>1, <2>3, <2>4 DEF Counted, References
  <2>6. node'[n].st = "open" /\ sock'.cur # n
    BY <1>2, <1>5, <2>1 DEF Counted
  <2>7. QED
    BY <2>5, <2>6 DEF NodeInv, Counted
<1>8. ASSUME NEW n \in Ids \ done PROVE NodeInv(n)'
  BY <1>2, <1>5, SameCalls, Frame DEF IInv, NodesInv
<1>9. NodesInv'
  BY <1>7, <1>8 DEF NodesInv
<1>10. Granted' = Granted /\ Syncing' = Syncing /\ \A n \in Ids : node'[n].st = node[n].st
  BY <1>3, <1>5 DEF Granted, Syncing
<1>11. ThreadsInv'
  BY <1>2, <1>10, SameThreads
<1>12. QED
  BY <1>2, <1>6, <1>9, <1>10, <1>11, SameCalls DEF IInv, Types, SlotsInv, SyncInv

-----------------------------------------------------------------------------
(* It holds in every state.                                                *)
LEMMA InitIInv == Init => IInv
<1> SUFFICES ASSUME Init PROVE IInv
  OBVIOUS
<1>1. /\ node = [n \in Ids |-> Deleted] /\ sem = MaxOutbound /\ nSyncStarted = 0
      /\ sock = [pc |-> "disconnect", copy |-> {}, todo |-> {}, cur |-> 0]
      /\ msg = [pc |-> "take", copy |-> {}, todo |-> {}, cur |-> 0]
      /\ conn = [c \in Threads |-> NoCall]
      /\ lost = [n \in Ids |-> 0] /\ mishaps = {}
  BY DEF Init
<1>2. Types
  <2>1. node \in [Ids -> NodeRecords] /\ conn \in [Threads -> Calls] /\ lost \in [Ids -> Nat]
    BY <1>1, RecordFacts
  <2>2. msg \in MsgStates /\ sock \in SockStates
    BY <1>1, NetAssumption DEF MsgStates, SockStates
  <2>3. QED
    BY <1>1, <2>1, <2>2, NetAssumption DEF Types
<1>3. ThreadsInv
  BY <1>1, NoCallFacts DEF ThreadsInv, SockInv, MsgInv
<1>4. NodesInv
  <2>1. \A c \in Threads, n \in Ids : ~Uses(c, n)
    BY <1>1, NoCallFacts DEF Uses, Holds
  <2>2. \A n \in Ids : sock.cur # n
    BY <1>1, NetAssumption DEF Ids
  <2>3. QED
    BY <1>1, <2>1, <2>2, NewFacts DEF NodesInv, NodeInv, Unused, AllLate
<1>5. Granted = {} /\ Syncing = {} /\ Slotted = {}
  BY <1>1, NewFacts, NoCallFacts DEF Granted, Syncing, Slotted
<1>6. SlotsInv /\ SyncInv
  BY <1>1, <1>5, FS_EmptySet, NetAssumption DEF SlotsInv, SyncInv
<1>7. QED
  BY <1>2, <1>3, <1>4, <1>6 DEF IInv

(* Steps that leave the nodes and the threads where they are.              *)
LEMMA MishapStep ==
  ASSUME IInv, UNCHANGED <<node, counters, sock, msg, conn, lost>>, mishaps' \subseteq {"raced", "freed"}
  PROVE  IInv'
<1>1. NodesInv' /\ Granted' = Granted /\ Slotted' = Slotted /\ Syncing' = Syncing
  BY QuietStep DEF Syncing
<1>2. ThreadsInv'
  BY SameThreads
<1>3. QED
  BY <1>1, <1>2 DEF IInv, Types, SlotsInv, SyncInv, counters

(* Every step of a thread that calls ConnectNode keeps it ...              *)
LEMMA CallerSteps == ASSUME IInv, NEW c \in Threads, Proceed(c) \/ Dial(c) \/ Mishap(c) \/ Start(c) PROVE IInv'
<1>1. CASE Proceed(c)
  BY <1>1, FindStep, FoundStep, DialFailsStep, MoveToStep, NetworkNodeStep, MixingKeepsStep, ReleaseStep
     DEF Proceed
<1>2. CASE Dial(c)
  BY <1>2, DialStep
<1>3. CASE Mishap(c)
  BY <1>3, MishapStep DEF Mishap, FoundUnguarded, UseFreed, MoveUnguarded, ReleaseUnguarded
<1>4. CASE Start(c)
  <2>1. PICK a \in Addrs : \/ \E named \in BOOLEAN, grant \in BOOLEAN : Open(c, a, named, grant)
                           \/ \E f \in Does[c] \ {"open"} : Masternode(c, a, f)
    BY <1>4 DEF Start
  <2>2. Does[c] \ {"open"} \subseteq {"check", "mix"}
    BY NetAssumption
  <2>3. QED
    BY <2>1, <2>2, OpenStep, MasternodeStep
<1>5. QED
  BY <1>1, <1>2, <1>3, <1>4

(* ... and so does every other.                                            *)
LEMMA NextIInv == IInv /\ [Next]_vars => IInv'
<1> SUFFICES ASSUME IInv, [Next]_vars PROVE IInv'
  OBVIOUS
<1>1. CASE SocketStep
  BY <1>1, DisconnectStep, TestStep, DeleteStep, DeleteDoneStep, AcceptStep, SocketCopyStep, SocketFailsStep
     DEF SocketStep
<1>2. CASE MessageStep
  BY <1>2, MessageCopyStep, VisitStep, ProcessStep, SendStep DEF MessageStep
<1>3. CASE CallerStep
  BY <1>3, MixingDoneStep, CallerSteps DEF CallerStep
<1>4. CASE UNCHANGED vars
  BY <1>4, MishapStep DEF vars, IInv, Types
<1>5. QED
  BY <1>1, <1>2, <1>3, <1>4 DEF Next, Undefined

(* In every reachable state every reference to a node is accounted for,    *)
(* with the holders that a count stands for, and so is every slot.         *)
THEOREM InvariantHolds == Spec => []IInv
BY InitIInv, NextIInv, PTL DEF Spec

(* For any number of nodes and of threads that call ConnectNode: as long   *)
(* as no two updates of nRefCount meet, it is the number of its holders,   *)
(* and a node that is deleted while a handler walks over it or a call uses *)
(* it has got that reference after the test of nRefCount.                  *)
THEOREM ReferencesTheorem == Spec => []ReferencesExact
<1>1. IInv => ReferencesExact
  <2> SUFFICES ASSUME IInv PROVE ReferencesExact
    OBVIOUS
  <2>1. Granted \in SUBSET Ids /\ Syncing \in SUBSET Ids /\ Slotted \in SUBSET Threads
    BY DEF Granted, Syncing, Slotted
  <2>2. Cardinality(Granted) \in Nat /\ Cardinality(Syncing) \in 0..MaxNodes /\ Cardinality(Slotted) \in Nat
    BY <2>1, PlacesFinite, ThreadsFinite
  <2>3. sem \in 0..MaxOutbound /\ nSyncStarted \in 0..MaxNodes
    BY <2>2, NetAssumption DEF IInv, Types, SlotsInv, SyncInv
  <2>4. TypeOK
    BY <2>3, CopyAlive DEF IInv, Types, ThreadsInv, MsgInv, TypeOK
  <2>5. \A n \in Ids : n \in Alive <=> node[n].st # "deleted"
    BY DEF IInv, Types, NodeRecords, Alive, vNodes, Disconnected
  <2>6. HeldNotDeleted
    BY <2>5 DEF IInv, NodesInv, NodeInv, Unused, AllLate, HeldNotDeleted
  <2>7. ASSUME NEW n \in Alive
        PROVE  node[n].nRefCount = B(n \in sock.copy) + B(n \in msg.copy) + lost[n]
                  + Cardinality({c \in Threads : Uses(c, n)})
                  + B(n \in vNodes /\ Owned(n))
                  + B(n \in vNodes /\ node[n].master)
    <3>1. n \in Ids /\ Counted(n) /\ lost[n] \in Nat
      BY <2>5 DEF Alive, vNodes, Disconnected, IInv, Types, NodesInv, NodeInv
    <3>2. (n \in vNodes /\ Owned(n) <=> node[n].st = "open" /\ Owned(n))
          /\ (n \in vNodes /\ node[n].master <=> node[n].st = "open" /\ node[n].master)
      BY <3>1 DEF vNodes
    <3>3. /\ B(n \in vNodes /\ Owned(n)) = B(node[n].st = "open" /\ Owned(n))
          /\ B(n \in vNodes /\ node[n].master) = B(node[n].st = "open" /\ node[n].master)
      BY <3>2 DEF B
    <3> DEFINE s == B(n \in sock.copy)
               m == B(n \in msg.copy)
               u == Cardinality(Users(n))
               w == B(node[n].st = "open" /\ Owned(n))
               x == B(node[n].st = "open" /\ node[n].master)
    <3>4. s \in Int /\ m \in Int /\ w \in Int /\ x \in Int
      BY DEF B
    <3>5. u \in Int
      BY ThreadsFinite DEF Users
    <3>6. node[n].nRefCount = (s + m) + (lost[n] + u + w + x)
      BY <3>1 DEF Counted, References, Copies, OtherReferences
    <3>7. /\ Cardinality({c \in Threads : Uses(c, n)}) = u
          /\ B(n \in vNodes /\ Owned(n)) = w /\ B(n \in vNodes /\ node[n].master) = x
      BY <3>3 DEF Users
    <3>8. B(n \in sock.copy) = s /\ B(n \in msg.copy) = m
      OBVIOUS
    <3> HIDE DEF s, m, u, w, x
    <3>9. (s + m) + (lost[n] + u + w + x) = s + m + lost[n] + u + w + x
      BY <3>1, <3>4, <3>5
    <3>10. QED
      BY <3>6, <3>7, <3>8, <3>9
  <2>8. QED
    BY <2>4, <2>6, <2>7 DEF ReferencesExact, RefCountExact
<1>2. QED
  BY <1>1, InvariantHolds, PTL

(* As long as no two moves of a slot meet, none is made or destroyed, and  *)
(* one in use belongs to a call, to a connection, to a node that a call    *)
(* still has in hand, or to one that a lost reference keeps; nSyncStarted  *)
(* is the number of the peers we synchronise from.                         *)
THEOREM ResourcesTheorem == Spec => []ResourcesAccounted
<1>1. IInv => ResourcesAccounted
  <2> SUFFICES ASSUME IInv PROVE ResourcesAccounted
    OBVIOUS
  <2>1. \A n \in Ids : n \in Alive <=> node[n].st # "deleted"
    BY DEF IInv, Types, NodeRecords, Alive, vNodes, Disconnected
  <2>2. {n \in Alive : node[n].fSyncStarted} = Syncing
    <3>1. \A n \in Syncing : n \in Alive
      BY <2>1, NewFacts DEF Syncing, IInv, NodesInv, NodeInv, Unused
    <3>2. QED
      BY <3>1 DEF Syncing, Alive, vNodes, Disconnected
  <2>3. CountersExact
    BY <2>2 DEF CountersExact, IInv, SyncInv
  <2>4. \A n \in Ids : node[n].grant => n \in vNodes \/ lost[n] > 0 \/ \E c \in Threads : Uses(c, n)
    BY NewFacts DEF vNodes, IInv, NodesInv, NodeInv, Unused, Counted, Moved
  <2>5. SlotsConserved
    BY <2>4 DEF SlotsConserved, IInv, SlotsInv, Granted, Slotted
  <2>6. QED
    BY <2>3, <2>5 DEF ResourcesAccounted
<1>2. QED
  BY <1>1, InvariantHolds, PTL

-----------------------------------------------------------------------------
(*                            The address tables                           *)
-----------------------------------------------------------------------------
(* The tables as records, whatever they say.                               *)
Entries  == [addr : Services, source : Sources, nRefCount : Int, fInTried : BOOLEAN,
             nRandomPos : Nat, success : BOOLEAN]
InfoMaps == UNION {[D -> Entries] : D \in SUBSET Nat}
AddrMaps == UNION {[D -> Nat] : D \in SUBSET Ips}
Tables   == [mapInfo : InfoMaps, mapAddr : AddrMaps, vRandom : Seq(Nat), nIdCount : Nat,
             vvNew : [NewSlots -> Int], vvTried : [TriedSlots -> Int], nNew : Int, nTried : Int]

(* mapAddr names the entry of each address, and nothing else.              *)
Indexed(m) ==
  /\ \A id \in DOMAIN m.mapInfo :
        /\ id < m.nIdCount
        /\ Ip[m.mapInfo[id].addr] \in DOMAIN m.mapAddr
        /\ m.mapAddr[Ip[m.mapInfo[id].addr]] = id
  /\ \A ip \in DOMAIN m.mapAddr :
        m.mapAddr[ip] \in DOMAIN m.mapInfo /\ Ip[m.mapInfo[m.mapAddr[ip]].addr] = ip

(* vRandom and nRandomPos are inverse to each other.                       *)
Ordered(m) ==
  /\ \A id \in DOMAIN m.mapInfo :
        /\ m.mapInfo[id].nRandomPos \in 1..Len(m.vRandom)
        /\ m.vRandom[m.mapInfo[id].nRandomPos] = id
  /\ \A p \in 1..Len(m.vRandom) :
        m.vRandom[p] \in DOMAIN m.mapInfo /\ m.mapInfo[m.vRandom[p]].nRandomPos = p

(* The places of the new table that hold an entry, ...                     *)
Holders(m, id) == {t \in NewSlots : m.vvNew[t] = id}

(* ... which are its own, and counted.                                     *)
NewOk(m) ==
  /\ \A t \in NewSlots : m.vvNew[t] # None =>
        /\ m.vvNew[t] \in DOMAIN m.mapInfo /\ ~m.mapInfo[m.vvNew[t]].fInTried
        /\ Slot(m.mapInfo[m.vvNew[t]].addr, t[1]) = t
  /\ \A id \in DOMAIN m.mapInfo : m.mapInfo[id].nRefCount = Cardinality(Holders(m, id))

(* The tried table holds the tried entries in their places.                *)
TriedOk(m) ==
  /\ \A t \in TriedSlots : m.vvTried[t] # None =>
        /\ m.vvTried[t] \in DOMAIN m.mapInfo /\ m.mapInfo[m.vvTried[t]].fInTried
        /\ TriedSlot[m.mapInfo[m.vvTried[t]].addr] = t
  /\ \A id \in DOMAIN m.mapInfo : m.mapInfo[id].fInTried =>
        m.vvTried[TriedSlot[m.mapInfo[id].addr]] = id /\ m.mapInfo[id].success

Sane(m) == m \in Tables /\ Indexed(m) /\ Ordered(m) /\ NewOk(m) /\ TriedOk(m)

(* Two entries that differ in their place in vRandom at most.              *)
Alike(e, f) ==
  /\ e.addr = f.addr /\ e.source = f.source /\ e.nRefCount = f.nRefCount
  /\ e.fInTried = f.fInTried /\ e.success = f.success

-----------------------------------------------------------------------------
(* Where the hashes point.                                                 *)
LEMMA HashesTyped ==
  ASSUME NEW a \in Services
  PROVE  TriedSlot[a] \in TriedSlots /\ \A s \in Sources : NewBucket[a][s] \in NewBuckets
BY AddrManAssumption

(* What a record of tables has in its fields.                              *)
LEMMA TablesFacts ==
  ASSUME NEW m \in Tables
  PROVE  /\ m.mapInfo \in [DOMAIN m.mapInfo -> Entries] /\ DOMAIN m.mapInfo \subseteq Nat
         /\ m.mapAddr \in [DOMAIN m.mapAddr -> Nat] /\ DOMAIN m.mapAddr \subseteq Ips
         /\ m.vRandom \in Seq(Nat) /\ Len(m.vRandom) \in Nat /\ m.nIdCount \in Nat
         /\ m.vvNew \in [NewSlots -> Int] /\ m.vvTried \in [TriedSlots -> Int]
         /\ m.nNew \in Int /\ m.nTried \in Int
<1>1. m.mapInfo \in InfoMaps /\ m.mapAddr \in AddrMaps
  BY DEF Tables
<1>2. m.mapInfo \in [DOMAIN m.mapInfo -> Entries] /\ DOMAIN m.mapInfo \subseteq Nat
  BY <1>1 DEF InfoMaps
<1>3. m.mapAddr \in [DOMAIN m.mapAddr -> Nat] /\ DOMAIN m.mapAddr \subseteq Ips
  BY <1>1 DEF AddrMaps
<1> QED
  BY <1>2, <1>3 DEF Tables

(* A record is one of tables if its fields are.                            *)
LEMMA TablesIntro ==
  ASSUME NEW info, NEW D \in SUBSET Nat, info \in [D -> Entries],
         NEW addr, NEW E \in SUBSET Ips, addr \in [E -> Nat],
         NEW random \in Seq(Nat), NEW count \in Nat, NEW new \in [NewSlots -> Int],
         NEW tried \in [TriedSlots -> Int], NEW n \in Int, NEW k \in Int
  PROVE  [mapInfo |-> info, mapAddr |-> addr, vRandom |-> random, nIdCount |-> count,
          vvNew |-> new, vvTried |-> tried, nNew |-> n, nTried |-> k] \in Tables
BY DEF Tables, InfoMaps, AddrMaps

(* A step that touches vRandom and the places in it only.                  *)
Reordered(m, q) ==
  /\ DOMAIN q.mapInfo = DOMAIN m.mapInfo
  /\ \A id \in DOMAIN m.mapInfo : Alike(q.mapInfo[id], m.mapInfo[id])
  /\ q.mapAddr = m.mapAddr /\ Len(q.vRandom) = Len(m.vRandom) /\ q.nIdCount = m.nIdCount
  /\ q.vvNew = m.vvNew /\ q.vvTried = m.vvTried /\ q.nNew = m.nNew /\ q.nTried = m.nTried

LEMMA ReorderedSane ==
  ASSUME NEW m, Sane(m), NEW q \in Tables, Reordered(m, q), Ordered(q)
  PROVE  Sane(q)
<1>1. Indexed(q)
  BY DEF Sane, Indexed, Reordered, Alike
<1>2. NewOk(q)
  <2>1. \A id : Holders(q, id) = Holders(m, id)
    BY DEF Holders, Reordered
  <2> QED
    BY <2>1 DEF Sane, NewOk, Reordered, Alike
<1>3. TriedOk(q)
  BY DEF Sane, TriedOk, Reordered, Alike
<1> QED
  BY <1>1, <1>2, <1>3 DEF Sane

(* A function on an interval from 1 is a sequence.                         *)
LEMMA NatSeq ==
  ASSUME NEW n \in Nat, NEW f \in [1..n -> Nat]
  PROVE  f \in Seq(Nat) /\ Len(f) = n
OBVIOUS

(* SwapRandom changes nothing else.                                        *)
LEMMA SwapFacts ==
  ASSUME NEW m, Sane(m), NEW p1 \in 1..Len(m.vRandom), NEW p2 \in 1..Len(m.vRandom)
  PROVE  LET q == SwapRandom(m, p1, p2)
         IN  /\ Sane(q) /\ Reordered(m, q)
             /\ q.vRandom[p1] = m.vRandom[p2] /\ q.vRandom[p2] = m.vRandom[p1]
<1> DEFINE q == SwapRandom(m, p1, p2)
           id1 == m.vRandom[p1]
           id2 == m.vRandom[p2]
<1>0. m \in Tables /\ Ordered(m)
  BY DEF Sane
<1>1. CASE p1 = p2
  <2>1. q = m
    BY <1>1 DEF SwapRandom
  <2> QED
    BY <1>1, <2>1 DEF Reordered, Alike
<1>2. CASE p1 # p2
  <2>1. /\ m.mapInfo \in [DOMAIN m.mapInfo -> Entries] /\ DOMAIN m.mapInfo \subseteq Nat
        /\ m.vRandom \in Seq(Nat) /\ Len(m.vRandom) \in Nat
    BY <1>0, TablesFacts
  <2>2. id1 \in DOMAIN m.mapInfo /\ id2 \in DOMAIN m.mapInfo /\ id1 # id2
    BY <1>0, <1>2 DEF Ordered
  <2> DEFINE info == [id \in DOMAIN m.mapInfo |->
                        IF id = id1 THEN [m.mapInfo[id] EXCEPT !.nRandomPos = p2]
                        ELSE IF id = id2 THEN [m.mapInfo[id] EXCEPT !.nRandomPos = p1]
                        ELSE m.mapInfo[id]]
             random == [p \in 1..Len(m.vRandom) |-> IF p = p1 THEN id2 ELSE IF p = p2 THEN id1 ELSE m.vRandom[p]]
  <2>3. /\ q.mapInfo = [[m.mapInfo EXCEPT ![id1].nRandomPos = p2] EXCEPT ![id2].nRandomPos = p1]
        /\ q.vRandom = [[m.vRandom EXCEPT ![p1] = id2] EXCEPT ![p2] = id1]
    BY <1>0, <1>2 DEF SwapRandom, Tables
  <2>4. /\ q.mapAddr = m.mapAddr /\ q.nIdCount = m.nIdCount /\ q.vvNew = m.vvNew /\ q.vvTried = m.vvTried
        /\ q.nNew = m.nNew /\ q.nTried = m.nTried
    BY <1>0, <1>2 DEF SwapRandom, Tables
  <2>5. q.mapInfo = info
    BY <2>1, <2>2, <2>3
  <2>6. q.vRandom = random
    <3>1. m.vRandom \in [1..Len(m.vRandom) -> Nat]
      BY <2>1
    <3> QED
      BY <2>3, <3>1
  <2>7. info \in [DOMAIN m.mapInfo -> Entries]
    <3>1. p1 \in Nat /\ p2 \in Nat
      BY <2>1
    <3> QED
      BY <2>1, <3>1 DEF Entries
  <2>8. random \in Seq(Nat) /\ Len(random) = Len(m.vRandom)
    <3>1. m.vRandom \in [1..Len(m.vRandom) -> Nat]
      BY <2>1
    <3>2. id1 \in Nat /\ id2 \in Nat
      BY <2>1, <2>2
    <3>3. random \in [1..Len(m.vRandom) -> Nat]
      BY <3>1, <3>2
    <3> HIDE DEF random
    <3> QED
      BY <2>1, <3>3, NatSeq
  <2>9. q \in Tables
    <3>1. q = [mapInfo |-> info, mapAddr |-> m.mapAddr, vRandom |-> random, nIdCount |-> m.nIdCount,
               vvNew |-> m.vvNew, vvTried |-> m.vvTried, nNew |-> m.nNew, nTried |-> m.nTried]
      BY <1>0, <1>2, <2>3, <2>5, <2>6 DEF SwapRandom, Tables
    <3> HIDE DEF info, random, q
    <3> QED
      BY <1>0, <2>1, <2>7, <2>8, <3>1, TablesFacts, TablesIntro
  <2>10. Reordered(m, q)
    <3> HIDE DEF q, random
    <3> QED
      BY <2>1, <2>4, <2>5, <2>6, <2>8 DEF Reordered, Alike, Entries
  <2>11. Ordered(q)
    <3>1. \A id \in DOMAIN m.mapInfo :
             info[id].nRandomPos = IF id = id1 THEN p2 ELSE IF id = id2 THEN p1 ELSE m.mapInfo[id].nRandomPos
      BY <2>1 DEF Entries
    <3>2. DOMAIN info = DOMAIN m.mapInfo
      OBVIOUS
    <3>3. DOMAIN random = 1..Len(m.vRandom)
      OBVIOUS
    <3> HIDE DEF info, q
    <3>4. ASSUME NEW id \in DOMAIN m.mapInfo
          PROVE  info[id].nRandomPos \in 1..Len(m.vRandom) /\ random[info[id].nRandomPos] = id
      <4>1. m.mapInfo[id].nRandomPos \in 1..Len(m.vRandom) /\ m.vRandom[m.mapInfo[id].nRandomPos] = id
        BY <1>0 DEF Ordered
      <4>2. CASE id = id1
        BY <1>2, <3>1, <4>2
      <4>3. CASE id = id2
        BY <1>2, <2>2, <3>1, <4>3
      <4>4. CASE id # id1 /\ id # id2
        BY <3>1, <4>1, <4>4
      <4> QED
        BY <4>2, <4>3, <4>4
    <3>5. ASSUME NEW p \in 1..Len(m.vRandom)
          PROVE  random[p] \in DOMAIN m.mapInfo /\ info[random[p]].nRandomPos = p
      <4>1. m.vRandom[p] \in DOMAIN m.mapInfo /\ m.mapInfo[m.vRandom[p]].nRandomPos = p
        BY <1>0 DEF Ordered
      <4>2. m.mapInfo[id1].nRandomPos = p1 /\ m.mapInfo[id2].nRandomPos = p2
        BY <1>0 DEF Ordered
      <4>3. CASE p = p1
        BY <2>2, <3>1, <4>3
      <4>4. CASE p = p2
        BY <1>2, <2>2, <3>1, <4>4
      <4>5. CASE p # p1 /\ p # p2
        BY <3>1, <4>1, <4>2, <4>5
      <4> QED
        BY <4>3, <4>4, <4>5
    <3> HIDE DEF random
    <3> QED
      BY <2>5, <2>6, <2>8, <3>2, <3>4, <3>5 DEF Ordered
  <2>12. random[p1] = id2 /\ random[p2] = id1
    BY <2>1
  <2> HIDE DEF q, random, id1, id2
  <2>13. Sane(q)
    BY <2>9, <2>10, <2>11, ReorderedSane
  <2>14. q.vRandom[p1] = id2 /\ q.vRandom[p2] = id1
    BY <2>6, <2>12
  <2> QED
    BY <2>10, <2>13, <2>14 DEF q, id1, id2
<1> QED
  BY <1>1, <1>2

(* There are finitely many places, so that what is counted can be empty.   *)
LEMMA HoldersFinite ==
  ASSUME NEW m, NEW id
  PROVE  /\ IsFiniteSet(NewSlots) /\ IsFiniteSet(Holders(m, id)) /\ Cardinality(Holders(m, id)) \in Nat
         /\ Cardinality(Holders(m, id)) = 0 <=> Holders(m, id) = {}
<1>1. IsFiniteSet(NewSlots)
  BY AddrManAssumption, FS_Product DEF NewSlots
<1>2. Holders(m, id) \subseteq NewSlots
  BY DEF Holders
<1> QED
  BY <1>1, <1>2, FS_Subset, FS_EmptySet, FS_CardinalityType

(* A step that forgets the entry id.                                       *)
Forgets(m, q, id) ==
  /\ DOMAIN q.mapInfo = DOMAIN m.mapInfo \ {id}
  /\ \A x \in DOMAIN q.mapInfo : Alike(q.mapInfo[x], m.mapInfo[x])
  /\ q.mapAddr = Drop(m.mapAddr, Ip[m.mapInfo[id].addr])
  /\ q.nIdCount = m.nIdCount /\ q.vvNew = m.vvNew /\ q.vvTried = m.vvTried
  /\ q.nNew = m.nNew - 1 /\ q.nTried = m.nTried

(* Delete() of an entry that is in no table.                               *)
LEMMA DeleteFacts ==
  ASSUME NEW m, Sane(m), NEW id \in Lost(m)
  PROVE  Sane(Delete(m, id)) /\ Forgets(m, Delete(m, id), id)
<1> DEFINE q == Delete(m, id)
           last == Len(m.vRandom)
           w == SwapRandom(m, m.mapInfo[id].nRandomPos, last)
           ip == Ip[m.mapInfo[id].addr]
<1>1. m \in Tables /\ id \in DOMAIN m.mapInfo /\ ~m.mapInfo[id].fInTried /\ m.mapInfo[id].nRefCount = 0
  BY DEF Sane, Lost
<1>2. last \in Nat
  BY <1>1, TablesFacts
<1>3. m.mapInfo[id].nRandomPos \in 1..last /\ m.vRandom[m.mapInfo[id].nRandomPos] = id
  BY <1>1 DEF Sane, Ordered
<1>4. last \in 1..last
  BY <1>2, <1>3
<1>5. Sane(w) /\ Reordered(m, w) /\ w.vRandom[last] = id
  BY <1>3, <1>4, SwapFacts
<1>6. q = [w EXCEPT !.vRandom = PopBack(@), !.mapAddr = Drop(@, ip), !.mapInfo = Drop(@, id), !.nNew = @ - 1]
  BY DEF Delete
<1> HIDE DEF w, q
<1>7. w \in Tables /\ DOMAIN w.mapInfo = DOMAIN m.mapInfo /\ Len(w.vRandom) = last /\ w.mapAddr = m.mapAddr
  BY <1>5 DEF Sane, Reordered
<1> DEFINE info == Drop(w.mapInfo, id)
           addr == Drop(m.mapAddr, ip)
           random == PopBack(w.vRandom)
<1>8. /\ q.mapInfo = info /\ q.mapAddr = addr /\ q.vRandom = random /\ q.nIdCount = w.nIdCount
      /\ q.vvNew = w.vvNew /\ q.vvTried = w.vvTried /\ q.nNew = w.nNew - 1 /\ q.nTried = w.nTried
      /\ q = [mapInfo |-> info, mapAddr |-> addr, vRandom |-> random, nIdCount |-> w.nIdCount,
              vvNew |-> w.vvNew, vvTried |-> w.vvTried, nNew |-> w.nNew - 1, nTried |-> w.nTried]
  BY <1>6, <1>7 DEF Tables
<1>9. DOMAIN info = DOMAIN m.mapInfo \ {id} /\ \A x \in DOMAIN info : info[x] = w.mapInfo[x]
  BY <1>7 DEF Drop
<1>10. DOMAIN addr = DOMAIN m.mapAddr \ {ip} /\ \A x \in DOMAIN addr : addr[x] = m.mapAddr[x]
  BY DEF Drop
<1>11. random \in Seq(Nat) /\ Len(random) = last - 1 /\ \A p \in 1..(last - 1) : random[p] = w.vRandom[p]
  <2>1. w.vRandom \in Seq(Nat)
    BY <1>7, TablesFacts
  <2> QED
    BY <1>2, <1>4, <1>7, <2>1 DEF PopBack
<1>12. q \in Tables
  <2>1. info \in [DOMAIN info -> Entries] /\ DOMAIN info \in SUBSET Nat
    BY <1>7, <1>9, TablesFacts DEF Drop
  <2>2. addr \in [DOMAIN addr -> Nat] /\ DOMAIN addr \in SUBSET Ips
    BY <1>1, <1>10, TablesFacts DEF Drop
  <2>3. /\ w.nIdCount \in Nat /\ w.vvNew \in [NewSlots -> Int] /\ w.vvTried \in [TriedSlots -> Int]
        /\ w.nNew \in Int /\ w.nTried \in Int
    BY <1>7, TablesFacts
  <2> DEFINE n == w.nNew - 1
  <2>4. n \in Int
    BY <2>3
  <2>5. q = [mapInfo |-> info, mapAddr |-> addr, vRandom |-> random, nIdCount |-> w.nIdCount,
             vvNew |-> w.vvNew, vvTried |-> w.vvTried, nNew |-> n, nTried |-> w.nTried]
    BY <1>8
  <2> HIDE DEF info, addr, random, n
  <2> QED
    BY <1>11, <2>1, <2>2, <2>3, <2>4, <2>5, TablesIntro
<1> HIDE DEF info, addr, random
<1>13. Forgets(m, q, id)
  <2>1. \A x \in DOMAIN info : Alike(info[x], m.mapInfo[x])
    BY <1>5, <1>9 DEF Reordered
  <2> QED
    BY <1>5, <1>8, <1>9, <2>1 DEF Forgets, Reordered, addr
<1>14. Indexed(q)
  <2>1. ASSUME NEW x \in DOMAIN info
        PROVE  /\ x < w.nIdCount /\ Ip[info[x].addr] \in DOMAIN addr /\ addr[Ip[info[x].addr]] = x
    <3>1. x \in DOMAIN m.mapInfo /\ x # id /\ info[x].addr = m.mapInfo[x].addr
      BY <1>5, <1>9 DEF Reordered, Alike
    <3>2. Ip[m.mapInfo[x].addr] # ip
      BY <1>1, <3>1 DEF Sane, Indexed
    <3>3. x < m.nIdCount /\ Ip[m.mapInfo[x].addr] \in DOMAIN m.mapAddr /\ m.mapAddr[Ip[m.mapInfo[x].addr]] = x
      BY <3>1 DEF Sane, Indexed
    <3>4. w.nIdCount = m.nIdCount
      BY <1>5 DEF Reordered
    <3> QED
      BY <1>10, <3>1, <3>2, <3>3, <3>4
  <2>2. ASSUME NEW x \in DOMAIN addr
        PROVE  addr[x] \in DOMAIN info /\ Ip[info[addr[x]].addr] = x
    <3>1. x # ip /\ addr[x] = m.mapAddr[x] /\ x \in DOMAIN m.mapAddr
      BY <1>10
    <3>2. m.mapAddr[x] \in DOMAIN m.mapInfo /\ Ip[m.mapInfo[m.mapAddr[x]].addr] = x
      BY <3>1 DEF Sane, Indexed
    <3>3. m.mapAddr[x] # id
      BY <3>1, <3>2
    <3> QED
      BY <1>5, <1>9, <3>1, <3>2, <3>3 DEF Reordered, Alike
  <2> QED
    BY <1>8, <2>1, <2>2 DEF Indexed
<1>15. Ordered(q)
  <2>1. w.mapInfo[id].nRandomPos = last
    BY <1>4, <1>5, <1>7 DEF Sane, Ordered
  <2>2. ASSUME NEW x \in DOMAIN info
        PROVE  info[x].nRandomPos \in 1..(last - 1) /\ random[info[x].nRandomPos] = x
    <3>1. x # id /\ info[x] = w.mapInfo[x] /\ x \in DOMAIN w.mapInfo
      BY <1>7, <1>9
    <3>2. w.mapInfo[x].nRandomPos \in 1..last /\ w.vRandom[w.mapInfo[x].nRandomPos] = x
      BY <1>5, <1>7, <3>1 DEF Sane, Ordered
    <3>3. w.mapInfo[x].nRandomPos # last
      BY <1>5, <3>1, <3>2
    <3>4. w.mapInfo[x].nRandomPos \in 1..(last - 1)
      BY <1>2, <3>2, <3>3
    <3> QED
      BY <1>11, <3>1, <3>2, <3>4
  <2>3. ASSUME NEW p \in 1..(last - 1)
        PROVE  random[p] \in DOMAIN info /\ info[random[p]].nRandomPos = p
    <3>1. p \in 1..last /\ p # last
      BY <1>2
    <3>2. w.vRandom[p] \in DOMAIN w.mapInfo /\ w.mapInfo[w.vRandom[p]].nRandomPos = p
      BY <1>5, <1>7, <3>1 DEF Sane, Ordered
    <3>3. w.vRandom[p] # id
      BY <2>1, <3>1, <3>2
    <3> QED
      BY <1>7, <1>9, <1>11, <3>2, <3>3
  <2> QED
    BY <1>8, <1>11, <2>2, <2>3 DEF Ordered
<1>16. NewOk(q)
  <2>1. \A x : Holders(q, x) = Holders(m, x)
    BY <1>13 DEF Holders, Forgets
  <2>2. Holders(m, id) = {}
    BY <1>1, HoldersFinite DEF Sane, NewOk
  <2>3. \A t \in NewSlots : m.vvNew[t] # id
    BY <2>2 DEF Holders
  <2> QED
    BY <1>13, <2>1, <2>3 DEF Sane, NewOk, Forgets, Alike
<1>17. TriedOk(q)
  BY <1>1, <1>13 DEF Sane, TriedOk, Forgets, Alike
<1> QED
  BY <1>12, <1>13, <1>14, <1>15, <1>16, <1>17 DEF Sane, q

-----------------------------------------------------------------------------
UntriedIds(m) == DOMAIN m.mapInfo \ TriedIds(m)

(* The counters, with k entries in the new table's count too few.          *)
Tallied(m, k) ==
  m.nTried = Cardinality(TriedIds(m)) /\ m.nNew + k = Cardinality(UntriedIds(m))

(* Two entries of the same service, in the same table.                     *)
Kin(e, f) ==
  e.addr = f.addr /\ e.source = f.source /\ e.fInTried = f.fInTried /\ e.success = f.success

(* A step that forgets new entries, or takes them out of places.           *)
Shrunk(m, q) ==
  /\ DOMAIN q.mapInfo \subseteq DOMAIN m.mapInfo /\ TriedIds(m) \subseteq DOMAIN q.mapInfo
  /\ \A x \in DOMAIN q.mapInfo :
        Kin(q.mapInfo[x], m.mapInfo[x]) /\ q.mapInfo[x].nRefCount <= m.mapInfo[x].nRefCount
  /\ q.nIdCount = m.nIdCount /\ q.vvTried = m.vvTried
  /\ \A k \in Int : Tallied(m, k) => Tallied(q, k)

(* There are finitely many entries.                                        *)
LEMMA IdsFinite ==
  ASSUME NEW m, Sane(m)
  PROVE  /\ IsFiniteSet(DOMAIN m.mapInfo) /\ IsFiniteSet(TriedIds(m)) /\ IsFiniteSet(UntriedIds(m))
         /\ Cardinality(TriedIds(m)) \in Nat /\ Cardinality(UntriedIds(m)) \in Nat
<1>1. m.nIdCount \in Nat /\ DOMAIN m.mapInfo \subseteq Nat
  BY TablesFacts DEF Sane
<1>2. DOMAIN m.mapInfo \subseteq 0..m.nIdCount
  BY <1>1 DEF Sane, Indexed
<1>3. IsFiniteSet(0..m.nIdCount)
  <2>1. 0 \in Int /\ m.nIdCount \in Int
    BY <1>1
  <2> QED
    BY <2>1, FS_Interval
<1>4. IsFiniteSet(DOMAIN m.mapInfo)
  BY <1>2, <1>3, FS_Subset
<1> QED
  BY <1>4, FS_Subset, FS_CardinalityType DEF TriedIds, UntriedIds

(* Deleting an entry in no table is such a step.                           *)
LEMMA DeleteShrinks ==
  ASSUME NEW m, Sane(m), NEW id \in Lost(m)
  PROVE  /\ Shrunk(m, Delete(m, id)) /\ Lost(Delete(m, id)) = Lost(m) \ {id}
<1> DEFINE q == Delete(m, id)
<1>1. Sane(q) /\ Forgets(m, q, id)
  BY DeleteFacts
<1> HIDE DEF q
<1>2. id \in DOMAIN m.mapInfo /\ ~m.mapInfo[id].fInTried
  BY DEF Lost
<1>3. TriedIds(q) = TriedIds(m) /\ UntriedIds(q) = UntriedIds(m) \ {id} /\ id \in UntriedIds(m)
  BY <1>1, <1>2 DEF Forgets, Alike, TriedIds, UntriedIds
<1>4. Cardinality(UntriedIds(q)) = Cardinality(UntriedIds(m)) - 1
  BY <1>3, IdsFinite, FS_RemoveElement
<1>5. m.nNew \in Int /\ m.nTried \in Int
  BY TablesFacts DEF Sane
<1>6. \A k \in Int : Tallied(m, k) => Tallied(q, k)
  BY <1>1, <1>3, <1>4, <1>5, IdsFinite DEF Tallied, Forgets
<1>7. TriedIds(m) \subseteq DOMAIN q.mapInfo
  BY <1>3 DEF TriedIds
<1>8. \A x \in DOMAIN q.mapInfo :
         Kin(q.mapInfo[x], m.mapInfo[x]) /\ q.mapInfo[x].nRefCount <= m.mapInfo[x].nRefCount
  <2>1. ASSUME NEW x \in DOMAIN q.mapInfo
        PROVE  q.mapInfo[x].nRefCount = m.mapInfo[x].nRefCount /\ m.mapInfo[x].nRefCount \in Int
               /\ Kin(q.mapInfo[x], m.mapInfo[x])
    BY <1>1, TablesFacts DEF Forgets, Alike, Kin, Sane, Entries
  <2> QED
    BY <2>1
<1>9. Lost(q) = Lost(m) \ {id}
  BY <1>1 DEF Lost, Forgets, Alike
<1> QED
  BY <1>1, <1>6, <1>7, <1>8, <1>9 DEF Shrunk, Forgets, q

(* The tables with another entry under id, and perhaps other buckets.      *)
Updates(m, q, id, e) ==
  /\ q.mapInfo = [m.mapInfo EXCEPT ![id] = e]
  /\ q.mapAddr = m.mapAddr /\ q.vRandom = m.vRandom /\ q.nIdCount = m.nIdCount

LEMMA InfoUpdate ==
  ASSUME NEW m \in Tables, NEW id \in DOMAIN m.mapInfo, NEW e \in Entries
  PROVE  [m.mapInfo EXCEPT ![id] = e] \in InfoMaps
<1>1. m.mapInfo \in [DOMAIN m.mapInfo -> Entries] /\ DOMAIN m.mapInfo \in SUBSET Nat
  BY TablesFacts
<1>2. [m.mapInfo EXCEPT ![id] = e] \in [DOMAIN m.mapInfo -> Entries]
  BY <1>1
<1> QED
  BY <1>1, <1>2 DEF InfoMaps

(* The two indexes need not change with them.                              *)
LEMMA UpdateFacts ==
  ASSUME NEW m, Sane(m), NEW id \in DOMAIN m.mapInfo, NEW e \in Entries,
         e.addr = m.mapInfo[id].addr, e.nRandomPos = m.mapInfo[id].nRandomPos,
         NEW q \in Tables, Updates(m, q, id, e)
  PROVE  /\ Indexed(q) /\ Ordered(q)
         /\ DOMAIN q.mapInfo = DOMAIN m.mapInfo /\ q.mapInfo[id] = e
         /\ \A x \in DOMAIN m.mapInfo \ {id} : q.mapInfo[x] = m.mapInfo[x]
<1>1. m.mapInfo \in [DOMAIN m.mapInfo -> Entries]
  BY TablesFacts DEF Sane
<1>2. /\ DOMAIN q.mapInfo = DOMAIN m.mapInfo /\ q.mapInfo[id] = e
      /\ \A x \in DOMAIN m.mapInfo \ {id} : q.mapInfo[x] = m.mapInfo[x]
  BY <1>1 DEF Updates
<1>3. \A x \in DOMAIN m.mapInfo :
         q.mapInfo[x].addr = m.mapInfo[x].addr /\ q.mapInfo[x].nRandomPos = m.mapInfo[x].nRandomPos
  BY <1>2
<1>4. q.mapAddr = m.mapAddr /\ q.vRandom = m.vRandom /\ q.nIdCount = m.nIdCount
  BY DEF Updates
<1>5. Indexed(q)
  <2>1. ASSUME NEW x \in DOMAIN q.mapInfo
        PROVE  /\ x < q.nIdCount /\ Ip[q.mapInfo[x].addr] \in DOMAIN q.mapAddr
               /\ q.mapAddr[Ip[q.mapInfo[x].addr]] = x
    <3>1. x \in DOMAIN m.mapInfo /\ q.mapInfo[x].addr = m.mapInfo[x].addr
      BY <1>2, <1>3
    <3> QED
      BY <1>4, <3>1 DEF Sane, Indexed
  <2>2. ASSUME NEW a \in DOMAIN q.mapAddr
        PROVE  q.mapAddr[a] \in DOMAIN q.mapInfo /\ Ip[q.mapInfo[q.mapAddr[a]].addr] = a
    <3>1. m.mapAddr[a] \in DOMAIN m.mapInfo /\ Ip[m.mapInfo[m.mapAddr[a]].addr] = a
      BY <1>4 DEF Sane, Indexed
    <3> QED
      BY <1>2, <1>3, <1>4, <3>1
  <2> QED
    BY <2>1, <2>2 DEF Indexed
<1>6. Ordered(q)
  BY <1>2, <1>3, <1>4 DEF Sane, Ordered
<1> QED
  BY <1>2, <1>5, <1>6

(* Such steps compose.                                                     *)
LEMMA ShrunkTwice ==
  ASSUME NEW m, NEW w, NEW q, Sane(m), Sane(w), Sane(q), Shrunk(m, w), Shrunk(w, q)
  PROVE  Shrunk(m, q)
<1>1. TriedIds(w) = TriedIds(m)
  BY DEF Shrunk, TriedIds, Kin
<1>2. ASSUME NEW x \in DOMAIN q.mapInfo
      PROVE  Kin(q.mapInfo[x], m.mapInfo[x]) /\ q.mapInfo[x].nRefCount <= m.mapInfo[x].nRefCount
  <2>1. x \in DOMAIN w.mapInfo /\ x \in DOMAIN m.mapInfo
    BY DEF Shrunk
  <2>2. q.mapInfo[x].nRefCount \in Int /\ w.mapInfo[x].nRefCount \in Int /\ m.mapInfo[x].nRefCount \in Int
    BY <2>1, TablesFacts DEF Sane, Entries
  <2> QED
    BY <2>1, <2>2 DEF Shrunk, Kin
<1> QED
  BY <1>1, <1>2 DEF Shrunk

LEMMA ShrunkSame ==
  ASSUME NEW m, Sane(m)
  PROVE  Shrunk(m, m)
<1>1. \A x \in DOMAIN m.mapInfo : m.mapInfo[x].nRefCount \in Int
  BY TablesFacts DEF Sane, Entries
<1> QED
  BY <1>1 DEF Shrunk, Kin, TriedIds

(* ClearNew(): place t becomes free, and its occupant is forgotten if this *)
(* was its last one.                                                       *)
LEMMA ClearNewFacts ==
  ASSUME NEW m, Sane(m), NEW t \in NewSlots
  PROVE  LET q == ClearNew(m, t)
         IN  /\ Sane(q) /\ Shrunk(m, q) /\ Lost(q) = Lost(m)
             /\ q.vvNew = [m.vvNew EXCEPT ![t] = None]
             /\ DOMAIN m.mapInfo \ {m.vvNew[t]} \subseteq DOMAIN q.mapInfo
<1> DEFINE q == ClearNew(m, t)
           id == m.vvNew[t]
<1>0. /\ m.vvNew \in [NewSlots -> Int] /\ m.vvTried \in [TriedSlots -> Int] /\ m.nNew \in Int /\ m.nTried \in Int
      /\ m.mapInfo \in [DOMAIN m.mapInfo -> Entries] /\ DOMAIN m.mapInfo \subseteq Nat /\ m \in Tables
  BY TablesFacts DEF Sane
<1>1. CASE id = None
  <2>1. q = m /\ m.vvNew = [m.vvNew EXCEPT ![t] = None]
    BY <1>0, <1>1 DEF ClearNew
  <2> QED
    BY <2>1, ShrunkSame
<1>2. CASE id # None
  <2> DEFINE e == [m.mapInfo[id] EXCEPT !.nRefCount = @ - 1]
             new == [m.vvNew EXCEPT ![t] = None]
             w == [m EXCEPT !.mapInfo[id].nRefCount = @ - 1, !.vvNew[t] = None]
  <2>1. id \in DOMAIN m.mapInfo /\ ~m.mapInfo[id].fInTried /\ m.mapInfo[id] \in Entries
    BY <1>0, <1>2 DEF Sane, NewOk
  <2>2. /\ e \in Entries /\ e.addr = m.mapInfo[id].addr /\ e.nRandomPos = m.mapInfo[id].nRandomPos
        /\ e.source = m.mapInfo[id].source /\ e.fInTried = m.mapInfo[id].fInTried
        /\ e.success = m.mapInfo[id].success /\ e.nRefCount = m.mapInfo[id].nRefCount - 1
    BY <2>1 DEF Entries
  <2>3. new \in [NewSlots -> Int]
    BY <1>0 DEF None
  <2>4. w \in Tables /\ Updates(m, w, id, e)
        /\ w.vvNew = new /\ w.vvTried = m.vvTried /\ w.nNew = m.nNew /\ w.nTried = m.nTried
    <3> DEFINE info == [m.mapInfo EXCEPT ![id] = e]
    <3>1. info \in InfoMaps
      <4> HIDE DEF id, e
      <4> QED
        BY <1>0, <2>1, <2>2, InfoUpdate
    <3>2. w = [m EXCEPT !.mapInfo = info, !.vvNew = new]
      BY <1>0 DEF Tables
    <3> HIDE DEF info, new, w
    <3> QED
      BY <1>0, <2>3, <3>1, <3>2 DEF Tables, Updates, info
  <2>5. q = IF w.mapInfo[id].nRefCount = 0 THEN Delete(w, id) ELSE w
    BY <1>2 DEF ClearNew
  <2> HIDE DEF e, w, q
  <2>7. /\ Indexed(w) /\ Ordered(w) /\ w.nIdCount = m.nIdCount /\ w.vvTried = m.vvTried /\ w.vvNew = new
        /\ w.nNew = m.nNew /\ w.nTried = m.nTried
        /\ DOMAIN w.mapInfo = DOMAIN m.mapInfo /\ w.mapInfo[id] = e
        /\ \A x \in DOMAIN m.mapInfo \ {id} : w.mapInfo[x] = m.mapInfo[x]
    <3> HIDE DEF new, id
    <3> QED
      BY <2>1, <2>2, <2>4, UpdateFacts DEF Updates
  <2>8. NewOk(w)
    <3>1. Holders(w, id) = Holders(m, id) \ {t} /\ t \in Holders(m, id)
      BY <1>0, <1>2, <2>7 DEF Holders
    <3>2. Cardinality(Holders(w, id)) = Cardinality(Holders(m, id)) - 1
      <4>1. IsFiniteSet(Holders(m, id))
        BY HoldersFinite
      <4> HIDE DEF id
      <4> QED
        BY <3>1, <4>1, FS_RemoveElement
    <3>3. \A x \in DOMAIN m.mapInfo \ {id} : Holders(w, x) = Holders(m, x)
      BY <1>0, <2>7 DEF Holders, None
    <3>4. \A x \in DOMAIN m.mapInfo : w.mapInfo[x].nRefCount = Cardinality(Holders(w, x))
      BY <2>1, <2>2, <2>7, <3>2, <3>3 DEF Sane, NewOk
    <3>5. ASSUME NEW u \in NewSlots, w.vvNew[u] # None
          PROVE  /\ w.vvNew[u] \in DOMAIN w.mapInfo /\ ~w.mapInfo[w.vvNew[u]].fInTried
                 /\ Slot(w.mapInfo[w.vvNew[u]].addr, u[1]) = u
      <4>1. w.vvNew[u] = m.vvNew[u]
        BY <1>0, <2>7, <3>5
      <4>2. /\ m.vvNew[u] \in DOMAIN m.mapInfo /\ ~m.mapInfo[m.vvNew[u]].fInTried
            /\ Slot(m.mapInfo[m.vvNew[u]].addr, u[1]) = u
        <5>1. NewOk(m)
          BY DEF Sane
        <5>2. m.vvNew[u] # None
          BY <3>5, <4>1, Zenon
        <5> QED
          BY <5>1, <5>2 DEF NewOk
      <4> QED
        BY <2>2, <2>7, <4>1, <4>2
    <3> QED
      BY <2>7, <3>4, <3>5 DEF NewOk
  <2>9. TriedOk(w)
    BY <2>1, <2>2, <2>7 DEF Sane, TriedOk
  <2>10. Sane(w)
    BY <2>4, <2>7, <2>8, <2>9 DEF Sane
  <2>11. Shrunk(m, w)
    <3>1. TriedIds(w) = TriedIds(m)
      BY <2>1, <2>2, <2>7 DEF TriedIds
    <3>2. \A x \in DOMAIN m.mapInfo : m.mapInfo[x].nRefCount \in Int
      BY <1>0 DEF Entries
    <3>3. \A x \in DOMAIN m.mapInfo :
             Kin(w.mapInfo[x], m.mapInfo[x]) /\ w.mapInfo[x].nRefCount <= m.mapInfo[x].nRefCount
      BY <2>2, <2>7, <3>2 DEF Kin
    <3>4. \A k \in Int : Tallied(m, k) => Tallied(w, k)
      BY <2>7, <3>1 DEF Tallied, UntriedIds
    <3>5. TriedIds(m) \subseteq DOMAIN w.mapInfo
      BY <2>7 DEF TriedIds
    <3> QED
      BY <2>7, <3>3, <3>4, <3>5 DEF Shrunk
  <2>12. m.mapInfo[id].nRefCount # 0
    <3>1. t \in Holders(m, id)
      BY DEF Holders
    <3> QED
      BY <2>1, <3>1, HoldersFinite DEF Sane, NewOk
  <2>13. CASE w.mapInfo[id].nRefCount = 0
    <3>1. Lost(w) = Lost(m) \cup {id} /\ id \notin Lost(m)
      BY <2>1, <2>2, <2>7, <2>12, <2>13 DEF Lost
    <3>2. q = Delete(w, id)
      BY <2>5, <2>13
    <3>3. Sane(q) /\ Forgets(w, q, id) /\ Shrunk(w, q) /\ Lost(q) = Lost(m)
      <4>1. id \in Lost(w) /\ Lost(w) \ {id} = Lost(m)
        BY <3>1
      <4> HIDE DEF id
      <4> QED
        BY <2>10, <3>2, <4>1, DeleteFacts, DeleteShrinks
    <3>4. Shrunk(m, q)
      BY <2>10, <2>11, <3>3, ShrunkTwice
    <3>5. q.vvNew = new /\ DOMAIN m.mapInfo \ {id} \subseteq DOMAIN q.mapInfo
      BY <2>7, <3>3 DEF Forgets
    <3> QED
      BY <3>3, <3>4, <3>5 DEF q
  <2>14. CASE w.mapInfo[id].nRefCount # 0
    <3>1. q = w
      BY <2>5, <2>14
    <3>2. Lost(w) = Lost(m)
      BY <2>1, <2>2, <2>7, <2>12, <2>14 DEF Lost
    <3> QED
      BY <2>7, <2>10, <2>11, <3>1, <3>2 DEF q
  <2> QED
    BY <2>13, <2>14
<1> QED
  BY <1>1, <1>2

-----------------------------------------------------------------------------
(* The tables with one more entry, under the next id.                      *)
Enters(m, q, e) ==
  /\ q.mapInfo = Put(m.mapInfo, m.nIdCount, e) /\ q.mapAddr = Put(m.mapAddr, Ip[e.addr], m.nIdCount)
  /\ q.vRandom = Append(m.vRandom, m.nIdCount) /\ q.nIdCount = m.nIdCount + 1

LEMMA EntersTables ==
  ASSUME NEW m \in Tables, NEW e \in Entries
  PROVE  /\ Put(m.mapInfo, m.nIdCount, e) \in InfoMaps
         /\ Put(m.mapAddr, Ip[e.addr], m.nIdCount) \in AddrMaps
         /\ Append(m.vRandom, m.nIdCount) \in Seq(Nat) /\ m.nIdCount + 1 \in Nat
<1>1. /\ m.mapInfo \in [DOMAIN m.mapInfo -> Entries] /\ DOMAIN m.mapInfo \subseteq Nat
      /\ m.mapAddr \in [DOMAIN m.mapAddr -> Nat] /\ DOMAIN m.mapAddr \subseteq Ips
      /\ m.vRandom \in Seq(Nat) /\ m.nIdCount \in Nat
  BY TablesFacts
<1>2. Ip[e.addr] \in Ips
  BY DEF Entries, Ips
<1>3. Put(m.mapInfo, m.nIdCount, e) \in [DOMAIN m.mapInfo \cup {m.nIdCount} -> Entries]
  BY <1>1 DEF Put
<1>4. Put(m.mapAddr, Ip[e.addr], m.nIdCount) \in [DOMAIN m.mapAddr \cup {Ip[e.addr]} -> Nat]
  BY <1>1 DEF Put
<1>5. DOMAIN m.mapInfo \cup {m.nIdCount} \in SUBSET Nat /\ DOMAIN m.mapAddr \cup {Ip[e.addr]} \in SUBSET Ips
  BY <1>1, <1>2
<1>6. Put(m.mapInfo, m.nIdCount, e) \in InfoMaps
  BY <1>3, <1>5 DEF InfoMaps
<1>7. Put(m.mapAddr, Ip[e.addr], m.nIdCount) \in AddrMaps
  BY <1>4, <1>5 DEF AddrMaps
<1> QED
  BY <1>1, <1>6, <1>7

(* Both indexes are right if the address is new.                           *)
LEMMA EntersFacts ==
  ASSUME NEW m, Sane(m), NEW e \in Entries, e.nRandomPos = Len(m.vRandom) + 1,
         Ip[e.addr] \notin DOMAIN m.mapAddr, NEW q \in Tables, Enters(m, q, e)
  PROVE  /\ Indexed(q) /\ Ordered(q) /\ m.nIdCount \notin DOMAIN m.mapInfo
         /\ DOMAIN q.mapInfo = DOMAIN m.mapInfo \cup {m.nIdCount} /\ q.mapInfo[m.nIdCount] = e
         /\ \A x \in DOMAIN m.mapInfo : q.mapInfo[x] = m.mapInfo[x]
         /\ q.nIdCount = m.nIdCount + 1 /\ m.nIdCount \in Nat
         /\ \A t \in NewSlots : m.vvNew[t] # m.nIdCount
<1> DEFINE id == m.nIdCount
           ip == Ip[e.addr]
<1>1. /\ m.mapInfo \in [DOMAIN m.mapInfo -> Entries] /\ DOMAIN m.mapInfo \subseteq Nat
      /\ m.mapAddr \in [DOMAIN m.mapAddr -> Nat] /\ DOMAIN m.mapAddr \subseteq Ips
      /\ m.vRandom \in Seq(Nat) /\ Len(m.vRandom) \in Nat /\ id \in Nat /\ m \in Tables
  BY TablesFacts DEF Sane
<1>2. id \notin DOMAIN m.mapInfo
  BY <1>1 DEF Sane, Indexed
<1>3. /\ DOMAIN q.mapInfo = DOMAIN m.mapInfo \cup {id} /\ q.mapInfo[id] = e
      /\ \A x \in DOMAIN m.mapInfo : q.mapInfo[x] = m.mapInfo[x]
  BY <1>2 DEF Enters, Put
<1>4. /\ DOMAIN q.mapAddr = DOMAIN m.mapAddr \cup {ip} /\ q.mapAddr[ip] = id
      /\ \A x \in DOMAIN m.mapAddr : q.mapAddr[x] = m.mapAddr[x]
  BY DEF Enters, Put
<1>5. /\ Len(q.vRandom) = Len(m.vRandom) + 1 /\ q.vRandom[Len(m.vRandom) + 1] = id
      /\ \A p \in 1..Len(m.vRandom) : q.vRandom[p] = m.vRandom[p]
  BY <1>1 DEF Enters
<1>6. q.nIdCount = id + 1
  BY DEF Enters
<1> HIDE DEF id, ip
<1>7. Indexed(q)
  <2>1. ASSUME NEW x \in DOMAIN q.mapInfo
        PROVE  /\ x < q.nIdCount /\ Ip[q.mapInfo[x].addr] \in DOMAIN q.mapAddr
               /\ q.mapAddr[Ip[q.mapInfo[x].addr]] = x
    <3>1. CASE x = id
      BY <1>1, <1>3, <1>4, <1>6, <3>1 DEF ip
    <3>2. CASE x \in DOMAIN m.mapInfo
      <4>1. x < id /\ Ip[m.mapInfo[x].addr] \in DOMAIN m.mapAddr /\ m.mapAddr[Ip[m.mapInfo[x].addr]] = x
        BY <3>2 DEF Sane, Indexed, id
      <4> QED
        BY <1>1, <1>3, <1>4, <1>6, <3>2, <4>1
    <3> QED
      BY <1>3, <3>1, <3>2
  <2>2. ASSUME NEW x \in DOMAIN q.mapAddr
        PROVE  q.mapAddr[x] \in DOMAIN q.mapInfo /\ Ip[q.mapInfo[q.mapAddr[x]].addr] = x
    <3>1. CASE x = ip
      BY <1>3, <1>4, <3>1 DEF ip
    <3>2. CASE x \in DOMAIN m.mapAddr
      BY <1>3, <1>4, <3>2 DEF Sane, Indexed
    <3> QED
      BY <1>4, <3>1, <3>2
  <2> QED
    BY <2>1, <2>2 DEF Indexed
<1>8. Ordered(q)
  <2>1. ASSUME NEW x \in DOMAIN q.mapInfo
        PROVE  q.mapInfo[x].nRandomPos \in 1..Len(q.vRandom) /\ q.vRandom[q.mapInfo[x].nRandomPos] = x
    <3>1. CASE x = id
      BY <1>1, <1>3, <1>5, <3>1
    <3>2. CASE x \in DOMAIN m.mapInfo
      <4>1. m.mapInfo[x].nRandomPos \in 1..Len(m.vRandom) /\ m.vRandom[m.mapInfo[x].nRandomPos] = x
        BY <3>2 DEF Sane, Ordered
      <4>2. q.mapInfo[x].nRandomPos = m.mapInfo[x].nRandomPos
        BY <1>3, <3>2
      <4>3. m.mapInfo[x].nRandomPos \in 1..Len(q.vRandom)
        BY <1>1, <1>5, <4>1
      <4>4. q.vRandom[m.mapInfo[x].nRandomPos] = x
        BY <1>5, <4>1
      <4> QED
        BY <4>2, <4>3, <4>4
    <3> QED
      BY <1>3, <3>1, <3>2
  <2>2. ASSUME NEW p \in 1..Len(q.vRandom)
        PROVE  q.vRandom[p] \in DOMAIN q.mapInfo /\ q.mapInfo[q.vRandom[p]].nRandomPos = p
    <3>1. CASE p = Len(m.vRandom) + 1
      BY <1>1, <1>3, <1>5, <3>1
    <3>2. CASE p \in 1..Len(m.vRandom)
      <4>1. m.vRandom[p] \in DOMAIN m.mapInfo /\ m.mapInfo[m.vRandom[p]].nRandomPos = p
        BY <3>2 DEF Sane, Ordered
      <4> QED
        BY <1>3, <1>5, <3>2, <4>1
    <3> QED
      BY <1>1, <1>5, <3>1, <3>2
  <2> QED
    BY <2>1, <2>2 DEF Ordered
<1>9. \A t \in NewSlots : m.vvNew[t] # id
  BY <1>1, <1>2 DEF Sane, NewOk, None
<1> QED
  BY <1>1, <1>2, <1>3, <1>6, <1>7, <1>8, <1>9 DEF id

(* An entry that comes with no place.                                      *)
LEMMA EntersNew ==
  ASSUME NEW m, Sane(m), NEW e \in Entries, e.nRandomPos = Len(m.vRandom) + 1,
         Ip[e.addr] \notin DOMAIN m.mapAddr, ~e.fInTried, e.nRefCount = 0,
         NEW q \in Tables, Enters(m, q, e), q.vvNew = m.vvNew, q.vvTried = m.vvTried
  PROVE  /\ Sane(q) /\ Lost(q) = Lost(m) \cup {m.nIdCount}
         /\ TriedIds(q) = TriedIds(m) /\ UntriedIds(q) = UntriedIds(m) \cup {m.nIdCount}
<1> DEFINE id == m.nIdCount
<1>1. /\ Indexed(q) /\ Ordered(q) /\ id \notin DOMAIN m.mapInfo
      /\ DOMAIN q.mapInfo = DOMAIN m.mapInfo \cup {id} /\ q.mapInfo[id] = e
      /\ \A x \in DOMAIN m.mapInfo : q.mapInfo[x] = m.mapInfo[x]
      /\ \A t \in NewSlots : m.vvNew[t] # id
  BY EntersFacts
<1> HIDE DEF id
<1>2. \A x : Holders(q, x) = Holders(m, x)
  BY DEF Holders
<1>3. Cardinality(Holders(m, id)) = 0
  <2>1. Holders(m, id) = {}
    BY <1>1 DEF Holders
  <2> QED
    BY <2>1, FS_EmptySet
<1>4. NewOk(q)
  BY <1>1, <1>2, <1>3 DEF Sane, NewOk
<1>5. TriedOk(q)
  BY <1>1 DEF Sane, TriedOk
<1>6. Lost(q) = Lost(m) \cup {id}
  BY <1>1 DEF Lost
<1>7. TriedIds(q) = TriedIds(m) /\ UntriedIds(q) = UntriedIds(m) \cup {id}
  BY <1>1 DEF TriedIds, UntriedIds
<1> QED
  BY <1>1, <1>4, <1>5, <1>6, <1>7 DEF Sane, id

(* A new entry, then e, gets one more place, which is free and its own.    *)
Links(m, q, id, t, e) ==
  /\ id \in UntriedIds(m) /\ t \in NewSlots /\ m.vvNew[t] = None /\ Slot(m.mapInfo[id].addr, t[1]) = t
  /\ e \in Entries /\ Kin(e, m.mapInfo[id]) /\ e.nRandomPos = m.mapInfo[id].nRandomPos
  /\ e.nRefCount = m.mapInfo[id].nRefCount + 1
  /\ q \in Tables /\ Updates(m, q, id, e) /\ q.vvTried = m.vvTried
  /\ q.vvNew[t] = id /\ \A u \in NewSlots \ {t} : q.vvNew[u] = m.vvNew[u]

LEMMA LinkFacts ==
  ASSUME NEW m, Sane(m), NEW q, NEW id, NEW t, NEW e, Links(m, q, id, t, e)
  PROVE  /\ Sane(q) /\ Lost(q) = Lost(m) \ {id} /\ DOMAIN q.mapInfo = DOMAIN m.mapInfo
         /\ TriedIds(q) = TriedIds(m) /\ UntriedIds(q) = UntriedIds(m)
         /\ \A x \in DOMAIN m.mapInfo : Kin(q.mapInfo[x], m.mapInfo[x])
         /\ \A x \in DOMAIN m.mapInfo \ {id} : q.mapInfo[x] = m.mapInfo[x]
         /\ q.mapInfo[id].nRefCount = m.mapInfo[id].nRefCount + 1
<1>1. /\ m.mapInfo \in [DOMAIN m.mapInfo -> Entries] /\ DOMAIN m.mapInfo \subseteq Nat
      /\ m.vvNew \in [NewSlots -> Int]
  BY TablesFacts DEF Sane
<1> USE DEF Links
<1>2. id \in DOMAIN m.mapInfo /\ ~m.mapInfo[id].fInTried /\ m.mapInfo[id] \in Entries /\ id \in Nat
  BY <1>1 DEF UntriedIds, TriedIds
<1>3. /\ e \in Entries /\ e.addr = m.mapInfo[id].addr /\ e.nRandomPos = m.mapInfo[id].nRandomPos
      /\ e.source = m.mapInfo[id].source /\ e.fInTried = m.mapInfo[id].fInTried
      /\ e.success = m.mapInfo[id].success /\ e.nRefCount = m.mapInfo[id].nRefCount + 1
  BY DEF Kin
<1>5. /\ Indexed(q) /\ Ordered(q) /\ DOMAIN q.mapInfo = DOMAIN m.mapInfo /\ q.mapInfo[id] = e
      /\ \A x \in DOMAIN m.mapInfo \ {id} : q.mapInfo[x] = m.mapInfo[x]
  BY <1>2, <1>3, UpdateFacts
<1>6. NewOk(q)
  <2>1. Holders(q, id) = Holders(m, id) \cup {t} /\ t \notin Holders(m, id)
    BY <1>1, <1>2 DEF Holders, None
  <2>2. Cardinality(Holders(q, id)) = Cardinality(Holders(m, id)) + 1
    <3>1. IsFiniteSet(Holders(m, id))
      BY HoldersFinite
    <3> HIDE DEF Links
    <3> QED
      BY <2>1, <3>1, FS_AddElement
  <2>3. \A x \in DOMAIN m.mapInfo \ {id} : Holders(q, x) = Holders(m, x)
    BY <1>1 DEF Holders, None
  <2>4. \A x \in DOMAIN q.mapInfo : q.mapInfo[x].nRefCount = Cardinality(Holders(q, x))
    BY <1>2, <1>3, <1>5, <2>2, <2>3 DEF Sane, NewOk
  <2>5. ASSUME NEW u \in NewSlots, q.vvNew[u] # None
        PROVE  /\ q.vvNew[u] \in DOMAIN q.mapInfo /\ ~q.mapInfo[q.vvNew[u]].fInTried
               /\ Slot(q.mapInfo[q.vvNew[u]].addr, u[1]) = u
    <3>1. CASE u = t
      BY <1>1, <1>2, <1>3, <1>5, <3>1
    <3>2. CASE u # t
      <4>1. q.vvNew[u] = m.vvNew[u]
        BY <1>1, <3>2
      <4>2. /\ m.vvNew[u] \in DOMAIN m.mapInfo /\ ~m.mapInfo[m.vvNew[u]].fInTried
            /\ Slot(m.mapInfo[m.vvNew[u]].addr, u[1]) = u
        BY <2>5, <4>1 DEF Sane, NewOk
      <4> QED
        BY <1>3, <1>5, <4>1, <4>2
    <3> QED
      BY <3>1, <3>2
  <2> QED
    BY <2>4, <2>5 DEF NewOk
<1>7. TriedOk(q)
  BY <1>2, <1>3, <1>5 DEF Sane, TriedOk
<1>8. m.mapInfo[id].nRefCount \in Nat
  BY <1>2, HoldersFinite DEF Sane, NewOk
<1>9. e.nRefCount # 0
  BY <1>3, <1>8
<1>10. Lost(q) = Lost(m) \ {id}
  BY <1>2, <1>5, <1>9 DEF Lost
<1>11. TriedIds(q) = TriedIds(m) /\ UntriedIds(q) = UntriedIds(m)
  BY <1>2, <1>3, <1>5 DEF TriedIds, UntriedIds
<1>12. \A x \in DOMAIN m.mapInfo : Kin(q.mapInfo[x], m.mapInfo[x])
  BY <1>3, <1>5 DEF Kin
<1> QED
  BY <1>3, <1>5, <1>6, <1>7, <1>10, <1>11, <1>12 DEF Sane

(* What the operations must keep: the addresses of the tried entries.      *)
Remembers(m, q) == \A x \in TriedIds(m) : Ip[m.mapInfo[x].addr] \in DOMAIN q.mapAddr

(* Entries that stay are remembered.                                       *)
LEMMA RemembersStay ==
  ASSUME NEW m, NEW q, Sane(q), TriedIds(m) \subseteq DOMAIN q.mapInfo,
         \A x \in TriedIds(m) : q.mapInfo[x].addr = m.mapInfo[x].addr
  PROVE  Remembers(m, q)
BY DEF Sane, Indexed, Remembers

(* No entry has more than n places.                                        *)
AtMost(m, n) == \A x \in DOMAIN m.mapInfo : m.mapInfo[x].nRefCount <= n

(* The place of an announcement is one of the entry's own.                 *)
LEMMA SlotFacts ==
  ASSUME NEW a \in Services, NEW b \in NewBuckets
  PROVE  Slot(a, b) \in NewSlots /\ Slot(a, Slot(a, b)[1]) = Slot(a, b) /\ Slot(a, b)[1] = b
BY AddrManAssumption DEF Slot, NewSlots

(* Place: the entry that may lack a place gets one or is forgotten.        *)
LEMMA PlaceFacts ==
  ASSUME NEW m, Sane(m), NEW id \in UntriedIds(m), NEW s \in Sources, NEW terrible \in BOOLEAN,
         Lost(m) \subseteq {id}
  PROVE  LET q == Place(m, id, s, terrible)
         IN  /\ Sane(q) /\ Lost(q) = {} /\ Remembers(m, q) /\ q.nIdCount = m.nIdCount
             /\ Tallied(m, 0) => Tallied(q, 0)
             /\ \A n \in Int : AtMost(m, n) /\ m.mapInfo[id].nRefCount < n => AtMost(q, n)
<1> DEFINE q == Place(m, id, s, terrible)
           a == m.mapInfo[id].addr
           t == Slot(a, NewBucket[a][s])
<1>0. /\ m.mapInfo \in [DOMAIN m.mapInfo -> Entries] /\ DOMAIN m.mapInfo \subseteq Nat
      /\ m.vvNew \in [NewSlots -> Int] /\ m \in Tables
  BY TablesFacts DEF Sane
<1>1. id \in DOMAIN m.mapInfo /\ ~m.mapInfo[id].fInTried /\ a \in Services
  BY <1>0 DEF UntriedIds, TriedIds, Entries
<1>2. NewBucket[a][s] \in NewBuckets
  BY <1>1, AddrManAssumption
<1>3. t \in NewSlots /\ Slot(a, t[1]) = t
  <2> DEFINE b == NewBucket[a][s]
  <2>1. a \in Services /\ b \in NewBuckets /\ t = Slot(a, b)
    BY <1>1, <1>2
  <2> HIDE DEF a, b, t
  <2> QED
    BY <2>1, SlotFacts
<1>4. \/ m.vvNew[t] = id /\ q = m
      \/ m.vvNew[t] # id /\ q = [ClearNew(m, t) EXCEPT !.mapInfo[id].nRefCount = @ + 1, !.vvNew[t] = id]
      \/ m.vvNew[t] # id /\ m.mapInfo[id].nRefCount = 0 /\ q = Delete(m, id)
      \/ m.mapInfo[id].nRefCount # 0 /\ q = m
  BY Zenon DEF Place
<1>5. m.mapInfo[id].nRefCount # 0 => Lost(m) = {}
  BY DEF Lost
<1> HIDE DEF q, a, t
<1>6. CASE q = m /\ m.mapInfo[id].nRefCount # 0
  <2>1. Remembers(m, m)
    BY RemembersStay DEF TriedIds
  <2> QED
    BY <1>5, <1>6, <2>1 DEF q
<1>7. CASE m.vvNew[t] = id /\ q = m
  <2>1. t \in Holders(m, id)
    BY <1>3, <1>7 DEF Holders
  <2>2. m.mapInfo[id].nRefCount # 0
    BY <1>1, <2>1, HoldersFinite DEF Sane, NewOk
  <2> QED
    BY <1>6, <1>7, <2>2
<1>8. CASE m.mapInfo[id].nRefCount = 0 /\ q = Delete(m, id)
  <2>1. id \in Lost(m)
    BY <1>1, <1>8 DEF Lost
  <2>2. Sane(q) /\ Shrunk(m, q) /\ Lost(q) = Lost(m) \ {id}
    BY <1>8, <2>1, DeleteFacts, DeleteShrinks
  <2>3. Remembers(m, q)
    BY <2>2, RemembersStay DEF Shrunk, Kin
  <2>4. ASSUME NEW n \in Int, AtMost(m, n) PROVE AtMost(q, n)
    <3>1. ASSUME NEW x \in DOMAIN q.mapInfo PROVE q.mapInfo[x].nRefCount <= n
      <4>1. x \in DOMAIN m.mapInfo /\ q.mapInfo[x].nRefCount <= m.mapInfo[x].nRefCount
            /\ m.mapInfo[x].nRefCount <= n
        BY <2>2, <2>4 DEF Shrunk, AtMost
      <4>2. q.mapInfo[x].nRefCount \in Int /\ m.mapInfo[x].nRefCount \in Int
        BY <2>2, <4>1, TablesFacts DEF Sane, Entries
      <4> QED
        BY <4>1, <4>2
    <3> QED
      BY <3>1 DEF AtMost
  <2> QED
    BY <2>2, <2>3, <2>4 DEF Shrunk, q
<1>9. CASE m.vvNew[t] # id /\ q = [ClearNew(m, t) EXCEPT !.mapInfo[id].nRefCount = @ + 1, !.vvNew[t] = id]
  <2> DEFINE w == ClearNew(m, t)
  <2>1. /\ Sane(w) /\ Shrunk(m, w) /\ Lost(w) = Lost(m) /\ w.vvNew = [m.vvNew EXCEPT ![t] = None]
        /\ id \in DOMAIN w.mapInfo
    BY <1>1, <1>3, <1>9, ClearNewFacts
  <2>2. q = [w EXCEPT !.mapInfo[id].nRefCount = @ + 1, !.vvNew[t] = id]
    BY <1>9
  <2> HIDE DEF w
  <2>3. w.mapInfo[id].addr = a /\ ~w.mapInfo[id].fInTried
    BY <1>1, <2>1 DEF Shrunk, Kin, a
  <2>4. id \in UntriedIds(w) /\ w.vvNew[t] = None /\ Slot(w.mapInfo[id].addr, t[1]) = t
    BY <1>0, <1>3, <2>1, <2>3 DEF UntriedIds, TriedIds
  <2>5. w \in Tables /\ w.mapInfo \in [DOMAIN w.mapInfo -> Entries] /\ w.vvNew \in [NewSlots -> Int] /\ id \in Nat
    BY <1>0, <1>1, <2>1, TablesFacts DEF Sane
  <2> DEFINE e == [w.mapInfo[id] EXCEPT !.nRefCount = w.mapInfo[id].nRefCount + 1]
             new == [w.vvNew EXCEPT ![t] = id]
  <2>6. /\ q \in Tables /\ Updates(w, q, id, e) /\ q.vvNew = new
        /\ q.vvTried = w.vvTried /\ q.nNew = w.nNew /\ q.nTried = w.nTried
    <3> DEFINE info == [w.mapInfo EXCEPT ![id] = e]
    <3>1. e \in Entries
      BY <2>1, <2>5 DEF Entries
    <3>2. info \in InfoMaps
      <4> HIDE DEF e
      <4> QED
        BY <2>1, <2>5, <3>1, InfoUpdate
    <3>3. new \in [NewSlots -> Int]
      <4>1. id \in Int
        BY <2>5
      <4> QED
        BY <2>5, <4>1
    <3>4. q = [w EXCEPT !.mapInfo = info, !.vvNew = new]
      BY <2>2, <2>5 DEF Tables
    <3> HIDE DEF info, new
    <3> QED
      BY <2>5, <3>2, <3>3, <3>4 DEF Tables, Updates, info
  <2>7. /\ Sane(q) /\ Lost(q) = Lost(w) \ {id} /\ DOMAIN q.mapInfo = DOMAIN w.mapInfo
        /\ TriedIds(q) = TriedIds(w) /\ UntriedIds(q) = UntriedIds(w)
        /\ \A x \in DOMAIN w.mapInfo : Kin(q.mapInfo[x], w.mapInfo[x])
        /\ \A x \in DOMAIN w.mapInfo \ {id} : q.mapInfo[x] = w.mapInfo[x]
        /\ q.mapInfo[id].nRefCount = w.mapInfo[id].nRefCount + 1
    <3>1. /\ e \in Entries /\ Kin(e, w.mapInfo[id]) /\ e.nRandomPos = w.mapInfo[id].nRandomPos
          /\ e.nRefCount = w.mapInfo[id].nRefCount + 1
      BY <2>1, <2>5, <2>6 DEF Entries, Kin
    <3>2. q.vvNew[t] = id /\ \A u \in NewSlots \ {t} : q.vvNew[u] = w.vvNew[u]
      BY <1>3, <2>5, <2>6
    <3>3. q \in Tables /\ Updates(w, q, id, e) /\ q.vvTried = w.vvTried
      BY <2>6
    <3> HIDE DEF e
    <3>4. Links(w, q, id, t, e)
      BY <1>3, <2>4, <3>1, <3>2, <3>3 DEF Links
    <3> QED
      BY <2>1, <3>4, LinkFacts
  <2>8. Remembers(m, q)
    <3>1. TriedIds(m) \subseteq DOMAIN q.mapInfo
      BY <2>1, <2>7 DEF Shrunk
    <3>2. \A x \in TriedIds(m) : q.mapInfo[x].addr = m.mapInfo[x].addr
      BY <2>1, <2>7 DEF Shrunk, Kin
    <3> QED
      BY <2>7, <3>1, <3>2, RemembersStay
  <2>9. Tallied(m, 0) => Tallied(q, 0)
    <3>1. Tallied(m, 0) => Tallied(w, 0)
      BY <2>1 DEF Shrunk
    <3> QED
      BY <2>6, <2>7, <3>1 DEF Tallied
  <2>10. ASSUME NEW n \in Int, AtMost(m, n), m.mapInfo[id].nRefCount < n PROVE AtMost(q, n)
    <3>1. ASSUME NEW x \in DOMAIN q.mapInfo PROVE q.mapInfo[x].nRefCount <= n
      <4>1. x \in DOMAIN w.mapInfo /\ x \in DOMAIN m.mapInfo /\ w.mapInfo[x].nRefCount <= m.mapInfo[x].nRefCount
            /\ m.mapInfo[x].nRefCount <= n
        BY <2>1, <2>7, <2>10 DEF Shrunk, AtMost
      <4>2. w.mapInfo[x].nRefCount \in Int /\ m.mapInfo[x].nRefCount \in Int
        BY <1>0, <2>5, <4>1 DEF Entries
      <4> QED
        BY <2>7, <2>10, <4>1, <4>2
    <3> QED
      BY <3>1 DEF AtMost
  <2>11. q.nIdCount = m.nIdCount
    BY <2>1, <2>6 DEF Updates, Shrunk
  <2> QED
    BY <2>1, <2>7, <2>8, <2>9, <2>10, <2>11 DEF q
<1> QED
  BY <1>4, <1>6, <1>7, <1>8, <1>9

-----------------------------------------------------------------------------
(* Entries of the same service with the same history.                      *)
Same(m, q) == \A x \in DOMAIN q.mapInfo :
  /\ x \in DOMAIN m.mapInfo /\ q.mapInfo[x].addr = m.mapInfo[x].addr
  /\ q.mapInfo[x].source = m.mapInfo[x].source /\ q.mapInfo[x].success = m.mapInfo[x].success

(* MakeTried, first part: the entry leaves all its places.                 *)
LEMMA LeaveNewFacts ==
  ASSUME NEW m, Sane(m), NEW id \in UntriedIds(m)
  PROVE  LET q == LeaveNew(m, id)
         IN  /\ Sane(q) /\ Lost(q) = Lost(m) \cup {id} /\ DOMAIN q.mapInfo = DOMAIN m.mapInfo
             /\ Same(m, q) /\ TriedIds(q) = TriedIds(m)
             /\ q.vvTried = m.vvTried /\ q.nIdCount = m.nIdCount
             /\ Tallied(m, 0) => Tallied(q, 1)
             /\ \A n \in Nat : AtMost(m, n) => AtMost(q, n)
<1> DEFINE q == LeaveNew(m, id)
           slots == Holders(m, id)
           e == [m.mapInfo[id] EXCEPT !.nRefCount = m.mapInfo[id].nRefCount - Cardinality(slots)]
           new == [t \in NewSlots |-> IF t \in slots THEN None ELSE m.vvNew[t]]
           info == [m.mapInfo EXCEPT ![id] = e]
<1>0. /\ m.mapInfo \in [DOMAIN m.mapInfo -> Entries] /\ DOMAIN m.mapInfo \subseteq Nat
      /\ m.vvNew \in [NewSlots -> Int] /\ m \in Tables /\ m.nNew \in Int /\ m.nTried \in Int
  BY TablesFacts DEF Sane
<1>1. id \in DOMAIN m.mapInfo /\ ~m.mapInfo[id].fInTried /\ m.mapInfo[id] \in Entries /\ id \in Nat
  BY <1>0 DEF UntriedIds, TriedIds
<1>2. NewSlotsOf(m, id) = slots
  <2>1. ASSUME NEW t \in NewSlots, m.vvNew[t] = id
        PROVE  t[1] \in NewBuckets /\ Slot(m.mapInfo[id].addr, t[1]) = t
    <3>1. id # None
      BY <1>1 DEF None
    <3> QED
      BY <2>1, <3>1 DEF Sane, NewOk, NewSlots
  <2>2. ASSUME NEW b \in NewBuckets PROVE Slot(m.mapInfo[id].addr, b) \in NewSlots
    BY <1>1, SlotFacts DEF Entries
  <2> QED
    BY <2>1, <2>2 DEF NewSlotsOf, Holders
<1>3. /\ Cardinality(slots) \in Nat /\ m.mapInfo[id].nRefCount = Cardinality(slots)
  BY <1>1, HoldersFinite DEF Sane, NewOk
<1>4. /\ e \in Entries /\ Kin(e, m.mapInfo[id]) /\ e.nRandomPos = m.mapInfo[id].nRandomPos /\ e.nRefCount = 0
  <2> HIDE DEF slots
  <2> QED
    BY <1>1, <1>3 DEF Entries, Kin
<1>5. q = [m EXCEPT !.vvNew = new, !.mapInfo = info, !.nNew = m.nNew - 1]
  <2>1. q = [m EXCEPT !.vvNew = [t \in NewSlots |-> IF t \in slots THEN None ELSE @[t]],
                      !.mapInfo[id].nRefCount = @ - Cardinality(slots), !.nNew = @ - 1]
    BY <1>2 DEF LeaveNew
  <2> HIDE DEF slots, q
  <2> QED
    BY <1>0, <2>1 DEF Tables
<1>6. new \in [NewSlots -> Int]
  BY <1>0 DEF None
<1> HIDE DEF slots, e, q
<1>7. info \in InfoMaps
  BY <1>0, <1>1, <1>4, InfoUpdate
<1>8. m.nNew - 1 \in Int
  BY <1>0
<1>9. /\ q \in Tables /\ Updates(m, q, id, e) /\ q.vvNew = new /\ q.vvTried = m.vvTried
      /\ q.nNew = m.nNew - 1 /\ q.nTried = m.nTried
  <2> HIDE DEF info, new
  <2> QED
    BY <1>0, <1>5, <1>6, <1>7, <1>8 DEF Tables, Updates, info
<1> HIDE DEF info, new
<1>10. /\ Indexed(q) /\ Ordered(q) /\ DOMAIN q.mapInfo = DOMAIN m.mapInfo /\ q.mapInfo[id] = e
       /\ \A x \in DOMAIN m.mapInfo \ {id} : q.mapInfo[x] = m.mapInfo[x]
  BY <1>1, <1>4, <1>9, UpdateFacts DEF Kin
<1>11. NewOk(q)
  <2>1. Holders(q, id) = {}
    BY <1>1, <1>9 DEF Holders, new, slots, None
  <2>2. Cardinality(Holders(q, id)) = 0
    BY <2>1, FS_EmptySet
  <2>3. \A x \in DOMAIN m.mapInfo \ {id} : Holders(q, x) = Holders(m, x)
    BY <1>0, <1>9 DEF Holders, new, slots, None
  <2>4. \A x \in DOMAIN q.mapInfo : q.mapInfo[x].nRefCount = Cardinality(Holders(q, x))
    BY <1>4, <1>10, <2>2, <2>3 DEF Sane, NewOk
  <2>5. ASSUME NEW u \in NewSlots, q.vvNew[u] # None
        PROVE  /\ q.vvNew[u] \in DOMAIN q.mapInfo /\ ~q.mapInfo[q.vvNew[u]].fInTried
               /\ Slot(q.mapInfo[q.vvNew[u]].addr, u[1]) = u
    <3>1. q.vvNew[u] = m.vvNew[u] /\ m.vvNew[u] # id
      BY <1>9, <2>5 DEF new, slots, Holders
    <3>2. /\ m.vvNew[u] \in DOMAIN m.mapInfo /\ ~m.mapInfo[m.vvNew[u]].fInTried
          /\ Slot(m.mapInfo[m.vvNew[u]].addr, u[1]) = u
      BY <2>5, <3>1 DEF Sane, NewOk
    <3> QED
      BY <1>10, <3>1, <3>2
  <2> QED
    BY <2>4, <2>5 DEF NewOk
<1>12. TriedOk(q)
  BY <1>1, <1>4, <1>9, <1>10 DEF Sane, TriedOk, Kin
<1>13. Lost(q) = Lost(m) \cup {id}
  BY <1>1, <1>4, <1>10 DEF Lost, Kin
<1>14. TriedIds(q) = TriedIds(m) /\ UntriedIds(q) = UntriedIds(m)
  BY <1>1, <1>4, <1>10 DEF TriedIds, UntriedIds, Kin
<1>15. Tallied(m, 0) => Tallied(q, 1)
  BY <1>0, <1>9, <1>14 DEF Tallied
<1>16. ASSUME NEW n \in Nat, AtMost(m, n) PROVE AtMost(q, n)
  BY <1>4, <1>10, <1>16 DEF AtMost
<1>17. Same(m, q)
  BY <1>4, <1>10 DEF Same, Kin
<1>18. q.nIdCount = m.nIdCount
  BY <1>9 DEF Updates
<1> QED
  BY <1>9, <1>10, <1>11, <1>12, <1>13, <1>14, <1>15, <1>16, <1>17, <1>18 DEF Sane, q

(* The occupant of a tried place leaves it.                                *)
Untry(m, id, t) ==
  [m EXCEPT !.mapInfo[id].fInTried = FALSE, !.vvTried[t] = None, !.nTried = @ - 1]

Unties(m, id, t, q) ==
  /\ Sane(m) /\ t \in TriedSlots /\ id = m.vvTried[t] /\ id # None /\ q = Untry(m, id, t)

LEMMA UntryKeeps ==
  ASSUME NEW m, NEW id, NEW t, NEW q, Unties(m, id, t, q)
  PROVE  /\ Sane(q) /\ Lost(q) = Lost(m) \cup {id} /\ DOMAIN q.mapInfo = DOMAIN m.mapInfo
         /\ id \in TriedIds(m) /\ TriedIds(q) = TriedIds(m) \ {id} /\ id \in UntriedIds(q) /\ Same(m, q)
         /\ q.vvTried = [m.vvTried EXCEPT ![t] = None] /\ q.vvNew = m.vvNew /\ q.nIdCount = m.nIdCount
         /\ q.mapInfo[id].nRefCount = 0
         /\ \A k \in Int : Tallied(m, k) => Tallied(q, k + 1)
         /\ \A n \in Nat : AtMost(m, n) => AtMost(q, n)
<1> DEFINE e == [m.mapInfo[id] EXCEPT !.fInTried = FALSE]
           tried == [m.vvTried EXCEPT ![t] = None]
           info == [m.mapInfo EXCEPT ![id] = e]
<1>20. Sane(m)
  BY DEF Unties
<1>21. t \in TriedSlots /\ id = m.vvTried[t] /\ id # None
  BY DEF Unties
<1>22. q = Untry(m, id, t)
  BY DEF Unties
<1>0. /\ m.mapInfo \in [DOMAIN m.mapInfo -> Entries] /\ DOMAIN m.mapInfo \subseteq Nat
      /\ m.vvTried \in [TriedSlots -> Int] /\ m \in Tables /\ m.nNew \in Int /\ m.nTried \in Int
  BY <1>20, TablesFacts DEF Sane
<1>1. /\ id \in DOMAIN m.mapInfo /\ m.mapInfo[id].fInTried /\ m.mapInfo[id] \in Entries /\ id \in Nat
      /\ TriedSlot[m.mapInfo[id].addr] = t
  BY <1>0, <1>20, <1>21 DEF Sane, TriedOk
<1>2. /\ e \in Entries /\ e.addr = m.mapInfo[id].addr /\ e.source = m.mapInfo[id].source
      /\ e.success = m.mapInfo[id].success /\ e.nRandomPos = m.mapInfo[id].nRandomPos
      /\ e.nRefCount = m.mapInfo[id].nRefCount /\ e.fInTried = FALSE
  BY <1>1 DEF Entries
<1>3. tried \in [TriedSlots -> Int]
  BY <1>0, <1>21 DEF None
<1>4. q = [m EXCEPT !.mapInfo = info, !.vvTried = tried, !.nTried = m.nTried - 1]
  BY <1>0, <1>22 DEF Tables, Untry
<1> HIDE DEF e
<1>5. info \in InfoMaps
  BY <1>0, <1>1, <1>2, InfoUpdate
<1>6. m.nTried - 1 \in Int
  BY <1>0
<1>7. /\ q \in Tables /\ Updates(m, q, id, e) /\ q.vvNew = m.vvNew /\ q.vvTried = tried
      /\ q.nNew = m.nNew /\ q.nTried = m.nTried - 1
  <2> HIDE DEF info, tried
  <2> QED
    BY <1>0, <1>3, <1>4, <1>5, <1>6 DEF Tables, Updates, info
<1>8. /\ Indexed(q) /\ Ordered(q) /\ DOMAIN q.mapInfo = DOMAIN m.mapInfo /\ q.mapInfo[id] = e
      /\ \A x \in DOMAIN m.mapInfo \ {id} : q.mapInfo[x] = m.mapInfo[x]
  <2> HIDE DEF info, tried
  <2> QED
    BY <1>1, <1>2, <1>7, <1>20, UpdateFacts
<1>23. \A x \in DOMAIN m.mapInfo :
          /\ q.mapInfo[x].nRefCount = m.mapInfo[x].nRefCount
          /\ q.mapInfo[x].fInTried <=> (x # id /\ m.mapInfo[x].fInTried)
  BY <1>1, <1>2, <1>8
<1>9. \A x : Holders(q, x) = Holders(m, x)
  BY <1>7 DEF Holders
<1>10. \A u \in NewSlots : m.vvNew[u] # id
  <2>1. \A u \in NewSlots : m.vvNew[u] # None => ~m.mapInfo[m.vvNew[u]].fInTried
    BY <1>20 DEF Sane, NewOk
  <2> QED
    BY <1>1, <1>21, <2>1
<1>11. NewOk(q)
  <2>1. \A x \in DOMAIN m.mapInfo : m.mapInfo[x].nRefCount = Cardinality(Holders(m, x))
    BY <1>20 DEF Sane, NewOk
  <2>2. \A x \in DOMAIN q.mapInfo : q.mapInfo[x].nRefCount = Cardinality(Holders(q, x))
    BY <1>8, <1>9, <1>23, <2>1
  <2>3. ASSUME NEW u \in NewSlots, q.vvNew[u] # None
        PROVE  /\ q.vvNew[u] \in DOMAIN q.mapInfo /\ ~q.mapInfo[q.vvNew[u]].fInTried
               /\ Slot(q.mapInfo[q.vvNew[u]].addr, u[1]) = u
    <3>1. q.vvNew[u] = m.vvNew[u] /\ m.vvNew[u] # None /\ m.vvNew[u] # id
      BY <1>7, <1>10, <2>3
    <3>2. /\ m.vvNew[u] \in DOMAIN m.mapInfo /\ ~m.mapInfo[m.vvNew[u]].fInTried
          /\ Slot(m.mapInfo[m.vvNew[u]].addr, u[1]) = u
      BY <1>20, <3>1 DEF Sane, NewOk
    <3>3. q.mapInfo[m.vvNew[u]] = m.mapInfo[m.vvNew[u]]
      BY <1>8, <3>1, <3>2
    <3> QED
      BY <1>8, <3>1, <3>2, <3>3
  <2> QED
    BY <2>2, <2>3, Zenon DEF NewOk
<1>12. TriedOk(q)
  <2>1. \A u \in TriedSlots \ {t} : q.vvTried[u] = m.vvTried[u]
    BY <1>0, <1>7, <1>21
  <2>2. q.vvTried[t] = None
    BY <1>0, <1>7, <1>21
  <2>3. ASSUME NEW u \in TriedSlots, q.vvTried[u] # None
        PROVE  /\ q.vvTried[u] \in DOMAIN q.mapInfo /\ q.mapInfo[q.vvTried[u]].fInTried
               /\ TriedSlot[q.mapInfo[q.vvTried[u]].addr] = u
    <3>1. u # t /\ q.vvTried[u] = m.vvTried[u] /\ m.vvTried[u] # None
      BY <2>1, <2>2, <2>3
    <3>2. /\ m.vvTried[u] \in DOMAIN m.mapInfo /\ m.mapInfo[m.vvTried[u]].fInTried
          /\ TriedSlot[m.mapInfo[m.vvTried[u]].addr] = u
      BY <1>20, <3>1 DEF Sane, TriedOk
    <3>3. m.vvTried[u] # id
      BY <1>1, <3>1, <3>2
    <3> QED
      BY <1>8, <3>1, <3>2, <3>3
  <2>4. ASSUME NEW x \in DOMAIN q.mapInfo, q.mapInfo[x].fInTried
        PROVE  q.vvTried[TriedSlot[q.mapInfo[x].addr]] = x /\ q.mapInfo[x].success
    <3>1. x # id /\ x \in DOMAIN m.mapInfo /\ q.mapInfo[x] = m.mapInfo[x]
      BY <1>2, <1>8, <2>4
    <3>2. m.vvTried[TriedSlot[m.mapInfo[x].addr]] = x /\ m.mapInfo[x].success
      BY <1>20, <2>4, <3>1 DEF Sane, TriedOk
    <3>3. TriedSlot[m.mapInfo[x].addr] \in TriedSlots
      <4>1. m.mapInfo[x].addr \in Services
        BY <1>0, <3>1 DEF Entries
      <4> QED
        BY <4>1, HashesTyped
    <3>4. TriedSlot[m.mapInfo[x].addr] # t
      BY <1>21, <3>1, <3>2
    <3>5. q.vvTried[TriedSlot[m.mapInfo[x].addr]] = x
      BY <2>1, <3>2, <3>3, <3>4
    <3> QED
      BY <3>1, <3>2, <3>5
  <2> QED
    BY <2>3, <2>4, Zenon DEF TriedOk
<1>13. m.mapInfo[id].nRefCount = 0
  <2>1. Holders(m, id) = {}
    BY <1>10 DEF Holders
  <2> QED
    BY <1>1, <1>20, <2>1, FS_EmptySet DEF Sane, NewOk
<1>14. Lost(q) = Lost(m) \cup {id}
  BY <1>1, <1>8, <1>13, <1>23 DEF Lost
<1>15. /\ TriedIds(q) = TriedIds(m) \ {id} /\ id \in TriedIds(m) /\ UntriedIds(q) = UntriedIds(m) \cup {id}
       /\ id \notin UntriedIds(m)
  BY <1>1, <1>8, <1>23 DEF TriedIds, UntriedIds
<1>16. ASSUME NEW k \in Int, Tallied(m, k) PROVE Tallied(q, k + 1)
  <2>1. Cardinality(TriedIds(q)) = Cardinality(TriedIds(m)) - 1
    <3>1. IsFiniteSet(TriedIds(m))
      BY <1>20, IdsFinite
    <3>2. Cardinality(TriedIds(m) \ {id}) = Cardinality(TriedIds(m)) - 1
      BY <1>15, <3>1, FS_RemoveElement
    <3> QED
      BY <1>15, <3>2
  <2>2. Cardinality(UntriedIds(q)) = Cardinality(UntriedIds(m)) + 1
    <3>1. IsFiniteSet(UntriedIds(m))
      BY <1>20, IdsFinite
    <3> QED
      BY <1>15, <3>1, FS_AddElement
  <2> QED
    BY <1>0, <1>7, <1>16, <1>20, <2>1, <2>2, IdsFinite DEF Tallied
<1>17. ASSUME NEW n \in Nat, AtMost(m, n) PROVE AtMost(q, n)
  BY <1>8, <1>17, <1>23 DEF AtMost
<1>18. Same(m, q)
  BY <1>2, <1>8 DEF Same
<1>19. q.nIdCount = m.nIdCount /\ q.mapInfo[id].nRefCount = 0
  <2>1. q.nIdCount = m.nIdCount
    BY <1>7 DEF Updates
  <2>2. q.mapInfo[id].nRefCount = 0
    BY <1>1, <1>13, <1>23
  <2> QED
    BY <2>1, <2>2
<1> QED
  BY <1>7, <1>8, <1>11, <1>12, <1>14, <1>15, <1>16, <1>17, <1>18, <1>19, Zenon DEF Sane

LEMMA UntryFacts ==
  ASSUME NEW m, Sane(m), NEW t \in TriedSlots, NEW id, id = m.vvTried[t], id # None,
         NEW q, q = Untry(m, id, t)
  PROVE  /\ Sane(q) /\ Lost(q) = Lost(m) \cup {id} /\ DOMAIN q.mapInfo = DOMAIN m.mapInfo
         /\ id \in TriedIds(m) /\ TriedIds(q) = TriedIds(m) \ {id} /\ id \in UntriedIds(q) /\ Same(m, q)
         /\ q.vvTried = [m.vvTried EXCEPT ![t] = None] /\ q.vvNew = m.vvNew /\ q.nIdCount = m.nIdCount
         /\ q.mapInfo[id].nRefCount = 0
         /\ \A k \in Int : Tallied(m, k) => Tallied(q, k + 1)
         /\ \A n \in Nat : AtMost(m, n) => AtMost(q, n)
BY UntryKeeps DEF Unties

(* An entry without a place gets the free place of the tried table.        *)
Try(m, id, t) ==
  [m EXCEPT !.vvTried[t] = id, !.nTried = @ + 1, !.mapInfo[id].fInTried = TRUE]

Tries(m, id, t, q) ==
  /\ Sane(m) /\ id \in Lost(m) /\ m.mapInfo[id].success
  /\ t = TriedSlot[m.mapInfo[id].addr] /\ m.vvTried[t] = None /\ q = Try(m, id, t)

LEMMA TryKeeps ==
  ASSUME NEW m, NEW id, NEW t, NEW q, Tries(m, id, t, q)
  PROVE  /\ Sane(q) /\ Lost(q) = Lost(m) \ {id} /\ DOMAIN q.mapInfo = DOMAIN m.mapInfo
         /\ Same(m, q) /\ q.nIdCount = m.nIdCount
         /\ \A k \in Int : Tallied(m, k) => Tallied(q, k - 1)
         /\ \A n \in Nat : AtMost(m, n) => AtMost(q, n)
<1> DEFINE e == [m.mapInfo[id] EXCEPT !.fInTried = TRUE]
           tried == [m.vvTried EXCEPT ![t] = id]
           info == [m.mapInfo EXCEPT ![id] = e]
<1>20. Sane(m)
  BY DEF Tries
<1>21. id \in Lost(m) /\ m.mapInfo[id].success
  BY DEF Tries
<1>22. t = TriedSlot[m.mapInfo[id].addr] /\ m.vvTried[t] = None
  BY DEF Tries
<1>23. q = Try(m, id, t)
  BY DEF Tries
<1>0. /\ m.mapInfo \in [DOMAIN m.mapInfo -> Entries] /\ DOMAIN m.mapInfo \subseteq Nat
      /\ m.vvTried \in [TriedSlots -> Int] /\ m \in Tables /\ m.nNew \in Int /\ m.nTried \in Int
  BY <1>20, TablesFacts DEF Sane
<1>1. /\ id \in DOMAIN m.mapInfo /\ ~m.mapInfo[id].fInTried /\ m.mapInfo[id].nRefCount = 0
      /\ m.mapInfo[id] \in Entries /\ id \in Nat /\ id \in Int /\ id # None
  BY <1>0, <1>21 DEF Lost, None
<1>2. t \in TriedSlots
  <2>1. m.mapInfo[id].addr \in Services
    BY <1>1 DEF Entries
  <2> QED
    BY <1>22, <2>1, HashesTyped
<1>3. /\ e \in Entries /\ e.addr = m.mapInfo[id].addr /\ e.source = m.mapInfo[id].source
      /\ e.success = m.mapInfo[id].success /\ e.nRandomPos = m.mapInfo[id].nRandomPos
      /\ e.nRefCount = m.mapInfo[id].nRefCount /\ e.fInTried = TRUE
  BY <1>1 DEF Entries
<1>4. tried \in [TriedSlots -> Int]
  BY <1>0, <1>1
<1>5. q = [m EXCEPT !.vvTried = tried, !.nTried = m.nTried + 1, !.mapInfo = info]
  BY <1>0, <1>23 DEF Tables, Try
<1> HIDE DEF e
<1>6. info \in InfoMaps
  BY <1>0, <1>1, <1>3, InfoUpdate
<1>7. m.nTried + 1 \in Int
  BY <1>0
<1>8. /\ q \in Tables /\ Updates(m, q, id, e) /\ q.vvNew = m.vvNew /\ q.vvTried = tried
      /\ q.nNew = m.nNew /\ q.nTried = m.nTried + 1
  <2> HIDE DEF info, tried
  <2> QED
    BY <1>0, <1>4, <1>5, <1>6, <1>7 DEF Tables, Updates, info
<1>17. q.vvTried[t] = id /\ \A u \in TriedSlots \ {t} : q.vvTried[u] = m.vvTried[u]
  BY <1>0, <1>2, <1>8
<1> HIDE DEF info, tried
<1>9. /\ Indexed(q) /\ Ordered(q) /\ DOMAIN q.mapInfo = DOMAIN m.mapInfo /\ q.mapInfo[id] = e
      /\ \A x \in DOMAIN m.mapInfo \ {id} : q.mapInfo[x] = m.mapInfo[x]
  BY <1>1, <1>3, <1>8, <1>20, UpdateFacts
<1>18. \A x \in DOMAIN m.mapInfo :
          /\ q.mapInfo[x].nRefCount = m.mapInfo[x].nRefCount
          /\ q.mapInfo[x].fInTried <=> (x = id \/ m.mapInfo[x].fInTried)
  BY <1>1, <1>3, <1>9
<1>10. NewOk(q)
  <2>1. \A x : Holders(q, x) = Holders(m, x)
    BY <1>8 DEF Holders
  <2>2. Holders(m, id) = {}
    BY <1>1, <1>20, HoldersFinite DEF Sane, NewOk
  <2>3. \A u \in NewSlots : m.vvNew[u] # id
    BY <2>2 DEF Holders
  <2> QED
    <3>1. \A x \in DOMAIN q.mapInfo : q.mapInfo[x].nRefCount = Cardinality(Holders(q, x))
      <4>1. \A x \in DOMAIN m.mapInfo : m.mapInfo[x].nRefCount = Cardinality(Holders(m, x))
        BY <1>20 DEF Sane, NewOk
      <4> QED
        BY <1>9, <1>18, <2>1, <4>1
    <3>2. ASSUME NEW u \in NewSlots, q.vvNew[u] # None
          PROVE  /\ q.vvNew[u] \in DOMAIN q.mapInfo /\ ~q.mapInfo[q.vvNew[u]].fInTried
                 /\ Slot(q.mapInfo[q.vvNew[u]].addr, u[1]) = u
      <4>1. q.vvNew[u] = m.vvNew[u] /\ m.vvNew[u] # None /\ m.vvNew[u] # id
        BY <1>8, <2>3, <3>2
      <4>2. /\ m.vvNew[u] \in DOMAIN m.mapInfo /\ ~m.mapInfo[m.vvNew[u]].fInTried
            /\ Slot(m.mapInfo[m.vvNew[u]].addr, u[1]) = u
        BY <1>20, <4>1 DEF Sane, NewOk
      <4>3. q.mapInfo[m.vvNew[u]] = m.mapInfo[m.vvNew[u]]
        BY <1>9, <4>1, <4>2
      <4> QED
        BY <1>9, <4>1, <4>2, <4>3
    <3> QED
      BY <3>1, <3>2, Zenon DEF NewOk
<1>11. TriedOk(q)
  <2>1. q.vvTried[t] = id /\ \A u \in TriedSlots \ {t} : q.vvTried[u] = m.vvTried[u]
    BY <1>17
  <2>2. ASSUME NEW u \in TriedSlots, q.vvTried[u] # None
        PROVE  /\ q.vvTried[u] \in DOMAIN q.mapInfo /\ q.mapInfo[q.vvTried[u]].fInTried
               /\ TriedSlot[q.mapInfo[q.vvTried[u]].addr] = u
    <3>1. CASE u = t
      <4>1. q.vvTried[u] = id /\ q.mapInfo[id].fInTried = TRUE /\ q.mapInfo[id].addr = m.mapInfo[id].addr
        BY <1>3, <1>9, <2>1, <3>1
      <4> QED
        <5>1. TriedSlot[q.mapInfo[q.vvTried[u]].addr] = TriedSlot[m.mapInfo[id].addr]
          BY <4>1
        <5> QED
          BY <1>1, <1>9, <1>22, <3>1, <4>1, <5>1
    <3>2. CASE u # t
      <4>1. q.vvTried[u] = m.vvTried[u] /\ m.vvTried[u] # None
        BY <2>1, <2>2, <3>2
      <4>2. /\ m.vvTried[u] \in DOMAIN m.mapInfo /\ m.mapInfo[m.vvTried[u]].fInTried
            /\ TriedSlot[m.mapInfo[m.vvTried[u]].addr] = u
        BY <1>20, <4>1 DEF Sane, TriedOk
      <4>3. m.vvTried[u] # id
        BY <1>1, <4>2
      <4>4. q.mapInfo[m.vvTried[u]] = m.mapInfo[m.vvTried[u]]
        BY <1>9, <4>2, <4>3
      <4> QED
        BY <1>9, <4>1, <4>2, <4>4
    <3> QED
      BY <3>1, <3>2, Zenon
  <2>3. ASSUME NEW x \in DOMAIN q.mapInfo, q.mapInfo[x].fInTried
        PROVE  q.vvTried[TriedSlot[q.mapInfo[x].addr]] = x /\ q.mapInfo[x].success
    <3>1. CASE x = id
      <4>1. q.mapInfo[id].addr = m.mapInfo[id].addr /\ q.mapInfo[id].success = m.mapInfo[id].success
        BY <1>3, <1>9
      <4>2. q.vvTried[TriedSlot[q.mapInfo[id].addr]] = id
        BY <1>22, <2>1, <4>1
      <4>3. q.mapInfo[id].success
        BY <1>21, <4>1
      <4> QED
        BY <3>1, <4>2, <4>3
    <3>2. CASE x # id
      <4>1. x \in DOMAIN m.mapInfo /\ q.mapInfo[x] = m.mapInfo[x] /\ x # None
        BY <1>0, <1>9, <3>2 DEF None
      <4>2. m.vvTried[TriedSlot[m.mapInfo[x].addr]] = x /\ m.mapInfo[x].success
        BY <1>20, <2>3, <4>1 DEF Sane, TriedOk
      <4>3. TriedSlot[m.mapInfo[x].addr] \in TriedSlots
        <5>1. m.mapInfo[x].addr \in Services
          BY <1>0, <4>1 DEF Entries
        <5> QED
          BY <5>1, HashesTyped
      <4>4. TriedSlot[m.mapInfo[x].addr] # t
        BY <1>22, <4>1, <4>2
      <4>5. q.vvTried[TriedSlot[m.mapInfo[x].addr]] = x
        BY <2>1, <4>2, <4>3, <4>4
      <4> QED
        BY <4>1, <4>2, <4>5
    <3> QED
      BY <3>1, <3>2, Zenon
  <2> QED
    BY <2>2, <2>3, Zenon DEF TriedOk
<1>12. Lost(q) = Lost(m) \ {id}
  BY <1>1, <1>9, <1>18 DEF Lost
<1>13. /\ TriedIds(q) = TriedIds(m) \cup {id} /\ id \notin TriedIds(m)
       /\ UntriedIds(q) = UntriedIds(m) \ {id} /\ id \in UntriedIds(m)
  BY <1>1, <1>9, <1>18 DEF TriedIds, UntriedIds
<1>14. ASSUME NEW k \in Int, Tallied(m, k) PROVE Tallied(q, k - 1)
  <2>1. Cardinality(TriedIds(q)) = Cardinality(TriedIds(m)) + 1
    BY <1>13, <1>20, IdsFinite, FS_AddElement
  <2>2. Cardinality(UntriedIds(q)) = Cardinality(UntriedIds(m)) - 1
    BY <1>13, <1>20, IdsFinite, FS_RemoveElement
  <2> QED
    BY <1>0, <1>8, <1>14, <1>20, <2>1, <2>2, IdsFinite DEF Tallied
<1>15. ASSUME NEW n \in Nat, AtMost(m, n) PROVE AtMost(q, n)
  BY <1>9, <1>15, <1>18 DEF AtMost
<1>16. Same(m, q) /\ q.nIdCount = m.nIdCount
  <2>1. \A x \in DOMAIN m.mapInfo : /\ q.mapInfo[x].addr = m.mapInfo[x].addr
                                     /\ q.mapInfo[x].source = m.mapInfo[x].source
                                     /\ q.mapInfo[x].success = m.mapInfo[x].success
    BY <1>3, <1>9
  <2>2. q.nIdCount = m.nIdCount
    BY <1>8 DEF Updates
  <2> QED
    BY <1>9, <2>1, <2>2 DEF Same
<1> QED
  BY <1>8, <1>9, <1>10, <1>11, <1>12, <1>14, <1>15, <1>16, Zenon DEF Sane

LEMMA TryFacts ==
  ASSUME NEW m, Sane(m), NEW id \in Lost(m), m.mapInfo[id].success, NEW t, t = TriedSlot[m.mapInfo[id].addr],
         m.vvTried[t] = None, NEW q, q = Try(m, id, t)
  PROVE  /\ Sane(q) /\ Lost(q) = Lost(m) \ {id} /\ DOMAIN q.mapInfo = DOMAIN m.mapInfo
         /\ Same(m, q) /\ q.nIdCount = m.nIdCount
         /\ \A k \in Int : Tallied(m, k) => Tallied(q, k - 1)
         /\ \A n \in Nat : AtMost(m, n) => AtMost(q, n)
BY TryKeeps DEF Tries

(* Fewer places stay within any bound.                                     *)
LEMMA ShrunkAtMost ==
  ASSUME NEW m, Sane(m), NEW q, Sane(q), Shrunk(m, q), NEW n \in Int, AtMost(m, n)
  PROVE  AtMost(q, n)
<1>1. ASSUME NEW x \in DOMAIN q.mapInfo PROVE q.mapInfo[x].nRefCount <= n
  <2>1. x \in DOMAIN m.mapInfo /\ q.mapInfo[x].nRefCount <= m.mapInfo[x].nRefCount /\ m.mapInfo[x].nRefCount <= n
    BY DEF Shrunk, AtMost
  <2>2. q.mapInfo[x].nRefCount \in Int /\ m.mapInfo[x].nRefCount \in Int
    BY <2>1, TablesFacts DEF Sane, Entries
  <2> QED
    BY <2>1, <2>2
<1> QED
  BY <1>1 DEF AtMost

(* MakeTried, second part: the tried place is freed, and its occupant goes *)
(* back among the new entries.                                             *)
LEMMA EvictFacts ==
  ASSUME NEW m, Sane(m), NEW t \in TriedSlots
  PROVE  LET q == Evict(m, t)
         IN  /\ Sane(q) /\ Lost(q) = Lost(m) /\ Same(m, q) /\ TriedIds(m) \subseteq DOMAIN q.mapInfo
             /\ q.vvTried[t] = None /\ q.nIdCount = m.nIdCount
             /\ \A k \in Int : Tallied(m, k) => Tallied(q, k)
             /\ \A n \in Nat \ {0} : AtMost(m, n) => AtMost(q, n)
<1> DEFINE q == Evict(m, t)
           id == m.vvTried[t]
<1>0. /\ m.mapInfo \in [DOMAIN m.mapInfo -> Entries] /\ DOMAIN m.mapInfo \subseteq Nat
      /\ m.vvTried \in [TriedSlots -> Int]
  BY TablesFacts DEF Sane
<1>1. CASE id = None
  <2>1. q = m
    BY <1>1 DEF Evict
  <2>2. Same(m, m) /\ TriedIds(m) \subseteq DOMAIN m.mapInfo
    BY DEF Same, TriedIds
  <2> HIDE DEF q
  <2> QED
    BY <1>1, <2>1, <2>2 DEF q
<1>2. CASE id # None
  <2> DEFINE a == m.mapInfo[id].addr
             nt == Slot(a, NewBucket[a][m.mapInfo[id].source])
             w == Untry(m, id, t)
             v == ClearNew(w, nt)
  <2>1. id \in DOMAIN m.mapInfo /\ m.mapInfo[id].fInTried /\ id \in Nat
    BY <1>0, <1>2 DEF Sane, TriedOk
  <2>2. a \in Services /\ NewBucket[a][m.mapInfo[id].source] \in NewBuckets
    BY <1>0, <2>1, AddrManAssumption DEF Entries
  <2>3. nt \in NewSlots /\ Slot(a, nt[1]) = nt
    <3> DEFINE b == NewBucket[a][m.mapInfo[id].source]
    <3>1. a \in Services /\ b \in NewBuckets /\ nt = Slot(a, b)
      BY <2>2, Zenon
    <3> HIDE DEF a, b, nt
    <3> QED
      BY <3>1, SlotFacts
  <2>4. q = [v EXCEPT !.mapInfo[id].nRefCount = 1, !.vvNew[nt] = id, !.nNew = @ + 1]
    BY <1>2 DEF Evict, Untry
  <2> HIDE DEF id
  <2>5. id = m.vvTried[t]
    BY DEF id
  <2>6. w = Untry(m, id, t)
    OBVIOUS
  <2>7. v = ClearNew(w, nt)
    OBVIOUS
  <2> HIDE DEF q, w, v, nt
  <2>8. /\ Sane(w) /\ Lost(w) = Lost(m) \cup {id} /\ DOMAIN w.mapInfo = DOMAIN m.mapInfo
        /\ id \in TriedIds(m) /\ TriedIds(w) = TriedIds(m) \ {id} /\ id \in UntriedIds(w) /\ Same(m, w)
        /\ w.vvTried = [m.vvTried EXCEPT ![t] = None] /\ w.vvNew = m.vvNew /\ w.nIdCount = m.nIdCount
        /\ w.mapInfo[id].nRefCount = 0
        /\ \A k \in Int : Tallied(m, k) => Tallied(w, k + 1)
        /\ \A n \in Nat : AtMost(m, n) => AtMost(w, n)
    BY <1>2, <2>5, <2>6, UntryFacts
  <2>9. /\ Sane(v) /\ Shrunk(w, v) /\ Lost(v) = Lost(w) /\ v.vvNew = [w.vvNew EXCEPT ![nt] = None]
    BY <2>3, <2>7, <2>8, ClearNewFacts
  <2>10. id \in DOMAIN v.mapInfo /\ ~v.mapInfo[id].fInTried /\ v.mapInfo[id].nRefCount = 0
    BY <2>8, <2>9 DEF Lost
  <2>11. /\ v \in Tables /\ v.mapInfo \in [DOMAIN v.mapInfo -> Entries] /\ v.vvNew \in [NewSlots -> Int]
         /\ v.nNew \in Int /\ v.nTried \in Int
    BY <2>9, TablesFacts DEF Sane
  <2>12. w.vvNew \in [NewSlots -> Int]
    BY <2>8, TablesFacts DEF Sane
  <2>13. v.vvNew[nt] = None
    BY <2>3, <2>9, <2>12
  <2>14. v.mapInfo[id].addr = a /\ Same(m, v)
    BY <2>8, <2>9, <2>10 DEF Same, Shrunk, Kin
  <2> DEFINE e == [v.mapInfo[id] EXCEPT !.nRefCount = 1]
             new == [v.vvNew EXCEPT ![nt] = id]
             info == [v.mapInfo EXCEPT ![id] = e]
  <2>15. /\ e \in Entries /\ Kin(e, v.mapInfo[id]) /\ e.nRandomPos = v.mapInfo[id].nRandomPos
         /\ e.nRefCount = 1
    BY <2>10, <2>11 DEF Entries, Kin
  <2>16. q = [v EXCEPT !.mapInfo = info, !.vvNew = new, !.nNew = v.nNew + 1]
    BY <2>4, <2>11 DEF Tables
  <2>17. new \in [NewSlots -> Int] /\ v.nNew + 1 \in Int
    <3>1. id \in Int
      BY <2>1
    <3>2. new \in [NewSlots -> Int]
      BY <2>11, <3>1
    <3> QED
      BY <2>11, <3>2
  <2>18. new[nt] = id /\ \A u \in NewSlots \ {nt} : new[u] = v.vvNew[u]
    BY <2>3, <2>11
  <2> HIDE DEF e, new
  <2>19. info \in InfoMaps
    BY <2>10, <2>11, <2>15, InfoUpdate
  <2>20. /\ q \in Tables /\ Updates(v, q, id, e) /\ q.vvNew = new /\ q.vvTried = v.vvTried
         /\ q.nNew = v.nNew + 1 /\ q.nTried = v.nTried
    <3> HIDE DEF info
    <3> QED
      BY <2>11, <2>16, <2>17, <2>19 DEF Tables, Updates, info
  <2> HIDE DEF info
  <2>21. id \in UntriedIds(v)
    BY <2>10 DEF UntriedIds, TriedIds
  <2>22. Links(v, q, id, nt, e)
    BY <2>3, <2>10, <2>13, <2>14, <2>15, <2>18, <2>20, <2>21 DEF Links
  <2>23. /\ Sane(q) /\ Lost(q) = Lost(v) \ {id} /\ DOMAIN q.mapInfo = DOMAIN v.mapInfo
         /\ TriedIds(q) = TriedIds(v) /\ UntriedIds(q) = UntriedIds(v)
         /\ \A x \in DOMAIN v.mapInfo : Kin(q.mapInfo[x], v.mapInfo[x])
         /\ \A x \in DOMAIN v.mapInfo \ {id} : q.mapInfo[x] = v.mapInfo[x]
         /\ q.mapInfo[id].nRefCount = v.mapInfo[id].nRefCount + 1
    BY <2>9, <2>22, LinkFacts
  <2>24. Lost(q) = Lost(m)
    <3>1. id \notin Lost(m)
      BY <2>1 DEF Lost
    <3> QED
      BY <2>8, <2>9, <2>23, <3>1
  <2>25. Same(m, q)
    BY <2>14, <2>23 DEF Same, Kin
  <2>26. TriedIds(m) \subseteq DOMAIN q.mapInfo
    BY <2>8, <2>9, <2>10, <2>23 DEF Shrunk
  <2>27. q.vvTried[t] = None /\ q.nIdCount = m.nIdCount
    BY <1>0, <2>8, <2>9, <2>20 DEF Shrunk, Updates
  <2>28. ASSUME NEW k \in Int, Tallied(m, k) PROVE Tallied(q, k)
    <3>1. k + 1 \in Int
      OBVIOUS
    <3>2. Tallied(v, k + 1)
      BY <2>8, <2>9, <2>28, <3>1 DEF Shrunk
    <3> QED
      BY <2>11, <2>20, <2>23, <3>2 DEF Tallied
  <2>29. ASSUME NEW n \in Nat \ {0}, AtMost(m, n) PROVE AtMost(q, n)
    <3>1. AtMost(v, n)
      BY <2>8, <2>9, <2>29, ShrunkAtMost
    <3> QED
      BY <2>10, <2>23, <2>29, <3>1 DEF AtMost
  <2> QED
    BY <2>23, <2>24, <2>25, <2>26, <2>27, <2>28, <2>29 DEF q
<1> QED
  BY <1>1, <1>2

(* MakeTried() of a new entry that was reached.                            *)
LEMMA MakeTriedFacts ==
  ASSUME NEW m, Sane(m), NEW id \in UntriedIds(m), m.mapInfo[id].success, Lost(m) = {}
  PROVE  LET q == MakeTried(m, id)
         IN  /\ Sane(q) /\ Lost(q) = {} /\ Remembers(m, q) /\ q.nIdCount = m.nIdCount
             /\ Tallied(m, 0) => Tallied(q, 0)
             /\ \A n \in Nat \ {0} : AtMost(m, n) => AtMost(q, n)
<1> DEFINE t == TriedSlot[m.mapInfo[id].addr]
           w == LeaveNew(m, id)
           v == Evict(w, t)
           q == MakeTried(m, id)
<1>0. m.mapInfo \in [DOMAIN m.mapInfo -> Entries] /\ id \in DOMAIN m.mapInfo
  BY TablesFacts DEF Sane, UntriedIds
<1>1. t \in TriedSlots
  BY <1>0, AddrManAssumption DEF Entries
<1>2. q = Try(v, id, t)
  BY DEF MakeTried, Try
<1>3. /\ Sane(w) /\ Lost(w) = {id} /\ DOMAIN w.mapInfo = DOMAIN m.mapInfo
      /\ Same(m, w) /\ TriedIds(w) = TriedIds(m)
      /\ w.nIdCount = m.nIdCount
      /\ Tallied(m, 0) => Tallied(w, 1)
      /\ \A n \in Nat : AtMost(m, n) => AtMost(w, n)
  BY LeaveNewFacts
<1> HIDE DEF w
<1>4. /\ Sane(v) /\ Lost(v) = Lost(w) /\ Same(w, v) /\ TriedIds(w) \subseteq DOMAIN v.mapInfo
      /\ v.vvTried[t] = None /\ v.nIdCount = w.nIdCount
      /\ \A k \in Int : Tallied(w, k) => Tallied(v, k)
      /\ \A n \in Nat \ {0} : AtMost(w, n) => AtMost(v, n)
  <2> HIDE DEF t
  <2> QED
    BY <1>1, <1>3, EvictFacts
<1> HIDE DEF v
<1>5. id \in Lost(v) /\ id \in DOMAIN v.mapInfo
  BY <1>3, <1>4 DEF Lost
<1>6. v.mapInfo[id].success /\ t = TriedSlot[v.mapInfo[id].addr]
  <2>1. v.mapInfo[id].success = m.mapInfo[id].success /\ v.mapInfo[id].addr = m.mapInfo[id].addr
    BY <1>3, <1>4, <1>5 DEF Same
  <2> QED
    BY <2>1
<1> HIDE DEF q, t
<1>7. /\ Sane(q) /\ Lost(q) = Lost(v) \ {id} /\ DOMAIN q.mapInfo = DOMAIN v.mapInfo
      /\ Same(v, q) /\ q.nIdCount = v.nIdCount
      /\ \A k \in Int : Tallied(v, k) => Tallied(q, k - 1)
      /\ \A n \in Nat : AtMost(v, n) => AtMost(q, n)
  BY <1>2, <1>4, <1>5, <1>6, TryFacts
<1>8. Lost(q) = {}
  BY <1>3, <1>4, <1>7
<1>9. Remembers(m, q)
  <2>1. TriedIds(m) \subseteq DOMAIN q.mapInfo
    BY <1>3, <1>4, <1>7
  <2>2. \A x \in TriedIds(m) : q.mapInfo[x].addr = m.mapInfo[x].addr
    BY <1>3, <1>4, <1>7, <2>1 DEF Same
  <2> QED
    BY <1>7, <2>1, <2>2, RemembersStay
<1>10. Tallied(m, 0) => Tallied(q, 0)
  <2>1. Tallied(m, 0) => Tallied(v, 1)
    BY <1>3, <1>4
  <2>2. Tallied(v, 1) => Tallied(q, 1 - 1)
    BY <1>7
  <2> QED
    BY <2>1, <2>2
<1>11. ASSUME NEW n \in Nat \ {0}, AtMost(m, n) PROVE AtMost(q, n)
  BY <1>3, <1>4, <1>7, <1>11
<1> QED
  BY <1>3, <1>4, <1>7, <1>8, <1>9, <1>10, <1>11 DEF q

-----------------------------------------------------------------------------
(* What every operation establishes of the tables it leaves.               *)
Sound(m) == Sane(m) /\ Lost(m) = {} /\ Tallied(m, 0) /\ AtMost(m, MaxRefs)

(* A fresh entry, and one with some of its fields set.                     *)
LEMMA InfoFacts ==
  ASSUME NEW a \in Services, NEW s \in Sources
  PROVE  /\ Info(a, s) \in Entries /\ Info(a, s).addr = a /\ Info(a, s).source = s
         /\ Info(a, s).nRefCount = 0 /\ Info(a, s).fInTried = FALSE
<1>1. Info(a, s) \in Entries
  BY DEF Info, Entries
<1>2. Info(a, s).addr = a /\ Info(a, s).source = s /\ Info(a, s).nRefCount = 0
  BY DEF Info
<1>3. Info(a, s).fInTried = FALSE
  BY DEF Info
<1> QED
  BY <1>1, <1>2, <1>3

LEMMA EntryFacts ==
  ASSUME NEW e \in Entries, NEW k \in Nat, NEW f, f = [e EXCEPT !.nRandomPos = k]
  PROVE  /\ f \in Entries /\ f.addr = e.addr /\ f.source = e.source
         /\ f.nRandomPos = k /\ f.nRefCount = e.nRefCount /\ f.fInTried = e.fInTried
<1>1. /\ f \in Entries /\ f.addr = e.addr /\ f.source = e.source
      /\ f.nRandomPos = k /\ f.nRefCount = e.nRefCount
  BY DEF Entries
<1>2. f.fInTried = e.fInTried
  BY DEF Entries
<1> QED
  BY <1>1, <1>2

(* Create(): the entry waits for its place.                                *)
LEMMA CreateFacts ==
  ASSUME NEW m, Sound(m), NEW a \in Services, NEW s \in Sources, ~Known(m, a)
  PROVE  LET q == Create(m, a, s)
         IN  /\ Sane(q) /\ Lost(q) = {m.nIdCount} /\ Tallied(q, 0) /\ AtMost(q, MaxRefs)
             /\ m.nIdCount \in UntriedIds(q) /\ q.mapInfo[m.nIdCount].nRefCount = 0
             /\ TriedIds(q) = TriedIds(m) /\ \A x \in TriedIds(m) : q.mapInfo[x].addr = m.mapInfo[x].addr
             /\ q.nIdCount = m.nIdCount + 1
<1> DEFINE q == Create(m, a, s)
           id == m.nIdCount
           e == [Info(a, s) EXCEPT !.nRandomPos = Len(m.vRandom) + 1]
           info == Put(m.mapInfo, id, e)
           addr == Put(m.mapAddr, Ip[a], id)
           random == Append(m.vRandom, id)
<1>0. m \in Tables /\ Len(m.vRandom) \in Nat /\ id \in Nat /\ m.nNew \in Int /\ m.nTried \in Int /\ Sane(m)
  BY TablesFacts DEF Sound, Sane
<1>1. /\ e \in Entries /\ e.nRandomPos = Len(m.vRandom) + 1 /\ e.addr = a /\ ~e.fInTried /\ e.nRefCount = 0
  <2>1. Len(m.vRandom) + 1 \in Nat
    BY <1>0
  <2> DEFINE k == Len(m.vRandom) + 1
             base == Info(a, s)
  <2>2. e = [base EXCEPT !.nRandomPos = k] /\ k \in Nat
    BY <2>1
  <2>3. base \in Entries /\ base.addr = a /\ base.nRefCount = 0 /\ base.fInTried = FALSE
    BY InfoFacts
  <2> HIDE DEF e, k, base
  <2>4. e \in Entries /\ e.nRandomPos = k /\ e.addr = a /\ e.fInTried = FALSE /\ e.nRefCount = 0
    BY <2>2, <2>3, EntryFacts
  <2> QED
    BY <2>4 DEF k
<1>2. q = [m EXCEPT !.nIdCount = id + 1, !.mapInfo = info, !.mapAddr = addr, !.vRandom = random, !.nNew = m.nNew + 1]
  BY <1>0 DEF Create, Tables
<1> HIDE DEF e
<1>3. info \in InfoMaps /\ addr \in AddrMaps /\ random \in Seq(Nat) /\ id + 1 \in Nat
  BY <1>0, <1>1, EntersTables
<1>4. m.nNew + 1 \in Int
  BY <1>0
<1>5. /\ q \in Tables /\ Enters(m, q, e) /\ q.vvNew = m.vvNew /\ q.vvTried = m.vvTried
      /\ q.nNew = m.nNew + 1 /\ q.nTried = m.nTried
  <2>1. /\ q.mapInfo = info /\ q.mapAddr = addr /\ q.vRandom = random /\ q.nIdCount = id + 1
        /\ q.vvNew = m.vvNew /\ q.vvTried = m.vvTried /\ q.nNew = m.nNew + 1 /\ q.nTried = m.nTried
    <3> HIDE DEF info, addr, random, q
    <3> QED
      BY <1>0, <1>2 DEF Tables
  <2>2. q \in Tables
    <3> HIDE DEF info, addr, random, id, q
    <3> QED
      BY <1>0, <1>2, <1>3, <1>4 DEF Tables
  <2> HIDE DEF q
  <2> QED
    BY <1>1, <2>1, <2>2 DEF Enters
<1> HIDE DEF q, info, addr, random
<1>6. Ip[e.addr] \notin DOMAIN m.mapAddr
  BY <1>1 DEF Known
<1>7. /\ Sane(q) /\ Lost(q) = Lost(m) \cup {id}
      /\ TriedIds(q) = TriedIds(m) /\ UntriedIds(q) = UntriedIds(m) \cup {id}
  BY <1>0, <1>1, <1>5, <1>6, EntersNew
<1>8. /\ id \notin DOMAIN m.mapInfo /\ DOMAIN q.mapInfo = DOMAIN m.mapInfo \cup {id} /\ q.mapInfo[id] = e
      /\ \A x \in DOMAIN m.mapInfo : q.mapInfo[x] = m.mapInfo[x]
      /\ q.nIdCount = id + 1
  BY <1>0, <1>1, <1>5, <1>6, EntersFacts
<1>9. Tallied(q, 0)
  <2>1. IsFiniteSet(UntriedIds(m)) /\ id \notin UntriedIds(m) /\ Cardinality(UntriedIds(m)) \in Nat
    BY <1>0, <1>8, IdsFinite DEF UntriedIds
  <2>2. Cardinality(UntriedIds(q)) = Cardinality(UntriedIds(m)) + 1
    <3> HIDE DEF id
    <3> QED
      BY <1>7, <2>1, FS_AddElement
  <2> QED
    BY <1>0, <1>5, <1>7, <2>1, <2>2 DEF Tallied, Sound
<1>10. AtMost(q, MaxRefs)
  BY <1>1, <1>8, AddrManAssumption DEF AtMost, Sound
<1>11. \A x \in TriedIds(m) : q.mapInfo[x].addr = m.mapInfo[x].addr
  BY <1>8 DEF TriedIds
<1>12. Lost(q) = {id} /\ id \in UntriedIds(q) /\ q.mapInfo[id].nRefCount = 0
  BY <1>1, <1>7, <1>8 DEF Sound
<1> QED
  BY <1>7, <1>8, <1>9, <1>10, <1>11, <1>12 DEF q

(* Add keeps the tables sound and forgets no tried address, ...            *)
LEMMA AddSound ==
  ASSUME Sound(am), NEW a \in Services, NEW s \in Sources, AddAddr(a, s)
  PROVE  Sound(am') /\ Remembers(am, am') /\ (am'.nIdCount = am.nIdCount \/ am'.nIdCount <= MaxIds)
<1>1. PICK terrible \in BOOLEAN :
        IF Known(am, a)
        THEN LET info == am.mapInfo[IdOf(am, a)]
             IN  ~info.fInTried /\ info.nRefCount # MaxRefs /\ am' = Place(am, IdOf(am, a), s, terrible)
        ELSE am.nIdCount < MaxIds /\ am' = Place(Create(am, a, s), am.nIdCount, s, terrible)
  BY DEF AddAddr
<1>2. am.nIdCount \in Nat /\ MaxIds \in Nat /\ MaxRefs \in Int /\ am.mapInfo \in [DOMAIN am.mapInfo -> Entries]
  BY TablesFacts, AddrManAssumption DEF Sound, Sane
<1>3. CASE Known(am, a)
  <2> DEFINE id == IdOf(am, a)
  <2>1. id \in DOMAIN am.mapInfo
    BY <1>3 DEF Known, IdOf, Sound, Sane, Indexed
  <2>2. ~am.mapInfo[id].fInTried /\ am.mapInfo[id].nRefCount # MaxRefs /\ am' = Place(am, id, s, terrible)
    BY <1>1, <1>3
  <2> HIDE DEF id
  <2>3. id \in UntriedIds(am)
    BY <2>1, <2>2 DEF UntriedIds, TriedIds
  <2>4. am.mapInfo[id].nRefCount < MaxRefs
    <3>1. am.mapInfo[id] \in Entries
      BY <1>2, <2>1
    <3>2. am.mapInfo[id].nRefCount \in Int
      BY <3>1 DEF Entries
    <3>3. am.mapInfo[id].nRefCount <= MaxRefs
      BY <2>1 DEF Sound, AtMost
    <3> QED
      BY <1>2, <2>2, <3>2, <3>3
  <2>5. /\ Sane(am') /\ Lost(am') = {} /\ Remembers(am, am') /\ am'.nIdCount = am.nIdCount
        /\ Tallied(am, 0) => Tallied(am', 0)
        /\ \A n \in Int : AtMost(am, n) /\ am.mapInfo[id].nRefCount < n => AtMost(am', n)
    BY <2>2, <2>3, PlaceFacts DEF Sound
  <2> QED
    BY <1>2, <2>4, <2>5 DEF Sound
<1>4. CASE ~Known(am, a)
  <2> DEFINE id == am.nIdCount
             w == Create(am, a, s)
  <2>1. am.nIdCount < MaxIds /\ am' = Place(w, id, s, terrible)
    BY <1>1, <1>4
  <2>2. /\ Sane(w) /\ Lost(w) = {id} /\ Tallied(w, 0) /\ AtMost(w, MaxRefs)
        /\ id \in UntriedIds(w) /\ w.mapInfo[id].nRefCount = 0
        /\ TriedIds(w) = TriedIds(am) /\ \A x \in TriedIds(am) : w.mapInfo[x].addr = am.mapInfo[x].addr
        /\ w.nIdCount = id + 1
    BY <1>4, CreateFacts
  <2> HIDE DEF id, w
  <2>3. /\ Sane(am') /\ Lost(am') = {} /\ Remembers(w, am') /\ am'.nIdCount = w.nIdCount
        /\ Tallied(w, 0) => Tallied(am', 0)
        /\ \A n \in Int : AtMost(w, n) /\ w.mapInfo[id].nRefCount < n => AtMost(am', n)
    BY <2>1, <2>2, PlaceFacts
  <2>4. AtMost(am', MaxRefs)
    BY <1>2, <2>2, <2>3, AddrManAssumption
  <2>5. Remembers(am, am')
    BY <2>2, <2>3 DEF Remembers
  <2>6. am'.nIdCount <= MaxIds
    BY <1>2, <2>1, <2>2, <2>3 DEF id
  <2> QED
    BY <2>2, <2>3, <2>4, <2>5, <2>6 DEF Sound
<1> QED
  BY <1>3, <1>4

(* ... and so does Good, first of which is that the entry succeeds.        *)
Succeeds(m, id) == [m EXCEPT !.mapInfo[id].success = TRUE]

LEMMA SuccessFacts ==
  ASSUME NEW m, Sound(m), NEW id \in DOMAIN m.mapInfo, NEW q, q = Succeeds(m, id)
  PROVE  /\ Sound(q) /\ DOMAIN q.mapInfo = DOMAIN m.mapInfo /\ q.mapInfo[id].success = TRUE
         /\ TriedIds(q) = TriedIds(m) /\ UntriedIds(q) = UntriedIds(m) /\ q.nIdCount = m.nIdCount
         /\ \A x \in DOMAIN m.mapInfo : q.mapInfo[x].addr = m.mapInfo[x].addr
<1> DEFINE e == [m.mapInfo[id] EXCEPT !.success = TRUE]
           info == [m.mapInfo EXCEPT ![id] = e]
<1>0. /\ m.mapInfo \in [DOMAIN m.mapInfo -> Entries] /\ DOMAIN m.mapInfo \subseteq Nat /\ m \in Tables /\ Sane(m)
  BY TablesFacts DEF Sound, Sane
<1>1. m.mapInfo[id] \in Entries
  BY <1>0
<1>2. /\ e \in Entries /\ e.addr = m.mapInfo[id].addr /\ e.source = m.mapInfo[id].source
      /\ e.nRandomPos = m.mapInfo[id].nRandomPos
      /\ e.nRefCount = m.mapInfo[id].nRefCount /\ e.success = TRUE
  BY <1>1 DEF Entries
<1>3. e.fInTried = m.mapInfo[id].fInTried
  BY <1>1 DEF Entries
<1>4. q = [m EXCEPT !.mapInfo = info]
  BY <1>0 DEF Tables, Succeeds
<1> HIDE DEF e
<1>5. info \in InfoMaps
  BY <1>0, <1>1, <1>2, InfoUpdate
<1>6. /\ q \in Tables /\ Updates(m, q, id, e) /\ q.vvNew = m.vvNew /\ q.vvTried = m.vvTried
      /\ q.nNew = m.nNew /\ q.nTried = m.nTried
  <2> HIDE DEF info
  <2> QED
    BY <1>0, <1>4, <1>5 DEF Tables, Updates, info
<1> HIDE DEF info
<1>7. /\ Indexed(q) /\ Ordered(q) /\ DOMAIN q.mapInfo = DOMAIN m.mapInfo /\ q.mapInfo[id] = e
      /\ \A x \in DOMAIN m.mapInfo \ {id} : q.mapInfo[x] = m.mapInfo[x]
  BY <1>0, <1>1, <1>2, <1>6, UpdateFacts
<1>8. \A x \in DOMAIN m.mapInfo :
         /\ q.mapInfo[x].addr = m.mapInfo[x].addr /\ q.mapInfo[x].fInTried = m.mapInfo[x].fInTried
         /\ q.mapInfo[x].nRefCount = m.mapInfo[x].nRefCount
  BY <1>2, <1>3, <1>7
<1>9. \A x \in DOMAIN m.mapInfo : m.mapInfo[x].success => q.mapInfo[x].success
  BY <1>2, <1>7
<1>10. \A x : Holders(q, x) = Holders(m, x)
  BY <1>6 DEF Holders
<1>11. NewOk(q)
  BY <1>0, <1>6, <1>7, <1>8, <1>10 DEF Sane, NewOk
<1>12. TriedOk(q)
  BY <1>0, <1>6, <1>7, <1>8, <1>9 DEF Sane, TriedOk
<1>13. TriedIds(q) = TriedIds(m) /\ UntriedIds(q) = UntriedIds(m) /\ Lost(q) = Lost(m)
  BY <1>7, <1>8 DEF TriedIds, UntriedIds, Lost
<1>14. AtMost(q, MaxRefs)
  BY <1>7, <1>8 DEF AtMost, Sound
<1>15. Sound(q)
  BY <1>6, <1>7, <1>11, <1>12, <1>13, <1>14 DEF Sound, Sane, Tallied
<1> QED
  BY <1>2, <1>6, <1>7, <1>8, <1>13, <1>15 DEF Updates

LEMMA GoodSound ==
  ASSUME Sound(am), NEW a \in Services, Good(a)
  PROVE  Sound(am') /\ Remembers(am, am') /\ am'.nIdCount = am.nIdCount
<1> DEFINE id == IdOf(am, a)
           m == Succeeds(am, id)
<1>1. id \in DOMAIN am.mapInfo
  BY DEF Good, Known, IdOf, Sound, Sane, Indexed
<1>2. am' = IF m.mapInfo[id].fInTried \/ NewSlotsOf(m, id) = {} THEN m ELSE MakeTried(m, id)
  BY DEF Good, Succeeds
<1> HIDE DEF m, id
<1>3. /\ Sound(m) /\ DOMAIN m.mapInfo = DOMAIN am.mapInfo /\ m.mapInfo[id].success = TRUE
      /\ TriedIds(m) = TriedIds(am) /\ UntriedIds(m) = UntriedIds(am) /\ m.nIdCount = am.nIdCount
      /\ \A x \in DOMAIN am.mapInfo : m.mapInfo[x].addr = am.mapInfo[x].addr
  BY <1>1, SuccessFacts DEF m
<1>4. Sane(m) /\ TriedIds(am) \subseteq DOMAIN am.mapInfo
  BY <1>3 DEF Sound, TriedIds
<1>5. CASE am' = m
  BY <1>3, <1>4, <1>5, RemembersStay
<1>6. CASE ~m.mapInfo[id].fInTried /\ am' = MakeTried(m, id)
  <2>1. id \in UntriedIds(m) /\ m.mapInfo[id].success /\ Lost(m) = {}
    BY <1>1, <1>3, <1>6 DEF UntriedIds, TriedIds, Sound
  <2>2. /\ Sane(am') /\ Lost(am') = {} /\ Remembers(m, am') /\ am'.nIdCount = m.nIdCount
        /\ Tallied(m, 0) => Tallied(am', 0)
        /\ \A n \in Nat \ {0} : AtMost(m, n) => AtMost(am', n)
    BY <1>4, <1>6, <2>1, MakeTriedFacts
  <2>3. Remembers(am, am')
    BY <1>3, <1>4, <2>2 DEF Remembers
  <2>4. MaxRefs \in Nat \ {0} /\ AtMost(m, MaxRefs) /\ Tallied(m, 0)
    BY <1>3, AddrManAssumption DEF Sound
  <2> QED
    BY <1>3, <2>2, <2>3, <2>4 DEF Sound
<1> QED
  BY <1>2, <1>5, <1>6

-----------------------------------------------------------------------------
(* A non-empty set of naturals has a least element.                        *)
LEMMA LeastNatural ==
  ASSUME NEW T \in SUBSET Nat, T # {}
  PROVE  \E x \in T : \A y \in T : x <= y
<1>1. PICK x \in T : \A y \in T : ~ (<<y, x>> \in OpToRel(<, Nat))
  BY WFMin, NatLessThanWellFounded, Zenon
<1>2. \A y \in T : ~ (y < x)
  BY <1>1 DEF OpToRel
<1>3. QED
  BY <1>2

(* Induction over the turns of a loop: a set that holds 0, and i whenever  *)
(* it holds i - 1, holds every number up to n.                             *)
LEMMA Climb ==
  ASSUME NEW n \in Nat, NEW P, 0 \in P, \A i \in 1..n : i - 1 \in P => i \in P
  PROVE  0..n \subseteq P
<1> DEFINE Missed == {i \in Nat : i \in 0..n /\ i \notin P}
<1>1. SUFFICES ASSUME Missed # {} PROVE FALSE
  OBVIOUS
<1>2. PICK i \in Missed : \A k \in Missed : i <= k
  <2>1. Missed \in SUBSET Nat
    OBVIOUS
  <2> HIDE DEF Missed
  <2>2. QED
    BY <1>1, <2>1, LeastNatural
<1>3. i \in 0..n /\ i \notin P /\ i # 0 
  BY <1>2
<1>4. i \in 1..n /\ i - 1 \in 0..n /\ i - 1 \in Nat
  BY <1>3
<1>5. i - 1 \notin Missed
  BY <1>2, <1>4
<1>6. QED
  BY <1>3, <1>4, <1>5

(* A loop whose turn i leads from S[i - 1] to S[i].                        *)
Stages(n, S, base, g) ==
  n \in Nat /\ base \in S[0] /\ \A i \in 1..n : \A q \in S[i - 1] : g[i][q] \in S[i]

LEMMA LoopStages ==
  ASSUME NEW n, NEW S, NEW base, NEW g, Stages(n, S, base, g)
  PROVE  \E f : /\ DOMAIN f = 0..n /\ f = [i \in 0..n |-> f[i]] /\ f[0] = base
                /\ \A i \in 1..n : f[i] = g[i][f[i - 1]]
                /\ \A i \in 0..n : f[i] \in S[i]
<1> DEFINE Run(f, k) == /\ DOMAIN f = 0..k /\ f = [i \in 0..k |-> f[i]] /\ f[0] = base
                        /\ \A i \in 1..k : f[i] = g[i][f[i - 1]]
                        /\ \A i \in 0..k : f[i] \in S[i]
           P == {k \in 0..n : \E f : Run(f, k)}
<1>0. n \in Nat /\ base \in S[0] /\ \A i \in 1..n : \A q \in S[i - 1] : g[i][q] \in S[i]
  BY DEF Stages
<1>1. 0 \in P
  <2> DEFINE f == [i \in 0..0 |-> base]
  <2>1. Run(f, 0)
    BY <1>0
  <2> HIDE DEF f, Run
  <2> QED
    BY <1>0, <2>1
<1>2. ASSUME NEW k \in 1..n, k - 1 \in P PROVE k \in P
  <2>1. PICK f : Run(f, k - 1)
    BY <1>2
  <2> DEFINE last == g[k][f[k - 1]]
             h == [i \in 0..k |-> IF i = k THEN last ELSE f[i]]
  <2>2. k \in Nat /\ k - 1 \in 0..(k - 1) /\ \A i \in 0..k : i # k => i \in 0..(k - 1)
    BY <1>0
  <2>3. last \in S[k]
    BY <1>0, <2>1, <2>2
  <2>4. h[0] = base /\ h[k] = last /\ \A i \in 0..(k - 1) : h[i] = f[i]
    <3> HIDE DEF last
    <3> QED
      BY <1>0, <2>1, <2>2
  <2>5. \A i \in 0..k : h[i] \in S[i]
    <3> HIDE DEF last, h
    <3> QED
      BY <2>1, <2>2, <2>3, <2>4
  <2>6. ASSUME NEW i \in 1..k PROVE h[i] = g[i][h[i - 1]]
    <3>1. i - 1 \in 0..(k - 1) /\ (i # k => i \in 0..(k - 1) /\ i \in 1..(k - 1))
      BY <2>2
    <3>2. h[i - 1] = f[i - 1]
      BY <2>4, <3>1
    <3>3. CASE i = k
      BY <2>4, <3>2, <3>3
    <3>4. CASE i # k
      <4>1. h[i] = f[i] /\ f[i] = g[i][f[i - 1]]
        BY <2>1, <2>4, <3>1, <3>4
      <4> QED
        BY <3>2, <4>1
    <3> QED
      BY <3>3, <3>4
  <2>7. DOMAIN h = 0..k /\ h = [i \in 0..k |-> h[i]]
    <3> HIDE DEF last
    <3> QED
      OBVIOUS
  <2> HIDE DEF h
  <2>8. Run(h, k)
    BY <2>4, <2>5, <2>6, <2>7
  <2> HIDE DEF Run
  <2> QED
    BY <1>0, <2>2, <2>8
<1>3. n \in P
  <2> HIDE DEF P
  <2>1. 0..n \subseteq P
    BY <1>0, <1>1, <1>2, Climb
  <2> QED
    BY <1>0, <2>1
<1> QED
  BY <1>3

(* The loops of the program, turn by turn: of GetAddr_, ...                *)
LEMMA ShuffleIs ==
  ASSUME NEW m, NEW pick, NEW S, Len(pick) \in Nat, m \in S[0],
         \A i \in 1..Len(pick) : \A q \in S[i - 1] : SwapRandom(q, i, pick[i]) \in S[i]
  PROVE  \A i \in 0..Len(pick) : Shuffle(m, pick)[i] \in S[i]
<1> DEFINE n == Len(pick)
           Body(q, i) == SwapRandom(q, i, pick[i])
           g == [i \in 1..n |-> [q \in S[i - 1] |-> Body(q, i)]]
           r == Shuffle(m, pick)
           Def(f) == f = [i \in 0..n |-> IF i = 0 THEN m ELSE Body(f[i - 1], i)]
<1>1. r = CHOOSE f : Def(f)
  BY DEF Shuffle
<1>2. n \in Nat /\ \A i \in 1..n : \A q \in S[i - 1] : Body(q, i) \in S[i]
  OBVIOUS
<1> HIDE DEF Body, n, r
<1>3. \A i \in 1..n : \A q \in S[i - 1] : g[i][q] = Body(q, i)
  OBVIOUS
<1> HIDE DEF g
<1>4. PICK f : /\ DOMAIN f = 0..n /\ f = [i \in 0..n |-> f[i]] /\ f[0] = m
               /\ \A i \in 1..n : f[i] = g[i][f[i - 1]]
               /\ \A i \in 0..n : f[i] \in S[i]
  <2>1. Stages(n, S, m, g)
    BY <1>2, <1>3 DEF Stages
  <2> QED
    BY <2>1, LoopStages
<1>5. Def(f)
  <2>1. ASSUME NEW i \in 1..n PROVE f[i] = Body(f[i - 1], i)
    <3>1. i - 1 \in 0..n
      BY <1>2
    <3> QED
      BY <1>3, <1>4, <3>1
  <2>2. \A i \in 0..n : f[i] = IF i = 0 THEN m ELSE Body(f[i - 1], i)
    <3>1. ASSUME NEW i \in 0..n, i # 0 PROVE i \in 1..n
      BY <1>2, <3>1
    <3> QED
      BY <1>4, <2>1, <3>1
  <2> QED
    BY <1>4, <2>2
<1>6. Def(r)
  <2> HIDE DEF Def
  <2> QED
    BY <1>1, <1>5
<1>7. r[0] = m /\ \A i \in 1..n : r[i] = Body(r[i - 1], i)
  <2>1. \A i \in 0..n : r[i] = IF i = 0 THEN m ELSE Body(r[i - 1], i)
    BY <1>6
  <2> QED
    BY <1>2, <2>1
<1> DEFINE P == {i \in 0..n : r[i] \in S[i]}
<1>8. 0 \in P
  BY <1>2, <1>7
<1>9. ASSUME NEW i \in 1..n, i - 1 \in P PROVE i \in P
  <2>1. r[i - 1] \in S[i - 1] /\ i \in 0..n
    BY <1>2, <1>9
  <2> QED
    BY <1>2, <1>7, <2>1
<1>10. 0..n \subseteq P
  <2> HIDE DEF P
  <2> QED
    BY <1>2, <1>8, <1>9, Climb
<1> QED
  BY <1>10 DEF n, r

(* ... of Unserialize over the new entries, ...                            *)
LEMMA ReadAllNewIs ==
  ASSUME NEW m, NEW new, NEW layout, NEW S, Len(new) \in Nat, m \in S[0],
         \A i \in 1..Len(new) : \A q \in S[i - 1] : ReadNew(q, new[i], layout) \in S[i]
  PROVE  \A i \in 0..Len(new) : ReadAllNew(m, new, layout)[i] \in S[i]
<1> DEFINE n == Len(new)
           Body(q, i) == ReadNew(q, new[i], layout)
           g == [i \in 1..n |-> [q \in S[i - 1] |-> Body(q, i)]]
           r == ReadAllNew(m, new, layout)
           Def(f) == f = [i \in 0..n |-> IF i = 0 THEN m ELSE Body(f[i - 1], i)]
<1>1. r = CHOOSE f : Def(f)
  BY DEF ReadAllNew
<1>2. n \in Nat /\ \A i \in 1..n : \A q \in S[i - 1] : Body(q, i) \in S[i]
  OBVIOUS
<1> HIDE DEF Body, n, r
<1>3. \A i \in 1..n : \A q \in S[i - 1] : g[i][q] = Body(q, i)
  OBVIOUS
<1> HIDE DEF g
<1>4. PICK f : /\ DOMAIN f = 0..n /\ f = [i \in 0..n |-> f[i]] /\ f[0] = m
               /\ \A i \in 1..n : f[i] = g[i][f[i - 1]]
               /\ \A i \in 0..n : f[i] \in S[i]
  <2>1. Stages(n, S, m, g)
    BY <1>2, <1>3 DEF Stages
  <2> QED
    BY <2>1, LoopStages
<1>5. Def(f)
  <2>1. ASSUME NEW i \in 1..n PROVE f[i] = Body(f[i - 1], i)
    <3>1. i - 1 \in 0..n
      BY <1>2
    <3> QED
      BY <1>3, <1>4, <3>1
  <2>2. \A i \in 0..n : f[i] = IF i = 0 THEN m ELSE Body(f[i - 1], i)
    <3>1. ASSUME NEW i \in 0..n, i # 0 PROVE i \in 1..n
      BY <1>2, <3>1
    <3> QED
      BY <1>4, <2>1, <3>1
  <2> QED
    BY <1>4, <2>2
<1>6. Def(r)
  <2> HIDE DEF Def
  <2> QED
    BY <1>1, <1>5
<1>7. r[0] = m /\ \A i \in 1..n : r[i] = Body(r[i - 1], i)
  <2>1. \A i \in 0..n : r[i] = IF i = 0 THEN m ELSE Body(r[i - 1], i)
    BY <1>6
  <2> QED
    BY <1>2, <2>1
<1> DEFINE P == {i \in 0..n : r[i] \in S[i]}
<1>8. 0 \in P
  BY <1>2, <1>7
<1>9. ASSUME NEW i \in 1..n, i - 1 \in P PROVE i \in P
  <2>1. r[i - 1] \in S[i - 1] /\ i \in 0..n
    BY <1>2, <1>9
  <2> QED
    BY <1>2, <1>7, <2>1
<1>10. 0..n \subseteq P
  <2> HIDE DEF P
  <2> QED
    BY <1>2, <1>8, <1>9, Climb
<1> QED
  BY <1>10 DEF n, r

(* ... over the tried entries, ...                                         *)
LEMMA ReadAllTriedIs ==
  ASSUME NEW m, NEW tried, NEW S, Len(tried) \in Nat, m \in S[0],
         \A i \in 1..Len(tried) : \A q \in S[i - 1] : ReadTried(q, tried[i]) \in S[i]
  PROVE  \A i \in 0..Len(tried) : ReadAllTried(m, tried)[i] \in S[i]
<1> DEFINE n == Len(tried)
           Body(q, i) == ReadTried(q, tried[i])
           g == [i \in 1..n |-> [q \in S[i - 1] |-> Body(q, i)]]
           r == ReadAllTried(m, tried)
           Def(f) == f = [i \in 0..n |-> IF i = 0 THEN m ELSE Body(f[i - 1], i)]
<1>1. r = CHOOSE f : Def(f)
  BY DEF ReadAllTried
<1>2. n \in Nat /\ \A i \in 1..n : \A q \in S[i - 1] : Body(q, i) \in S[i]
  OBVIOUS
<1> HIDE DEF Body, n, r
<1>3. \A i \in 1..n : \A q \in S[i - 1] : g[i][q] = Body(q, i)
  OBVIOUS
<1> HIDE DEF g
<1>4. PICK f : /\ DOMAIN f = 0..n /\ f = [i \in 0..n |-> f[i]] /\ f[0] = m
               /\ \A i \in 1..n : f[i] = g[i][f[i - 1]]
               /\ \A i \in 0..n : f[i] \in S[i]
  <2>1. Stages(n, S, m, g)
    BY <1>2, <1>3 DEF Stages
  <2> QED
    BY <2>1, LoopStages
<1>5. Def(f)
  <2>1. ASSUME NEW i \in 1..n PROVE f[i] = Body(f[i - 1], i)
    <3>1. i - 1 \in 0..n
      BY <1>2
    <3> QED
      BY <1>3, <1>4, <3>1
  <2>2. \A i \in 0..n : f[i] = IF i = 0 THEN m ELSE Body(f[i - 1], i)
    <3>1. ASSUME NEW i \in 0..n, i # 0 PROVE i \in 1..n
      BY <1>2, <3>1
    <3> QED
      BY <1>4, <2>1, <3>1
  <2> QED
    BY <1>4, <2>2
<1>6. Def(r)
  <2> HIDE DEF Def
  <2> QED
    BY <1>1, <1>5
<1>7. r[0] = m /\ \A i \in 1..n : r[i] = Body(r[i - 1], i)
  <2>1. \A i \in 0..n : r[i] = IF i = 0 THEN m ELSE Body(r[i - 1], i)
    BY <1>6
  <2> QED
    BY <1>2, <2>1
<1> DEFINE P == {i \in 0..n : r[i] \in S[i]}
<1>8. 0 \in P
  BY <1>2, <1>7
<1>9. ASSUME NEW i \in 1..n, i - 1 \in P PROVE i \in P
  <2>1. r[i - 1] \in S[i - 1] /\ i \in 0..n
    BY <1>2, <1>9
  <2> QED
    BY <1>2, <1>7, <2>1
<1>10. 0..n \subseteq P
  <2> HIDE DEF P
  <2> QED
    BY <1>2, <1>8, <1>9, Climb
<1> QED
  BY <1>10 DEF n, r

(* ... and over the entries without a place.                               *)
LEMMA DeleteAllIs ==
  ASSUME NEW m, NEW ids, NEW S, Len(ids) \in Nat, m \in S[0],
         \A i \in 1..Len(ids) : \A q \in S[i - 1] : Delete(q, ids[i]) \in S[i]
  PROVE  \A i \in 0..Len(ids) : DeleteAll(m, ids)[i] \in S[i]
<1> DEFINE n == Len(ids)
           Body(q, i) == Delete(q, ids[i])
           g == [i \in 1..n |-> [q \in S[i - 1] |-> Body(q, i)]]
           r == DeleteAll(m, ids)
           Def(f) == f = [i \in 0..n |-> IF i = 0 THEN m ELSE Body(f[i - 1], i)]
<1>1. r = CHOOSE f : Def(f)
  BY DEF DeleteAll
<1>2. n \in Nat /\ \A i \in 1..n : \A q \in S[i - 1] : Body(q, i) \in S[i]
  OBVIOUS
<1> HIDE DEF Body, n, r
<1>3. \A i \in 1..n : \A q \in S[i - 1] : g[i][q] = Body(q, i)
  OBVIOUS
<1> HIDE DEF g
<1>4. PICK f : /\ DOMAIN f = 0..n /\ f = [i \in 0..n |-> f[i]] /\ f[0] = m
               /\ \A i \in 1..n : f[i] = g[i][f[i - 1]]
               /\ \A i \in 0..n : f[i] \in S[i]
  <2>1. Stages(n, S, m, g)
    BY <1>2, <1>3 DEF Stages
  <2> QED
    BY <2>1, LoopStages
<1>5. Def(f)
  <2>1. ASSUME NEW i \in 1..n PROVE f[i] = Body(f[i - 1], i)
    <3>1. i - 1 \in 0..n
      BY <1>2
    <3> QED
      BY <1>3, <1>4, <3>1
  <2>2. \A i \in 0..n : f[i] = IF i = 0 THEN m ELSE Body(f[i - 1], i)
    <3>1. ASSUME NEW i \in 0..n, i # 0 PROVE i \in 1..n
      BY <1>2, <3>1
    <3> QED
      BY <1>4, <2>1, <3>1
  <2> QED
    BY <1>4, <2>2
<1>6. Def(r)
  <2> HIDE DEF Def
  <2> QED
    BY <1>1, <1>5
<1>7. r[0] = m /\ \A i \in 1..n : r[i] = Body(r[i - 1], i)
  <2>1. \A i \in 0..n : r[i] = IF i = 0 THEN m ELSE Body(r[i - 1], i)
    BY <1>6
  <2> QED
    BY <1>2, <2>1
<1> DEFINE P == {i \in 0..n : r[i] \in S[i]}
<1>8. 0 \in P
  BY <1>2, <1>7
<1>9. ASSUME NEW i \in 1..n, i - 1 \in P PROVE i \in P
  <2>1. r[i - 1] \in S[i - 1] /\ i \in 0..n
    BY <1>2, <1>9
  <2> QED
    BY <1>2, <1>7, <2>1
<1>10. 0..n \subseteq P
  <2> HIDE DEF P
  <2> QED
    BY <1>2, <1>8, <1>9, Climb
<1> QED
  BY <1>10 DEF n, r

-----------------------------------------------------------------------------
(* GetAddr changes the order in vRandom only.                              *)
LEMMA ReorderedTwice ==
  ASSUME NEW m, NEW w, NEW q, Reordered(m, w), Reordered(w, q)
  PROVE  Reordered(m, q)
BY DEF Reordered, Alike

LEMMA ReorderedSound ==
  ASSUME NEW m, Sound(m), NEW q, Sane(q), Reordered(m, q)
  PROVE  Sound(q) /\ Remembers(m, q) /\ q.nIdCount = m.nIdCount
<1>1. Lost(q) = Lost(m) /\ TriedIds(q) = TriedIds(m) /\ UntriedIds(q) = UntriedIds(m)
  BY DEF Reordered, Alike, Lost, TriedIds, UntriedIds
<1>2. Tallied(q, 0) /\ AtMost(q, MaxRefs)
  BY <1>1 DEF Reordered, Alike, Tallied, AtMost, Sound
<1>3. Remembers(m, q)
  BY RemembersStay DEF Reordered, Alike, TriedIds
<1> QED
  BY <1>1, <1>2, <1>3 DEF Sound, Reordered

LEMMA GetAddrSound ==
  ASSUME Sound(am), GetAddr
  PROVE  Sound(am') /\ Remembers(am, am') /\ am'.nIdCount = am.nIdCount
<1> DEFINE size == Len(am.vRandom)
           wanted == (GetAddrPct * size) \div 100
<1>0. size \in Nat /\ Sane(am) /\ am \in Tables
  BY TablesFacts DEF Sound, Sane
<1>1. PICK visits \in IF wanted = 0 THEN {0} ELSE wanted..size : \E pick \in [1..visits -> 1..size] :
         /\ \A n \in 1..visits : pick[n] >= n
         /\ am' = Shuffle(am, pick)[visits]
  BY DEF GetAddr
<1>2. visits \in Nat /\ visits <= size
  <2>1. GetAddrPct * size \in Nat
    <3>1. GetAddrPct \in Nat
      BY AddrManAssumption
    <3>2. \A x, y \in Nat : x * y \in Nat
      OBVIOUS
    <3> QED
      BY <1>0, <3>1, <3>2
  <2>2. wanted \in Nat
    <3> DEFINE k == GetAddrPct * size
    <3>1. k \in Nat /\ wanted = k \div 100
      BY <2>1
    <3> HIDE DEF k, wanted
    <3> QED
      BY <3>1
  <2> HIDE DEF wanted
  <2> QED
    BY <1>0, <2>2
<1> HIDE DEF wanted
<1>3. PICK pick \in [1..visits -> 1..size] : am' = Shuffle(am, pick)[visits]
  BY <1>1
<1>4. Len(pick) = visits
  BY <1>2
<1> DEFINE All == {q \in Tables : Sane(q) /\ Reordered(am, q)}
           S == [i \in 0..visits |-> All]
<1>5. am \in All
  BY <1>0 DEF Reordered, Alike
<1>6. ASSUME NEW i \in 1..visits, NEW q \in All PROVE SwapRandom(q, i, pick[i]) \in All
  <2>1. Sane(q) /\ Reordered(am, q) /\ Len(q.vRandom) = size
    BY DEF Reordered
  <2>2. i \in 1..Len(q.vRandom) /\ pick[i] \in 1..Len(q.vRandom)
    BY <1>0, <1>2, <2>1
  <2> DEFINE w == SwapRandom(q, i, pick[i])
  <2>3. Sane(w) /\ Reordered(q, w)
    BY <2>1, <2>2, SwapFacts
  <2> HIDE DEF w, size
  <2>4. Reordered(am, w) /\ w \in Tables
    BY <2>1, <2>3, ReorderedTwice DEF Sane
  <2> QED
    BY <2>3, <2>4 DEF w
<1> HIDE DEF All, size
<1>7. am \in S[0] /\ \A i \in 1..visits : \A q \in S[i - 1] : SwapRandom(q, i, pick[i]) \in S[i]
  BY <1>2, <1>5, <1>6
<1>8. visits \in 0..visits /\ S[visits] = All
  BY <1>2
<1> HIDE DEF S
<1>9. Shuffle(am, pick)[visits] \in S[visits]
  BY <1>2, <1>4, <1>7, <1>8, ShuffleIs
<1>10. Sane(am') /\ Reordered(am, am')
  BY <1>3, <1>8, <1>9 DEF All
<1> QED
  BY <1>10, ReorderedSound

(* Sorted() lists a finite set, and Number() gives the place before each.  *)
LEMMA SortedFacts ==
  ASSUME NEW S \in SUBSET Nat, IsFiniteSet(S)
  PROVE  /\ Cardinality(S) \in Nat
         /\ Sorted(S) \in [1..Cardinality(S) -> S]
         /\ \A n \in 1..Cardinality(S) : Number(S, Sorted(S)[n]) = n - 1
         /\ \A x \in S : Number(S, x) \in 0..(Cardinality(S) - 1) /\ Sorted(S)[Number(S, x) + 1] = x
<1> DEFINE c == Cardinality(S)
           Below(x) == {z \in S : z < x}
           num == [x \in S |-> Number(S, x)]
<1>1. c \in Nat
  BY FS_CardinalityType
<1>2. \A x \in S : IsFiniteSet(Below(x)) /\ Number(S, x) = Cardinality(Below(x)) /\ Number(S, x) \in Nat
  <2>1. ASSUME NEW x \in S PROVE IsFiniteSet(Below(x)) /\ Cardinality(Below(x)) \in Nat
    <3>1. Below(x) \in SUBSET S
      OBVIOUS
    <3> HIDE DEF Below
    <3> QED
      BY <3>1, FS_Subset, FS_CardinalityType
  <2> QED
    BY <2>1 DEF Number
<1>3. ASSUME NEW x \in S PROVE Number(S, x) \in 0..(c - 1)
  <2>1. Below(x) \cup {x} \in SUBSET S
    OBVIOUS
  <2>2. x \notin Below(x)
    OBVIOUS
  <2> HIDE DEF Below
  <2>3. Cardinality(Below(x) \cup {x}) = Cardinality(Below(x)) + 1
    BY <1>2, <2>2, FS_AddElement
  <2>4. Cardinality(Below(x) \cup {x}) <= c
    BY <2>1, FS_Subset
  <2> QED
    BY <1>1, <1>2, <2>3, <2>4
<1>4. ASSUME NEW x \in S, NEW y \in S, x < y PROVE Number(S, x) < Number(S, y)
  <2>1. Below(x) \cup {x} \in SUBSET Below(y)
    <3>1. x \in Nat /\ y \in Nat /\ \A z \in S : z \in Nat
      OBVIOUS
    <3>2. \A z \in S : z < x => z < y
      BY <1>4, <3>1
    <3> QED
      BY <1>4, <3>2
  <2>2. x \notin Below(x)
    OBVIOUS
  <2> HIDE DEF Below
  <2>3. Cardinality(Below(x) \cup {x}) = Cardinality(Below(x)) + 1
    BY <1>2, <2>2, FS_AddElement
  <2>4. Cardinality(Below(x) \cup {x}) <= Cardinality(Below(y))
    BY <1>2, <2>1, FS_Subset
  <2> QED
    BY <1>2, <2>3, <2>4
<1>5. ASSUME NEW x \in S, NEW y \in S, Number(S, x) = Number(S, y) PROVE x = y
  <2>1. x < y \/ y < x \/ x = y
    OBVIOUS
  <2>2. Number(S, x) \in Nat /\ Number(S, y) \in Nat
    BY <1>2
  <2>3. ~(x < y) /\ ~(y < x)
    BY <1>4, <1>5, <2>2
  <2> QED
    BY <2>1, <2>3
<1>6. num \in Injection(S, 0..(c - 1))
  BY <1>3, <1>5 DEF Injection, IsInjective
<1>7. Cardinality(0..(c - 1)) = c /\ IsFiniteSet(0..(c - 1))
  <2>1. 0 \in Int /\ c - 1 \in Int
    BY <1>1
  <2> HIDE DEF c
  <2> QED
    BY <1>1, <2>1, FS_Interval
<1>8. num \in Surjection(S, 0..(c - 1))
  <2> HIDE DEF num
  <2> QED
    BY <1>6, <1>7, FS_Injection
<1>9. ASSUME NEW n \in 1..c PROVE \E x \in S : Number(S, x) = n - 1
  <2>1. n - 1 \in 0..(c - 1)
    BY <1>1
  <2> QED
    BY <1>8, <2>1 DEF Surjection
<1>10. ASSUME NEW n \in 1..c PROVE Sorted(S)[n] \in S /\ Number(S, Sorted(S)[n]) = n - 1
  <2>1. Sorted(S)[n] = CHOOSE x \in S : Number(S, x) = n - 1
    BY DEF Sorted
  <2> QED
    BY <1>9, <2>1
<1>11. Sorted(S) \in [1..c -> S]
  BY <1>10 DEF Sorted
<1>12. ASSUME NEW x \in S PROVE Sorted(S)[Number(S, x) + 1] = x
  <2> DEFINE n == Number(S, x) + 1
  <2>1. n \in 1..c /\ n - 1 = Number(S, x)
    <3>1. Number(S, x) \in 0..(c - 1)
      BY <1>3
    <3> HIDE DEF c
    <3> QED
      BY <1>1, <3>1
  <2> HIDE DEF n
  <2>2. Sorted(S)[n] \in S /\ Number(S, Sorted(S)[n]) = n - 1
    BY <1>10, <2>1
  <2> QED
    BY <1>5, <2>1, <2>2 DEF n
<1> QED
  BY <1>1, <1>3, <1>10, <1>11, <1>12

-----------------------------------------------------------------------------
(* What a file gives number j, counted from 0: new entries come first.     *)
NewLen(file)   == Len(file.new)
TriedLen(file) == Len(file.tried)
Item(file, j) ==
  IF j < NewLen(file) THEN file.new[j + 1] ELSE file.tried[j - NewLen(file) + 1]
Size(file) == NewLen(file) + TriedLen(file)

(* A file in which no two entries compete for an index or a tried place.   *)
WellFormed(file) ==
  /\ file.new \in Seq(Entries) /\ file.tried \in Seq(Entries)
  /\ \A i, j \in 0..(Size(file) - 1) : Ip[Item(file, i).addr] = Ip[Item(file, j).addr] => i = j
  /\ \A i \in NewLen(file)..(Size(file) - 1) : Item(file, i).success
  /\ \A i, j \in NewLen(file)..(Size(file) - 1) :
        TriedSlot[Item(file, i).addr] = TriedSlot[Item(file, j).addr] => i = j

(* What an entry has from the file.                                        *)
Restores(e, f) == e.addr = f.addr /\ e.source = f.source /\ e.success = f.success

(* The tables after the first i entries of the file.                       *)
Stage(file, layout, i) ==
  {q \in Tables :
     /\ Sane(q) /\ q.nIdCount = i /\ DOMAIN q.mapInfo = 0..(i - 1)
     /\ \A j \in 0..(i - 1) : /\ Restores(q.mapInfo[j], Item(file, j))
                              /\ q.mapInfo[j].fInTried = (j >= NewLen(file))
     /\ AtMost(q, 1) /\ q.nNew = NewLen(file) /\ q.nTried = TriedLen(file)
     /\ layout => \A t \in NewSlots : q.vvNew[t] = None}

FileStart(file) == [Empty EXCEPT !.nNew = Len(file.new), !.nTried = Len(file.tried)]

LEMMA EmptyFacts ==
  /\ Empty \in Tables /\ Empty.mapInfo = <<>> /\ Empty.mapAddr = <<>> /\ Empty.vRandom = <<>>
  /\ Empty.nIdCount = 0 /\ Empty.vvNew = [t \in NewSlots |-> None] /\ Empty.vvTried = [t \in TriedSlots |-> None]
  /\ Empty.nNew = 0 /\ Empty.nTried = 0
<1>1. <<>> \in InfoMaps /\ <<>> \in AddrMaps
  <2>1. <<>> \in [{} -> Entries] /\ <<>> \in [{} -> Nat]
    OBVIOUS
  <2>2. {} \in SUBSET Nat /\ {} \in SUBSET Ips
    OBVIOUS
  <2> QED
    BY <2>1, <2>2 DEF InfoMaps, AddrMaps
<1>2. [t \in NewSlots |-> None] \in [NewSlots -> Int] /\ [t \in TriedSlots |-> None] \in [TriedSlots -> Int]
  BY DEF None
<1>3. Empty \in Tables
  BY <1>1, <1>2 DEF Empty, Tables
<1> QED
  BY <1>3 DEF Empty

(* Tables without an entry or an occupied place.                           *)
LEMMA BareSane ==
  ASSUME NEW q \in Tables, DOMAIN q.mapInfo = {}, DOMAIN q.mapAddr = {}, q.vRandom = <<>>,
         q.vvNew = [t \in NewSlots |-> None], q.vvTried = [t \in TriedSlots |-> None]
  PROVE  Sane(q)
BY DEF Sane, Indexed, Ordered, NewOk, TriedOk, None

LEMMA StartStage ==
  ASSUME NEW file, WellFormed(file), NEW layout \in BOOLEAN
  PROVE  FileStart(file) \in Stage(file, layout, 0)
<1> DEFINE q == FileStart(file)
           k == NewLen(file)
           n == TriedLen(file)
<1>1. k \in Nat /\ n \in Nat
  BY DEF WellFormed, NewLen, TriedLen
<1>2. q = [Empty EXCEPT !.nNew = k, !.nTried = n]
  BY DEF FileStart, NewLen, TriedLen
<1> HIDE DEF q, k, n
<1>3. /\ q \in Tables /\ q.mapInfo = <<>> /\ q.mapAddr = <<>> /\ q.vRandom = <<>> /\ q.nIdCount = 0
      /\ q.vvNew = [t \in NewSlots |-> None] /\ q.vvTried = [t \in TriedSlots |-> None]
      /\ q.nNew = k /\ q.nTried = n
  <2>1. Empty \in Tables
    BY EmptyFacts
  <2>2. k \in Int /\ n \in Int
    BY <1>1
  <2>3. /\ q \in Tables /\ q.mapInfo = Empty.mapInfo /\ q.mapAddr = Empty.mapAddr /\ q.vRandom = Empty.vRandom
        /\ q.nIdCount = Empty.nIdCount /\ q.vvNew = Empty.vvNew /\ q.vvTried = Empty.vvTried
        /\ q.nNew = k /\ q.nTried = n
    BY <1>2, <2>1, <2>2 DEF Tables
  <2> QED
    BY <2>3, EmptyFacts
<1>4. DOMAIN q.mapInfo = {} /\ DOMAIN q.mapAddr = {}
  BY <1>3
<1>5. Sane(q)
  BY <1>3, <1>4, BareSane
<1>6. 0..(0 - 1) = {}
  OBVIOUS
<1>7. AtMost(q, 1)
  BY <1>4 DEF AtMost
<1>8. \A t \in NewSlots : q.vvNew[t] = None
  BY <1>3
<1> QED
  BY <1>3, <1>4, <1>5, <1>6, <1>7, <1>8 DEF Stage, q, k, n

(* One entry read back.                                                    *)
LEMMA RestoredFacts ==
  ASSUME NEW info \in Entries, NEW m \in Tables, NEW e, e = Restored(info, m)
  PROVE  /\ e \in Entries /\ Restores(e, info) /\ e.nRefCount = 0 /\ e.fInTried = FALSE
         /\ e.nRandomPos = Len(m.vRandom) + 1
<1> DEFINE base == Info(info.addr, info.source)
           k == Len(m.vRandom) + 1
           x == info.success
<1>1. base \in Entries /\ base.addr = info.addr /\ base.source = info.source
      /\ base.nRefCount = 0 /\ base.fInTried = FALSE
  <2> DEFINE a == info.addr
             s == info.source
  <2>1. a \in Services /\ s \in Sources
    BY DEF Entries
  <2>2. base = Info(a, s)
    OBVIOUS
  <2> HIDE DEF a, s, base
  <2>3. base \in Entries /\ base.addr = a /\ base.source = s /\ base.nRefCount = 0 /\ base.fInTried = FALSE
    BY <2>1, <2>2, InfoFacts
  <2> QED
    BY <2>3 DEF a, s
<1>2. k \in Nat /\ x \in BOOLEAN
  <2>1. Len(m.vRandom) \in Nat
    BY TablesFacts
  <2>2. x \in BOOLEAN
    BY DEF Entries
  <2> QED
    BY <2>1, <2>2
<1>3. e = [base EXCEPT !.success = x, !.nRandomPos = k]
  BY DEF Restored
<1> HIDE DEF base, k, x
<1>4. /\ e \in Entries /\ e.addr = base.addr /\ e.source = base.source
      /\ e.nRandomPos = k /\ e.nRefCount = base.nRefCount /\ e.success = x
  BY <1>1, <1>2, <1>3 DEF Entries
<1>5. e.fInTried = base.fInTried
  BY <1>1, <1>2, <1>3 DEF Entries
<1> QED
  BY <1>1, <1>4, <1>5 DEF Restores, k, x

LEMMA EnterInfoFacts ==
  ASSUME NEW m \in Tables, NEW e \in Entries, NEW q, q = EnterInfo(m, m.nIdCount, e)
  PROVE  /\ q \in Tables /\ Enters(m, q, e) /\ q.vvNew = m.vvNew /\ q.vvTried = m.vvTried
         /\ q.nNew = m.nNew /\ q.nTried = m.nTried
<1> DEFINE id == m.nIdCount
           info == Put(m.mapInfo, id, e)
           addr == Put(m.mapAddr, Ip[e.addr], id)
           random == Append(m.vRandom, id)
<1>1. info \in InfoMaps /\ addr \in AddrMaps /\ random \in Seq(Nat) /\ id + 1 \in Nat
  BY EntersTables
<1>2. q = [m EXCEPT !.mapInfo = info, !.mapAddr = addr, !.vRandom = random, !.nIdCount = id + 1]
  BY DEF EnterInfo, Tables
<1>3. /\ q.mapInfo = info /\ q.mapAddr = addr /\ q.vRandom = random /\ q.nIdCount = id + 1
      /\ q.vvNew = m.vvNew /\ q.vvTried = m.vvTried /\ q.nNew = m.nNew /\ q.nTried = m.nTried
  <2> HIDE DEF info, addr, random
  <2> QED
    BY <1>2 DEF Tables
<1>4. q \in Tables
  <2> HIDE DEF info, addr, random, id
  <2> QED
    BY <1>1, <1>2 DEF Tables
<1> QED
  BY <1>3, <1>4 DEF Enters

LEMMA Sizes ==
  ASSUME NEW file, WellFormed(file)
  PROVE  /\ NewLen(file) \in Nat /\ TriedLen(file) \in Nat
         /\ Size(file) \in Nat /\ Size(file) = NewLen(file) + TriedLen(file)
<1>1. file.new \in Seq(Entries) /\ file.tried \in Seq(Entries)
  BY DEF WellFormed
<1>2. NewLen(file) \in Nat /\ TriedLen(file) \in Nat
  BY <1>1 DEF NewLen, TriedLen
<1> QED
  BY <1>2 DEF Size

(* The address of the next entry is not in the index yet.                  *)
LEMMA StageFresh ==
  ASSUME NEW file, WellFormed(file), NEW layout \in BOOLEAN, NEW i \in 0..(Size(file) - 1),
         NEW q \in Stage(file, layout, i)
  PROVE  /\ Ip[Item(file, i).addr] \notin DOMAIN q.mapAddr
         /\ i >= NewLen(file) => q.vvTried[TriedSlot[Item(file, i).addr]] = None
         /\ Item(file, i) \in Entries /\ TriedSlot[Item(file, i).addr] \in TriedSlots
<1>0. NewLen(file) \in Nat /\ TriedLen(file) \in Nat /\ Size(file) \in Nat /\ Size(file) = NewLen(file) + TriedLen(file)
  BY Sizes
<1>1. /\ Sane(q) /\ DOMAIN q.mapInfo = 0..(i - 1)
      /\ \A j \in 0..(i - 1) : /\ Restores(q.mapInfo[j], Item(file, j))
                               /\ q.mapInfo[j].fInTried = (j >= NewLen(file))
  BY DEF Stage
<1>2. \A j \in 0..(i - 1) : j \in 0..(Size(file) - 1) /\ j # i
  BY <1>0
<1>3. Ip[Item(file, i).addr] \notin DOMAIN q.mapAddr
  <2>1. SUFFICES ASSUME Ip[Item(file, i).addr] \in DOMAIN q.mapAddr PROVE FALSE
    OBVIOUS
  <2> DEFINE j == q.mapAddr[Ip[Item(file, i).addr]]
  <2>2. j \in 0..(i - 1) /\ Ip[q.mapInfo[j].addr] = Ip[Item(file, i).addr]
    BY <1>1, <2>1 DEF Sane, Indexed
  <2> HIDE DEF j
  <2>3. q.mapInfo[j].addr = Item(file, j).addr
    BY <1>1, <2>2 DEF Restores
  <2> QED
    BY <1>2, <2>2, <2>3 DEF WellFormed
<1>4. ASSUME i >= NewLen(file), q.vvTried[TriedSlot[Item(file, i).addr]] # None,
             TriedSlot[Item(file, i).addr] \in TriedSlots
      PROVE  FALSE
  <2> DEFINE t == TriedSlot[Item(file, i).addr]
             j == q.vvTried[t]
  <2>1. j \in 0..(i - 1) /\ q.mapInfo[j].fInTried /\ TriedSlot[q.mapInfo[j].addr] = t
    BY <1>1, <1>4 DEF Sane, TriedOk
  <2> HIDE DEF j, t
  <2>2. q.mapInfo[j].addr = Item(file, j).addr /\ j >= NewLen(file)
    BY <1>1, <2>1 DEF Restores
  <2>3. j \in NewLen(file)..(Size(file) - 1) /\ i \in NewLen(file)..(Size(file) - 1) /\ i # j
    BY <1>0, <1>2, <1>4, <2>1, <2>2
  <2> QED
    BY <2>1, <2>2, <2>3 DEF WellFormed, t
<1>5. Item(file, i) \in Entries
  <2>1. CASE i < NewLen(file)
    <3>1. i + 1 \in 1..NewLen(file)
      BY <1>0, <2>1
    <3>2. Item(file, i) = file.new[i + 1]
      BY <2>1 DEF Item
    <3>3. file.new \in Seq(Entries)
      BY DEF WellFormed
    <3>4. \A k \in 1..NewLen(file) : file.new[k] \in Entries
      BY <3>3 DEF NewLen
    <3> QED
      BY <3>1, <3>2, <3>4
  <2>2. CASE ~(i < NewLen(file))
    <3>1. i - NewLen(file) + 1 \in 1..TriedLen(file)
      BY <1>0, <2>2
    <3>2. Item(file, i) = file.tried[i - NewLen(file) + 1]
      BY <2>2 DEF Item
    <3>3. file.tried \in Seq(Entries)
      BY DEF WellFormed
    <3>4. \A k \in 1..TriedLen(file) : file.tried[k] \in Entries
      BY <3>3 DEF TriedLen
    <3> QED
      BY <3>1, <3>2, <3>4
  <2> QED
    BY <2>1, <2>2
<1>6. TriedSlot[Item(file, i).addr] \in TriedSlots
  <2>1. Item(file, i).addr \in Services
    BY <1>5 DEF Entries
  <2> QED
    BY <2>1, HashesTyped
<1> QED
  BY <1>3, <1>4, <1>5, <1>6

(* A new entry: its number is the next one.                                *)
LEMMA NewStage ==
  ASSUME NEW file, WellFormed(file), NEW layout \in BOOLEAN, NEW i \in 1..NewLen(file),
         NEW q \in Stage(file, layout, i - 1)
  PROVE  ReadNew(q, file.new[i], layout) \in Stage(file, layout, i)
<1> DEFINE id == q.nIdCount
           info == file.new[i]
           b == NewBucket[info.addr][info.source]
           t == Slot(info.addr, b)
           e == Restored(info, q)
           m1 == EnterInfo(q, id, e)
           w == ReadNew(q, info, layout)
<1>0. NewLen(file) \in Nat /\ TriedLen(file) \in Nat /\ Size(file) \in Nat /\ i - 1 \in 0..(Size(file) - 1)
  BY Sizes
<1>1. /\ Sane(q) /\ q \in Tables /\ id = i - 1 /\ DOMAIN q.mapInfo = 0..(i - 2)
      /\ \A j \in 0..(i - 2) : /\ Restores(q.mapInfo[j], Item(file, j))
                               /\ q.mapInfo[j].fInTried = (j >= NewLen(file))
      /\ AtMost(q, 1) /\ q.nNew = NewLen(file) /\ q.nTried = TriedLen(file)
      /\ layout => \A u \in NewSlots : q.vvNew[u] = None
  <2>1. i - 1 - 1 = i - 2
    BY <1>0
  <2> QED
    BY <2>1 DEF Stage
<1>2. Item(file, i - 1) = info /\ info \in Entries
  <2>1. i - 1 < NewLen(file) /\ i - 1 + 1 = i
    BY <1>0
  <2>2. Item(file, i - 1) = info
    BY <2>1 DEF Item
  <2> QED
    BY <1>0, <2>2, StageFresh
<1>3. Ip[info.addr] \notin DOMAIN q.mapAddr
  BY <1>0, <1>2, StageFresh
<1>4. t \in NewSlots /\ Slot(info.addr, t[1]) = t
  <2>1. info.addr \in Services /\ info.source \in Sources
    BY <1>2 DEF Entries
  <2>2. b \in NewBuckets
    BY <2>1, AddrManAssumption
  <2> HIDE DEF b
  <2> QED
    BY <2>1, <2>2, SlotFacts
<1>5. w = IF layout \/ q.vvNew[t] # None THEN m1 ELSE [m1 EXCEPT !.vvNew[t] = id, !.mapInfo[id].nRefCount = 1]
  BY DEF ReadNew
<1> HIDE DEF w, m1, e, t, b, info
<1>6. /\ e \in Entries /\ Restores(e, info) /\ e.nRefCount = 0 /\ e.fInTried = FALSE
      /\ e.nRandomPos = Len(q.vRandom) + 1 /\ e.addr = info.addr
  <2>1. e = Restored(info, q)
    BY DEF e
  <2>2. /\ e \in Entries /\ Restores(e, info) /\ e.nRefCount = 0 /\ e.fInTried = FALSE
        /\ e.nRandomPos = Len(q.vRandom) + 1
    BY <1>1, <1>2, <2>1, RestoredFacts
  <2>3. e.addr = info.addr
    BY <2>2 DEF Restores
  <2> QED
    BY <2>2, <2>3
<1>7. /\ m1 \in Tables /\ Enters(q, m1, e) /\ m1.vvNew = q.vvNew /\ m1.vvTried = q.vvTried
      /\ m1.nNew = q.nNew /\ m1.nTried = q.nTried
  BY <1>1, <1>6, EnterInfoFacts DEF m1
<1> HIDE DEF id
<1>8. /\ Sane(m1) /\ UntriedIds(m1) = UntriedIds(q) \cup {id}
      /\ DOMAIN m1.mapInfo = DOMAIN q.mapInfo \cup {id} /\ m1.mapInfo[id] = e
      /\ \A x \in DOMAIN q.mapInfo : m1.mapInfo[x] = q.mapInfo[x]
      /\ m1.nIdCount = id + 1
  BY <1>1, <1>3, <1>6, <1>7, EntersNew, EntersFacts DEF id
<1>9. DOMAIN m1.mapInfo = 0..(i - 1) /\ m1.nIdCount = i /\ id \in 0..(i - 1)
  BY <1>1, <1>8
<1>10. \A j \in 0..(i - 1) : /\ Restores(m1.mapInfo[j], Item(file, j))
                             /\ m1.mapInfo[j].fInTried = (j >= NewLen(file))
  <2>1. ASSUME NEW j \in 0..(i - 1)
        PROVE  /\ Restores(m1.mapInfo[j], Item(file, j)) /\ m1.mapInfo[j].fInTried = (j >= NewLen(file))
    <3>1. CASE j = id
      <4>1. (j >= NewLen(file)) = FALSE
        BY <1>0, <1>1, <3>1
      <4> QED
        BY <1>1, <1>2, <1>6, <1>8, <3>1, <4>1
    <3>2. CASE j # id
      <4>1. j \in 0..(i - 2)
        BY <1>1, <3>2
      <4> QED
        BY <1>1, <1>8, <4>1
    <3> QED
      BY <3>1, <3>2
  <2> QED
    BY <2>1
<1>11. AtMost(m1, 1)
  BY <1>1, <1>6, <1>8 DEF AtMost
<1>12. m1 \in Stage(file, layout, i)
  BY <1>1, <1>7, <1>8, <1>9, <1>10, <1>11 DEF Stage
<1>13. CASE layout \/ q.vvNew[t] # None
  BY <1>5, <1>12, <1>13 DEF w, info
<1>14. CASE ~(layout \/ q.vvNew[t] # None)
  <2> DEFINE f == [e EXCEPT !.nRefCount = 1]
             table == [m1.vvNew EXCEPT ![t] = id]
             map == [m1.mapInfo EXCEPT ![id] = f]
  <2>1. w = [m1 EXCEPT !.vvNew[t] = id, !.mapInfo[id].nRefCount = 1]
    BY <1>5, <1>14
  <2>2. /\ f \in Entries /\ f.addr = e.addr /\ f.source = e.source /\ f.success = e.success
        /\ f.nRandomPos = e.nRandomPos /\ f.nRefCount = 1 /\ f.fInTried = e.fInTried
    BY <1>6 DEF Entries
  <2>3. m1.vvNew \in [NewSlots -> Int] /\ m1.mapInfo \in [DOMAIN m1.mapInfo -> Entries] /\ id \in Int
    BY <1>0, <1>1, <1>7, TablesFacts
  <2>4. w = [m1 EXCEPT !.vvNew = table, !.mapInfo = map]
    BY <1>7, <1>8, <2>1 DEF Tables
  <2>5. table \in [NewSlots -> Int] /\ table[t] = id /\ \A u \in NewSlots \ {t} : table[u] = m1.vvNew[u]
    BY <1>4, <2>3
  <2> HIDE DEF f
  <2>6. map \in InfoMaps
    BY <1>7, <1>8, <2>2, InfoUpdate
  <2>7. /\ w \in Tables /\ Updates(m1, w, id, f) /\ w.vvTried = m1.vvTried /\ w.vvNew = table
        /\ w.nNew = m1.nNew /\ w.nTried = m1.nTried
    <3> HIDE DEF table, map
    <3> QED
      BY <1>7, <2>4, <2>5, <2>6 DEF Tables, Updates, map
  <2> HIDE DEF table, map
  <2>8. Links(m1, w, id, t, f)
    <3>1. m1.vvNew[t] = None /\ id \in UntriedIds(m1) /\ Slot(m1.mapInfo[id].addr, t[1]) = t
      BY <1>4, <1>6, <1>7, <1>8, <1>14
    <3>2. Kin(f, m1.mapInfo[id]) /\ f.nRandomPos = m1.mapInfo[id].nRandomPos
      BY <1>8, <2>2 DEF Kin
    <3>3. f.nRefCount = m1.mapInfo[id].nRefCount + 1
      BY <1>6, <1>8, <2>2
    <3> QED
      BY <1>4, <2>2, <2>5, <2>7, <3>1, <3>2, <3>3 DEF Links
  <2>9. /\ Sane(w) /\ DOMAIN w.mapInfo = DOMAIN m1.mapInfo
        /\ \A x \in DOMAIN m1.mapInfo : Kin(w.mapInfo[x], m1.mapInfo[x])
        /\ \A x \in DOMAIN m1.mapInfo \ {id} : w.mapInfo[x] = m1.mapInfo[x]
        /\ w.mapInfo[id].nRefCount = m1.mapInfo[id].nRefCount + 1
    BY <1>8, <2>8, LinkFacts
  <2>10. \A j \in 0..(i - 1) : /\ Restores(w.mapInfo[j], Item(file, j))
                               /\ w.mapInfo[j].fInTried = (j >= NewLen(file))
    BY <1>9, <1>10, <2>9 DEF Kin, Restores
  <2>11. AtMost(w, 1)
    BY <1>6, <1>8, <1>11, <2>9 DEF AtMost
  <2>12. w.nIdCount = i /\ DOMAIN w.mapInfo = 0..(i - 1)
    BY <1>9, <2>7, <2>9 DEF Updates
  <2>13. w \in Stage(file, layout, i)
    BY <1>1, <1>7, <1>14, <2>7, <2>9, <2>10, <2>11, <2>12 DEF Stage
  <2> QED
    BY <2>13 DEF w, info
<1> QED
  BY <1>13, <1>14

(* A tried entry goes to its place, which is free.                         *)
LEMMA EntersTried ==
  ASSUME NEW m, Sane(m), NEW e \in Entries, e.nRandomPos = Len(m.vRandom) + 1,
         Ip[e.addr] \notin DOMAIN m.mapAddr, e.fInTried, e.success, e.nRefCount = 0,
         NEW q \in Tables, Enters(m, q, e), q.vvNew = m.vvNew,
         NEW t \in TriedSlots, t = TriedSlot[e.addr], m.vvTried[t] = None,
         q.vvTried[t] = m.nIdCount, \A u \in TriedSlots \ {t} : q.vvTried[u] = m.vvTried[u]
  PROVE  Sane(q)
<1> DEFINE id == m.nIdCount
<1>0. m.mapInfo \in [DOMAIN m.mapInfo -> Entries] /\ DOMAIN m.mapInfo \subseteq Nat /\ id \in Nat
  BY TablesFacts DEF Sane
<1>1. /\ Indexed(q) /\ Ordered(q) /\ id \notin DOMAIN m.mapInfo
      /\ DOMAIN q.mapInfo = DOMAIN m.mapInfo \cup {id} /\ q.mapInfo[id] = e
      /\ \A x \in DOMAIN m.mapInfo : q.mapInfo[x] = m.mapInfo[x]
      /\ \A u \in NewSlots : m.vvNew[u] # id
  BY EntersFacts
<1>2. \A x : Holders(q, x) = Holders(m, x)
  BY DEF Holders
<1>3. Cardinality(Holders(m, id)) = 0
  <2>1. Holders(m, id) = {}
    BY <1>1 DEF Holders
  <2> QED
    BY <2>1, FS_EmptySet
<1>4. NewOk(q)
  <2> HIDE DEF id
  <2> QED
    BY <1>1, <1>2, <1>3 DEF Sane, NewOk
<1>5. TriedOk(q)
  <2>1. ASSUME NEW u \in TriedSlots, q.vvTried[u] # None
        PROVE  /\ q.vvTried[u] \in DOMAIN q.mapInfo /\ q.mapInfo[q.vvTried[u]].fInTried
               /\ TriedSlot[q.mapInfo[q.vvTried[u]].addr] = u
    <3>1. CASE u = t
      BY <1>1, <3>1
    <3>2. CASE u # t
      <4>1. q.vvTried[u] = m.vvTried[u] /\ m.vvTried[u] # None
        BY <2>1, <3>2
      <4>2. /\ m.vvTried[u] \in DOMAIN m.mapInfo /\ m.mapInfo[m.vvTried[u]].fInTried
            /\ TriedSlot[m.mapInfo[m.vvTried[u]].addr] = u
        BY <4>1 DEF Sane, TriedOk
      <4> QED
        BY <1>1, <4>1, <4>2
    <3> QED
      BY <3>1, <3>2
  <2>2. ASSUME NEW x \in DOMAIN q.mapInfo, q.mapInfo[x].fInTried
        PROVE  q.vvTried[TriedSlot[q.mapInfo[x].addr]] = x /\ q.mapInfo[x].success
    <3>1. CASE x = id
      BY <1>1, <3>1
    <3>2. CASE x # id
      <4>1. x \in DOMAIN m.mapInfo /\ q.mapInfo[x] = m.mapInfo[x] /\ m.mapInfo[x].fInTried
        BY <1>1, <2>2, <3>2
      <4>2. m.vvTried[TriedSlot[m.mapInfo[x].addr]] = x /\ m.mapInfo[x].success
        BY <4>1 DEF Sane, TriedOk
      <4>3. TriedSlot[m.mapInfo[x].addr] \in TriedSlots /\ x # None
        <5>1. m.mapInfo[x] \in Entries /\ x \in Nat
          BY <1>0, <4>1
        <5>2. m.mapInfo[x].addr \in Services
          BY <5>1 DEF Entries
        <5> QED
          BY <5>1, <5>2, HashesTyped DEF None
      <4>4. TriedSlot[m.mapInfo[x].addr] # t
        BY <4>2, <4>3
      <4> QED
        BY <4>1, <4>2, <4>3, <4>4
    <3> QED
      BY <3>1, <3>2
  <2> QED
    BY <2>1, <2>2 DEF TriedOk
<1> QED
  BY <1>1, <1>4, <1>5 DEF Sane

LEMMA TriedStage ==
  ASSUME NEW file, WellFormed(file), NEW layout \in BOOLEAN, NEW i \in 1..TriedLen(file),
         NEW q \in Stage(file, layout, NewLen(file) + i - 1)
  PROVE  ReadTried(q, file.tried[i]) \in Stage(file, layout, NewLen(file) + i)
<1> DEFINE n == NewLen(file) + i
           id == q.nIdCount
           info == file.tried[i]
           t == TriedSlot[info.addr]
           r == Restored(info, q)
           e == [r EXCEPT !.fInTried = TRUE]
           m1 == EnterInfo(q, id, e)
           w == ReadTried(q, info)
<1>0. /\ NewLen(file) \in Nat /\ n \in Nat /\ n - 1 \in 0..(Size(file) - 1) /\ n - 1 >= NewLen(file)
      /\ n - 1 - NewLen(file) + 1 = i /\ n - 1 - 1 = n - 2 /\ q \in Stage(file, layout, n - 1)
      /\ ~(n - 1 < NewLen(file)) /\ n - 1 \in NewLen(file)..(Size(file) - 1)
  BY Sizes
<1> HIDE DEF n
<1>1. /\ Sane(q) /\ q \in Tables /\ id = n - 1 /\ DOMAIN q.mapInfo = 0..(n - 2)
      /\ \A j \in 0..(n - 2) : /\ Restores(q.mapInfo[j], Item(file, j))
                               /\ q.mapInfo[j].fInTried = (j >= NewLen(file))
      /\ AtMost(q, 1) /\ q.nNew = NewLen(file) /\ q.nTried = TriedLen(file)
      /\ layout => \A u \in NewSlots : q.vvNew[u] = None
  BY <1>0 DEF Stage
<1>2. Item(file, n - 1) = info
  BY <1>0 DEF Item
<1>3. Ip[info.addr] \notin DOMAIN q.mapAddr /\ q.vvTried[t] = None /\ info \in Entries /\ t \in TriedSlots
  BY <1>0, <1>2, StageFresh
<1>4. info.success
  BY <1>0, <1>2 DEF WellFormed
<1>5. w = [m1 EXCEPT !.vvTried[t] = id]
  BY <1>3 DEF ReadTried
<1> HIDE DEF w, m1, t, r, info
<1>6. /\ r \in Entries /\ Restores(r, info) /\ r.nRefCount = 0
      /\ r.nRandomPos = Len(q.vRandom) + 1 /\ r.addr = info.addr
  <2>1. r = Restored(info, q)
    BY DEF r
  <2>2. /\ r \in Entries /\ Restores(r, info) /\ r.nRefCount = 0
        /\ r.nRandomPos = Len(q.vRandom) + 1
    BY <1>1, <1>3, <2>1, RestoredFacts
  <2>3. r.addr = info.addr
    BY <2>2 DEF Restores
  <2> QED
    BY <2>2, <2>3
<1>7. /\ e \in Entries /\ e.addr = r.addr /\ e.source = r.source /\ e.success = r.success
      /\ e.nRefCount = r.nRefCount /\ e.nRandomPos = r.nRandomPos /\ e.fInTried = TRUE
  BY <1>6 DEF Entries
<1> HIDE DEF e
<1>8. /\ m1 \in Tables /\ Enters(q, m1, e) /\ m1.vvNew = q.vvNew /\ m1.vvTried = q.vvTried
      /\ m1.nNew = q.nNew /\ m1.nTried = q.nTried /\ id \in Nat
  BY <1>1, <1>7, EnterInfoFacts, TablesFacts DEF m1
<1> DEFINE table == [m1.vvTried EXCEPT ![t] = id]
<1>9. w = [m1 EXCEPT !.vvTried = table]
  BY <1>5, <1>8 DEF Tables
<1>10. m1.vvTried \in [TriedSlots -> Int]
  BY <1>8, TablesFacts
<1>11. table \in [TriedSlots -> Int] /\ table[t] = id /\ \A u \in TriedSlots \ {t} : table[u] = q.vvTried[u]
  <2> HIDE DEF id
  <2> QED
    BY <1>3, <1>8, <1>10
<1> HIDE DEF table
<1>12. /\ w \in Tables /\ w.vvNew = q.vvNew /\ w.vvTried = table /\ w.nNew = q.nNew /\ w.nTried = q.nTried
       /\ w.mapInfo = m1.mapInfo /\ w.mapAddr = m1.mapAddr /\ w.vRandom = m1.vRandom /\ w.nIdCount = m1.nIdCount
  BY <1>8, <1>9, <1>11 DEF Tables
<1>13. Enters(q, w, e)
  BY <1>8, <1>12 DEF Enters
<1>14. /\ Ip[e.addr] \notin DOMAIN q.mapAddr /\ e.fInTried /\ e.success /\ e.nRefCount = 0
       /\ e.nRandomPos = Len(q.vRandom) + 1 /\ t = TriedSlot[e.addr]
  BY <1>3, <1>4, <1>6, <1>7 DEF Restores, t
<1>15. Sane(w)
  <2>1. Sane(q) /\ w \in Tables /\ e \in Entries /\ w.vvNew = q.vvNew /\ t \in TriedSlots /\ q.vvTried[t] = None
    BY <1>1, <1>3, <1>7, <1>12
  <2>2. w.vvTried[t] = q.nIdCount /\ \A u \in TriedSlots \ {t} : w.vvTried[u] = q.vvTried[u]
    BY <1>11, <1>12
  <2> QED
    BY <1>13, <1>14, <2>1, <2>2, EntersTried
<1>16. /\ DOMAIN w.mapInfo = DOMAIN q.mapInfo \cup {id} /\ w.mapInfo[id] = e
       /\ \A x \in DOMAIN q.mapInfo : w.mapInfo[x] = q.mapInfo[x]
       /\ w.nIdCount = id + 1
  <2>1. Sane(q) /\ w \in Tables /\ e \in Entries
    BY <1>1, <1>7, <1>12
  <2> QED
    BY <1>13, <1>14, <2>1, EntersFacts
<1> HIDE DEF id
<1>17. DOMAIN w.mapInfo = 0..(n - 1) /\ w.nIdCount = n
  <2>1. 0..(n - 1) = 0..(n - 2) \cup {n - 1} /\ n - 1 + 1 = n
    BY <1>0
  <2> QED
    BY <1>1, <1>16, <2>1
<1>18. ASSUME NEW j \in 0..(n - 1)
       PROVE  Restores(w.mapInfo[j], Item(file, j)) /\ w.mapInfo[j].fInTried = (j >= NewLen(file))
  <2>1. CASE j = id
    <3>1. (j >= NewLen(file)) = TRUE
      BY <1>0, <1>1, <2>1
    <3>2. Restores(e, info)
      BY <1>6, <1>7 DEF Restores
    <3> QED
      BY <1>1, <1>2, <1>7, <1>16, <2>1, <3>1, <3>2
  <2>2. CASE j # id
    <3>1. j \in 0..(n - 2)
      BY <1>0, <1>1, <2>2
    <3> QED
      BY <1>1, <1>16, <3>1
  <2> QED
    BY <2>1, <2>2
<1>19. AtMost(w, 1)
  BY <1>1, <1>14, <1>16 DEF AtMost
<1>20. w \in Stage(file, layout, n)
  BY <1>1, <1>12, <1>15, <1>17, <1>18, <1>19 DEF Stage
<1> QED
  BY <1>20 DEF w, info, n

(* The tables once all entries are read.                                   *)
AllRead(file, layout) ==
  LET new == ReadAllNew(FileStart(file), file.new, layout)[Len(file.new)]
  IN  ReadAllTried(new, file.tried)[Len(file.tried)]

LEMMA ReadStage ==
  ASSUME NEW file, WellFormed(file), NEW layout \in BOOLEAN
  PROVE  AllRead(file, layout) \in Stage(file, layout, Size(file))
<1> DEFINE k == NewLen(file)
           n == TriedLen(file)
           S == [i \in 0..k |-> Stage(file, layout, i)]
           T == [i \in 0..n |-> Stage(file, layout, k + i)]
           start == FileStart(file)
           new == ReadAllNew(start, file.new, layout)[k]
<1>0. k \in Nat /\ n \in Nat /\ Size(file) = k + n /\ k = Len(file.new) /\ n = Len(file.tried)
  BY Sizes DEF NewLen, TriedLen
<1>1. start \in Stage(file, layout, 0)
  BY StartStage
<1>2. \A i \in 1..k : \A q \in Stage(file, layout, i - 1) : ReadNew(q, file.new[i], layout) \in Stage(file, layout, i)
  BY NewStage
<1>3. \A i \in 1..n : \A q \in Stage(file, layout, k + i - 1) : ReadTried(q, file.tried[i]) \in Stage(file, layout, k + i)
  BY TriedStage
<1> HIDE DEF start, k, n
<1>4. start \in S[0] /\ \A i \in 1..k : \A q \in S[i - 1] : ReadNew(q, file.new[i], layout) \in S[i]
  BY <1>0, <1>1, <1>2
<1>5. k \in 0..k /\ S[k] = Stage(file, layout, k)
  BY <1>0
<1>6. new \in Stage(file, layout, k)
  <2> HIDE DEF S
  <2>1. \A i \in 0..Len(file.new) : ReadAllNew(start, file.new, layout)[i] \in S[i]
    BY <1>0, <1>4, ReadAllNewIs
  <2> QED
    BY <1>0, <1>5, <2>1
<1> HIDE DEF new
<1>7. \A i \in 1..n : k + (i - 1) = k + i - 1 /\ i - 1 \in 0..n
  BY <1>0
<1>8. T[0] = Stage(file, layout, k) /\ T[n] = Stage(file, layout, k + n) /\ n \in 0..n
  <2>1. 0 \in 0..n /\ n \in 0..n /\ k + 0 = k
    BY <1>0
  <2> QED
    BY <2>1
<1>9. \A i \in 1..n : T[i - 1] = Stage(file, layout, k + i - 1) /\ T[i] = Stage(file, layout, k + i)
  <2>1. \A i \in 1..n : i \in 0..n
    BY <1>0
  <2> QED
    BY <1>7, <2>1
<1> HIDE DEF T
<1>10. new \in T[0] /\ \A i \in 1..n : \A q \in T[i - 1] : ReadTried(q, file.tried[i]) \in T[i]
  BY <1>3, <1>6, <1>8, <1>9
<1>11. ReadAllTried(new, file.tried)[n] \in T[n]
  <2>1. \A i \in 0..Len(file.tried) : ReadAllTried(new, file.tried)[i] \in T[i]
    BY <1>0, <1>10, ReadAllTriedIs
  <2> QED
    BY <1>0, <1>8, <2>1
<1> QED
  BY <1>0, <1>8, <1>11 DEF AllRead, new, start

LEMMA ReadFacts ==
  ASSUME NEW file, WellFormed(file), NEW layout \in BOOLEAN, NEW q \in Stage(file, layout, Size(file))
  PROVE  /\ TriedIds(q) = NewLen(file)..(Size(file) - 1) /\ UntriedIds(q) = 0..(NewLen(file) - 1)
         /\ Tallied(q, 0)
<1> DEFINE k == NewLen(file)
           n == TriedLen(file)
<1>0. k \in Nat /\ n \in Nat /\ Size(file) = k + n
  BY Sizes
<1>1. /\ DOMAIN q.mapInfo = 0..(Size(file) - 1) /\ q.nNew = k /\ q.nTried = n
      /\ \A j \in 0..(Size(file) - 1) : q.mapInfo[j].fInTried = (j >= k)
  BY DEF Stage
<1> HIDE DEF k, n
<1>2. TriedIds(q) = k..(Size(file) - 1) /\ UntriedIds(q) = 0..(k - 1)
  <2> DEFINE D == 0..(Size(file) - 1)
  <2>1. TriedIds(q) = {j \in D : j >= k}
    BY <1>1 DEF TriedIds
  <2>2. UntriedIds(q) = D \ {j \in D : j >= k}
    BY <1>1, <2>1 DEF UntriedIds
  <2>3. {j \in D : j >= k} = k..(Size(file) - 1) /\ D \ {j \in D : j >= k} = 0..(k - 1)
    BY <1>0
  <2> QED
    BY <2>1, <2>2, <2>3
<1>3. Cardinality(k..(Size(file) - 1)) = n
  <2>1. k \in Int /\ Size(file) - 1 \in Int
    BY <1>0
  <2> QED
    BY <1>0, <2>1, FS_Interval
<1>4. Cardinality(0..(k - 1)) = k
  <2>1. 0 \in Int /\ k - 1 \in Int
    BY <1>0
  <2> QED
    BY <1>0, <2>1, FS_Interval
<1> QED
  BY <1>0, <1>1, <1>2, <1>3, <1>4 DEF Tallied, k

(* The entries without a place are deleted one by one.                     *)
LEMMA DeleteAllFacts ==
  ASSUME NEW m, Sane(m)
  PROVE  LET q == DeleteAll(m, Sorted(Lost(m)))[Cardinality(Lost(m))]
         IN  Sane(q) /\ Lost(q) = {} /\ Shrunk(m, q)
<1> DEFINE L == Lost(m)
           c == Cardinality(L)
           ids == Sorted(L)
           All(i) == {q \in Tables : Sane(q) /\ Shrunk(m, q) /\ Lost(q) = L \ {ids[j] : j \in 1..i}}
           S == [i \in 0..c |-> All(i)]
<1>0. L \in SUBSET Nat /\ IsFiniteSet(L)
  <2>1. L \in SUBSET DOMAIN m.mapInfo /\ DOMAIN m.mapInfo \subseteq Nat
    BY TablesFacts DEF Lost, Sane
  <2>2. IsFiniteSet(DOMAIN m.mapInfo)
    BY IdsFinite
  <2> HIDE DEF L
  <2> QED
    BY <2>1, <2>2, FS_Subset
<1>1. /\ c \in Nat /\ ids \in [1..c -> L] /\ \A n \in 1..c : Number(L, ids[n]) = n - 1
      /\ \A x \in L : Number(L, x) \in 0..(c - 1) /\ ids[Number(L, x) + 1] = x
  <2> HIDE DEF L
  <2> QED
    BY <1>0, SortedFacts
<1>2. Len(ids) = c
  <2> HIDE DEF ids, c
  <2> QED
    BY <1>1
<1>3. m \in All(0)
  <2>1. {ids[j] : j \in 1..0} = {}
    OBVIOUS
  <2>2. m \in Tables /\ Shrunk(m, m)
    BY ShrunkSame DEF Sane
  <2> HIDE DEF ids
  <2> QED
    BY <2>1, <2>2
<1> HIDE DEF ids, c, L
<1>4. ASSUME NEW i \in 1..c, NEW q \in All(i - 1) PROVE Delete(q, ids[i]) \in All(i)
  <2> DEFINE w == Delete(q, ids[i])
  <2>1. Sane(q) /\ Shrunk(m, q) /\ Lost(q) = L \ {ids[j] : j \in 1..(i - 1)}
    OBVIOUS
  <2>2. ids[i] \in Lost(q)
    <3>1. \A j \in 1..(i - 1) : j \in 1..c /\ j # i /\ j - 1 # i - 1
      BY <1>1
    <3>2. \A j \in 1..(i - 1) : ids[j] # ids[i]
      BY <1>1, <3>1
    <3> QED
      BY <1>1, <2>1, <3>2
  <2>3. Sane(w) /\ Shrunk(q, w) /\ Lost(w) = Lost(q) \ {ids[i]}
    BY <2>1, <2>2, DeleteFacts, DeleteShrinks
  <2> HIDE DEF w
  <2>4. Shrunk(m, w) /\ w \in Tables
    BY <2>1, <2>3, ShrunkTwice DEF Sane
  <2>5. Lost(w) = L \ {ids[j] : j \in 1..i}
    <3>1. 1..i = 1..(i - 1) \cup {i}
      BY <1>1
    <3> QED
      BY <2>1, <2>3, <3>1
  <2> QED
    BY <2>3, <2>4, <2>5 DEF w
<1>5. All(c) \subseteq {q \in Tables : Sane(q) /\ Shrunk(m, q) /\ Lost(q) = {}}
  <2>1. \A x \in L : Number(L, x) + 1 \in 1..c
    BY <1>1
  <2>2. L \ {ids[j] : j \in 1..c} = {}
    BY <1>1, <2>1
  <2> QED
    BY <2>2
<1> HIDE DEF All
<1>6. /\ m \in S[0] /\ \A i \in 1..c : \A q \in S[i - 1] : Delete(q, ids[i]) \in S[i]
      /\ c \in 0..c /\ S[c] = All(c)
  BY <1>1, <1>3, <1>4
<1> HIDE DEF S
<1>7. DeleteAll(m, ids)[c] \in S[c]
  <2>1. \A i \in 0..Len(ids) : DeleteAll(m, ids)[i] \in S[i]
    BY <1>1, <1>2, <1>6, DeleteAllIs
  <2> QED
    BY <1>2, <1>6, <2>1
<1>8. DeleteAll(m, ids)[c] \in {q \in Tables : Sane(q) /\ Shrunk(m, q) /\ Lost(q) = {}}
  BY <1>5, <1>6, <1>7
<1> QED
  BY <1>8 DEF ids, c, L

-----------------------------------------------------------------------------
(* The entry that a file gives number j, and the number of an entry.       *)
FileId(m, j) ==
  IF j < Cardinality(NewIds(m)) THEN Sorted(NewIds(m))[j + 1]
  ELSE Sorted(TriedIds(m))[j - Cardinality(NewIds(m)) + 1]
FileNo(m, id) ==
  IF id \in TriedIds(m) THEN Cardinality(NewIds(m)) + Number(TriedIds(m), id)
  ELSE Number(NewIds(m), id)

(* An entry has a place in the new table or is tried.                      *)
LEMMA NewIsUntried ==
  ASSUME NEW m, Sound(m)
  PROVE  /\ NewIds(m) = UntriedIds(m) /\ \A id \in TriedIds(m) : m.mapInfo[id].nRefCount = 0 /\ Holders(m, id) = {}
<1>1. ASSUME NEW id \in TriedIds(m) PROVE m.mapInfo[id].nRefCount = 0 /\ Holders(m, id) = {}
  <2>1. id \in DOMAIN m.mapInfo /\ m.mapInfo[id].fInTried
    BY DEF TriedIds
  <2>2. id # None
    BY <2>1, TablesFacts DEF Sound, Sane, None
  <2>3. Holders(m, id) = {}
    BY <2>1, <2>2 DEF Holders, Sound, Sane, NewOk
  <2> QED
    BY <2>1, <2>3, FS_EmptySet DEF Sound, Sane, NewOk
<1>2. \A id \in UntriedIds(m) : m.mapInfo[id].nRefCount # 0
  BY DEF UntriedIds, TriedIds, Sound, Lost
<1> QED
  BY <1>1, <1>2 DEF NewIds, UntriedIds, TriedIds

(* How a file numbers the entries.                                         *)
Numbers(m, file) ==
  /\ NewLen(file) = Cardinality(NewIds(m)) /\ TriedLen(file) = Cardinality(TriedIds(m))
  /\ Size(file) = Cardinality(DOMAIN m.mapInfo)
  /\ \A j \in 0..(Size(file) - 1) :
        /\ FileId(m, j) \in DOMAIN m.mapInfo /\ FileNo(m, FileId(m, j)) = j
        /\ Item(file, j) = m.mapInfo[FileId(m, j)]
        /\ FileId(m, j) \in TriedIds(m) <=> j >= NewLen(file)
  /\ \A id \in DOMAIN m.mapInfo : FileNo(m, id) \in 0..(Size(file) - 1) /\ FileId(m, FileNo(m, id)) = id
  /\ \A id \in NewIds(m) : FileNo(m, id) = Number(NewIds(m), id) /\ FileNo(m, id) < NewLen(file)

LEMMA SerializeNumbers ==
  ASSUME NEW m, Sound(m), NEW file, file = Serialize(m)
  PROVE  Numbers(m, file) /\ file.new \in Seq(Entries) /\ file.tried \in Seq(Entries)
<1> DEFINE N == NewIds(m)
           T == TriedIds(m)
           k == Cardinality(N)
           n == Cardinality(T)
           new == [i \in 1..k |-> m.mapInfo[Sorted(N)[i]]]
           tried == [i \in 1..n |-> m.mapInfo[Sorted(T)[i]]]
<1>0. m.mapInfo \in [DOMAIN m.mapInfo -> Entries] /\ DOMAIN m.mapInfo \subseteq Nat
  BY TablesFacts DEF Sound, Sane
<1>1. /\ N = UntriedIds(m) /\ N \cup T = DOMAIN m.mapInfo /\ N \cap T = {} /\ N \in SUBSET Nat /\ T \in SUBSET Nat
      /\ IsFiniteSet(N) /\ IsFiniteSet(T)
  <2>1. IsFiniteSet(TriedIds(m)) /\ IsFiniteSet(UntriedIds(m))
    BY IdsFinite DEF Sound
  <2> QED
    BY <1>0, <2>1, NewIsUntried DEF UntriedIds, TriedIds
<1>2. file.new = new /\ file.tried = tried
  BY DEF Serialize
<1> HIDE DEF N, T
<1>3. /\ k \in Nat /\ Sorted(N) \in [1..k -> N] /\ \A i \in 1..k : Number(N, Sorted(N)[i]) = i - 1
      /\ \A x \in N : Number(N, x) \in 0..(k - 1) /\ Sorted(N)[Number(N, x) + 1] = x
  BY <1>1, SortedFacts
<1>4. /\ n \in Nat /\ Sorted(T) \in [1..n -> T] /\ \A i \in 1..n : Number(T, Sorted(T)[i]) = i - 1
      /\ \A x \in T : Number(T, x) \in 0..(n - 1) /\ Sorted(T)[Number(T, x) + 1] = x
  BY <1>1, SortedFacts
<1>5. new \in Seq(Entries) /\ Len(new) = k
  <2>1. \A i \in 1..k : m.mapInfo[Sorted(N)[i]] \in Entries
    BY <1>0, <1>1, <1>3
  <2> HIDE DEF k
  <2> QED
    BY <1>3, <2>1
<1>6. tried \in Seq(Entries) /\ Len(tried) = n
  <2>1. \A i \in 1..n : m.mapInfo[Sorted(T)[i]] \in Entries
    BY <1>0, <1>1, <1>4
  <2> HIDE DEF n
  <2> QED
    BY <1>4, <2>1
<1>7. NewLen(file) = k /\ TriedLen(file) = n /\ Size(file) = k + n
  BY <1>2, <1>5, <1>6 DEF NewLen, TriedLen, Size
<1>8. Size(file) = Cardinality(DOMAIN m.mapInfo)
  <2>1. Cardinality(N \cap T) = 0
    BY <1>1, FS_EmptySet
  <2>2. Cardinality(N \cup T) = Cardinality(N) + Cardinality(T) - Cardinality(N \cap T)
    BY <1>1, FS_Union
  <2>3. k + n - 0 = k + n
    BY <1>3, <1>4
  <2>4. Cardinality(N \cup T) = k + n
    BY <2>1, <2>2, <2>3
  <2> QED
    BY <1>1, <1>7, <2>4
<1>9. ASSUME NEW j \in 0..(k + n - 1)
      PROVE  /\ FileId(m, j) \in DOMAIN m.mapInfo /\ FileNo(m, FileId(m, j)) = j
             /\ Item(file, j) = m.mapInfo[FileId(m, j)]
             /\ FileId(m, j) \in T <=> j >= k
  <2>1. CASE j < k
    <3>1. j + 1 \in 1..k /\ ~(j >= k) /\ j + 1 - 1 = j
      BY <1>3, <2>1
    <3>2. FileId(m, j) = Sorted(N)[j + 1]
      BY <2>1 DEF FileId, N
    <3>3. FileId(m, j) \in N /\ Number(N, FileId(m, j)) = j
      BY <1>3, <3>1, <3>2
    <3>4. FileId(m, j) \notin T /\ FileId(m, j) \in DOMAIN m.mapInfo
      BY <1>1, <3>3
    <3>5. FileNo(m, FileId(m, j)) = j
      BY <3>3, <3>4 DEF FileNo, N, T
    <3>6. Item(file, j) = new[j + 1]
      BY <1>2, <1>7, <2>1 DEF Item
    <3>7. new[j + 1] = m.mapInfo[Sorted(N)[j + 1]]
      BY <3>1
    <3> QED
      BY <3>1, <3>2, <3>4, <3>5, <3>6, <3>7
  <2>2. CASE ~(j < k)
    <3> DEFINE i == j - k + 1
    <3>1. i \in 1..n /\ j >= k /\ k + (i - 1) = j
      BY <1>3, <1>4, <2>2
    <3>2. FileId(m, j) = Sorted(T)[i]
      BY <2>2 DEF FileId, N, T
    <3> HIDE DEF i
    <3>3. FileId(m, j) \in T /\ Number(T, FileId(m, j)) = i - 1
      BY <1>4, <3>1, <3>2
    <3>4. FileId(m, j) \in DOMAIN m.mapInfo
      BY <1>1, <3>3
    <3>5. FileNo(m, FileId(m, j)) = k + (i - 1)
      BY <3>3 DEF FileNo, N, T
    <3>6. Item(file, j) = tried[i]
      BY <1>2, <1>7, <2>2 DEF Item, i
    <3>7. tried[i] = m.mapInfo[Sorted(T)[i]]
      BY <3>1
    <3> QED
      BY <3>1, <3>2, <3>3, <3>4, <3>5, <3>6, <3>7
  <2> QED
    BY <2>1, <2>2
<1>10. ASSUME NEW id \in DOMAIN m.mapInfo
       PROVE  /\ FileNo(m, id) \in 0..(k + n - 1) /\ FileId(m, FileNo(m, id)) = id
              /\ id \in N => FileNo(m, id) = Number(N, id) /\ FileNo(m, id) < k
  <2>1. CASE id \in T
    <3> DEFINE x == Number(T, id)
    <3>1. id \notin N /\ x \in 0..(n - 1) /\ Sorted(T)[x + 1] = id
      BY <1>1, <1>4, <2>1
    <3>2. FileNo(m, id) = k + x
      BY <2>1 DEF FileNo, N, T
    <3> HIDE DEF x
    <3>3. k + x \in 0..(k + n - 1) /\ ~(k + x < k) /\ k + x - k + 1 = x + 1
      BY <1>3, <1>4, <3>1
    <3>4. FileId(m, k + x) = Sorted(T)[x + 1]
      <4> DEFINE j == k + x
      <4>1. ~(j < k) /\ j - k + 1 = x + 1
        BY <1>3, <1>4, <3>1
      <4> HIDE DEF j
      <4>2. FileId(m, j) = Sorted(T)[j - k + 1]
        BY <4>1 DEF FileId, N, T
      <4> QED
        BY <4>1, <4>2 DEF j
    <3> QED
      BY <3>1, <3>2, <3>3, <3>4
  <2>2. CASE id \notin T
    <3> DEFINE x == Number(N, id)
    <3>1. id \in N /\ x \in 0..(k - 1) /\ Sorted(N)[x + 1] = id
      BY <1>1, <1>3, <2>2
    <3>2. FileNo(m, id) = x
      BY <2>2 DEF FileNo, N, T
    <3>3. x \in 0..(k + n - 1) /\ x < k
      BY <1>3, <1>4, <3>1
    <3>4. FileId(m, x) = Sorted(N)[x + 1]
      BY <3>3 DEF FileId, N
    <3> QED
      BY <3>1, <3>2, <3>3, <3>4
  <2> QED
    BY <2>1, <2>2
<1>11. \A id \in N : id \in DOMAIN m.mapInfo
  BY <1>1
<1>12. Numbers(m, file)
  <2>0. k \in Nat /\ n \in Nat
    BY <1>3, <1>4
  <2> HIDE DEF k, n
  <2>1. /\ NewLen(file) = Cardinality(NewIds(m)) /\ TriedLen(file) = Cardinality(TriedIds(m))
    BY <1>7 DEF k, n, N, T
  <2>2. \A j \in 0..(Size(file) - 1) :
           /\ FileId(m, j) \in DOMAIN m.mapInfo /\ FileNo(m, FileId(m, j)) = j
           /\ Item(file, j) = m.mapInfo[FileId(m, j)]
           /\ FileId(m, j) \in TriedIds(m) <=> j >= NewLen(file)
    BY <1>7, <1>9, <2>0 DEF T
  <2>3. \A id \in DOMAIN m.mapInfo : FileNo(m, id) \in 0..(Size(file) - 1) /\ FileId(m, FileNo(m, id)) = id
    BY <1>7, <1>10, <2>0
  <2>4. \A id \in NewIds(m) : FileNo(m, id) = Number(NewIds(m), id) /\ FileNo(m, id) < NewLen(file)
    BY <1>7, <1>10, <1>11 DEF N
  <2> QED
    BY <1>8, <2>1, <2>2, <2>3, <2>4 DEF Numbers
<1> QED
  BY <1>2, <1>5, <1>6, <1>12

LEMMA SerializeFacts ==
  ASSUME NEW m, Sound(m), NEW file, file = Serialize(m)
  PROVE  WellFormed(file) /\ Numbers(m, file)
<1>0. Numbers(m, file) /\ file.new \in Seq(Entries) /\ file.tried \in Seq(Entries)
  BY SerializeNumbers
<1>1. NewLen(file) \in Nat /\ Size(file) \in Nat
  <2>1. NewLen(file) \in Nat /\ TriedLen(file) \in Nat
    BY <1>0 DEF NewLen, TriedLen
  <2>2. Size(file) = NewLen(file) + TriedLen(file)
    BY DEF Size
  <2> QED
    BY <2>1, <2>2
<1>2. \A j \in 0..(Size(file) - 1) :
         /\ FileId(m, j) \in DOMAIN m.mapInfo /\ FileNo(m, FileId(m, j)) = j
         /\ Item(file, j) = m.mapInfo[FileId(m, j)]
         /\ FileId(m, j) \in TriedIds(m) <=> j >= NewLen(file)
  BY <1>0 DEF Numbers
<1>3. ASSUME NEW i \in 0..(Size(file) - 1), NEW j \in 0..(Size(file) - 1),
             Ip[Item(file, i).addr] = Ip[Item(file, j).addr]
      PROVE  i = j
  <2>1. Ip[m.mapInfo[FileId(m, i)].addr] = Ip[m.mapInfo[FileId(m, j)].addr]
    BY <1>2, <1>3
  <2>2. FileId(m, i) = FileId(m, j)
    BY <1>2, <2>1 DEF Sound, Sane, Indexed
  <2> QED
    BY <1>2, <2>2
<1>4. \A i \in NewLen(file)..(Size(file) - 1) :
         /\ i \in 0..(Size(file) - 1) /\ FileId(m, i) \in DOMAIN m.mapInfo /\ m.mapInfo[FileId(m, i)].fInTried
  <2>1. \A i \in NewLen(file)..(Size(file) - 1) : i \in 0..(Size(file) - 1) /\ i >= NewLen(file)
    BY <1>1
  <2> QED
    BY <1>2, <2>1 DEF TriedIds
<1>5. ASSUME NEW i \in NewLen(file)..(Size(file) - 1)
      PROVE  Item(file, i).success /\ m.vvTried[TriedSlot[Item(file, i).addr]] = FileId(m, i)
  BY <1>2, <1>4 DEF Sound, Sane, TriedOk
<1>6. ASSUME NEW i \in NewLen(file)..(Size(file) - 1), NEW j \in NewLen(file)..(Size(file) - 1),
             TriedSlot[Item(file, i).addr] = TriedSlot[Item(file, j).addr]
      PROVE  i = j
  <2>1. FileId(m, i) = FileId(m, j)
    BY <1>5, <1>6
  <2> QED
    BY <1>2, <1>4, <2>1
<1> QED
  BY <1>0, <1>3, <1>5, <1>6 DEF WellFormed

(* The buckets of the file lead every new entry back to its places.        *)
LEMMA FromFileIs ==
  ASSUME NEW m, Sound(m), NEW file, file = Serialize(m),
         NEW q \in Stage(file, TRUE, Size(file)), NEW t \in NewSlots
  PROVE  /\ m.vvNew[t] = None => FromFile(q, file.buckets, t) = None
         /\ m.vvNew[t] # None => FromFile(q, file.buckets, t) = FileNo(m, m.vvNew[t])
<1> DEFINE b == t[1]
           here == {j \in file.buckets[b] : Slot(q.mapInfo[j].addr, b) = t}
<1>0. b \in NewBuckets
  BY DEF NewSlots
<1>1. file.buckets[b] = {Number(NewIds(m), id) : id \in Bucket(m, b)}
  BY <1>0 DEF Serialize
<1>2. FromFile(q, file.buckets, t) = IF here = {} THEN None ELSE CHOOSE id \in here : TRUE
  BY DEF FromFile
<1>3. Numbers(m, file)
  BY SerializeFacts
<1>4. \A j \in 0..(Size(file) - 1) : Restores(q.mapInfo[j], Item(file, j))
  BY DEF Stage
<1>5. ASSUME NEW u \in NewSlots, m.vvNew[u] # None
      PROVE  LET id == m.vvNew[u]
             IN  /\ FileNo(m, id) = Number(NewIds(m), id)
                 /\ Slot(q.mapInfo[FileNo(m, id)].addr, u[1]) = u
  <2> DEFINE id == m.vvNew[u]
             j == FileNo(m, id)
  <2>1. id \in DOMAIN m.mapInfo /\ ~m.mapInfo[id].fInTried /\ Slot(m.mapInfo[id].addr, u[1]) = u
    BY <1>5 DEF Sound, Sane, NewOk
  <2>2. id \in NewIds(m)
    BY <2>1, NewIsUntried DEF UntriedIds, TriedIds
  <2> HIDE DEF id
  <2>3. j = Number(NewIds(m), id) /\ j \in 0..(Size(file) - 1) /\ FileId(m, j) = id
    BY <1>3, <2>1, <2>2 DEF Numbers
  <2> HIDE DEF j
  <2>4. Item(file, j) = m.mapInfo[id]
    BY <1>3, <2>3 DEF Numbers
  <2>5. q.mapInfo[j].addr = m.mapInfo[id].addr
    BY <1>4, <2>3, <2>4 DEF Restores
  <2> QED
    BY <2>1, <2>3, <2>5 DEF id, j
<1>6. ASSUME NEW j \in here
      PROVE  m.vvNew[t] # None /\ j = FileNo(m, m.vvNew[t])
  <2>1. PICK id \in Bucket(m, b) : j = Number(NewIds(m), id)
    BY <1>1
  <2>2. PICK u \in NewSlots : u[1] = b /\ id = m.vvNew[u] /\ id # None
    BY DEF Bucket
  <2>3. j = FileNo(m, id) /\ Slot(q.mapInfo[j].addr, b) = u
    BY <1>5, <2>1, <2>2
  <2>4. u = t
    BY <2>3
  <2> QED
    BY <2>2, <2>3, <2>4
<1>7. ASSUME m.vvNew[t] # None PROVE FileNo(m, m.vvNew[t]) \in here
  <2>1. m.vvNew[t] \in Bucket(m, b)
    BY <1>7 DEF Bucket
  <2>2. /\ FileNo(m, m.vvNew[t]) = Number(NewIds(m), m.vvNew[t])
        /\ Slot(q.mapInfo[FileNo(m, m.vvNew[t])].addr, b) = t
    BY <1>5, <1>7
  <2> QED
    BY <1>1, <2>1, <2>2
<1> HIDE DEF here
<1>8. CASE m.vvNew[t] = None
  BY <1>2, <1>6, <1>8
<1>9. CASE m.vvNew[t] # None
  <2>1. here = {FileNo(m, m.vvNew[t])}
    BY <1>6, <1>7, <1>9
  <2> QED
    BY <1>2, <1>9, <2>1
<1> QED
  BY <1>8, <1>9

(* The tables q hold what m does, under the numbers of the file.           *)
Copied(m, q) ==
  /\ DOMAIN q.mapInfo = 0..(Cardinality(DOMAIN m.mapInfo) - 1)
  /\ \A id \in DOMAIN m.mapInfo :
        /\ FileNo(m, id) \in DOMAIN q.mapInfo /\ Kin(q.mapInfo[FileNo(m, id)], m.mapInfo[id])
        /\ Holders(q, FileNo(m, id)) = Holders(m, id)

LEMMA BucketsFacts ==
  ASSUME NEW m, Sound(m), NEW file, file = Serialize(m),
         NEW q \in Stage(file, TRUE, Size(file)), NEW w, w = ReadBuckets(q, file.buckets)
  PROVE  Sound(w) /\ Copied(m, w) /\ w.nIdCount = Size(file)
<1> DEFINE table == [t \in NewSlots |-> FromFile(q, file.buckets, t)]
           Held(id) == {t \in NewSlots : table[t] = id}
           map == [id \in DOMAIN q.mapInfo |-> [q.mapInfo[id] EXCEPT !.nRefCount = @ + Cardinality(Held(id))]]
<1>0. /\ Sane(q) /\ q \in Tables /\ q.nIdCount = Size(file) /\ DOMAIN q.mapInfo = 0..(Size(file) - 1)
      /\ \A j \in 0..(Size(file) - 1) : /\ Restores(q.mapInfo[j], Item(file, j))
                                        /\ q.mapInfo[j].fInTried = (j >= NewLen(file))
      /\ \A t \in NewSlots : q.vvNew[t] = None
  BY DEF Stage
<1>1. /\ q.mapInfo \in [DOMAIN q.mapInfo -> Entries] /\ DOMAIN q.mapInfo \subseteq Nat
  BY <1>0, TablesFacts
<1>2. Numbers(m, file) /\ WellFormed(file)
  BY SerializeFacts
<1>3. w = [q EXCEPT !.vvNew = table, !.mapInfo = map]
  BY DEF ReadBuckets
<1>4. \A t \in NewSlots : IF m.vvNew[t] = None THEN table[t] = None ELSE table[t] = FileNo(m, m.vvNew[t])
  BY FromFileIs
<1>5. ASSUME NEW t \in NewSlots, m.vvNew[t] # None
      PROVE  /\ m.vvNew[t] \in DOMAIN m.mapInfo /\ ~m.mapInfo[m.vvNew[t]].fInTried
             /\ Slot(m.mapInfo[m.vvNew[t]].addr, t[1]) = t
             /\ FileNo(m, m.vvNew[t]) \in 0..(Size(file) - 1)
             /\ FileId(m, FileNo(m, m.vvNew[t])) = m.vvNew[t]
  <2>1. /\ m.vvNew[t] \in DOMAIN m.mapInfo /\ ~m.mapInfo[m.vvNew[t]].fInTried
        /\ Slot(m.mapInfo[m.vvNew[t]].addr, t[1]) = t
    BY <1>5 DEF Sound, Sane, NewOk
  <2> QED
    BY <1>2, <2>1 DEF Numbers
<1>6. table \in [NewSlots -> Int]
  BY <1>4, <1>5 DEF None
<1>7. ASSUME NEW id \in DOMAIN q.mapInfo
      PROVE  q.mapInfo[id].nRefCount = 0 /\ Cardinality(Held(id)) \in Nat
  <2>1. Holders(q, id) = {}
    <3>1. id # None
      BY <1>1 DEF None
    <3> QED
      BY <1>0, <3>1 DEF Holders
  <2>2. q.mapInfo[id].nRefCount = 0
    BY <1>0, <2>1, FS_EmptySet DEF Sane, NewOk
  <2>3. IsFiniteSet(NewSlots) /\ Held(id) \in SUBSET NewSlots
    BY HoldersFinite
  <2> HIDE DEF Held
  <2>4. Cardinality(Held(id)) \in Nat
    BY <2>3, FS_Subset, FS_CardinalityType
  <2> QED
    BY <2>2, <2>4
<1> HIDE DEF table
<1>8. /\ map \in [DOMAIN q.mapInfo -> Entries]
      /\ \A id \in DOMAIN q.mapInfo :
            /\ Kin(map[id], q.mapInfo[id]) /\ map[id].nRandomPos = q.mapInfo[id].nRandomPos
            /\ map[id].nRefCount = Cardinality(Held(id))
  <2>1. ASSUME NEW id \in DOMAIN q.mapInfo
        PROVE  /\ map[id] \in Entries
               /\ Kin(map[id], q.mapInfo[id]) /\ map[id].nRandomPos = q.mapInfo[id].nRandomPos
               /\ map[id].nRefCount = Cardinality(Held(id))
    <3> DEFINE e == q.mapInfo[id]
               c == Cardinality(Held(id))
               f == [e EXCEPT !.nRefCount = @ + c]
    <3>1. e \in Entries /\ e.nRefCount = 0 /\ c \in Nat /\ map[id] = f
      BY <1>1, <1>7
    <3> HIDE DEF e, c, map
    <3>2. /\ f \in Entries /\ f.addr = e.addr /\ f.source = e.source /\ f.success = e.success
          /\ f.nRandomPos = e.nRandomPos /\ f.nRefCount = c
      BY <3>1 DEF Entries
    <3>3. f.fInTried = e.fInTried
      BY <3>1 DEF Entries
    <3> HIDE DEF f
    <3>4. map[id] \in Entries /\ Kin(map[id], e) /\ map[id].nRandomPos = e.nRandomPos /\ map[id].nRefCount = c
      BY <3>1, <3>2, <3>3 DEF Kin
    <3> QED
      BY <3>4 DEF e, c
  <2>2. DOMAIN map = DOMAIN q.mapInfo /\ map = [id \in DOMAIN q.mapInfo |-> map[id]]
    OBVIOUS
  <2> HIDE DEF map, Held
  <2> QED
    BY <2>1, <2>2
<1>9. map \in InfoMaps /\ DOMAIN map = DOMAIN q.mapInfo
  <2> HIDE DEF map
  <2>1. map \in [DOMAIN q.mapInfo -> Entries] /\ DOMAIN q.mapInfo \in SUBSET Nat
    BY <1>1, <1>8
  <2> QED
    BY <2>1 DEF InfoMaps
<1> HIDE DEF map
<1>10. /\ w \in Tables /\ w.mapInfo = map /\ w.vvNew = table /\ w.mapAddr = q.mapAddr /\ w.vRandom = q.vRandom
       /\ w.nIdCount = q.nIdCount /\ w.vvTried = q.vvTried /\ w.nNew = q.nNew /\ w.nTried = q.nTried
  BY <1>0, <1>3, <1>6, <1>9 DEF Tables
<1>11. \A id : Holders(w, id) = Held(id)
  BY <1>10 DEF Holders
<1>12. \A id \in DOMAIN q.mapInfo :
          /\ Kin(w.mapInfo[id], q.mapInfo[id]) /\ w.mapInfo[id].nRandomPos = q.mapInfo[id].nRandomPos
          /\ w.mapInfo[id].nRefCount = Cardinality(Holders(w, id))
  BY <1>8, <1>10, <1>11
<1> HIDE DEF Held
<1>13. Indexed(w) /\ Ordered(w) /\ TriedOk(w)
  <2>1. Indexed(w)
    <3>1. Indexed(q) /\ DOMAIN w.mapInfo = DOMAIN q.mapInfo
      BY <1>0, <1>9, <1>10 DEF Sane
    <3>2. \A id \in DOMAIN q.mapInfo : w.mapInfo[id].addr = q.mapInfo[id].addr
      BY <1>12 DEF Kin
    <3> QED
      BY <1>10, <3>1, <3>2 DEF Indexed
  <2>2. Ordered(w)
    <3>1. Ordered(q) /\ DOMAIN w.mapInfo = DOMAIN q.mapInfo
      BY <1>0, <1>9, <1>10 DEF Sane
    <3>2. \A id \in DOMAIN q.mapInfo : w.mapInfo[id].nRandomPos = q.mapInfo[id].nRandomPos
      BY <1>12
    <3> QED
      BY <1>10, <3>1, <3>2 DEF Ordered
  <2>3. TriedOk(w)
    BY <1>0, <1>9, <1>10, <1>12 DEF Sane, TriedOk, Kin
  <2> QED
    BY <2>1, <2>2, <2>3
<1>14. ASSUME NEW id \in DOMAIN m.mapInfo
       PROVE  LET j == FileNo(m, id)
              IN  /\ j \in DOMAIN w.mapInfo /\ Kin(w.mapInfo[j], m.mapInfo[id])
                  /\ Holders(w, j) = Holders(m, id)
  <2> DEFINE j == FileNo(m, id)
  <2>1. j \in 0..(Size(file) - 1) /\ FileId(m, j) = id
    BY <1>2 DEF Numbers
  <2>2. Item(file, j) = m.mapInfo[id] /\ (id \in TriedIds(m) <=> j >= NewLen(file))
    BY <1>2, <2>1 DEF Numbers
  <2>3. Restores(q.mapInfo[j], m.mapInfo[id]) /\ q.mapInfo[j].fInTried = (j >= NewLen(file))
    BY <1>0, <2>1, <2>2
  <2>4. m.mapInfo[id].fInTried \in BOOLEAN
    <3>1. m.mapInfo[id] \in Entries
      BY TablesFacts DEF Sound, Sane
    <3> QED
      BY <3>1 DEF Entries
  <2>5. q.mapInfo[j].fInTried = m.mapInfo[id].fInTried
    BY <2>2, <2>3, <2>4 DEF TriedIds
  <2>6. j \in DOMAIN w.mapInfo /\ Kin(w.mapInfo[j], m.mapInfo[id])
    BY <1>0, <1>9, <1>10, <1>12, <2>1, <2>3, <2>5 DEF Kin, Restores
  <2>7. Holders(w, j) = Holders(m, id)
    <3>1. ASSUME NEW t \in NewSlots PROVE w.vvNew[t] = j <=> m.vvNew[t] = id
      <4>1. id # None /\ j # None
        BY <2>1, TablesFacts DEF None, Sound, Sane
      <4> QED
        BY <1>4, <1>5, <1>10, <2>1, <4>1
    <3> QED
      BY <3>1 DEF Holders
  <2> QED
    BY <2>6, <2>7
<1>15. NewOk(w)
  <2>1. ASSUME NEW t \in NewSlots, w.vvNew[t] # None
        PROVE  /\ w.vvNew[t] \in DOMAIN w.mapInfo /\ ~w.mapInfo[w.vvNew[t]].fInTried
               /\ Slot(w.mapInfo[w.vvNew[t]].addr, t[1]) = t
    <3>1. m.vvNew[t] # None /\ w.vvNew[t] = FileNo(m, m.vvNew[t])
      BY <1>4, <1>10, <2>1
    <3> QED
      BY <1>5, <1>14, <3>1 DEF Kin
  <2> QED
    BY <1>9, <1>10, <1>12, <2>1 DEF NewOk
<1>16. ASSUME NEW j \in DOMAIN w.mapInfo
       PROVE  \E id \in DOMAIN m.mapInfo :
                 /\ j = FileNo(m, id) /\ w.mapInfo[j].nRefCount = m.mapInfo[id].nRefCount
                 /\ w.mapInfo[j].fInTried = m.mapInfo[id].fInTried
  <2> DEFINE id == FileId(m, j)
  <2>1. id \in DOMAIN m.mapInfo /\ FileNo(m, id) = j
    BY <1>0, <1>2, <1>9, <1>10 DEF Numbers
  <2> HIDE DEF id
  <2>2. Kin(w.mapInfo[j], m.mapInfo[id]) /\ Holders(w, j) = Holders(m, id)
    BY <1>14, <2>1
  <2>3. w.mapInfo[j].nRefCount = m.mapInfo[id].nRefCount
    BY <1>9, <1>10, <1>12, <2>1, <2>2 DEF Sound, Sane, NewOk
  <2> QED
    BY <2>1, <2>2, <2>3 DEF Kin
<1>17. Lost(w) = {} /\ AtMost(w, MaxRefs)
  BY <1>16 DEF Lost, AtMost, Sound
<1>18. Tallied(w, 0)
  <2>1. TriedIds(w) = TriedIds(q) /\ UntriedIds(w) = UntriedIds(q)
    BY <1>9, <1>10, <1>12 DEF TriedIds, UntriedIds, Kin
  <2>2. Tallied(q, 0)
    BY <1>2, ReadFacts
  <2> QED
    BY <1>10, <2>1, <2>2 DEF Tallied
<1>19. Sound(w)
  BY <1>10, <1>13, <1>15, <1>17, <1>18 DEF Sound, Sane
<1>20. Copied(m, w)
  BY <1>0, <1>2, <1>9, <1>10, <1>14 DEF Copied, Numbers
<1> QED
  BY <1>0, <1>10, <1>19, <1>20

LEMMA DeleteNone ==
  ASSUME NEW m, Lost(m) = {}
  PROVE  DeleteAll(m, Sorted(Lost(m)))[Cardinality(Lost(m))] = m
<1> DEFINE ids == Sorted(Lost(m))
           S == [i \in 0..0 |-> {m}]
<1>1. Cardinality(Lost(m)) = 0
  BY FS_EmptySet
<1>2. ids = <<>>
  <2>1. ids = [n \in 1..0 |-> CHOOSE id \in Lost(m) : Number(Lost(m), id) = n - 1]
    BY <1>1 DEF Sorted
  <2> QED
    BY <2>1
<1> HIDE DEF ids
<1>3. Len(ids) = 0
  BY <1>2
<1>4. S[0] = {m} /\ 0 \in 0..0
  OBVIOUS
<1> HIDE DEF S
<1>5. Len(ids) \in Nat /\ m \in S[0] /\ \A i \in 1..Len(ids) : \A q \in S[i - 1] : Delete(q, ids[i]) \in S[i]
  BY <1>3, <1>4
<1>6. \A i \in 0..Len(ids) : DeleteAll(m, ids)[i] \in S[i]
  BY <1>5, DeleteAllIs
<1> QED
  BY <1>1, <1>3, <1>4, <1>6 DEF ids

(* The two parts of what Unserialize does after the entries are read.      *)
LEMMA UnserializeIs ==
  ASSUME NEW file, NEW layout
  PROVE  LET placed == IF layout THEN ReadBuckets(AllRead(file, layout), file.buckets) ELSE AllRead(file, layout)
         IN  Unserialize(file, layout) = DeleteAll(placed, Sorted(Lost(placed)))[Cardinality(Lost(placed))]
BY DEF Unserialize, AllRead, FileStart

(* What a restart makes of sound tables.                                   *)
LEMMA UnserializeFacts ==
  ASSUME NEW m, Sound(m), NEW layout \in BOOLEAN, NEW w, w = Unserialize(Serialize(m), layout)
  PROVE  /\ Sound(w) /\ w.nIdCount = Cardinality(DOMAIN m.mapInfo)
         /\ \A id \in TriedIds(m) : /\ FileNo(m, id) \in DOMAIN w.mapInfo
                                    /\ Kin(w.mapInfo[FileNo(m, id)], m.mapInfo[id])
         /\ layout => Copied(m, w)
<1> DEFINE file == Serialize(m)
           q == AllRead(file, layout)
<1>0. WellFormed(file) /\ Numbers(m, file)
  BY SerializeFacts
<1> HIDE DEF file
<1>1. q \in Stage(file, layout, Size(file))
  BY <1>0, ReadStage
<1>2. Size(file) = Cardinality(DOMAIN m.mapInfo)
  BY <1>0 DEF Numbers
<1>3. CASE layout = TRUE
  <2> DEFINE p == ReadBuckets(q, file.buckets)
  <2>0. q \in Stage(file, TRUE, Size(file))
    BY <1>1, <1>3
  <2>1. w = DeleteAll(p, Sorted(Lost(p)))[Cardinality(Lost(p))]
    BY <1>3, UnserializeIs DEF file
  <2> HIDE DEF q
  <2>2. Sound(p) /\ Copied(m, p) /\ p.nIdCount = Size(file)
    BY <2>0, BucketsFacts DEF file
  <2> HIDE DEF p
  <2>3. w = p
    BY <2>1, <2>2, DeleteNone DEF Sound
  <2> QED
    BY <1>2, <2>2, <2>3 DEF Copied, TriedIds
<1>4. CASE layout = FALSE
  <2>1. w = DeleteAll(q, Sorted(Lost(q)))[Cardinality(Lost(q))]
    BY <1>4, UnserializeIs DEF file
  <2> HIDE DEF q
  <2>2. /\ Sane(q) /\ AtMost(q, 1) /\ q.nIdCount = Size(file) /\ DOMAIN q.mapInfo = 0..(Size(file) - 1)
        /\ \A j \in 0..(Size(file) - 1) : /\ Restores(q.mapInfo[j], Item(file, j))
                                          /\ q.mapInfo[j].fInTried = (j >= NewLen(file))
    BY <1>1 DEF Stage
  <2>3. Tallied(q, 0) /\ TriedIds(q) = NewLen(file)..(Size(file) - 1)
    BY <1>0, <1>1, ReadFacts
  <2>4. Sane(w) /\ Lost(w) = {} /\ Shrunk(q, w)
    BY <2>1, <2>2, DeleteAllFacts
  <2>5. Tallied(w, 0)
    BY <2>3, <2>4 DEF Shrunk
  <2>6. AtMost(q, MaxRefs)
    <3>1. \A x \in DOMAIN q.mapInfo : q.mapInfo[x].nRefCount \in Int /\ q.mapInfo[x].nRefCount <= 1
      <4>1. \A x \in DOMAIN q.mapInfo : q.mapInfo[x] \in Entries
        BY <2>2, TablesFacts DEF Sane
      <4> QED
        BY <2>2, <4>1 DEF Entries, AtMost
    <3>2. MaxRefs \in Nat /\ MaxRefs >= 1
      BY AddrManAssumption
    <3> QED
      BY <3>1, <3>2 DEF AtMost
  <2>7. AtMost(w, MaxRefs)
    <3>1. MaxRefs \in Int
      BY AddrManAssumption
    <3> QED
      BY <2>2, <2>4, <2>6, <3>1, ShrunkAtMost
  <2>8. w.nIdCount = Size(file)
    BY <2>2, <2>4 DEF Shrunk
  <2>9. ASSUME NEW id \in TriedIds(m)
        PROVE  FileNo(m, id) \in DOMAIN w.mapInfo /\ Kin(w.mapInfo[FileNo(m, id)], m.mapInfo[id])
    <3> DEFINE j == FileNo(m, id)
    <3>1. id \in DOMAIN m.mapInfo /\ m.mapInfo[id].fInTried /\ m.mapInfo[id].fInTried \in BOOLEAN
      <4>1. id \in DOMAIN m.mapInfo /\ m.mapInfo[id].fInTried
        BY DEF TriedIds
      <4>2. m.mapInfo[id] \in Entries
        BY <4>1, TablesFacts DEF Sound, Sane
      <4> QED
        BY <4>1, <4>2 DEF Entries
    <3>2. j \in 0..(Size(file) - 1) /\ FileId(m, j) = id
      BY <1>0, <3>1 DEF Numbers
    <3>3. Item(file, j) = m.mapInfo[id] /\ j >= NewLen(file)
      BY <1>0, <3>2 DEF Numbers
    <3> HIDE DEF j
    <3>4. j \in TriedIds(q) /\ j \in DOMAIN q.mapInfo
      BY <1>0, <2>2, <2>3, <3>2, <3>3, Sizes
    <3>5. j \in DOMAIN w.mapInfo /\ Kin(w.mapInfo[j], q.mapInfo[j])
      BY <2>4, <3>4 DEF Shrunk
    <3>6. Restores(q.mapInfo[j], m.mapInfo[id]) /\ q.mapInfo[j].fInTried = m.mapInfo[id].fInTried
      <4>1. q.mapInfo[j].fInTried = TRUE
        BY <2>2, <3>2, <3>3
      <4> QED
        BY <2>2, <3>1, <3>2, <3>3, <4>1
    <3> QED
      BY <3>5, <3>6 DEF Kin, Restores, j
  <2> QED
    BY <1>2, <1>4, <2>4, <2>5, <2>7, <2>8, <2>9 DEF Sound
<1> QED
  BY <1>3, <1>4

(* No more entries than addresses.                                         *)
LEMMA IpsFinite ==
  IsFiniteSet(Ips) /\ Cardinality(Ips) \in Nat
<1> DEFINE f == [a \in Services |-> Ip[a]]
<1>1. f \in Surjection(Services, Ips)
  BY DEF Surjection, Ips
<1> HIDE DEF f
<1>2. IsFiniteSet(Ips)
  BY <1>1, AddrManAssumption, FS_Surjection
<1> QED
  BY <1>2, FS_CardinalityType

LEMMA EntriesCounted ==
  ASSUME NEW m, Sound(m)
  PROVE  /\ Cardinality(DOMAIN m.mapInfo) \in 0..Cardinality(Ips)
         /\ Cardinality(DOMAIN m.mapAddr) = Cardinality(DOMAIN m.mapInfo)
         /\ Len(m.vRandom) = Cardinality(DOMAIN m.mapInfo)
         /\ m.nNew + m.nTried = Cardinality(DOMAIN m.mapInfo)
         /\ m.nNew \in Nat /\ m.nTried \in Nat
<1> DEFINE D == DOMAIN m.mapInfo
           A == DOMAIN m.mapAddr
           R == 1..Len(m.vRandom)
<1>0. /\ IsFiniteSet(D) /\ IsFiniteSet(TriedIds(m)) /\ IsFiniteSet(UntriedIds(m))
      /\ Cardinality(TriedIds(m)) \in Nat /\ Cardinality(UntriedIds(m)) \in Nat
  BY IdsFinite DEF Sound
<1>1. A \in SUBSET Ips /\ Len(m.vRandom) \in Nat /\ m.nNew \in Int /\ m.nTried \in Int
  BY TablesFacts DEF Sound, Sane
<1>2. Cardinality(A) = Cardinality(D)
  <2> DEFINE f == [id \in D |-> Ip[m.mapInfo[id].addr]]
  <2>1. \A id \in D : Ip[m.mapInfo[id].addr] \in A /\ m.mapAddr[Ip[m.mapInfo[id].addr]] = id
    BY DEF Sound, Sane, Indexed
  <2>2. \A ip \in A : m.mapAddr[ip] \in D /\ Ip[m.mapInfo[m.mapAddr[ip]].addr] = ip
    BY DEF Sound, Sane, Indexed
  <2> HIDE DEF D, A
  <2>3. f \in Bijection(D, A)
    <3>1. f \in [D -> A]
      BY <2>1
    <3>2. ASSUME NEW x \in D, NEW y \in D, f[x] = f[y] PROVE x = y
      BY <2>1, <3>2
    <3>3. \A ip \in A : \E x \in D : f[x] = ip
      BY <2>2
    <3> QED
      BY <3>1, <3>2, <3>3 DEF Bijection, Injection, Surjection, IsInjective
  <2>4. ExistsBijection(D, A)
    BY <2>3 DEF ExistsBijection
  <2> QED
    BY <1>0, <2>4, FS_Bijection
<1>3. Len(m.vRandom) = Cardinality(D)
  <2> DEFINE f == [id \in D |-> m.mapInfo[id].nRandomPos]
  <2>1. \A id \in D : m.mapInfo[id].nRandomPos \in R /\ m.vRandom[m.mapInfo[id].nRandomPos] = id
    BY DEF Sound, Sane, Ordered
  <2>2. \A p \in R : m.vRandom[p] \in D /\ m.mapInfo[m.vRandom[p]].nRandomPos = p
    BY DEF Sound, Sane, Ordered
  <2>3. Cardinality(R) = Len(m.vRandom)
    <3>1. 1 \in Int /\ Len(m.vRandom) \in Int
      BY <1>1
    <3> QED
      BY <1>1, <3>1, FS_Interval
  <2> HIDE DEF D, R
  <2>4. f \in Bijection(D, R)
    <3>1. f \in [D -> R]
      BY <2>1
    <3>2. ASSUME NEW x \in D, NEW y \in D, f[x] = f[y] PROVE x = y
      BY <2>1, <3>2
    <3>3. \A p \in R : \E x \in D : f[x] = p
      BY <2>2
    <3> QED
      BY <3>1, <3>2, <3>3 DEF Bijection, Injection, Surjection, IsInjective
  <2>5. ExistsBijection(D, R)
    BY <2>4 DEF ExistsBijection
  <2>6. Cardinality(R) = Cardinality(D)
    BY <1>0, <2>5, FS_Bijection
  <2> QED
    BY <2>3, <2>6
<1>4. Cardinality(A) <= Cardinality(Ips)
  BY <1>1, IpsFinite, FS_Subset
<1>5. Cardinality(D) \in Nat
  BY <1>0, FS_CardinalityType
<1>6. m.nTried = Cardinality(TriedIds(m)) /\ m.nNew = Cardinality(UntriedIds(m))
  BY <1>1 DEF Sound, Tallied
<1>7. Cardinality(D) = Cardinality(UntriedIds(m)) + Cardinality(TriedIds(m))
  <2> DEFINE U == UntriedIds(m)
             T == TriedIds(m)
  <2>1. D = U \cup T /\ U \cap T = {}
    BY DEF UntriedIds, TriedIds
  <2> HIDE DEF U, T, D
  <2>2. IsFiniteSet(U) /\ IsFiniteSet(T) /\ Cardinality(U) \in Nat /\ Cardinality(T) \in Nat
    BY <1>0 DEF U, T
  <2>3. Cardinality(U \cap T) = 0
    BY <2>1, FS_EmptySet
  <2>4. Cardinality(U \cup T) = Cardinality(U) + Cardinality(T) - Cardinality(U \cap T)
    BY <2>2, FS_Union
  <2>5. Cardinality(U) + Cardinality(T) - 0 = Cardinality(U) + Cardinality(T)
    BY <2>2
  <2>6. Cardinality(D) = Cardinality(U) + Cardinality(T)
    BY <2>1, <2>3, <2>4, <2>5
  <2> QED
    BY <2>6 DEF U, T
<1> HIDE DEF D, A, R
<1>8. Cardinality(D) \in 0..Cardinality(Ips)
  BY <1>2, <1>4, <1>5, IpsFinite
<1> QED
  BY <1>0, <1>2, <1>3, <1>6, <1>7, <1>8 DEF D, A

LEMMA RestartSound ==
  ASSUME Sound(am), NEW layout \in BOOLEAN, Restart(layout)
  PROVE  Sound(am') /\ Remembers(am, am') /\ am'.nIdCount \in 0..Cardinality(Ips)
<1>1. am' = Unserialize(Serialize(am), layout)
  BY DEF Restart
<1>2. /\ Sound(am') /\ am'.nIdCount = Cardinality(DOMAIN am.mapInfo)
      /\ \A id \in TriedIds(am) : /\ FileNo(am, id) \in DOMAIN am'.mapInfo
                                  /\ Kin(am'.mapInfo[FileNo(am, id)], am.mapInfo[id])
  BY <1>1, UnserializeFacts
<1>3. Remembers(am, am')
  BY <1>2 DEF Remembers, Kin, Sound, Sane, Indexed
<1> QED
  BY <1>2, <1>3, EntriesCounted

(* The inductive invariant: the tables are sound, and the ids bounded.     *)
AddrInv == Sound(am) /\ am.nIdCount \in AddrIds

LEMMA AddrInitInv ==
  ASSUME AddrInit
  PROVE  AddrInv
<1>1. am = Empty
  BY DEF AddrInit
<1>2. /\ am \in Tables /\ am.mapInfo = <<>> /\ am.mapAddr = <<>> /\ am.vRandom = <<>>
      /\ am.nIdCount = 0 /\ am.vvNew = [t \in NewSlots |-> None] /\ am.vvTried = [t \in TriedSlots |-> None]
      /\ am.nNew = 0 /\ am.nTried = 0
  BY <1>1, EmptyFacts
<1>3. DOMAIN am.mapInfo = {} /\ DOMAIN am.mapAddr = {}
  BY <1>2
<1>4. Sane(am)
  BY <1>2, <1>3, BareSane
<1>5. Lost(am) = {} /\ AtMost(am, MaxRefs) /\ TriedIds(am) = {} /\ UntriedIds(am) = {}
  BY <1>3 DEF Lost, AtMost, TriedIds, UntriedIds
<1>6. Tallied(am, 0)
  BY <1>2, <1>5, FS_EmptySet DEF Tallied
<1>7. am.nIdCount \in AddrIds
  <2>1. MaxIds + Cardinality(Ips) \in Nat
    BY IpsFinite, AddrManAssumption
  <2> QED
    BY <1>2, <2>1 DEF AddrIds
<1> QED
  BY <1>4, <1>5, <1>6, <1>7 DEF AddrInv, Sound

LEMMA AddrStep ==
  ASSUME AddrInv, [AddrNext]_addrVars
  PROVE  AddrInv' /\ Remembers(am, am')
<1>0. Sound(am) /\ am.nIdCount \in AddrIds
  BY DEF AddrInv
<1>1. MaxIds \in Nat /\ Cardinality(Ips) \in Nat
  BY IpsFinite, AddrManAssumption
<1>2. Sound(am') /\ Remembers(am, am') /\ (am'.nIdCount = am.nIdCount \/ am'.nIdCount <= MaxIds \/ am'.nIdCount <= Cardinality(Ips))
  <2>1. CASE \E a \in Services, s \in Sources : AddAddr(a, s)
    BY <1>0, <2>1, AddSound
  <2>2. CASE \E a \in Services : Good(a)
    BY <1>0, <2>2, GoodSound
  <2>3. CASE GetAddr
    BY <1>0, <2>3, GetAddrSound
  <2>4. CASE \E layout \in BOOLEAN : Restart(layout)
    <3>1. PICK layout \in BOOLEAN : Restart(layout)
      BY <2>4
    <3>2. Sound(am') /\ Remembers(am, am') /\ am'.nIdCount \in 0..Cardinality(Ips)
      BY <1>0, <3>1, RestartSound
    <3> QED
      BY <1>1, <3>2
  <2>5. CASE UNCHANGED addrVars
    <3>1. am' = am
      BY <2>5 DEF addrVars
    <3>2. Remembers(am, am)
      BY <1>0 DEF Remembers, TriedIds, Sound, Sane, Indexed
    <3> QED
      BY <1>0, <3>1, <3>2
  <2> QED
    BY <2>1, <2>2, <2>3, <2>4, <2>5 DEF AddrNext
<1>3. am'.nIdCount \in Nat
  BY <1>2, TablesFacts DEF Sound, Sane
<1>4. am'.nIdCount \in AddrIds
  BY <1>0, <1>1, <1>2, <1>3 DEF AddrIds
<1>5. AddrInv'
  <2>1. AddrIds' = AddrIds
    BY DEF AddrIds, Ips
  <2>2. Sound(am)'
    BY <1>2
  <2> QED
    BY <1>4, <2>1, <2>2 DEF AddrInv
<1> QED
  BY <1>2, <1>5

-----------------------------------------------------------------------------
(* The occupied places of the tried table are as many as the tried         *)
(* entries, and the occupants of the new table are the others.             *)
LEMMA TablesCounted ==
  ASSUME NEW m, Sound(m)
  PROVE  /\ m.nTried = Cardinality({t \in TriedSlots : m.vvTried[t] # None})
         /\ m.nNew = Cardinality({m.vvNew[t] : t \in NewSlots} \ {None})
<1> DEFINE T == TriedIds(m)
           P == {t \in TriedSlots : m.vvTried[t] # None}
           f == [id \in T |-> TriedSlot[m.mapInfo[id].addr]]
<1>0. m.mapInfo \in [DOMAIN m.mapInfo -> Entries] /\ DOMAIN m.mapInfo \subseteq Nat /\ m.nNew \in Int
  BY TablesFacts DEF Sound, Sane
<1>1. \A id \in T : TriedSlot[m.mapInfo[id].addr] \in P /\ m.vvTried[TriedSlot[m.mapInfo[id].addr]] = id
  <2>1. ASSUME NEW id \in T
        PROVE  TriedSlot[m.mapInfo[id].addr] \in P /\ m.vvTried[TriedSlot[m.mapInfo[id].addr]] = id
    <3>1. id \in DOMAIN m.mapInfo /\ m.mapInfo[id].fInTried /\ id # None
      BY <1>0 DEF TriedIds, None
    <3>2. TriedSlot[m.mapInfo[id].addr] \in TriedSlots
      BY <1>0, <3>1, AddrManAssumption DEF Entries
    <3> QED
      BY <3>1, <3>2 DEF Sound, Sane, TriedOk
  <2> QED
    BY <2>1
<1>2. \A t \in P : m.vvTried[t] \in T /\ TriedSlot[m.mapInfo[m.vvTried[t]].addr] = t
  BY DEF TriedIds, Sound, Sane, TriedOk
<1>3. IsFiniteSet(T)
  BY IdsFinite DEF Sound
<1> HIDE DEF T, P
<1>4. f \in Bijection(T, P)
  <2>1. f \in [T -> P]
    BY <1>1
  <2>2. ASSUME NEW x \in T, NEW y \in T, f[x] = f[y] PROVE x = y
    BY <1>1, <2>2
  <2>3. \A t \in P : \E x \in T : f[x] = t
    BY <1>2
  <2> QED
    BY <2>1, <2>2, <2>3 DEF Bijection, Injection, Surjection, IsInjective
<1>5. Cardinality(P) = Cardinality(T)
  <2>1. ExistsBijection(T, P)
    BY <1>4 DEF ExistsBijection
  <2> QED
    BY <1>3, <2>1, FS_Bijection
<1>6. {m.vvNew[t] : t \in NewSlots} \ {None} = UntriedIds(m)
  <2>1. \A t \in NewSlots : m.vvNew[t] # None => m.vvNew[t] \in UntriedIds(m)
    BY DEF UntriedIds, TriedIds, Sound, Sane, NewOk
  <2>2. ASSUME NEW id \in UntriedIds(m) PROVE id # None /\ \E t \in NewSlots : m.vvNew[t] = id
    <3>1. id \in DOMAIN m.mapInfo /\ m.mapInfo[id].nRefCount # 0
      BY DEF UntriedIds, TriedIds, Sound, Lost
    <3>2. Holders(m, id) # {}
      BY <3>1, FS_EmptySet DEF Sound, Sane, NewOk
    <3> QED
      BY <1>0, <3>1, <3>2 DEF Holders, None
  <2> QED
    BY <2>1, <2>2
<1>7. m.nTried = Cardinality(T) /\ m.nNew + 0 = Cardinality(UntriedIds(m))
  BY DEF Sound, Tallied, T
<1>8. m.nNew = Cardinality(UntriedIds(m))
  BY <1>0, <1>7
<1> QED
  BY <1>5, <1>6, <1>7, <1>8 DEF P

(* Sound tables pass the check.                                            *)
LEMMA SoundCheck ==
  ASSUME AddrInv
  PROVE  Check
<1>0. /\ Sound(am) /\ Sane(am) /\ am.nIdCount \in AddrIds
      /\ am.mapInfo \in [DOMAIN am.mapInfo -> Entries] /\ DOMAIN am.mapInfo \subseteq Nat
      /\ am.vvNew \in [NewSlots -> Int] /\ am.vvTried \in [TriedSlots -> Int]
      /\ DOMAIN am.mapAddr \subseteq Ips /\ Len(am.vRandom) \in Nat
  BY TablesFacts DEF AddrInv, Sound, Sane
<1>1. /\ Cardinality(DOMAIN am.mapInfo) \in 0..Cardinality(Ips)
      /\ Cardinality(DOMAIN am.mapAddr) = Cardinality(DOMAIN am.mapInfo)
      /\ Len(am.vRandom) = Cardinality(DOMAIN am.mapInfo)
      /\ am.nNew + am.nTried = Cardinality(DOMAIN am.mapInfo)
      /\ am.nNew \in Nat /\ am.nTried \in Nat
  BY <1>0, EntriesCounted
<1>2. Tried = TriedIds(am) /\ Untried = UntriedIds(am)
  BY DEF Tried, Untried, TriedIds, UntriedIds
<1>3. \A id \in DOMAIN am.mapInfo :
         /\ am.mapInfo[id].nRefCount = Cardinality(Holders(am, id))
         /\ am.mapInfo[id].nRefCount \in 0..MaxRefs
         /\ (am.mapInfo[id].nRefCount = 0 <=> id \in Tried)
  <2>1. ASSUME NEW id \in DOMAIN am.mapInfo
        PROVE  /\ am.mapInfo[id].nRefCount = Cardinality(Holders(am, id))
               /\ am.mapInfo[id].nRefCount \in 0..MaxRefs
    <3>1. am.mapInfo[id].nRefCount = Cardinality(Holders(am, id)) /\ am.mapInfo[id].nRefCount <= MaxRefs
      BY <1>0 DEF Sound, Sane, NewOk, AtMost
    <3>2. Cardinality(Holders(am, id)) \in Nat /\ MaxRefs \in Nat
      BY HoldersFinite, AddrManAssumption
    <3> QED
      BY <3>1, <3>2
  <2>2. \A id \in DOMAIN am.mapInfo : am.mapInfo[id].nRefCount = 0 <=> id \in Tried
    BY <1>0, <1>2, NewIsUntried DEF NewIds, UntriedIds
  <2> QED
    BY <2>1, <2>2
<1>4. AddrTypeOK
  <2>1. DOMAIN am.mapInfo \subseteq AddrIds
    <3>1. \A id \in DOMAIN am.mapInfo : id \in Nat /\ id < am.nIdCount
      BY <1>0 DEF Sane, Indexed
    <3>2. MaxIds + Cardinality(Ips) \in Nat
      BY IpsFinite, AddrManAssumption
    <3> QED
      BY <1>0, <3>1, <3>2 DEF AddrIds
  <2>2. ASSUME NEW id \in DOMAIN am.mapInfo
        PROVE  am.mapInfo[id] \in [addr : Services, source : Sources, nRefCount : 0..MaxRefs,
                 fInTried : BOOLEAN, nRandomPos : 1..Len(am.vRandom), success : BOOLEAN]
    <3> DEFINE e == am.mapInfo[id]
               refs == 0..MaxRefs
               places == 1..Len(am.vRandom)
    <3>1. e \in Entries /\ e.nRefCount \in refs /\ e.nRandomPos \in places
      BY <1>0, <1>3 DEF Sane, Ordered
    <3> HIDE DEF e, refs, places
    <3>2. e \in [addr : Services, source : Sources, nRefCount : refs,
                 fInTried : BOOLEAN, nRandomPos : places, success : BOOLEAN]
      BY <3>1 DEF Entries
    <3> QED
      BY <3>2 DEF e, refs, places
  <2>3. am.vvNew \in [NewSlots -> {None} \cup DOMAIN am.mapInfo]
    BY <1>0 DEF Sane, NewOk
  <2>4. am.vvTried \in [TriedSlots -> {None} \cup DOMAIN am.mapInfo]
    BY <1>0 DEF Sane, TriedOk
  <2>5. am.nNew \in 0..Cardinality(Ips) /\ am.nTried \in 0..Cardinality(Ips)
    BY <1>1, IpsFinite
  <2> QED
    BY <1>0, <2>1, <2>2, <2>3, <2>4, <2>5 DEF AddrTypeOK
<1>5. RefCountsExact
  <2>1. \A t \in NewSlots : am.vvNew[t] # None =>
           am.vvNew[t] \in Untried /\ Slot(am.mapInfo[am.vvNew[t]].addr, t[1]) = t
    BY <1>0 DEF Untried, Tried, Sane, NewOk
  <2> QED
    BY <1>3, <2>1 DEF RefCountsExact, Holders
<1>6. TriedPlacesExact
  <2>1. ASSUME NEW t \in TriedSlots, NEW id \in DOMAIN am.mapInfo
        PROVE  am.vvTried[t] = id <=> /\ id \in Tried
                                      /\ TriedSlot[am.mapInfo[id].addr] = t
                                      /\ am.mapInfo[id].success
    <3>1. id # None
      BY <1>0 DEF None
    <3>2. am.vvTried[t] = id => id \in Tried /\ TriedSlot[am.mapInfo[id].addr] = t
      BY <1>0, <3>1 DEF Sane, TriedOk, Tried
    <3>3. id \in Tried => am.vvTried[TriedSlot[am.mapInfo[id].addr]] = id /\ am.mapInfo[id].success
      BY <1>0 DEF Sane, TriedOk, Tried
    <3> QED
      BY <3>2, <3>3
  <2> QED
    BY <2>1 DEF TriedPlacesExact
<1>7. CountsExact
  BY <1>0, <1>1, TablesCounted DEF CountsExact
<1>8. IndexesExact
  <2>1. \A id \in DOMAIN am.mapInfo :
           /\ Ip[am.mapInfo[id].addr] \in DOMAIN am.mapAddr
           /\ am.mapAddr[Ip[am.mapInfo[id].addr]] = id
    BY <1>0 DEF Sane, Indexed
  <2>2. \A id \in DOMAIN am.mapInfo :
           /\ am.mapInfo[id].nRandomPos \in DOMAIN am.vRandom
           /\ am.vRandom[am.mapInfo[id].nRandomPos] = id
    <3>1. DOMAIN am.vRandom = 1..Len(am.vRandom)
      <4>1. am.vRandom \in Seq(Nat)
        BY <1>0, TablesFacts DEF Sane
      <4> QED
        BY <4>1
    <3> QED
      BY <1>0, <3>1 DEF Sane, Ordered
  <2> QED
    BY <1>1, <2>1, <2>2 DEF IndexesExact
<1> QED
  BY <1>4, <1>5, <1>6, <1>7, <1>8 DEF Check

(* The address tables always agree with each other (Check_).               *)
THEOREM AddressTablesAgree == AddrSpec => []Check
<1>1. AddrInit => AddrInv
  BY AddrInitInv
<1>2. AddrInv /\ [AddrNext]_addrVars => AddrInv'
  BY AddrStep
<1>3. AddrInv => Check
  BY SoundCheck
<1> QED
  BY <1>1, <1>2, <1>3, PTL DEF AddrSpec

(* No step forgets a tried address.                                        *)
THEOREM TriedAddressesStay == AddrSpec => TriedNotForgotten
<1> DEFINE Stays == \A ip \in DOMAIN am.mapAddr :
                       am.mapInfo[am.mapAddr[ip]].fInTried => ip \in DOMAIN am'.mapAddr
<1>1. AddrInit => AddrInv
  BY AddrInitInv
<1>2. AddrInv /\ [AddrNext]_addrVars => AddrInv'
  BY AddrStep
<1>3. AddrInv /\ [AddrNext]_addrVars => [Stays]_addrVars
  <2>1. SUFFICES ASSUME AddrInv, [AddrNext]_addrVars PROVE Stays
    OBVIOUS
  <2>2. Remembers(am, am') /\ Sane(am)
    BY <2>1, AddrStep DEF AddrInv, Sound
  <2> QED
    BY <2>2 DEF Remembers, TriedIds, Sane, Indexed
<1> QED
  BY <1>1, <1>2, <1>3, PTL DEF AddrSpec, TriedNotForgotten

(* What View says of one entry.                                            *)
Shown(m, id) ==
  [addr |-> m.mapInfo[id].addr, source |-> m.mapInfo[id].source,
   tried |-> m.mapInfo[id].fInTried, success |-> m.mapInfo[id].success,
   slots |-> {t \in NewSlots : m.vvNew[t] = id}]

LEMMA ShownSame ==
  ASSUME NEW m, NEW q, NEW x, NEW y, Kin(q.mapInfo[y], m.mapInfo[x]), Holders(q, y) = Holders(m, x)
  PROVE  Shown(q, y) = Shown(m, x)
BY DEF Shown, Kin, Holders

LEMMA ViewIs ==
  ASSUME NEW m
  PROVE  /\ DOMAIN View(m) = DOMAIN m.mapAddr /\ View(m) = [ip \in DOMAIN m.mapAddr |-> Shown(m, m.mapAddr[ip])]
BY DEF View, Shown

(* A restart with the same buckets keeps what the tables say, and one with *)
(* others what they say of tried addresses.                                *)
LEMMA SoundRestart ==
  ASSUME Sound(am)
  PROVE  RestartKeepsTables
<1> DEFINE same == Unserialize(Serialize(am), TRUE)
           other == Unserialize(Serialize(am), FALSE)
<1>0. Indexed(am) /\ DOMAIN am.mapInfo \subseteq Nat
  BY TablesFacts DEF Sound, Sane
<1>1. Sound(same) /\ Copied(am, same)
  BY UnserializeFacts
<1>2. /\ Sound(other)
      /\ \A id \in TriedIds(am) : /\ FileNo(am, id) \in DOMAIN other.mapInfo
                                  /\ Kin(other.mapInfo[FileNo(am, id)], am.mapInfo[id])
  BY UnserializeFacts
<1>3. Numbers(am, Serialize(am))
  BY SerializeFacts
<1> HIDE DEF same, other
<1>4. ASSUME NEW q, Indexed(q), NEW id \in DOMAIN am.mapInfo, FileNo(am, id) \in DOMAIN q.mapInfo,
             Kin(q.mapInfo[FileNo(am, id)], am.mapInfo[id])
      PROVE  LET ip == Ip[am.mapInfo[id].addr]
             IN  ip \in DOMAIN q.mapAddr /\ q.mapAddr[ip] = FileNo(am, id)
  BY <1>4 DEF Indexed, Kin
<1>5. View(same) = View(am)
  <2>1. Indexed(same)
    BY <1>1 DEF Sound, Sane
  <2>2. ASSUME NEW ip \in DOMAIN am.mapAddr
        PROVE  ip \in DOMAIN same.mapAddr /\ Shown(same, same.mapAddr[ip]) = Shown(am, am.mapAddr[ip])
    <3> DEFINE id == am.mapAddr[ip]
    <3>1. id \in DOMAIN am.mapInfo /\ Ip[am.mapInfo[id].addr] = ip
      BY <1>0 DEF Indexed
    <3> HIDE DEF id
    <3>2. /\ FileNo(am, id) \in DOMAIN same.mapInfo /\ Kin(same.mapInfo[FileNo(am, id)], am.mapInfo[id])
          /\ Holders(same, FileNo(am, id)) = Holders(am, id)
      BY <1>1, <3>1 DEF Copied
    <3>3. ip \in DOMAIN same.mapAddr /\ same.mapAddr[ip] = FileNo(am, id)
      BY <1>4, <2>1, <3>1, <3>2
    <3>4. Shown(same, FileNo(am, id)) = Shown(am, id)
      BY <3>2, ShownSame
    <3> QED
      BY <3>3, <3>4 DEF id
  <2>3. ASSUME NEW ip \in DOMAIN same.mapAddr PROVE ip \in DOMAIN am.mapAddr
    <3> DEFINE j == same.mapAddr[ip]
               id == FileId(am, j)
    <3>1. j \in DOMAIN same.mapInfo /\ Ip[same.mapInfo[j].addr] = ip
      BY <2>1 DEF Indexed
    <3>2. id \in DOMAIN am.mapInfo /\ FileNo(am, id) = j
      BY <1>1, <1>3, <3>1 DEF Copied, Numbers
    <3> HIDE DEF id, j
    <3>3. Kin(same.mapInfo[j], am.mapInfo[id])
      BY <1>1, <3>2 DEF Copied
    <3> QED
      BY <1>0, <3>1, <3>2, <3>3 DEF Indexed, Kin
  <2>4. DOMAIN same.mapAddr = DOMAIN am.mapAddr
    BY <2>2, <2>3
  <2> QED
    BY <2>2, <2>4, ViewIs
<1>6. ASSUME NEW id \in Tried
      PROVE  LET ip == Ip[am.mapInfo[id].addr]
             IN  ip \in DOMAIN View(other) /\ View(other)[ip] = View(am)[ip]
  <2> DEFINE ip == Ip[am.mapInfo[id].addr]
             j == FileNo(am, id)
  <2>1. id \in TriedIds(am) /\ id \in DOMAIN am.mapInfo
    BY DEF Tried, TriedIds
  <2>2. j \in DOMAIN other.mapInfo /\ Kin(other.mapInfo[j], am.mapInfo[id])
    BY <1>2, <2>1
  <2>3. Indexed(other)
    BY <1>2 DEF Sound, Sane
  <2>4. ip \in DOMAIN other.mapAddr /\ other.mapAddr[ip] = j
    BY <1>4, <2>1, <2>2, <2>3
  <2>5. ip \in DOMAIN am.mapAddr /\ am.mapAddr[ip] = id
    BY <1>0, <2>1 DEF Indexed
  <2>6. j \in TriedIds(other)
    BY <2>1, <2>2 DEF TriedIds, Kin
  <2>7. Holders(other, j) = {} /\ Holders(am, id) = {}
    BY <1>2, <2>1, <2>6, NewIsUntried
  <2> HIDE DEF ip, j
  <2>8. Shown(other, j) = Shown(am, id)
    BY <2>2, <2>7, ShownSame
  <2>9. ip \in DOMAIN View(other) /\ View(other)[ip] = View(am)[ip]
    BY <2>4, <2>5, <2>8, ViewIs
  <2> QED
    BY <2>9 DEF ip
<1> QED
  BY <1>5, <1>6 DEF RestartKeepsTables, same, other

(* peers.dat always keeps the tables.                                      *)
THEOREM RestartAlwaysKeeps == AddrSpec => []RestartKeepsTables
<1>1. AddrInit => AddrInv
  BY AddrInitInv
<1>2. AddrInv /\ [AddrNext]_addrVars => AddrInv'
  BY AddrStep
<1>3. AddrInv => RestartKeepsTables
  BY SoundRestart DEF AddrInv
<1> QED
  BY <1>1, <1>2, <1>3, PTL DEF AddrSpec
=============================================================================
