-------------------------------- MODULE Net --------------------------------
(***************************************************************************)
(* The life of a connection (src/net.cpp): a CNode is made by the socket   *)
(* handler or by one of the threads that call ConnectNode, walked over by  *)
(* the socket and message handlers under a reference count, and deleted by *)
(* the socket handler, which also gives up its place as the peer to        *)
(* synchronise from (FinalizeNode).                                        *)
(*                                                                         *)
(* One action per critical section (cs_vNodes, cs_main) or per unguarded   *)
(* access.  nRefCount and the flag of a slot are plain variables; where    *)
(* the code changes them without cs_vNodes, two updates can meet, and the  *)
(* model ends, as it does when a deleted node is used.  (One step: the     *)
(* mixing flag and the AddRef beside it, and a new node with its flag.)    *)
(* Sockets fail when they like; bans, message contents and block download  *)
(* are left out.                                                           *)
(***************************************************************************)
EXTENDS Integers, FiniteSets

CONSTANTS
  Addrs,         \* the services that can be connected to
  Threads,       \* opencon, addcon, the pool thread, RPC threads, ...: those
                 \* that call ConnectNode
  Does,          \* what each of them calls it for: "open", "check" or "mix"
  MaxNodes,      \* bound: the CNodes there are at once
  MaxLost,       \* bound: references lost to a node before callers stop
  MaxOutbound,   \* MAX_OUTBOUND_CONNECTIONS, the value of semOutbound
  MaxInbound     \* nMaxConnections - MAX_OUTBOUND_CONNECTIONS

ASSUME NetAssumption ==
  /\ IsFiniteSet(Threads) /\ Does \in [Threads -> SUBSET {"open", "check", "mix"}]
  /\ MaxNodes \in Nat \ {0} /\ MaxLost \in Nat \ {0} /\ MaxOutbound \in Nat /\ MaxInbound \in Nat

Ids == 1..MaxNodes

VARIABLES
  node,          \* the CNodes; the place of a deleted one is used again when
                 \* no pointer to it is left
  sem,           \* semOutbound
  nSyncStarted,
  sock,          \* ThreadSocketHandler: where it is, its vNodesCopy, what is
                 \* left of vNodesDisconnectedCopy, and the node it is at
  msg,           \* ThreadMessageHandler: the same for its own copy
  conn,          \* the call of ConnectNode that each thread is in
  lost,          \* history: references to a node that nobody will release
  mishaps        \* history: "raced" for two updates of nRefCount or of a slot
                 \* that meet, "freed" for the use of a deleted node

counters == <<sem, nSyncStarted>>
vars == <<node, counters, sock, msg, conn, lost, mishaps>>

Node(addr, inbound) ==
  [st |-> "open", addr |-> addr, nRefCount |-> 1, fInbound |-> inbound, fNetworkNode |-> FALSE,
   master |-> FALSE, fDisconnect |-> FALSE, socket |-> TRUE, mute |-> FALSE, grant |-> FALSE,
   fSyncStarted |-> FALSE]
Deleted == [Node("none", FALSE) EXCEPT !.st = "deleted", !.nRefCount = 0]
NoCall == [pc |-> "idle", for |-> "none", addr |-> "none", id |-> 0, grant |-> FALSE, late |-> FALSE]

vNodes       == {n \in Ids : node[n].st = "open"}
Disconnected == {n \in Ids : node[n].st = "disconnected"}
Alive        == vNodes \cup Disconnected
Owned(n)     == node[n].fNetworkNode \/ node[n].fInbound
Free         == {n \in Ids : node[n].st = "deleted" /\ \A c \in Threads : conn[c].id # n}
B(b)         == IF b THEN 1 ELSE 0
First(S)     == CHOOSE n \in S : \A m \in S : n <= m

Init ==
  /\ node = [n \in Ids |-> Deleted]
  /\ sem = MaxOutbound /\ nSyncStarted = 0
  /\ sock = [pc |-> "disconnect", copy |-> {}, todo |-> {}, cur |-> 0]
  /\ msg = [pc |-> "take", copy |-> {}, todo |-> {}, cur |-> 0]
  /\ conn = [c \in Threads |-> NoCall]
  /\ lost = [n \in Ids |-> 0] /\ mishaps = {}

-----------------------------------------------------------------------------
(* CloseSocketDisconnect.  mute: unsent data or an unanswered ping is left *)
(* behind, so that no later send meets the closed socket.                  *)
Close(d, mute) == [d EXCEPT !.fDisconnect = TRUE, !.socket = FALSE,
                            !.mute = IF d.socket THEN mute ELSE @]

(* The part of the socket handler that takes nodes out of vNodes.  idle    *)
(* are the unreferenced ones with nothing to send or to process.           *)
DisconnectedNodeUnreleased(d) ==
  [Close(d, FALSE) EXCEPT !.st = "disconnected", !.grant = FALSE]

DisconnectedNode(d) ==
  [Close(d, FALSE) EXCEPT !.st = "disconnected", !.grant = FALSE, !.master = FALSE,
                          !.nRefCount = @ - B(d.fNetworkNode \/ d.fInbound)]

GrantsOfAll(gone) == Cardinality(gone)
GrantsKept(gone) == 0
GrantsOf(gone) == Cardinality({n \in gone : node[n].grant})

DisconnectNodes ==
  /\ sock.pc = "disconnect"
  /\ \E idle \in SUBSET {n \in vNodes : node[n].nRefCount <= 0} :
     \E gone \in {idle \cup {n \in vNodes : node[n].fDisconnect}} :
        /\ node' = [n \in Ids |-> IF n \in gone THEN DisconnectedNode(node[n]) ELSE node[n]]
        /\ sem' = sem + GrantsOf(gone)
        /\ lost' = [n \in Ids |-> lost[n] + B(n \in gone /\ node[n].master)]
  /\ sock' = [sock EXCEPT !.pc = "delete", !.todo = {n \in Ids : node'[n].st = "disconnected"}]
  /\ UNCHANGED <<nSyncStarted, msg, conn, mishaps>>

(* "wait until threads are done using it": the test of nRefCount, without  *)
(* a lock.  (The locks of a node that nobody uses are free.)               *)
DeletableSoon(d) == TRUE
Deletable(d)     == d.nRefCount <= 0

TestNode(n) ==
  /\ sock.pc = "delete" /\ sock.todo # {} /\ n = First(sock.todo)
  /\ sock' = [sock EXCEPT !.todo = @ \ {n}, !.cur = IF Deletable(node[n]) THEN n ELSE 0,
                          !.pc = IF Deletable(node[n]) THEN "doomed" ELSE "delete"]
  /\ UNCHANGED <<node, counters, msg, conn, lost, mishaps>>

(* FinalizeNode: a peer we synchronised from goes.                         *)
SyncPeersKept(d) == 0
SyncPeers(d)     == B(d.fSyncStarted)

(* delete pnode, whatever its count is by now; the destructor calls        *)
(* FinalizeNode and gives back a slot.                                     *)
DeleteNode(n) ==
  /\ sock.pc = "doomed" /\ n = sock.cur
  /\ node' = [node EXCEPT ![n] = Deleted]
  /\ nSyncStarted' = nSyncStarted - SyncPeers(node[n])
  /\ sem' = sem + B(node[n].grant)
  /\ lost' = [lost EXCEPT ![n] = 0]
  /\ sock' = [sock EXCEPT !.pc = "delete", !.cur = 0]
  /\ UNCHANGED <<msg, conn, mishaps>>

DeleteDone ==
  /\ sock.pc = "delete" /\ sock.todo = {}
  /\ sock' = [sock EXCEPT !.pc = "accept"]
  /\ UNCHANGED <<node, counters, msg, conn, lost, mishaps>>

(* Accept a connection, or none; InitializeNode is in the constructor.     *)
Accept ==
  /\ sock.pc = "accept"
  /\ \/ UNCHANGED node
     \/ /\ Cardinality({n \in vNodes : node[n].fInbound}) < MaxInbound
        /\ Free # {}
        /\ node' = [node EXCEPT ![First(Free)] = Node("none", TRUE)]
  /\ sock' = [sock EXCEPT !.pc = "take"]
  /\ UNCHANGED <<counters, msg, conn, lost, mishaps>>

AddRefs(ns)  == [n \in Ids |-> IF n \in ns THEN [node[n] EXCEPT !.nRefCount = @ + 1] ELSE node[n]]
Releases(ns) == [n \in Ids |-> IF n \in ns THEN [node[n] EXCEPT !.nRefCount = @ - 1] ELSE node[n]]

SocketTake ==
  /\ sock.pc = "take"
  /\ node' = AddRefs(vNodes)
  /\ sock' = [sock EXCEPT !.pc = "service", !.copy = vNodes]
  /\ UNCHANGED <<counters, msg, conn, lost, mishaps>>

(* A socket fails, or a peer that still has one times out.                 *)
SocketFails(n) ==
  /\ sock.pc = "service" /\ n \in sock.copy /\ node[n].socket
  /\ \/ \E mute \in BOOLEAN : node' = [node EXCEPT ![n] = Close(@, mute)]
     \/ ~node[n].fDisconnect /\ node' = [node EXCEPT ![n].fDisconnect = TRUE]
  /\ UNCHANGED <<counters, sock, msg, conn, lost, mishaps>>

SocketRelease ==
  /\ sock.pc = "service"
  /\ node' = Releases(sock.copy)
  /\ sock' = [sock EXCEPT !.pc = "disconnect", !.copy = {}]
  /\ UNCHANGED <<counters, msg, conn, lost, mishaps>>

-----------------------------------------------------------------------------
(* ThreadMessageHandler.                                                   *)
MessageTake ==
  /\ msg.pc = "take"
  /\ node' = AddRefs(vNodes)
  /\ msg' = [pc |-> "loop", copy |-> vNodes, todo |-> vNodes, cur |-> 0]
  /\ UNCHANGED <<counters, sock, conn, lost, mishaps>>

Visit(n) ==
  /\ msg.pc = "loop" /\ msg.todo # {} /\ n = First(msg.todo)
  /\ msg' = [msg EXCEPT !.todo = @ \ {n}, !.cur = IF node[n].fDisconnect THEN 0 ELSE n,
                        !.pc = IF node[n].fDisconnect THEN "loop" ELSE "process"]
  /\ UNCHANGED <<node, counters, sock, conn, lost, mishaps>>

(* DisconnectOldProtocol: it first forgets that the node was to be         *)
(* disconnected.                                                           *)
DisconnectOldProtocol(d, old) == [d EXCEPT !.fDisconnect = old]

(* ProcessMessages: nothing, a message that closes the connection, or one  *)
(* that checks the protocol version (version and block).                   *)
Process(n) ==
  /\ msg.pc = "process" /\ msg.cur = n
  /\ \/ UNCHANGED node
     \/ \E mute \in BOOLEAN : node' = [node EXCEPT ![n] = Close(@, mute)]
     \/ \E old \in BOOLEAN : node' = [node EXCEPT ![n] = DisconnectOldProtocol(@, old)]
  /\ msg' = [msg EXCEPT !.pc = "send"]
  /\ UNCHANGED <<counters, sock, conn, lost, mishaps>>

(* SendMessages: a ping (or anything else) meets a closed socket.          *)
PingIgnored(n) ==
  /\ msg.pc = "send" /\ msg.cur = n
  /\ ~node[n].socket /\ ~node[n].mute
  /\ msg' = [msg EXCEPT !.pc = "loop", !.cur = 0]
  /\ UNCHANGED <<node, counters, sock, conn, lost, mishaps>>

PingFails(n) ==
  /\ msg.pc = "send" /\ msg.cur = n
  /\ ~node[n].socket /\ ~node[n].mute
  /\ node' = [node EXCEPT ![n].fDisconnect = TRUE]
  /\ msg' = [msg EXCEPT !.pc = "loop", !.cur = 0]
  /\ UNCHANGED <<counters, sock, conn, lost, mishaps>>

(* SendMessages: the ban of a peer that misbehaved, and the start of block *)
(* synchronisation (with one peer at a time or, when the best header is    *)
(* recent, with any).                                                      *)
Send(n) ==
  /\ msg.pc = "send" /\ msg.cur = n
  /\ \E ban \in BOOLEAN, start \in BOOLEAN :
        /\ start => ~node[n].fSyncStarted
        /\ node' = [node EXCEPT ![n].fDisconnect = @ \/ ban, ![n].fSyncStarted = @ \/ start]
        /\ nSyncStarted' = nSyncStarted + B(start)
  /\ msg' = [msg EXCEPT !.pc = "loop", !.cur = 0]
  /\ UNCHANGED <<sem, sock, conn, lost, mishaps>>

MessageRelease ==
  /\ msg.pc = "loop" /\ msg.todo = {}
  /\ node' = Releases(msg.copy)
  /\ msg' = [pc |-> "take", copy |-> {}, todo |-> {}, cur |-> 0]
  /\ UNCHANGED <<counters, sock, conn, lost, mishaps>>

-----------------------------------------------------------------------------
(* OpenNetworkConnection up to the call of ConnectNode: opencon, addcon    *)
(* and one-shots have a slot, -connect and addnode onetry have none; no    *)
(* node has the name or the address yet.  (Otherwise the slot is given     *)
(* back.)                                                                  *)
Open(c, a, named, grant) ==
  /\ conn[c].pc = "idle" /\ \A n \in Ids : lost[n] < MaxLost
  /\ "open" \in Does[c]
  /\ named \/ (grant /\ \A n \in vNodes : node[n].addr # a)
  /\ grant => sem > 0
  /\ sem' = sem - B(grant)
  /\ conn' = [conn EXCEPT ![c] = [NoCall EXCEPT !.pc = IF named THEN "dial" ELSE "find",
                                                !.for = "open", !.addr = a, !.grant = grant]]
  /\ UNCHANGED <<node, nSyncStarted, sock, msg, lost, mishaps>>

(* ConnectNode: FindNode under cs_vNodes.                                  *)
FindNode(a) == {n \in vNodes : node[n].addr = a}
Call(a, for, grant) ==
  [NoCall EXCEPT !.pc = IF FindNode(a) = {} THEN "dial" ELSE "found", !.for = for, !.addr = a,
                 !.id = IF FindNode(a) = {} THEN 0 ELSE First(FindNode(a)), !.grant = grant]

Find(c) ==
  /\ conn[c].pc = "find"
  /\ conn' = [conn EXCEPT ![c] = Call(@.addr, "open", @.grant)]
  /\ UNCHANGED <<node, counters, sock, msg, lost, mishaps>>

(* ManageStatus, a relayed message, masternodeconnect ("check": the        *)
(* reference is released at once) or mixing ("mix": it is kept).           *)
Masternode(c, a, for) ==
  /\ conn[c].pc = "idle" /\ \A n \in Ids : lost[n] < MaxLost
  /\ conn' = [conn EXCEPT ![c] = Call(a, for, FALSE)]
  /\ UNCHANGED <<node, counters, sock, msg, lost, mishaps>>

(* The node that was found, after cs_vNodes is let go: fObfuScationMaster  *)
(* is set, whatever it was, and a reference added, too late when the node  *)
(* has been tested for deletion.  A mixing reference is released by way of *)
(* that flag and only while the node is in vNodes.                         *)
Mixing(c) == conn[c].for = "mix"

FoundAddRef(c) ==
  LET n == conn[c].id
  IN  /\ conn[c].pc = "found" /\ node[n].st # "deleted"
      /\ node' = [node EXCEPT ![n].master = Mixing(c), ![n].nRefCount = @ + 1]
      /\ lost' = [lost EXCEPT ![n] = @ + B(n \in vNodes /\ node[n].master)
                                      + B(n \notin vNodes /\ Mixing(c))]
      /\ conn' = [conn EXCEPT ![c].pc = "got", ![c].late = (sock.cur = n)]
      /\ UNCHANGED <<counters, sock, msg, mishaps>>

(* What can go wrong there: the node is gone by now, or the update of      *)
(* nRefCount meets that of another thread.                                 *)
FoundUnguarded(c) ==
  /\ conn[c].pc = "found"
  /\ mishaps' = {IF node[conn[c].id].st = "deleted" THEN "freed" ELSE "raced"}
  /\ UNCHANGED <<node, counters, sock, msg, conn, lost>>

(* A new connection; the version message its constructor sends may already *)
(* fail.                                                                   *)
Dial(c) ==
  /\ conn[c].pc = "dial" /\ Free # {}
  /\ \E failed \in BOOLEAN :
     LET d == [Node(conn[c].addr, FALSE) EXCEPT !.master = Mixing(c)]
     IN  node' = [node EXCEPT ![First(Free)] = IF failed THEN Close(d, FALSE) ELSE d]
  /\ conn' = [conn EXCEPT ![c].pc = "got", ![c].id = First(Free)]
  /\ UNCHANGED <<counters, sock, msg, lost, mishaps>>

DialFails(c) ==
  /\ conn[c].pc = "dial"
  /\ sem' = sem + B(conn[c].grant)
  /\ conn' = [conn EXCEPT ![c] = NoCall]
  /\ UNCHANGED <<node, nSyncStarted, sock, msg, lost, mishaps>>

(* What a call does with the node it got.                                  *)
Holds(c, n) == conn[c].pc = "got" /\ conn[c].id = n
Got(c, n)   == Holds(c, n) /\ node[n].st # "deleted"

UseFreed(c) ==
  /\ conn[c].pc = "got" /\ node[conn[c].id].st = "deleted"
  /\ mishaps' = {"freed"}
  /\ UNCHANGED <<node, counters, sock, msg, conn, lost>>

(* The rest of OpenNetworkConnection.  A slot moves to the node, and a     *)
(* slot the node already has is given back ...                             *)
MoveGrant(d) == B(d.grant)

MoveTo(c, n) ==
  /\ Got(c, n) /\ conn[c].for = "open" /\ conn[c].grant
  /\ sem' = sem + MoveGrant(node[n])
  /\ node' = [node EXCEPT ![n].grant = TRUE]
  /\ conn' = [conn EXCEPT ![c].grant = FALSE]
  /\ UNCHANGED <<nSyncStarted, sock, msg, lost, mishaps>>

(* ... which another thread may be doing with the same node, or the socket *)
(* handler, when it disconnects or deletes it ...                          *)
MoveUnguarded(c, n) ==
  /\ Got(c, n) /\ conn[c].for = "open" /\ conn[c].grant
  /\ \/ \E d \in Threads \ {c} : Holds(d, n) /\ conn[d].grant
     \/ sock.pc = "disconnect" /\ node[n].st = "open" /\ node[n].fDisconnect
     \/ sock.cur = n
  /\ mishaps' = {"raced"}
  /\ UNCHANGED <<node, counters, sock, msg, conn, lost>>

(* ... and then the node is a network node: the reference becomes that of  *)
(* the connection, unless it has one or is disconnected by now.            *)
NetworkNode(c, n) ==
  /\ Got(c, n) /\ conn[c].for = "open" /\ ~conn[c].grant
  /\ node' = [node EXCEPT ![n].fNetworkNode = TRUE]
  /\ lost' = [lost EXCEPT ![n] = @ + B(node[n].st # "open" \/ Owned(n))]
  /\ conn' = [conn EXCEPT ![c] = NoCall]
  /\ UNCHANGED <<counters, sock, msg, mishaps>>

(* A mixing thread leaves the reference to the flag ...                    *)
MixingKeeps(c, n) ==
  /\ Got(c, n) /\ Mixing(c)
  /\ conn' = [conn EXCEPT ![c] = NoCall]
  /\ UNCHANGED <<node, counters, sock, msg, lost, mishaps>>

(* ... and the others release it, without cs_vNodes.                       *)
Release(c, n) ==
  /\ Got(c, n) /\ conn[c].for = "check"
  /\ node' = [node EXCEPT ![n].nRefCount = @ - 1]
  /\ conn' = [conn EXCEPT ![c] = NoCall]
  /\ UNCHANGED <<counters, sock, msg, lost, mishaps>>

ReleaseUnguarded(c, n) ==
  /\ Got(c, n) /\ conn[c].for = "check"
  /\ mishaps' = {"raced"}
  /\ UNCHANGED <<node, counters, sock, msg, conn, lost>>

(* ProcessMasternodeConnections: every mixing connection but the one of    *)
(* the session in progress.                                                *)
ProcessMasternodeConnections ==
  /\ \E done \in SUBSET {n \in vNodes : node[n].master} :
        /\ done # {} /\ Cardinality({n \in vNodes : node[n].master} \ done) <= 1
        /\ node' = [n \in Ids |-> IF n \in done THEN [node[n] EXCEPT !.master = FALSE, !.nRefCount = @ - 1]
                                  ELSE node[n]]
  /\ UNCHANGED <<counters, sock, msg, conn, lost, mishaps>>

-----------------------------------------------------------------------------
SocketStep ==
  \/ DisconnectNodes \/ DeleteDone \/ Accept \/ SocketTake \/ SocketRelease
  \/ \E n \in Ids : TestNode(n) \/ DeleteNode(n) \/ SocketFails(n)

MessageStep ==
  \/ MessageTake \/ MessageRelease
  \/ \E n \in Ids : Visit(n) \/ Process(n) \/ PingFails(n) \/ Send(n)

(* What a thread does with its call, and what can go wrong.                *)
Proceed(c) ==
  \/ Find(c) \/ FoundAddRef(c) \/ DialFails(c)
  \/ \E n \in Ids : MoveTo(c, n) \/ NetworkNode(c, n) \/ MixingKeeps(c, n) \/ Release(c, n)
Mishap(c) ==
  \/ FoundUnguarded(c) \/ UseFreed(c)
  \/ \E n \in Ids : MoveUnguarded(c, n) \/ ReleaseUnguarded(c, n)
Start(c) ==
  \E a \in Addrs : \/ \E named \in BOOLEAN, grant \in BOOLEAN : Open(c, a, named, grant)
                  \/ \E for \in Does[c] \ {"open"} : Masternode(c, a, for)

CallerStep == ProcessMasternodeConnections \/ \E c \in Threads : Proceed(c) \/ Dial(c) \/ Mishap(c) \/ Start(c)

(* After two updates that met or a use of a deleted node what the process  *)
(* does is undefined, and the model ends.                                  *)
Defined   == mishaps = {}
Undefined == ~Defined /\ UNCHANGED vars

Next == (Defined /\ (SocketStep \/ MessageStep \/ CallerStep)) \/ Undefined

(* Both handlers loop for ever and come round to every node; a peer that   *)
(* can be pinged is pinged in the end; a call ends.                        *)
Fairness ==
  /\ WF_vars(Defined /\ DisconnectNodes) /\ WF_vars(Defined /\ DeleteDone) /\ WF_vars(Defined /\ Accept)
  /\ WF_vars(Defined /\ SocketTake) /\ WF_vars(Defined /\ SocketRelease)
  /\ WF_vars(Defined /\ MessageTake) /\ WF_vars(Defined /\ MessageRelease)
  /\ \A n \in Ids :
        /\ WF_vars(Defined /\ TestNode(n)) /\ WF_vars(Defined /\ DeleteNode(n))
        /\ WF_vars(Defined /\ Visit(n)) /\ WF_vars(Defined /\ Process(n)) /\ WF_vars(Defined /\ Send(n))
        /\ SF_vars(Defined /\ PingFails(n))
  /\ \A c \in Threads : WF_vars(Defined /\ Proceed(c))

Spec     == Init /\ [][Next]_vars
FairSpec == Spec /\ Fairness
-----------------------------------------------------------------------------
TypeOK ==
  /\ sem \in 0..MaxOutbound /\ nSyncStarted \in 0..MaxNodes
  /\ sock.copy \subseteq Ids /\ msg.todo \subseteq msg.copy /\ msg.copy \subseteq Ids
  /\ mishaps \subseteq {"raced", "freed"}

(* A reference that the thread itself will release or turn into that of    *)
(* the connection.                                                         *)
Uses(c, n) == Holds(c, n) /\ ~Mixing(c)

(* A node that a handler walks over, or that a call of ConnectNode has in  *)
(* hand, is not deleted: "wait until threads are done using it".  There    *)
(* are three exceptions: after two updates of nRefCount met, one may be    *)
(* gone; a reference added between the test of nRefCount and the delete    *)
(* comes too late; and the reference of a mixing thread is released by     *)
(* ProcessMasternodeConnections at any moment.                             *)
HeldNotDeleted ==
  mishaps = {} => \A n \in Ids :
     n \in sock.copy \cup msg.copy \/ (\E c \in Threads : Uses(c, n) /\ ~conn[c].late) => n \in Alive

(* As long as no two updates meet, nRefCount is the number of its holders: *)
(* the two handlers, the calls of ConnectNode, the connection itself, the  *)
(* mixing session, and the references that nobody will release.  So it is  *)
(* never negative (GetRefCount asserts it).                                *)
RefCountExact ==
  mishaps = {} => \A n \in Alive :
     node[n].nRefCount = B(n \in sock.copy) + B(n \in msg.copy) + lost[n]
        + Cardinality({c \in Threads : Uses(c, n)})
        + B(n \in vNodes /\ Owned(n))
        + B(n \in vNodes /\ node[n].master)

(* The references to nodes are accounted for, and so none is deleted while *)
(* it is in use but for the exceptions of HeldNotDeleted.                  *)
ReferencesExact == TypeOK /\ HeldNotDeleted /\ RefCountExact


(* As long as no two moves of a slot meet, no outbound slot is made or     *)
(* destroyed, and one that is in use belongs to a call, to a node in       *)
(* vNodes, to one that a call still has in hand, or to one that will never *)
(* go away because a reference to it was lost.                             *)
SlotsConserved ==
  mishaps = {} =>
     /\ sem + Cardinality({n \in Ids : node[n].grant}) + Cardinality({c \in Threads : conn[c].grant})
          = MaxOutbound
     /\ \A n \in Ids : node[n].grant => n \in vNodes \/ lost[n] > 0 \/ \E c \in Threads : Uses(c, n)

(* The counters of SendMessages agree with the CNodeStates there are.      *)
CountersExact ==
  mishaps = {} => nSyncStarted = Cardinality({n \in Alive : node[n].fSyncStarted})

(* What a connection takes up, an outbound slot or the place of the peer   *)
(* to synchronise from, comes back or has an owner.                        *)
ResourcesAccounted == SlotsConserved /\ CountersExact


(* A connection that ends is deleted, and gives up its place as the peer   *)
(* to synchronise from, unless a reference or an update of one was lost.   *)
DisconnectedIsDeleted ==
  \A n \in Ids : n \in Disconnected ~> node[n].st = "deleted" \/ lost[n] > 0 \/ mishaps # {}

(* A node whose socket is closed leaves vNodes, even when a version check  *)
(* forgot that it was to be disconnected: a ping finds out, unless unsent  *)
(* data or a ping without answer keeps anything more from being sent (or   *)
(* two updates met).                                                       *)
ClosedLeaves ==
  \A n \in Ids : n \in vNodes /\ ~node[n].socket ~> n \notin vNodes \/ node[n].mute \/ mishaps # {}
=============================================================================
