------------------------------- MODULE Budget -------------------------------
(***************************************************************************)
(* CBudgetManager (src/masternode-budget.cpp) of one node: proposals and   *)
(* finalised budgets, the votes for them, and what is passed on to peers.  *)
(* The code for the two kinds is the same twice over, so here both are     *)
(* items; only finalised budgets are paid.                                 *)
(*                                                                         *)
(* Items and votes arrive in any order: votes before their item wait in a  *)
(* map of orphans, items before their fee is confirmed in a vector.  The   *)
(* time of a vote is the voter's; GetTime() is ours.  The blocks are there *)
(* (IsBlockchainSynced).  What other components decide is a free choice    *)
(* wherever it is asked: whether the masternode assets are synchronised,   *)
(* which of the masternodes that come and go are in the list, whether a    *)
(* fee is confirmed by now, whether the content of an item is valid        *)
(* (fValid).  AutoCheck's votes for matching budgets are free too.         *)
(***************************************************************************)
EXTENDS Integers, FiniteSets, BudgetPayment

CONSTANTS
  Proposals, Finals,    \* the items: numbers, in the order of their hashes
  Masternodes,
  Leaving,              \* those that come and go
  Votes,                \* the votes that are cast: [mn, item, time]
  Own,                  \* the masternodes that this node can vote with
  Young,                \* the items whose fee may not be confirmed yet
  UpdateMin,            \* BUDGET_VOTE_UPDATE_MIN
  MaxAhead,             \* how far ahead of our time a vote may be: 60 * 60
  Times,                \* the values of GetTime()
  Enabled,              \* mnodeman.CountEnabled(ActiveProtocol())
  MaxClears             \* bound: how often the seen maps are cleared

Items == Proposals \cup Finals

ASSUME BudgetAssumption ==
  /\ Items \subseteq Nat \ {0} /\ Proposals \cap Finals = {} /\ IsFiniteSet(Masternodes)
  /\ Votes \subseteq [mn : Masternodes, item : Items, time : Nat \ {0}]
  /\ Leaving \subseteq Masternodes /\ Own \subseteq Masternodes /\ Young \subseteq Items
  /\ UpdateMin \in Nat \ {0} /\ MaxAhead \in Nat /\ Times \subseteq Nat
  /\ Enabled \in Nat /\ MaxClears \in Nat

VARIABLES
  items,        \* mapProposals, mapFinalizedBudgets
  mapVotes,     \* the votes by item and masternode
  seenItems,    \* mapSeenMasternodeBudgetProposals, mapSeenFinalizedBudgets
  seenVotes,    \* mapSeenMasternodeBudgetVotes, mapSeenFinalizedBudgetVotes
  orphans,      \* mapOrphan...Votes, by item
  immature,     \* vecImmatureBudgetProposals, vecImmatureFinalizedBudgets
  now,          \* GetTime()
  clears,       \* bound
  lost,         \* history: seen votes that were dropped
  early,        \* history: votes last refused as too far ahead of our time
  unchecked     \* history: items added since CheckOrphanVotes last ran

vars == <<items, mapVotes, seenItems, seenVotes, orphans, immature, now, clears, lost, early, unchecked>>

(* A CBudgetVote or CFinalizedBudgetVote; offered is history: its present  *)
(* value was offered to the peers.                                         *)
Vote(time) == [time |-> time, fValid |-> TRUE, fSynced |-> FALSE, offered |-> FALSE]
None       == [time |-> 0, fValid |-> FALSE, fSynced |-> FALSE, offered |-> FALSE]
NoVote     == [mn |-> 0, item |-> 0, time |-> 0]

Init ==
  /\ items = {} /\ mapVotes = [i \in Items |-> [m \in Masternodes |-> None]]
  /\ seenItems = {} /\ seenVotes = {} /\ orphans = [i \in Items |-> NoVote] /\ immature = {}
  /\ now \in Times /\ clears = 0 /\ lost = {} /\ early = {} /\ unchecked = {}

-----------------------------------------------------------------------------
(* AddOrUpdateVote, for an item that is known: a vote is replaced only by  *)
(* one that is BUDGET_VOTE_UPDATE_MIN younger, and never by one of the     *)
(* future, as our clock has it.                                            *)
Newer(v) ==
  LET old == mapVotes[v.item][v.mn].time
  IN  old = 0 \/ (old <= v.time /\ v.time - old >= UpdateMin)
TooFarAhead(v) == v.time > now + MaxAhead
AcceptsAny(v)  == TRUE
Accepts(v)     == Newer(v) /\ ~TooFarAhead(v)
OnlyAhead(v)   == Newer(v) /\ TooFarAhead(v)

(* mapVotes[hash] = vote.                                                  *)
StoredAsBefore(t, v) == [t EXCEPT ![v.item][v.mn] = [@ EXCEPT !.time = v.time, !.fValid = TRUE, !.offered = FALSE]]
Stored(t, v)         == [t EXCEPT ![v.item][v.mn] = Vote(v.time)]

(* CheckOrphanVotes, once the items in known are: each item has at most    *)
(* one orphan, and those that are accepted become votes.  The others stay. *)
AdoptedOld(known) == {i \in items : orphans[i] # NoVote /\ Accepts(orphans[i])}
Adopted(known)    == {i \in known : orphans[i] # NoVote /\ Accepts(orphans[i])}

CheckOrphanVotes(known) ==
  /\ mapVotes' = [i \in Items |-> IF i \in Adopted(known)
                                  THEN Stored(mapVotes, orphans[i])[i] ELSE mapVotes[i]]
  /\ orphans' = [i \in Items |-> IF i \in Adopted(known) THEN NoVote ELSE orphans[i]]
  /\ early' = (early \ {orphans[i] : i \in Adopted(known)})
                \cup {orphans[i] : i \in {j \in known : orphans[j] # NoVote /\ OnlyAhead(orphans[j])}}
  /\ unchecked' = {}

-----------------------------------------------------------------------------
(* "mprop" and "fbs": the fee is not confirmed often enough yet ...        *)
ItemImmature(i) ==
  /\ i \in Young \ seenItems
  /\ immature' = immature \cup {i}
  /\ UNCHANGED <<items, mapVotes, seenItems, seenVotes, orphans, now, clears, lost, early, unchecked>>

(* ... or it is, and the item is added when it is valid, with the votes    *)
(* that waited for it.                                                     *)
ItemMessage(i) ==
  /\ i \notin seenItems
  /\ seenItems' = seenItems \cup {i}
  /\ \/ UNCHANGED <<items, mapVotes, orphans, early, unchecked>>
     \/ items' = items \cup {i} /\ CheckOrphanVotes(items')
  /\ UNCHANGED <<seenVotes, immature, now, clears, lost>>

(* submitbudget, SubmitFinalBudget: an item of our own, which is seen      *)
(* even when it turns out to be invalid.                                   *)
Submit(i) ==
  /\ seenItems' = seenItems \cup {i}
  /\ \/ UNCHANGED <<items, unchecked>>
     \/ items' = items \cup {i} /\ unchecked' = unchecked \cup ({i} \ items)
  /\ UNCHANGED <<mapVotes, seenVotes, orphans, immature, now, clears, lost, early>>

(* UpdateProposal and UpdateFinalizedBudget, with the peer that sent the   *)
(* vote.  An orphan waits only when we are synchronised, one per item: the *)
(* next one takes its place.                                               *)
UpdateUnknown(v) ==
  \/ Accepts(v) /\ mapVotes' = Stored(mapVotes, v) /\ UNCHANGED <<lost, orphans>>
  \/ ~Accepts(v) /\ UNCHANGED <<mapVotes, lost, orphans>>

Update(v) ==
  \/ /\ v.item \in items /\ Accepts(v)
     /\ mapVotes' = Stored(mapVotes, v) /\ lost' = lost \ {v} /\ UNCHANGED orphans
  \/ /\ v.item \in items /\ ~Accepts(v)
     /\ lost' = lost \ {v} /\ UNCHANGED <<mapVotes, orphans>>
  \/ /\ v.item \notin items
     /\ orphans' = [orphans EXCEPT ![v.item] = v]
     /\ lost' = (lost \ {v}) \cup ({orphans[v.item]} \ {NoVote, v})
     /\ UNCHANGED mapVotes
  \/ /\ v.item \notin items
     /\ lost' = lost \cup {v} /\ UNCHANGED <<mapVotes, orphans>>

(* "mvote" and "fbvote" of a known masternode: the vote is seen, whether   *)
(* or not it is taken.                                                     *)
VoteMessage(v) ==
  /\ v \notin seenVotes
  /\ seenVotes' = seenVotes \cup {v}
  /\ Update(v)
  /\ early' = (early \ {v}) \cup {u \in {v} : u.item \in items /\ OnlyAhead(u)}
  /\ UNCHANGED <<items, seenItems, immature, now, clears, unchecked>>

(* The signature does not match the key we have: "it could just be a       *)
(* non-synced masternode".                                                 *)
VoteUnverified(v) ==
  /\ v \notin seenVotes /\ v.mn \in Leaving
  /\ seenVotes' = seenVotes \cup {v} /\ lost' = lost \cup ({v} \ {orphans[v.item]})
  /\ UNCHANGED <<items, mapVotes, seenItems, orphans, immature, now, clears, early, unchecked>>

(* mnbudgetvote, mnfinalbudget: a vote of our own.                         *)
OwnVote(v) ==
  /\ v.mn \in Own /\ v.item \in items /\ Accepts(v)
  /\ mapVotes' = Stored(mapVotes, v)
  /\ seenVotes' = seenVotes \cup {v} /\ lost' = lost \ {v} /\ early' = early \ {v}
  /\ UNCHANGED <<items, seenItems, orphans, immature, now, clears, unchecked>>

-----------------------------------------------------------------------------
(* Sync(pnode, 0, true) to every peer: the votes not offered before; then  *)
(* MarkSynced.  Both walk over what is seen, known and valid.              *)
Offers(d) == d.fValid /\ ~d.fSynced
Marks(d)  == d.fValid

IncrementalSync(t, what) ==
  [i \in Items |-> [m \in Masternodes |->
     LET d == t[i][m]
     IN  IF i \notin what THEN d ELSE [d EXCEPT !.offered = @ \/ Offers(d), !.fSynced = @ \/ Marks(d)]]]

(* CleanAndRemove(false): the votes of masternodes that are gone.          *)
CleanAndRemove(t, gone) ==
  [i \in Items |-> [m \in Masternodes |-> [t[i][m] EXCEPT !.fValid = t[i][m].time # 0 /\ m \notin gone]]]

(* NewBlock, every fourteenth block.  Now and then the seen maps are       *)
(* cleared first (ResetSync, which walks over them, then finds nothing).   *)
(* CheckAndRemove validates the items and may vote (AutoCheck); immature   *)
(* items are added when their fee is confirmed, without a look at the      *)
(* orphans.                                                                *)
NewBlock ==
  /\ \E clear \in BOOLEAN, valid \in SUBSET items, gone \in SUBSET Leaving,
        auto \in {NoVote} \cup {v \in Votes : v.mn \in Own /\ v.item \in Finals \cap items} :
        /\ clear => clears < MaxClears
        /\ auto # NoVote => Accepts(auto)
        /\ clears' = IF clear THEN clears + 1 ELSE clears
        /\ seenItems' = IF clear THEN {} ELSE seenItems
        /\ seenVotes' = (IF clear THEN {} ELSE seenVotes) \cup ({auto} \ {NoVote})
        /\ lost' = lost \ {auto} /\ early' = early \ {auto}
        /\ \E t \in {IncrementalSync(mapVotes, seenItems' \cap valid)} :
              mapVotes' = CleanAndRemove(IF auto = NoVote THEN t ELSE Stored(t, auto), gone)
  /\ \E ready \in SUBSET immature : \E bad \in SUBSET ready :
        /\ items' = items \cup (ready \ bad)
        /\ unchecked' = unchecked \cup (ready \ (items \cup bad))
        /\ immature' = immature \ ready
  /\ UNCHANGED <<orphans, now>>

(* The node is stopped and started: budget.dat holds everything but the    *)
(* immature items and the flags of votes and items; ClearSeen.             *)
Restart ==
  /\ clears < MaxClears /\ clears' = clears + 1
  /\ seenItems' = {} /\ seenVotes' = {} /\ immature' = {}
  /\ mapVotes' = [i \in Items |-> [m \in Masternodes |->
        IF mapVotes[i][m].time = 0 THEN None ELSE Vote(mapVotes[i][m].time)]]
  /\ UNCHANGED <<items, orphans, now, lost, early, unchecked>>

ClockMoves(t) ==
  /\ t > now /\ now' = t
  /\ UNCHANGED <<items, mapVotes, seenItems, seenVotes, orphans, immature, clears, lost, early, unchecked>>

Next ==
  \/ NewBlock \/ Restart \/ \E t \in Times : ClockMoves(t)
  \/ \E i \in Items : ItemImmature(i) \/ ItemMessage(i) \/ Submit(i)
  \/ \E v \in Votes : VoteMessage(v) \/ VoteUnverified(v) \/ OwnVote(v)

Spec == Init /\ [][Next]_vars
-----------------------------------------------------------------------------
Data == [time : {0} \cup {v.time : v \in Votes}, fValid : BOOLEAN, fSynced : BOOLEAN, offered : BOOLEAN]

TypeOK ==
  /\ items \subseteq Items /\ seenItems \subseteq Items /\ seenVotes \subseteq Votes
  /\ mapVotes \in [Items -> [Masternodes -> Data]]
  /\ \A i \in Items \ items, m \in Masternodes : mapVotes[i][m] = None
  /\ orphans \in [Items -> Votes \cup {NoVote}] /\ immature \subseteq Young
  /\ lost \subseteq Votes /\ early \subseteq Votes /\ now \in Times

(* A vote we remember having seen, and will not take again, has not been   *)
(* forgotten: it waits for its item, or the vote we count for its          *)
(* masternode is the same, a later one or one less than                    *)
(* BUDGET_VOTE_UPDATE_MIN older.  Whatever the order of arrival, so the    *)
(* order does not decide the count between votes an hour apart.  The       *)
(* votes that are seen and nevertheless forgotten, each from the step that *)
(* drops it until it is taken after all: one that comes before its item    *)
(* while the synchronisation is not finished, one that loses its place in  *)
(* the map of orphans to another, one whose signature does not match the   *)
(* key we have, and one that is too far ahead of our clock.                *)
SeenVotesCount ==
  \A v \in seenVotes \ (lost \cup early) :
     orphans[v.item] = v \/ (v.item \in items /\ mapVotes[v.item][v.mn].time > v.time - UpdateMin)

(* A vote whose item is known does not stay an orphan, unless the item was *)
(* added by ourselves or from the immature ones since orphans were looked  *)
(* at last, or the vote was then too far ahead of our clock: nothing looks *)
(* at it again before the next item comes.                                 *)
OrphansAreAdopted ==
  \A i \in items \ unchecked : orphans[i] # NoVote => ~Newer(orphans[i]) \/ orphans[i] \in early

(* But for the cases above no vote is forgotten: it is counted or waits    *)
(* for an item that is not known, whatever the order of arrival.           *)
VotesCounted == TypeOK /\ SeenVotesCount /\ OrphansAreAdopted

(* A vote that MarkSynced leaves out of the following synchronisations has *)
(* been offered with its present value, although votes change and become   *)
(* invalid and valid again.  (Offered to the peers there are that pass the *)
(* test of their version: to nobody, when there are none.)                 *)
SyncedWasOffered ==
  \A i \in Items, m \in Masternodes : mapVotes[i][m].fSynced => mapVotes[i][m].offered

Counts == [i \in Finals \cap items |-> Cardinality({m \in Masternodes : mapVotes[i][m].time # 0})]

(* A node that makes a block for the budget with the most votes makes one  *)
(* that other nodes accept, if they take it for a budget block and have    *)
(* the same budgets, as long as no count differs by more than d with 2 * d *)
(* below a tenth of the masternodes.  In particular (d = 0) the node       *)
(* itself does when there are ten masternodes.  Below ten there is no such *)
(* d: the tolerance is zero, IsTransactionValid accepts no payment, and    *)
(* nothing is said.                                                        *)
FilledIsAccepted ==
  IsBudgetPaymentBlock(Counts, Enabled) =>
  \A d \in {n \in 0..Enabled : 2 * n < Enabled \div 10} :
  \A other \in [DOMAIN Counts -> 0..Cardinality(Masternodes) + d] :
     Near(Counts, other, d) /\ IsBudgetPaymentBlock(other, Enabled)
     => IsTransactionValid(other, Enabled, FillBlockPayee(Counts))
=============================================================================
