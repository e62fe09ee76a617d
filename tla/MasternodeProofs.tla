-------------------------- MODULE MasternodeProofs --------------------------
(***************************************************************************)
(* Proofs about the budget manager, for any items, masternodes and votes:  *)
(* no vote is forgotten, whatever the order of arrival, a vote that is not *)
(* offered again was offered with its present value, and the budget that a *)
(* miner pays is one that nodes with nearly the same votes accept; and     *)
(* about the synchronisation that asks for those items, for any number of  *)
(* peers: a node counts as synchronised only with what came; and about the *)
(* transaction locks of SwiftTX: no masternode signs a lock twice, and a   *)
(* complete lock holds its inputs.                                         *)
(***************************************************************************)
EXTENDS Budget, MasternodeSync, SwiftTX, FiniteSetTheorems, WellFoundedInduction, TLAPS

-----------------------------------------------------------------------------
(* The inductive invariant of the votes: an orphan waits under its own     *)
(* item.                                                                   *)
OrphansInPlace == \A i \in Items : orphans[i] # NoVote => orphans[i].item = i

IInv == VotesCounted /\ OrphansInPlace /\ SyncedWasOffered

(* The votes that are cast, and what they become.                          *)
LEMMA VoteFacts ==
  /\ \A v \in Votes : /\ v.mn \in Masternodes /\ v.item \in Items /\ v.item # 0 /\ v.time \in Nat
                      /\ v.time > 0 /\ v # NoVote
  /\ NoVote \notin Votes
  /\ \A v \in Votes : Vote(v.time) \in Data
  /\ None \in Data /\ \A t \in Data : t.time \in Nat
<1>1. \A v \in Votes : /\ v.mn \in Masternodes /\ v.item \in Items /\ v.item # 0 /\ v.time \in Nat
                       /\ v.time > 0
  BY BudgetAssumption
<1>2. NoVote.item = 0
  BY DEF NoVote
<1>3. \A v \in Votes : Vote(v.time) \in Data
  BY DEF Vote, Data
<1>4. None \in Data
  BY DEF None, Data
<1>5. QED
  BY <1>1, <1>2, <1>3, <1>4 DEF Data

(* The types of the state.                                                 *)
LEMMA TypeFacts ==
  ASSUME TypeOK
  PROVE  /\ mapVotes \in [Items -> [Masternodes -> Data]]
         /\ \A i \in Items, m \in Masternodes :
               mapVotes[i][m] \in Data /\ mapVotes[i][m].time \in Nat
         /\ \A i \in Items : orphans[i] \in Votes \cup {NoVote}
<1>1. mapVotes \in [Items -> [Masternodes -> Data]]
  BY DEF TypeOK
<1>2. \A i \in Items, m \in Masternodes : mapVotes[i][m] \in Data
  BY <1>1
<1>3. QED
  BY <1>1, <1>2, VoteFacts DEF TypeOK

(* A vote that is not accepted is too far ahead of our clock, or no news:  *)
(* what is counted is at most BUDGET_VOTE_UPDATE_MIN older.                *)
LEMMA AcceptsFacts ==
  ASSUME TypeOK, NEW v \in Votes
  PROVE  LET old == mapVotes[v.item][v.mn].time
         IN  /\ Accepts(v) => old <= v.time
             /\ ~Newer(v) <=> old # 0 /\ old > v.time - UpdateMin
             /\ ~Accepts(v) => ~Newer(v) \/ OnlyAhead(v)
<1>1. mapVotes[v.item][v.mn].time \in Nat /\ v.time \in Nat /\ v.time > 0
  BY VoteFacts, TypeFacts
<1>2. UpdateMin \in Nat \ {0}
  BY BudgetAssumption
<1>3. QED
  BY <1>1, <1>2 DEF Accepts, OnlyAhead, Newer

(* The counted votes never become older, orphans stay: a step that counts  *)
(* or drops the votes it sees, and leaves the items it adds to a later     *)
(* CheckOrphanVotes, forgets nothing.                                      *)
LEMMA NothingForgotten ==
  ASSUME IInv, TypeOK', SyncedWasOffered', orphans' = orphans, items \subseteq items',
         items' \ unchecked' \subseteq items \ unchecked,
         \A i \in Items, m \in Masternodes : mapVotes'[i][m].time >= mapVotes[i][m].time,
         \A v \in seenVotes' \ (lost' \cup early') :
            \/ v \in seenVotes \ (lost \cup early) \/ orphans[v.item] = v
            \/ v.item \in items' /\ mapVotes'[v.item][v.mn].time > v.time - UpdateMin,
         \A v \in early \ early' : v.item \in items' =>
            mapVotes'[v.item][v.mn].time # 0 /\ mapVotes'[v.item][v.mn].time > v.time - UpdateMin
  PROVE  IInv'
<1>1. TypeOK /\ seenVotes \subseteq Votes /\ seenVotes' \subseteq Votes /\ UpdateMin \in Nat \ {0}
  BY BudgetAssumption DEF IInv, VotesCounted, TypeOK
<1>2. \A i \in Items, m \in Masternodes : mapVotes[i][m].time \in Nat /\ mapVotes'[i][m].time \in Nat
  <2>1. \A i \in Items, m \in Masternodes : mapVotes'[i][m] \in Data
    BY DEF TypeOK
  <2>2. QED
    BY <1>1, <2>1, TypeFacts, VoteFacts
<1>3. SeenVotesCount'
  <2>1. SUFFICES ASSUME NEW v \in seenVotes' \ (lost' \cup early'), orphans[v.item] # v
                 PROVE  v.item \in items' /\ mapVotes'[v.item][v.mn].time > v.time - UpdateMin
    BY DEF SeenVotesCount
  <2>2. CASE v \in seenVotes \ (lost \cup early)
    <3>1. v.item \in items /\ mapVotes[v.item][v.mn].time > v.time - UpdateMin
      BY <2>1, <2>2 DEF IInv, VotesCounted, SeenVotesCount
    <3>2. v.item \in Items /\ v.mn \in Masternodes /\ v.time \in Nat
      BY <1>1, <2>1, VoteFacts
    <3>3. QED
      BY <1>1, <1>2, <3>1, <3>2
  <2>3. QED
    BY <2>1, <2>2
<1>4. OrphansAreAdopted'
  <2>1. SUFFICES ASSUME NEW i \in items' \ unchecked', orphans[i] # NoVote, orphans[i] \notin early'
                 PROVE  ~Newer(orphans[i])'
    BY DEF OrphansAreAdopted
  <2>2. i \in Items /\ orphans[i] \in Votes /\ orphans[i].item = i
    BY <1>1, <2>1, TypeFacts DEF IInv, OrphansInPlace, TypeOK
  <2>3. /\ orphans[i].item \in Items /\ orphans[i].mn \in Masternodes
        /\ orphans[i].time \in Nat
    BY <2>2, VoteFacts
  <2>4. CASE ~Newer(orphans[i])
    <3>1. /\ mapVotes[orphans[i].item][orphans[i].mn].time # 0
          /\ mapVotes[orphans[i].item][orphans[i].mn].time > orphans[i].time - UpdateMin
      BY <1>1, <2>2, <2>4, AcceptsFacts
    <3>2. /\ mapVotes'[orphans[i].item][orphans[i].mn].time # 0
          /\ mapVotes'[orphans[i].item][orphans[i].mn].time > orphans[i].time - UpdateMin
      BY <1>1, <1>2, <2>3, <3>1
    <3>3. QED
      BY <1>1, <1>2, <2>3, <3>2 DEF Newer
  <2>5. CASE orphans[i] \in early
    <3>1. /\ mapVotes'[orphans[i].item][orphans[i].mn].time # 0
          /\ mapVotes'[orphans[i].item][orphans[i].mn].time > orphans[i].time - UpdateMin
      BY <2>1, <2>2, <2>5
    <3>2. QED
      BY <1>1, <1>2, <2>3, <3>1 DEF Newer
  <2>6. QED
    BY <2>1, <2>4, <2>5 DEF IInv, VotesCounted, OrphansAreAdopted
<1>5. QED
  BY <1>3, <1>4 DEF IInv, VotesCounted, OrphansInPlace

(* The table of votes after mapVotes[hash] = vote.                         *)
LEMMA StoredFacts ==
  ASSUME NEW t \in [Items -> [Masternodes -> Data]], NEW v \in Votes
  PROVE  /\ Stored(t, v) \in [Items -> [Masternodes -> Data]]
         /\ \A i \in Items, m \in Masternodes :
               Stored(t, v)[i][m] = IF i = v.item /\ m = v.mn THEN Vote(v.time) ELSE t[i][m]
         /\ Vote(v.time).time = v.time /\ ~Vote(v.time).fSynced
<1>1. v.item \in Items /\ v.mn \in Masternodes /\ Vote(v.time) \in Data
  BY VoteFacts
<1>2. /\ Stored(t, v) \in [Items -> [Masternodes -> Data]]
      /\ \A i \in Items, m \in Masternodes :
            Stored(t, v)[i][m] = IF i = v.item /\ m = v.mn THEN Vote(v.time) ELSE t[i][m]
  BY <1>1 DEF Stored
<1>3. QED
  BY <1>2 DEF Vote

(* Counting a vote that is accepted.                                       *)
LEMMA CountedStep ==
  ASSUME IInv, NEW v \in Votes, v.item \in items, Accepts(v), mapVotes' = Stored(mapVotes, v),
         seenVotes' = seenVotes \cup {v}, lost' = lost \ {v}, early' = early \ {v},
         UNCHANGED <<items, seenItems, orphans, immature, now, unchecked>>
  PROVE  IInv'
<1>1. TypeOK /\ UpdateMin \in Nat \ {0}
  BY BudgetAssumption DEF IInv, VotesCounted
<1>2. /\ mapVotes' \in [Items -> [Masternodes -> Data]]
      /\ \A i \in Items, m \in Masternodes :
            mapVotes'[i][m] = IF i = v.item /\ m = v.mn THEN Vote(v.time) ELSE mapVotes[i][m]
      /\ Vote(v.time).time = v.time /\ ~Vote(v.time).fSynced
  BY <1>1, TypeFacts, StoredFacts
<1>3. v.item \in Items /\ v.mn \in Masternodes /\ v.time \in Nat
  BY VoteFacts
<1>4. TypeOK'
  BY <1>1, <1>2 DEF TypeOK
<1>5. SyncedWasOffered'
  BY <1>2 DEF IInv, SyncedWasOffered
<1>6. \A i \in Items, m \in Masternodes : mapVotes'[i][m].time >= mapVotes[i][m].time
  BY <1>1, <1>2, <1>3, TypeFacts, AcceptsFacts
<1>7. mapVotes'[v.item][v.mn].time # 0 /\ mapVotes'[v.item][v.mn].time > v.time - UpdateMin
  BY <1>1, <1>2, <1>3, VoteFacts
<1>8. QED
  BY <1>4, <1>5, <1>6, <1>7, NothingForgotten

(* A step that leaves the counted votes and the orphans alone.             *)
LEMMA QuietStep ==
  ASSUME IInv, TypeOK', UNCHANGED <<mapVotes, orphans>>, items \subseteq items',
         items' \ unchecked' \subseteq items \ unchecked,
         \A v \in seenVotes' \ (lost' \cup early') :
            \/ v \in seenVotes \ (lost \cup early) \/ orphans[v.item] = v
            \/ v.item \in items' /\ mapVotes[v.item][v.mn].time > v.time - UpdateMin,
         \A v \in early \ early' : v.item \in items' =>
            mapVotes[v.item][v.mn].time # 0 /\ mapVotes[v.item][v.mn].time > v.time - UpdateMin
  PROVE  IInv'
<1>1. \A i \in Items, m \in Masternodes : mapVotes'[i][m].time >= mapVotes[i][m].time
  BY TypeFacts DEF IInv, VotesCounted
<1>2. SyncedWasOffered'
  BY DEF IInv, SyncedWasOffered
<1>3. QED
  BY <1>1, <1>2, NothingForgotten

-----------------------------------------------------------------------------
(* The actions.                                                            *)

(* A vote for an item that is not known takes the place of the orphan that *)
(* was there, which is lost.                                               *)
LEMMA OrphanStep ==
  ASSUME IInv, NEW v \in Votes, v.item \notin items,
         orphans' = [orphans EXCEPT ![v.item] = v],
         lost' = (lost \ {v}) \cup ({orphans[v.item]} \ {NoVote, v}),
         seenVotes' = seenVotes \cup {v}, early' = early \ {v},
         UNCHANGED <<mapVotes, items, seenItems, immature, now, unchecked>>
  PROVE  IInv'
<1>1. TypeOK /\ v.item \in Items /\ items \subseteq Items /\ orphans \in [Items -> Votes \cup {NoVote}]
  BY VoteFacts DEF IInv, VotesCounted, TypeOK
<1>2. \A i \in Items : orphans'[i] = IF i = v.item THEN v ELSE orphans[i]
  BY <1>1
<1>3. TypeOK'
  BY <1>1, <1>2 DEF TypeOK
<1>4. SeenVotesCount'
  <2>1. SUFFICES ASSUME NEW w \in seenVotes' \ (lost' \cup early'), orphans'[w.item] # w
                 PROVE  w.item \in items /\ mapVotes[w.item][w.mn].time > w.time - UpdateMin
    BY DEF SeenVotesCount
  <2>2. w # v /\ w \in Votes /\ w.item \in Items /\ w # NoVote
    BY <1>1, <1>2, <1>3, <2>1, VoteFacts DEF TypeOK
  <2>3. w \in seenVotes \ (lost \cup early) /\ orphans[w.item] # w
    BY <1>2, <2>1, <2>2
  <2>4. QED
    BY <2>3 DEF IInv, VotesCounted, SeenVotesCount
<1>5. OrphansAreAdopted'
  <2>1. SUFFICES ASSUME NEW i \in items \ unchecked, orphans'[i] # NoVote, orphans'[i] \notin early'
                 PROVE  ~Newer(orphans[i])'
    BY DEF OrphansAreAdopted
  <2>2. i \in Items /\ i # v.item /\ orphans'[i] = orphans[i]
    BY <1>1, <1>2, <2>1
  <2>3. orphans[i] # v /\ orphans[i] \notin early
    BY <2>1, <2>2 DEF IInv, OrphansInPlace
  <2>4. ~Newer(orphans[i])
    BY <2>1, <2>2, <2>3 DEF IInv, VotesCounted, OrphansAreAdopted
  <2>5. QED
    BY <2>2, <2>4 DEF Newer
<1>6. OrphansInPlace' /\ SyncedWasOffered'
  BY <1>1, <1>2 DEF IInv, OrphansInPlace, SyncedWasOffered
<1>7. QED
  BY <1>3, <1>4, <1>5, <1>6 DEF IInv, VotesCounted

(* "mvote" and "fbvote".                                                   *)
LEMMA VoteMessageStep == ASSUME IInv, NEW v \in Votes, VoteMessage(v) PROVE IInv'
<1>1. /\ seenVotes' = seenVotes \cup {v} /\ Update(v)
      /\ early' = (early \ {v}) \cup {u \in {v} : u.item \in items /\ OnlyAhead(u)}
      /\ UNCHANGED <<items, seenItems, immature, now, clears, unchecked>>
  BY DEF VoteMessage
<1>2. CASE v.item \in items /\ Accepts(v) /\ mapVotes' = Stored(mapVotes, v) /\ lost' = lost \ {v}
           /\ UNCHANGED orphans
  <2>1. early' = early \ {v}
    BY <1>1, <1>2 DEF Accepts, OnlyAhead
  <2>2. QED
    BY <1>1, <1>2, <2>1, CountedStep
<1>3. CASE v.item \in items /\ ~Accepts(v) /\ lost' = lost \ {v} /\ UNCHANGED <<mapVotes, orphans>>
  <2>1. \/ v \in early'
        \/ mapVotes[v.item][v.mn].time # 0 /\ mapVotes[v.item][v.mn].time > v.time - UpdateMin
    BY <1>1, <1>3, AcceptsFacts DEF IInv, VotesCounted
  <2>2. early \ {v} \subseteq early' /\ early' \subseteq early \cup {v}
    BY <1>1
  <2>3. TypeOK'
    BY <1>1, <1>3, <2>2 DEF IInv, VotesCounted, TypeOK
  <2>4. QED
    BY <1>1, <1>3, <2>1, <2>2, <2>3, QuietStep
<1>4. ASSUME v.item \notin items PROVE early' = early \ {v}
  BY <1>1, <1>4
<1>5. CASE /\ v.item \notin items /\ orphans' = [orphans EXCEPT ![v.item] = v]
           /\ lost' = (lost \ {v}) \cup ({orphans[v.item]} \ {NoVote, v})
           /\ UNCHANGED mapVotes
  BY <1>1, <1>4, <1>5, OrphanStep
<1>6. CASE v.item \notin items /\ lost' = lost \cup {v} /\ UNCHANGED <<mapVotes, orphans>>
  <2>1. TypeOK'
    BY <1>1, <1>4, <1>6 DEF IInv, VotesCounted, TypeOK
  <2>2. QED
    BY <1>1, <1>4, <1>6, <2>1, QuietStep
<1>7. QED
  BY <1>1, <1>2, <1>3, <1>5, <1>6 DEF Update

(* A vote whose signature cannot be checked.                               *)
LEMMA VoteUnverifiedStep == ASSUME IInv, NEW v \in Votes, VoteUnverified(v) PROVE IInv'
<1>1. /\ seenVotes' = seenVotes \cup {v} /\ lost' = lost \cup ({v} \ {orphans[v.item]})
      /\ UNCHANGED <<items, mapVotes, seenItems, orphans, immature, now, clears, early, unchecked>>
  BY DEF VoteUnverified
<1>2. TypeOK'
  BY <1>1 DEF IInv, VotesCounted, TypeOK
<1>3. QED
  BY <1>1, <1>2, QuietStep

(* An item that is not seen, or seen and not added, or added by ourselves. *)
LEMMA ItemQuietStep ==
  ASSUME IInv, NEW i \in Items, seenItems' \subseteq seenItems \cup {i},
         \/ UNCHANGED <<items, unchecked>>
         \/ items' = items \cup {i} /\ unchecked' = unchecked \cup ({i} \ items),
         immature' = immature \/ (i \in Young /\ immature' = immature \cup {i}),
         UNCHANGED <<mapVotes, seenVotes, orphans, now, lost, early>>
  PROVE  IInv'
<1>1. TypeOK'
  BY DEF IInv, VotesCounted, TypeOK
<1>2. QED
  BY <1>1, QuietStep

(* An item is added, and the orphans are looked at.                        *)
LEMMA AdoptStep ==
  ASSUME IInv, NEW i \in Items, items' = items \cup {i}, CheckOrphanVotes(items'),
         seenItems' \subseteq seenItems \cup {i}, UNCHANGED <<seenVotes, immature, now, lost>>
  PROVE  IInv'
<1> DEFINE A == Adopted(items')
           ahead == {orphans[j] : j \in {k \in items' : orphans[k] # NoVote /\ OnlyAhead(orphans[k])}}
<1>1. TypeOK /\ UpdateMin \in Nat \ {0} /\ items' \subseteq Items /\ seenVotes \subseteq Votes
  BY BudgetAssumption DEF IInv, VotesCounted, TypeOK
<1>2. /\ mapVotes' = [j \in Items |-> IF j \in A THEN Stored(mapVotes, orphans[j])[j] ELSE mapVotes[j]]
      /\ orphans' = [j \in Items |-> IF j \in A THEN NoVote ELSE orphans[j]]
      /\ early' = (early \ {orphans[j] : j \in A}) \cup ahead
      /\ unchecked' = {}
  BY DEF CheckOrphanVotes
<1>3. A \subseteq items' /\ \A j \in items' : j \in A <=> orphans[j] # NoVote /\ Accepts(orphans[j])
  BY DEF Adopted
<1>0. /\ \A o \in ahead : o \in {orphans[k] : k \in items'} /\ o # NoVote
      /\ \A j \in items' : orphans[j] # NoVote /\ OnlyAhead(orphans[j]) => orphans[j] \in ahead
  OBVIOUS
<1> HIDE DEF A, ahead
<1>4. mapVotes \in [Items -> [Masternodes -> Data]] /\ \A j \in Items : orphans[j] \in Votes \cup {NoVote}
  BY <1>1, TypeFacts
<1>5. ASSUME NEW j \in A
      PROVE  /\ j \in Items /\ orphans[j] \in Votes /\ orphans[j].item = j
             /\ mapVotes'[j] \in [Masternodes -> Data]
             /\ \A m \in Masternodes :
                   mapVotes'[j][m] = IF m = orphans[j].mn THEN Vote(orphans[j].time) ELSE mapVotes[j][m]
             /\ Vote(orphans[j].time).time = orphans[j].time /\ ~Vote(orphans[j].time).fSynced
  <2>1. j \in Items /\ orphans[j] \in Votes /\ orphans[j].item = j
    BY <1>1, <1>3, <1>4, <1>5 DEF IInv, OrphansInPlace
  <2>2. mapVotes'[j] = Stored(mapVotes, orphans[j])[j]
    BY <1>2, <1>5, <2>1
  <2>3. QED
    BY <1>4, <2>1, <2>2, StoredFacts
<1>6. ASSUME NEW j \in Items, j \notin A PROVE mapVotes'[j] = mapVotes[j] /\ orphans'[j] = orphans[j]
  BY <1>2, <1>6
<1>7. TypeOK'
  <2>1. ASSUME NEW j \in Items
        PROVE  (IF j \in A THEN Stored(mapVotes, orphans[j])[j] ELSE mapVotes[j]) \in [Masternodes -> Data]
    BY <1>2, <1>4, <1>5
  <2>2. mapVotes' \in [Items -> [Masternodes -> Data]]
    BY <1>2, <2>1
  <2>3. \A j \in Items \ items', m \in Masternodes : mapVotes'[j][m] = None
    BY <1>1, <1>3, <1>6 DEF TypeOK
  <2>4. orphans' \in [Items -> Votes \cup {NoVote}]
    BY <1>2, <1>4
  <2>5. early' \subseteq Votes
    BY <1>0, <1>1, <1>2, <1>4 DEF TypeOK
  <2>6. QED
    BY <1>1, <2>2, <2>3, <2>4, <2>5 DEF TypeOK
<1>8. \A j \in Items, m \in Masternodes :
         /\ mapVotes'[j][m].time \in Nat /\ mapVotes[j][m].time \in Nat
         /\ mapVotes'[j][m].time >= mapVotes[j][m].time
  <2>1. SUFFICES ASSUME NEW j \in Items, NEW m \in Masternodes
                 PROVE  /\ mapVotes'[j][m].time \in Nat /\ mapVotes[j][m].time \in Nat
                        /\ mapVotes'[j][m].time >= mapVotes[j][m].time
    OBVIOUS
  <2>2. mapVotes[j][m].time \in Nat
    BY <1>1, TypeFacts
  <2>3. CASE j \in A /\ m = orphans[j].mn
    <3>1. mapVotes'[j][m].time = orphans[j].time /\ orphans[j].time \in Nat
      BY <1>5, <2>3, VoteFacts
    <3>2. mapVotes[j][m].time <= orphans[j].time
      BY <1>1, <1>3, <1>5, <2>3, AcceptsFacts
    <3>3. QED
      BY <2>2, <3>1, <3>2
  <2>4. CASE ~(j \in A /\ m = orphans[j].mn)
    BY <1>5, <1>6, <2>2, <2>4
  <2>5. QED
    BY <2>3, <2>4
<1>9. SeenVotesCount'
  <2>1. SUFFICES ASSUME NEW v \in seenVotes \ (lost \cup early'), orphans'[v.item] # v
                 PROVE  v.item \in items' /\ mapVotes'[v.item][v.mn].time > v.time - UpdateMin
    BY DEF SeenVotesCount
  <2>2. v.item \in Items /\ v.mn \in Masternodes /\ v.time \in Nat
    BY <1>1, <2>1, VoteFacts
  <2>3. CASE orphans[v.item] = v
    <3>1. v.item \in A
      BY <1>6, <2>1, <2>2, <2>3
    <3>2. mapVotes'[v.item][v.mn].time = v.time
      BY <1>5, <2>2, <2>3, <3>1
    <3>3. QED
      BY <1>1, <1>3, <2>2, <3>1, <3>2
  <2>4. CASE orphans[v.item] # v
    <3>1. v \notin early
      BY <1>2, <1>5, <2>1, <2>4
    <3>2. v.item \in items /\ mapVotes[v.item][v.mn].time > v.time - UpdateMin
      BY <2>1, <2>4, <3>1 DEF IInv, VotesCounted, SeenVotesCount
    <3>3. QED
      BY <1>1, <1>8, <2>2, <3>2
  <2>5. QED
    BY <2>3, <2>4
<1>10. OrphansAreAdopted'
  <2>1. SUFFICES ASSUME NEW j \in items', orphans'[j] # NoVote, orphans'[j] \notin early'
                 PROVE  ~Newer(orphans[j])'
    BY DEF OrphansAreAdopted
  <2>2. j \in Items /\ j \notin A
    BY <1>1, <1>2, <2>1
  <2>3. /\ orphans'[j] = orphans[j] /\ mapVotes'[j] = mapVotes[j] /\ ~Accepts(orphans[j])
        /\ orphans[j] \notin ahead
    BY <1>2, <1>3, <1>6, <2>1, <2>2
  <2>4. orphans[j].item = j /\ ~Newer(orphans[j])
    BY <1>0, <2>1, <2>2, <2>3 DEF IInv, OrphansInPlace, Accepts, OnlyAhead
  <2>5. QED
    BY <2>3, <2>4 DEF Newer
<1>11. OrphansInPlace'
  BY <1>2 DEF IInv, OrphansInPlace
<1>12. SyncedWasOffered'
  BY <1>5, <1>6 DEF IInv, SyncedWasOffered
<1>13. QED
  BY <1>7, <1>9, <1>10, <1>11, <1>12 DEF IInv, VotesCounted


(* The incremental synchronisation keeps the votes, and marks none that it *)
(* does not offer or that was not offered before.                          *)
LEMMA SyncTable ==
  ASSUME NEW t \in [Items -> [Masternodes -> Data]], NEW what,
         \A i \in Items, m \in Masternodes : t[i][m].fSynced => t[i][m].offered
  PROVE  LET u == IncrementalSync(t, what)
         IN  /\ u \in [Items -> [Masternodes -> Data]]
             /\ \A i \in Items, m \in Masternodes :
                   /\ u[i][m].time = t[i][m].time /\ (u[i][m].fSynced => u[i][m].offered)
                   /\ i \notin what => u[i][m] = t[i][m]
<1> DEFINE u == IncrementalSync(t, what)
           new(d) == [d EXCEPT !.offered = @ \/ Offers(d), !.fSynced = @ \/ Marks(d)]
<1>1. ASSUME NEW d \in Data, d.fSynced => d.offered
      PROVE  new(d) \in Data /\ new(d).time = d.time /\ (new(d).fSynced => new(d).offered)
  <2>1. /\ d.fSynced \in BOOLEAN /\ d.offered \in BOOLEAN /\ d.fValid \in BOOLEAN
        /\ Offers(d) \in BOOLEAN /\ Marks(d) \in BOOLEAN
    BY DEF Data, Offers, Marks
  <2>2. new(d) \in Data /\ new(d).time = d.time
    BY <2>1 DEF Data
  <2>3. new(d).fSynced = (d.fSynced \/ Marks(d)) /\ new(d).offered = (d.offered \/ Offers(d))
    BY <2>1 DEF Data
  <2>4. QED
    BY <1>1, <2>1, <2>2, <2>3 DEF Offers, Marks
<1>2. u = [i \in Items |-> [m \in Masternodes |-> IF i \notin what THEN t[i][m] ELSE new(t[i][m])]]
  BY DEF IncrementalSync
<1> HIDE DEF new
<1>3. \A i \in Items, m \in Masternodes : t[i][m] \in Data
  OBVIOUS
<1>4. QED
  BY <1>1, <1>2, <1>3

(* The default vote, by its fields.                                        *)
LEMMA NoneFields ==
  ASSUME NEW d \in Data, d.time = 0, ~d.fSynced, ~d.offered, ~d.fValid
  PROVE  d = None
<1>1. d.fSynced = FALSE /\ d.offered = FALSE /\ d.fValid = FALSE
  BY DEF Data
<1>2. d = [time |-> d.time, fValid |-> d.fValid, fSynced |-> d.fSynced, offered |-> d.offered]
  BY DEF Data
<1>3. QED
  BY <1>1, <1>2 DEF None

(* CleanAndRemove only changes fValid, and not that of a vote never cast.  *)
LEMMA CleanTable ==
  ASSUME NEW t \in [Items -> [Masternodes -> Data]], NEW gone
  PROVE  LET u == CleanAndRemove(t, gone)
         IN  /\ u \in [Items -> [Masternodes -> Data]]
             /\ \A i \in Items, m \in Masternodes :
                   /\ u[i][m].time = t[i][m].time /\ u[i][m].fSynced = t[i][m].fSynced
                   /\ u[i][m].offered = t[i][m].offered
                   /\ t[i][m] = None => u[i][m] = None
<1> DEFINE u == CleanAndRemove(t, gone)
           new(d, m) == [d EXCEPT !.fValid = d.time # 0 /\ m \notin gone]
<1>1. ASSUME NEW d \in Data, NEW m \in Masternodes
      PROVE  /\ new(d, m) \in Data /\ new(d, m).time = d.time /\ new(d, m).fSynced = d.fSynced
             /\ new(d, m).offered = d.offered /\ (d = None => new(d, m) = None)
  <2>1. (d.time # 0 /\ m \notin gone) \in BOOLEAN
    OBVIOUS
  <2>2. /\ new(d, m) \in Data /\ new(d, m).time = d.time /\ new(d, m).fSynced = d.fSynced
        /\ new(d, m).offered = d.offered /\ new(d, m).fValid = (d.time # 0 /\ m \notin gone)
    BY <2>1 DEF Data
  <2>3. ASSUME d = None PROVE new(d, m) = None
    <3>1. /\ new(d, m).time = 0 /\ ~new(d, m).fSynced /\ ~new(d, m).offered /\ ~new(d, m).fValid
      BY <2>2, <2>3 DEF None
    <3>2. QED
      BY <2>2, <3>1, NoneFields
  <2>4. QED
    BY <2>2, <2>3
<1>2. u = [i \in Items |-> [m \in Masternodes |-> new(t[i][m], m)]]
  BY DEF CleanAndRemove
<1> HIDE DEF new
<1>3. \A i \in Items, m \in Masternodes : t[i][m] \in Data
  OBVIOUS
<1>4. QED
  BY <1>1, <1>2, <1>3


(* NewBlock.                                                               *)
LEMMA NewBlockStep == ASSUME IInv, NewBlock PROVE IInv'
<1>1. TypeOK /\ UpdateMin \in Nat \ {0} /\ mapVotes \in [Items -> [Masternodes -> Data]]
  BY BudgetAssumption, TypeFacts DEF IInv, VotesCounted
<1>2. PICK clear \in BOOLEAN, valid \in SUBSET items, gone \in SUBSET Leaving,
           auto \in {NoVote} \cup {v \in Votes : v.mn \in Own /\ v.item \in Finals \cap items} :
        /\ auto # NoVote => Accepts(auto)
        /\ seenItems' = (IF clear THEN {} ELSE seenItems)
        /\ seenVotes' = (IF clear THEN {} ELSE seenVotes) \cup ({auto} \ {NoVote})
        /\ lost' = lost \ {auto} /\ early' = early \ {auto}
        /\ \E t \in {IncrementalSync(mapVotes, seenItems' \cap valid)} :
              mapVotes' = CleanAndRemove(IF auto = NoVote THEN t ELSE Stored(t, auto), gone)
  BY DEF NewBlock
<1>3. PICK ready \in SUBSET immature : \E bad \in SUBSET ready :
        /\ items' = items \cup (ready \ bad)
        /\ unchecked' = unchecked \cup (ready \ (items \cup bad))
        /\ immature' = immature \ ready
        /\ UNCHANGED <<orphans, now>>
  BY DEF NewBlock
<1> DEFINE t == IncrementalSync(mapVotes, seenItems' \cap valid)
           u == IF auto = NoVote THEN t ELSE Stored(t, auto)
<1>4. mapVotes' = CleanAndRemove(u, gone)
  BY <1>2
<1>5. /\ t \in [Items -> [Masternodes -> Data]]
      /\ \A i \in Items, m \in Masternodes :
            /\ t[i][m].time = mapVotes[i][m].time /\ (t[i][m].fSynced => t[i][m].offered)
            /\ i \notin items => t[i][m] = mapVotes[i][m]
  <2>1. \A i \in Items, m \in Masternodes : mapVotes[i][m].fSynced => mapVotes[i][m].offered
    BY DEF IInv, SyncedWasOffered
  <2>2. PICK w : w = seenItems' \cap valid
    OBVIOUS
  <2>3. t = IncrementalSync(mapVotes, w)
    BY <2>2
  <2> HIDE DEF t
  <2>4. /\ t \in [Items -> [Masternodes -> Data]]
        /\ \A i \in Items, m \in Masternodes :
              /\ t[i][m].time = mapVotes[i][m].time /\ (t[i][m].fSynced => t[i][m].offered)
              /\ i \notin w => t[i][m] = mapVotes[i][m]
    BY <1>1, <2>1, <2>3, SyncTable
  <2>5. QED
    BY <1>2, <2>2, <2>4
<1>6. auto # NoVote => auto \in Votes /\ auto.item \in items /\ Accepts(auto)
  BY <1>2
<1> HIDE DEF t
<1>7. /\ u \in [Items -> [Masternodes -> Data]]
      /\ \A i \in Items, m \in Masternodes :
            /\ u[i][m].time >= mapVotes[i][m].time /\ (u[i][m].fSynced => u[i][m].offered)
            /\ i \notin items => u[i][m] = mapVotes[i][m]
      /\ auto # NoVote => u[auto.item][auto.mn].time = auto.time
  <2>1. \A i \in Items, m \in Masternodes : mapVotes[i][m].time \in Nat
    BY <1>1, TypeFacts
  <2>2. CASE auto = NoVote
    BY <1>5, <2>1, <2>2
  <2>3. CASE auto # NoVote
    <3>1. /\ u \in [Items -> [Masternodes -> Data]]
          /\ \A i \in Items, m \in Masternodes :
               u[i][m] = IF i = auto.item /\ m = auto.mn THEN Vote(auto.time) ELSE t[i][m]
          /\ Vote(auto.time).time = auto.time /\ ~Vote(auto.time).fSynced
      BY <1>5, <1>6, <2>3, StoredFacts
    <3>2. /\ auto.item \in Items /\ auto.mn \in Masternodes /\ auto.time \in Nat
          /\ mapVotes[auto.item][auto.mn].time <= auto.time
      BY <1>1, <1>6, <2>3, VoteFacts, AcceptsFacts
    <3> HIDE DEF u
    <3>3. QED
      BY <1>5, <1>6, <2>1, <2>3, <3>1, <3>2
  <2>4. QED
    BY <2>2, <2>3
<1> HIDE DEF u
<1>8. /\ mapVotes' \in [Items -> [Masternodes -> Data]]
      /\ \A i \in Items, m \in Masternodes :
            /\ mapVotes'[i][m].time = u[i][m].time /\ mapVotes'[i][m].fSynced = u[i][m].fSynced
            /\ mapVotes'[i][m].offered = u[i][m].offered
            /\ u[i][m] = None => mapVotes'[i][m] = None
  BY <1>4, <1>7, CleanTable
<1>9. items' \subseteq Items /\ items \subseteq items' /\ items' \ unchecked' \subseteq items \ unchecked
  BY <1>1, <1>3, BudgetAssumption DEF TypeOK
<1>10. TypeOK'
  <2>1. \A i \in Items \ items', m \in Masternodes : mapVotes'[i][m] = None
    BY <1>1, <1>7, <1>8, <1>9 DEF TypeOK
  <2>2. seenVotes' \subseteq Votes /\ lost' \subseteq Votes /\ early' \subseteq Votes
    BY <1>1, <1>2 DEF TypeOK
  <2>3. QED
    BY <1>1, <1>2, <1>3, <1>8, <1>9, <2>1, <2>2 DEF TypeOK
<1>11. SyncedWasOffered'
  BY <1>7, <1>8 DEF SyncedWasOffered
<1>12. ASSUME NEW v \in seenVotes' \ (lost' \cup early')
       PROVE  \/ v \in seenVotes \ (lost \cup early)
              \/ v.item \in items' /\ mapVotes'[v.item][v.mn].time > v.time - UpdateMin
  <2>1. CASE v = auto
    <3>1. v # NoVote /\ v \in Votes /\ v.item \in items /\ v.item \in Items /\ v.mn \in Masternodes
          /\ v.time \in Nat
      BY <1>6, <1>10, <1>12, <2>1, VoteFacts DEF TypeOK
    <3>2. mapVotes'[v.item][v.mn].time = v.time
      BY <1>7, <1>8, <2>1, <3>1
    <3>3. QED
      BY <1>1, <1>9, <3>1, <3>2
  <2>2. CASE v # auto
    BY <1>2, <1>12, <2>2
  <2>3. QED
    BY <2>1, <2>2
<1>13. ASSUME NEW v \in early \ early'
       PROVE  mapVotes'[v.item][v.mn].time # 0 /\ mapVotes'[v.item][v.mn].time > v.time - UpdateMin
  <2>1. v = auto /\ v # NoVote /\ v.item \in Items /\ v.mn \in Masternodes /\ v.time \in Nat /\ v.time > 0
    BY <1>1, <1>2, <1>13, VoteFacts DEF TypeOK
  <2>2. mapVotes'[v.item][v.mn].time = v.time
    BY <1>7, <1>8, <2>1
  <2>3. QED
    BY <1>1, <2>1, <2>2
<1>14. \A i \in Items, m \in Masternodes : mapVotes'[i][m].time >= mapVotes[i][m].time
  BY <1>7, <1>8
<1>15. QED
  BY <1>3, <1>9, <1>10, <1>11, <1>12, <1>13, <1>14, NothingForgotten

(* A restart forgets what was seen, not what was counted.                  *)
LEMMA RestartStep == ASSUME IInv, Restart PROVE IInv'
<1>1. TypeOK /\ mapVotes \in [Items -> [Masternodes -> Data]]
  BY TypeFacts DEF IInv, VotesCounted
<1>2. /\ seenItems' = {} /\ seenVotes' = {} /\ immature' = {}
      /\ mapVotes' = [i \in Items |-> [m \in Masternodes |->
            IF mapVotes[i][m].time = 0 THEN None ELSE Vote(mapVotes[i][m].time)]]
      /\ UNCHANGED <<items, orphans, now, lost, early, unchecked>>
  BY DEF Restart
<1>3. ASSUME NEW d \in Data
      PROVE  LET n == IF d.time = 0 THEN None ELSE Vote(d.time)
             IN  n \in Data /\ n.time = d.time /\ ~n.fSynced
  BY DEF Data, None, Vote
<1>4. \A i \in Items, m \in Masternodes :
         /\ mapVotes'[i][m] = IF mapVotes[i][m].time = 0 THEN None ELSE Vote(mapVotes[i][m].time)
         /\ mapVotes[i][m] \in Data
  BY <1>1, <1>2
<1>5. \A i \in Items, m \in Masternodes :
         /\ mapVotes'[i][m] \in Data /\ mapVotes'[i][m].time = mapVotes[i][m].time
         /\ ~mapVotes'[i][m].fSynced /\ mapVotes[i][m].time \in Nat
  BY <1>3, <1>4, VoteFacts
<1>6. mapVotes' \in [Items -> [Masternodes -> Data]]
  BY <1>2, <1>4, <1>5
<1>7. TypeOK'
  <2>1. \A i \in Items \ items, m \in Masternodes : mapVotes'[i][m] = None
    BY <1>1, <1>4 DEF TypeOK, None
  <2>2. QED
    BY <1>1, <1>2, <1>6, <2>1 DEF TypeOK
<1>8. SyncedWasOffered'
  BY <1>5 DEF SyncedWasOffered
<1>9. QED
  BY <1>2, <1>5, <1>7, <1>8, NothingForgotten

(* The manager starts empty.                                               *)
LEMMA InitIInv == ASSUME Init PROVE IInv
<1>1. TypeOK
  <2>1. mapVotes \in [Items -> [Masternodes -> Data]]
    BY VoteFacts DEF Init
  <2>2. QED
    BY <2>1 DEF Init, TypeOK
<1>2. QED
  BY <1>1 DEF Init, IInv, VotesCounted, SeenVotesCount, OrphansAreAdopted, OrphansInPlace,
              SyncedWasOffered, None

(* Every step preserves the invariant.                                     *)
LEMMA NextIInv == ASSUME IInv, [Next]_vars PROVE IInv'
<1>1. CASE NewBlock \/ Restart
  BY <1>1, NewBlockStep, RestartStep
<1>2. ASSUME NEW i \in Items, ItemImmature(i) \/ ItemMessage(i) \/ Submit(i) PROVE IInv'
  <2>1. CASE ItemImmature(i)
    BY <2>1, ItemQuietStep DEF ItemImmature
  <2>2. CASE ItemMessage(i)
    BY <2>2, ItemQuietStep, AdoptStep DEF ItemMessage
  <2>3. CASE Submit(i)
    BY <2>3, ItemQuietStep DEF Submit
  <2>4. QED
    BY <1>2, <2>1, <2>2, <2>3
<1>3. ASSUME NEW v \in Votes, VoteMessage(v) \/ VoteUnverified(v) \/ OwnVote(v) PROVE IInv'
  BY <1>3, VoteMessageStep, VoteUnverifiedStep, CountedStep DEF OwnVote
<1>4. ASSUME NEW t \in Times, ClockMoves(t) PROVE IInv'
  BY <1>4 DEF ClockMoves, IInv, VotesCounted, TypeOK, SeenVotesCount, OrphansAreAdopted, Newer,
              OrphansInPlace, SyncedWasOffered
<1>5. CASE UNCHANGED vars
  BY <1>5 DEF vars, IInv, VotesCounted, TypeOK, SeenVotesCount, OrphansAreAdopted, Newer,
              OrphansInPlace, SyncedWasOffered
<1>6. QED
  BY <1>1, <1>2, <1>3, <1>4, <1>5 DEF Next

-----------------------------------------------------------------------------
(* The inductive invariant holds in every state that is reached.           *)
THEOREM InvariantHolds == Spec => []IInv
BY InitIInv, NextIInv, PTL DEF Spec

(* No vote that is remembered is forgotten: it is counted, a later one is, *)
(* or it waits for its item in the map of orphans, in whatever order votes *)
(* and items arrive; but for the losses that SeenVotesCount names.         *)
THEOREM VotesTheorem == Spec => []VotesCounted
<1>1. IInv => VotesCounted
  BY DEF IInv
<1>2. QED
  BY <1>1, InvariantHolds, PTL

(* A vote that MarkSynced takes out of the incremental synchronisation was *)
(* offered to the peers with its present value.                            *)
THEOREM SyncedTheorem == Spec => []SyncedWasOffered
<1>1. IInv => SyncedWasOffered
  BY DEF IInv
<1>2. QED
  BY <1>1, InvariantHolds, PTL


-----------------------------------------------------------------------------
(* Which budget is paid.                                                   *)

(* Numbers have a least one.                                               *)
LEMMA LeastNumber ==
  ASSUME NEW T \in SUBSET Nat, T # {}
  PROVE  \E x \in T : \A y \in T : x <= y
<1>1. PICK x \in T : \A y \in T : ~ (<<y, x>> \in OpToRel(<, Nat))
  BY WFMin, NatLessThanWellFounded, Zenon
<1>2. \A y \in T : ~ (y < x)
  BY <1>1 DEF OpToRel
<1>3. QED
  BY <1>2

(* The highest of counts that are bounded, as those of a finite set of     *)
(* masternodes are.                                                        *)
LEMMA HighestFacts ==
  ASSUME NEW D, NEW N \in Nat, NEW count \in [D -> 0..N], NEW floor \in {-1, 0}
  PROVE  /\ Highest(count, floor) \in Int /\ Highest(count, floor) >= floor
         /\ \A b \in D : count[b] <= Highest(count, floor)
         /\ Highest(count, floor) = floor \/ \E b \in D : count[b] = Highest(count, floor)
<1> DEFINE S == {count[b] : b \in D} \cup {floor}
           T == {N - count[b] : b \in D}
<1>1. \A b \in D : count[b] \in Nat /\ count[b] <= N
  OBVIOUS
<1>2. \E h \in S : h >= floor /\ \A b \in D : count[b] <= h
  <2>1. CASE D = {}
    BY <2>1
  <2>2. CASE D # {}
    <3>1. T \in SUBSET Nat /\ T # {}
      BY <1>1, <2>2
    <3>2. PICK n \in T : \A k \in T : n <= k
      <4> HIDE DEF T
      <4> QED
        BY <3>1, LeastNumber
    <3>3. PICK b \in D : n = N - count[b]
      BY <3>2
    <3>4. ASSUME NEW c \in D PROVE count[c] <= count[b]
      <4>1. N - count[b] <= N - count[c]
        BY <3>2, <3>3
      <4>2. QED
        BY <1>1, <4>1
    <3>5. count[b] \in S /\ count[b] >= floor
      BY <1>1
    <3>6. QED
      BY <3>4, <3>5
  <2>3. QED
    BY <2>1, <2>2
<1>3. Highest(count, floor) \in S /\ Highest(count, floor) >= floor
      /\ \A b \in D : count[b] <= Highest(count, floor)
  <2>1. DOMAIN count = D
    OBVIOUS
  <2>2. QED
    BY <1>2, <2>1 DEF Highest
<1>4. QED
  BY <1>1, <1>3

(* FillBlockPayee pays a budget with the most votes, if there are any.     *)
LEMMA FillFacts ==
  ASSUME NEW D \in SUBSET Nat, NEW N \in Nat, NEW count \in [D -> 0..N], Highest(count, 0) # 0
  PROVE  FillBlockPayee(count) \in D /\ count[FillBlockPayee(count)] = Highest(count, 0)
<1> DEFINE T == {b \in D : count[b] = Highest(count, 0)}
<1>1. T \in SUBSET Nat /\ T # {}
  BY HighestFacts
<1>2. PICK b \in T : \A c \in T : b <= c
  <2> HIDE DEF T
  <2> QED
    BY <1>1, LeastNumber
<1>3. \E x \in DOMAIN count :
         /\ count[x] = Highest(count, 0)
         /\ \A c \in DOMAIN count : count[c] = Highest(count, 0) => x <= c
  BY <1>2
<1>4. QED
  BY <1>3 DEF FillBlockPayee

(* A budget with the most votes here is among those with the most votes at *)
(* a node whose counts are near enough.                                    *)
LEMMA NearIsAccepted ==
  ASSUME NEW D \in SUBSET Nat, NEW N \in Nat, NEW M \in Nat, NEW E \in Nat, NEW d \in Nat,
         2 * d < E \div 10, NEW count \in [D -> 0..N], NEW other \in [D -> 0..M],
         Near(count, other, d), IsBudgetPaymentBlock(count, E), IsBudgetPaymentBlock(other, E)
  PROVE  IsTransactionValid(other, E, FillBlockPayee(count))
<1> DEFINE h == Highest(count, 0)
           k == Highest(other, 0)
           b == FillBlockPayee(count)
<1>1. E \div 20 \in Nat /\ E \div 10 \in Nat
  OBVIOUS
<1>2. /\ h \in Int /\ \A c \in D : count[c] <= h
      /\ k \in Int /\ k >= 0 /\ \A c \in D : other[c] <= k
      /\ k = 0 \/ \E c \in D : other[c] = k
  BY HighestFacts
<1>3. \A c \in D : /\ count[c] \in Nat /\ other[c] \in Nat
                   /\ count[c] - other[c] <= d /\ other[c] - count[c] <= d
  BY DEF Near
<1>4. h # 0 /\ k >= E \div 20
  <2>1. /\ Highest(count, -1) \in Int /\ Highest(count, -1) > E \div 20
        /\ Highest(count, -1) = -1 \/ \E c \in D : count[c] = Highest(count, -1)
    BY HighestFacts DEF IsBudgetPaymentBlock
  <2>2. /\ Highest(other, -1) \in Int /\ Highest(other, -1) > E \div 20
        /\ Highest(other, -1) = -1 \/ \E c \in D : other[c] = Highest(other, -1)
    BY HighestFacts DEF IsBudgetPaymentBlock
  <2>3. (\E c \in D : count[c] > E \div 20) /\ (\E c \in D : other[c] > E \div 20)
    BY <1>1, <2>1, <2>2
  <2> HIDE DEF h, k
  <2> DEFINE q == E \div 20
  <2>4. q \in Nat /\ (\E c \in D : count[c] > q) /\ (\E c \in D : other[c] > q)
    BY <1>1, <2>3
  <2> HIDE DEF q
  <2>5. h # 0
    BY <1>2, <1>3, <2>4
  <2>6. k >= q
    <3>1. PICK c \in D : other[c] > q
      BY <2>4
    <3>2. other[c] \in Nat /\ other[c] <= k /\ k \in Int
      BY <1>2, <1>3
    <3>3. QED
      BY <2>4, <3>1, <3>2
  <2>7. QED
    BY <2>5, <2>6 DEF q
<1>5. b \in D /\ count[b] = h
  BY <1>4, FillFacts
<1> HIDE DEF h, k, b
<1>6. k <= h + d
  BY <1>2, <1>3, <1>5
<1>7. other[b] >= h - d
  BY <1>2, <1>3, <1>5
<1>8. other[b] > k - E \div 10
  BY <1>1, <1>2, <1>3, <1>5, <1>6, <1>7
<1>9. DOMAIN other = D
  OBVIOUS
<1>10. QED
  BY <1>4, <1>5, <1>8, <1>9 DEF IsTransactionValid, k, b

(* A block made for the budget with the most votes is accepted by every    *)
(* node that has the same budgets and nearly the same votes.               *)
THEOREM PaymentTheorem == Spec => []FilledIsAccepted
<1>1. ASSUME TypeOK PROVE FilledIsAccepted
  <2> DEFINE D == Finals \cap items
             N == Cardinality(Masternodes)
  <2>1. N \in Nat /\ Enabled \in Nat
    BY BudgetAssumption, FS_CardinalityType
  <2>2. D \in SUBSET Nat
    BY BudgetAssumption DEF Items
  <2>3. Counts \in [D -> 0..N]
    <3>1. ASSUME NEW i \in D
          PROVE  Cardinality({m \in Masternodes : mapVotes[i][m].time # 0}) \in 0..N
      <4>1. {m \in Masternodes : mapVotes[i][m].time # 0} \in SUBSET Masternodes
        OBVIOUS
      <4>2. /\ Cardinality({m \in Masternodes : mapVotes[i][m].time # 0}) <= N
            /\ Cardinality({m \in Masternodes : mapVotes[i][m].time # 0}) \in Nat
        BY <4>1, BudgetAssumption, FS_Subset, FS_CardinalityType
      <4>3. QED
        BY <2>1, <4>2
    <3>2. QED
      BY <3>1 DEF Counts
  <2>4. ASSUME IsBudgetPaymentBlock(Counts, Enabled),
               NEW d \in 0..Enabled, 2 * d < Enabled \div 10,
               NEW other \in [DOMAIN Counts -> 0..N + d],
               Near(Counts, other, d), IsBudgetPaymentBlock(other, Enabled)
        PROVE  IsTransactionValid(other, Enabled, FillBlockPayee(Counts))
    <3>1. DOMAIN Counts = D /\ N + d \in Nat /\ d \in Nat
      BY <2>1, <2>3
    <3> HIDE DEF D, N
    <3>2. QED
      BY <2>1, <2>2, <2>3, <2>4, <3>1, NearIsAccepted
  <2>5. QED
    BY <2>4 DEF FilledIsAccepted
<1>2. IInv => TypeOK
  BY DEF IInv, VotesCounted
<1>3. QED
  BY <1>1, <1>2, InvariantHolds, PTL

-----------------------------------------------------------------------------
(* CMasternodeSync (module MasternodeSync), for any number of peers.       *)
(* The inductive invariant of the synchronisation: a time is kept only for *)
(* an asset that came,                                                     *)
LastArrived == \A a \in Assets : last[a] # "none" => a \notin missing

(* the switch in GetNextAsset works on the asset Process saw unless a      *)
(* reset came, and the asset that Process goes on from is not missing,     *)
FromFollows ==
  /\ from # "none" <=> pc \in {"begun", "next"}
  /\ pc = "begun" => asset = "initial" /\ from = "initial"
  /\ pc = "next" => /\ from \in {"sporks"} \cup Assets /\ asset \in {from, "initial"}
                    /\ asset = from => from \notin missing

(* nor are the assets before the present one.                              *)
PassedArrived ==
  ~overtaken =>
     /\ asset \in {"mnw", "budget", "finished"} => "list" \notin missing
     /\ asset \in {"budget", "finished"} => "mnw" \notin missing

ItemsFollow == LastArrived /\ FromFollows /\ PassedArrived

SyncInv == SyncTypeOK /\ ItemsFollow

(* The order of the assets.                                                *)
LEMMA SuccessorFacts ==
  /\ DOMAIN Successor = {"initial", "failed", "sporks", "list", "mnw", "budget", "finished"}
  /\ Successor["initial"] = "sporks" /\ Successor["failed"] = "sporks"
  /\ Successor["sporks"] = "list"
  /\ Successor["list"] = "mnw" /\ Successor["mnw"] = "budget"
  /\ Successor["budget"] = "finished" /\ Successor["finished"] = "finished"
BY DEF Successor

(* What a peer can have been asked for.                                    *)
LEMMA RequestFacts ==
  /\ DOMAIN Request = {"sporks"} \cup Assets
  /\ \A a \in {"sporks"} \cup Assets :
        Request[a] \in {Request[x] : x \in DOMAIN Request}
BY DEF Request, Assets

(* The values that a reset and GetNextAsset write have the right types.    *)
LEMMA ResetFacts ==
  /\ 0 \in 0..(Threshold * 3 + 2) /\ 1 \in 0..(Threshold * 3 + 2) /\ 0 \in 0..Threshold
  /\ [a \in Assets |-> "none"] \in [Assets -> {"none", "recent", "old"}]
  /\ [a \in Followed |-> 0] \in [Followed -> 0..Threshold]
  /\ "initial" \in DOMAIN Successor /\ "failed" \in DOMAIN Successor
  /\ \A a \in DOMAIN Successor : Successor[a] \in DOMAIN Successor
BY SuccessorFacts, SyncAssumption

(* The synchronisation starts in the invariant.                            *)
LEMMA SyncInvInit == ASSUME SyncInit PROVE SyncInv
<1>1. SyncTypeOK
  BY ResetFacts DEF SyncInit, SyncTypeOK
<1>2. QED
  BY <1>1 DEF SyncInit, SyncInv, ItemsFollow, LastArrived, FromFollows, PassedArrived

(* A request is remembered with its peer.                                  *)
LEMMA FulfilFacts ==
  ASSUME SyncTypeOK, asset \in {"sporks"} \cup Assets, Fulfil
  PROVE  fulfilled' \in [Peers -> SUBSET {Request[a] : a \in DOMAIN Request}]
<1> DEFINE R == {Request[a] : a \in DOMAIN Request}
<1>1. fulfilled \in [Peers -> SUBSET R] /\ Request[asset] \in R
  BY RequestFacts DEF SyncTypeOK
<1> HIDE DEF R
<1>2. QED
  BY <1>1 DEF Fulfil, R

(* ClearFulfilledRequest forgets all requests or none.                     *)
LEMMA ClearFacts ==
  ASSUME SyncTypeOK, ClearFulfilledRequest
  PROVE  fulfilled' \in [Peers -> SUBSET {Request[a] : a \in DOMAIN Request}]
BY DEF SyncTypeOK, ClearFulfilledRequest

(* A new item refreshes the time of its asset.                             *)
LEMMA RefreshTypes ==
  ASSUME SyncTypeOK, NEW a \in Assets, Refresh(a), seen' \in [Followed -> 0..Threshold]
  PROVE  SyncTypeOK'
<1>1. enabled' \in BOOLEAN /\ missing' \subseteq Essential
  BY DEF Refresh, SyncTypeOK
<1>2. QED
  BY <1>1 DEF Refresh, SyncTypeOK

(* So the asset is not missing.                                            *)
LEMMA RefreshItems ==
  ASSUME SyncInv, NEW a \in Assets, Refresh(a) PROVE ItemsFollow'
BY DEF Refresh, SyncInv, ItemsFollow, SyncTypeOK, LastArrived, FromFollows, PassedArrived

(* Every step keeps the types.                                             *)
LEMMA SyncTypeNext == ASSUME SyncInv, [SyncNext]_syncVars PROVE SyncTypeOK'
<1> USE DEF SyncInv, syncVars, sync, env, hist
<1>1. CASE UNCHANGED syncVars
  BY <1>1 DEF SyncTypeOK
<1>2. CASE NothingToDo
  BY <1>2 DEF NothingToDo, SyncTypeOK
<1>3. CASE Begin
  BY <1>3 DEF Begin, SyncTypeOK
<1>4. CASE BeginAgain
  BY <1>4, ClearFacts, ResetFacts DEF BeginAgain, Restarted, Reset, SyncTypeOK
<1>5. CASE GetNextAsset
  BY <1>5, ClearFacts, ResetFacts DEF GetNextAsset, SyncTypeOK
<1>6. CASE NotNow
  BY <1>6 DEF NotNow, Return, SyncTypeOK
<1>7. CASE AskSporks
  BY <1>7, SyncAssumption, FulfilFacts, SuccessorFacts DEF AskSporks, Ready, Return,
     ToNext, Assets, SyncTypeOK
<1>8. CASE MoveOn
  BY <1>8, SuccessorFacts DEF MoveOn, Ready, Return, ToNext,
     AllCame, Assets, SyncTypeOK
<1>9. CASE GiveUp
  <2>1. missing' \subseteq Essential
    BY <1>9 DEF GiveUp, SyncTypeOK
  <2> QED
    BY <1>9, <2>1, FulfilFacts, ResetFacts DEF GiveUp, Ready, Return, ToNext,
       SyncTypeOK
<1>10. CASE Ask
  BY <1>10, SyncAssumption, FulfilFacts DEF Ask, Attempted, Ready, Return, ToNext,
     Assets, SyncTypeOK
<1>11. CASE RpcReset
  BY <1>11, ResetFacts DEF RpcReset, Restarted, Reset, SyncTypeOK
<1>12. CASE WakeUp
  BY <1>12, ResetFacts DEF WakeUp, Restarted, Reset, SyncTypeOK
<1>13. CASE BlockchainSynced
  BY <1>13 DEF BlockchainSynced, SyncTypeOK
<1>14. CASE Removed
  BY <1>14, ResetFacts DEF Removed, SyncTypeOK
<1>15. ASSUME NEW a \in Followed, Added(a) PROVE SyncTypeOK'
  <2>1. Threshold \in Nat /\ a \in Assets
    BY SyncAssumption
  <2>2. seen' \in [Followed -> 0..Threshold]
    BY <1>15, <2>1 DEF Added, BelowThreshold, SyncTypeOK
  <2> QED
    BY <1>15, <2>1, <2>2, RefreshTypes DEF Added
<1>16. ASSUME NEW p \in Peers, NewPeer(p) PROVE SyncTypeOK'
  BY <1>16 DEF NewPeer, SyncTypeOK
<1>17. ASSUME NEW a \in Assets, ItemAges(a) PROVE SyncTypeOK'
  BY <1>17 DEF ItemAges, SyncTypeOK
<1>18. CASE RequestAges
  BY <1>18 DEF RequestAges, SyncTypeOK
<1>19. CASE FailureAges
  BY <1>19 DEF FailureAges, SyncTypeOK
<1>20. ASSUME NEW a \in Assets, AddedNew(a) PROVE SyncTypeOK'
  BY <1>20, RefreshTypes DEF AddedNew, SyncTypeOK
<1>21. CASE SporkChanges
  BY <1>21 DEF SporkChanges, SyncTypeOK
<1>22. CASE NoMoreItems
  BY <1>22 DEF NoMoreItems, SyncTypeOK
<1> QED
  BY <1>1, <1>2, <1>3, <1>4, <1>5, <1>6, <1>7, <1>8, <1>9, <1>10, <1>11, <1>12, <1>13,
     <1>14, <1>15, <1>16, <1>17, <1>18, <1>19, <1>20, <1>21, <1>22 DEF SyncNext, Process, InLoop,
     TimePasses

(* Every step keeps the rest of the invariant: a reset forgets the items   *)
(* and the asset together, unless GetNextAsset writes over it.             *)
LEMMA SyncRestNext ==
  ASSUME SyncInv, [SyncNext]_syncVars PROVE  ItemsFollow'
<1> USE DEF SyncInv, ItemsFollow, syncVars, sync, env, hist
<1>1. CASE UNCHANGED syncVars
  BY <1>1 DEF SyncTypeOK, LastArrived, FromFollows, PassedArrived
<1>2. CASE NothingToDo
  BY <1>2 DEF NothingToDo, SyncTypeOK, LastArrived, FromFollows, PassedArrived
<1>3. CASE Begin
  BY <1>3 DEF Begin, SyncTypeOK, LastArrived, FromFollows, PassedArrived
<1>4. CASE BeginAgain
  BY <1>4, ClearFacts, SuccessorFacts DEF BeginAgain, Restarted, Reset,
     SyncTypeOK, LastArrived, FromFollows, PassedArrived
<1>5. CASE GetNextAsset
  BY <1>5, ClearFacts, SuccessorFacts DEF GetNextAsset, Assets, SyncTypeOK,
     LastArrived, FromFollows, PassedArrived
<1>6. CASE NotNow
  BY <1>6 DEF NotNow, Return, SyncTypeOK, LastArrived, FromFollows, PassedArrived
<1>7. CASE AskSporks
  <2>1. pc = "loop" /\ asset = "sporks" /\ UNCHANGED <<asset, last, missing, overtaken>>
    BY <1>7 DEF AskSporks, Ready
  <2>2. "sporks" \notin missing /\ "sporks" # "none"
    BY DEF SyncTypeOK, Essential
  <2>3. (pc' = "next" /\ from' = asset) \/ (pc' = "idle" /\ UNCHANGED from)
    BY <1>7 DEF AskSporks, Return, ToNext
  <2>4. LastArrived' /\ PassedArrived'
    BY <2>1 DEF LastArrived, PassedArrived
  <2> QED
    BY <2>1, <2>2, <2>3, <2>4 DEF FromFollows
<1>8. CASE MoveOn
  BY <1>8, SuccessorFacts DEF MoveOn, Ready, Return, ToNext,
     AllCame, Assets, SyncTypeOK, LastArrived, FromFollows, PassedArrived
<1>9. CASE GiveUp
  BY <1>9, FulfilFacts, SuccessorFacts DEF GiveUp, Needed, Ready,
     Return, ToNext, Assets, SyncTypeOK, LastArrived, FromFollows,
     PassedArrived
<1>10. CASE Ask
  BY <1>10, FulfilFacts DEF Ask, Attempted, Ready, Return, ToNext,
     Assets, SyncTypeOK, LastArrived, FromFollows, PassedArrived
<1>11. CASE RpcReset
  <2>1. asset' = "initial" /\ last' = [a \in Assets |-> "none"] /\ UNCHANGED <<pc, from>>
    BY <1>11 DEF RpcReset, Restarted, Reset
  <2>2. LastArrived' /\ PassedArrived'
    BY <2>1 DEF LastArrived, PassedArrived
  <2>3. FromFollows'
    BY <2>1 DEF FromFollows, Assets
  <2> QED
    BY <2>2, <2>3
<1>12. CASE WakeUp
  <2>1. asset' = "initial" /\ last' = [a \in Assets |-> "none"] /\ UNCHANGED <<pc, from>>
    BY <1>12 DEF WakeUp, Restarted, Reset
  <2>2. LastArrived' /\ PassedArrived'
    BY <2>1 DEF LastArrived, PassedArrived
  <2>3. FromFollows'
    BY <2>1 DEF FromFollows, Assets
  <2> QED
    BY <2>2, <2>3
<1>13. CASE BlockchainSynced
  BY <1>13 DEF BlockchainSynced, SyncTypeOK, LastArrived, FromFollows, PassedArrived
<1>14. CASE Removed
  BY <1>14 DEF Removed, Assets, SyncTypeOK, LastArrived, FromFollows, PassedArrived
<1>15. ASSUME NEW a \in Followed, Added(a) PROVE ItemsFollow'
  BY <1>15, SyncAssumption, RefreshItems DEF Added
<1>16. ASSUME NEW p \in Peers, NewPeer(p) PROVE ItemsFollow'
  BY <1>16 DEF NewPeer, SyncTypeOK, LastArrived, FromFollows, PassedArrived
<1>17. ASSUME NEW a \in Assets, ItemAges(a) PROVE ItemsFollow'
  BY <1>17 DEF ItemAges, SyncTypeOK, LastArrived, FromFollows, PassedArrived
<1>18. CASE RequestAges
  BY <1>18 DEF RequestAges, SyncTypeOK, LastArrived, FromFollows, PassedArrived
<1>19. CASE FailureAges
  BY <1>19 DEF FailureAges, SyncTypeOK, LastArrived, FromFollows, PassedArrived
<1>20. ASSUME NEW a \in Assets, AddedNew(a) PROVE ItemsFollow'
  BY <1>20, RefreshItems DEF AddedNew
<1>21. CASE SporkChanges
  BY <1>21 DEF SporkChanges, SyncTypeOK, LastArrived, FromFollows, PassedArrived
<1>22. CASE NoMoreItems
  BY <1>22 DEF NoMoreItems, SyncTypeOK, LastArrived, FromFollows, PassedArrived
<1> QED
  BY <1>1, <1>2, <1>3, <1>4, <1>5, <1>6, <1>7, <1>8, <1>9, <1>10, <1>11, <1>12, <1>13,
     <1>14, <1>15, <1>16, <1>17, <1>18, <1>19, <1>20, <1>21, <1>22 DEF SyncNext, Process, InLoop,
     TimePasses

(* Whatever resets, removals, new peers and items come between the calls   *)
(* of Process, SyncInv is kept.                                            *)
LEMMA SyncInvariant == SyncSpec => []SyncInv
<1>1. SyncInit => SyncInv
  BY SyncInvInit
<1>2. SyncInv /\ [SyncNext]_syncVars => SyncInv'
  BY SyncTypeNext, SyncRestNext DEF SyncInv
<1>3. QED
  BY <1>1, <1>2, PTL DEF SyncSpec

(* For any number of peers and any threshold, CMasternodeSync keeps the    *)
(* types: the counters of attempts and of seen items stay within their     *)
(* limits.                                                                 *)
THEOREM SyncTypeCorrect == SyncSpec => []SyncTypeOK
<1>1. SyncInv => SyncTypeOK
  BY DEF SyncInv
<1>2. QED
  BY <1>1, SyncInvariant, PTL

(* For any number of peers, resets and changes of SPORK_8, any threshold   *)
(* and any stream of new items: the node counts as synchronised only with  *)
(* masternodes and winners that came after the last reset, or that it gave *)
(* up after it at a moment when payments were not enforced, unless         *)
(* GetNextAsset wrote over that reset.                                     *)
THEOREM SyncedNodeHasItems == SyncSpec => []SyncedHasItems
<1>1. SyncInv => SyncedHasItems
  BY DEF SyncInv, ItemsFollow, PassedArrived, SyncedHasItems, SyncTypeOK, Essential
<1>2. QED
  BY <1>1, SyncInvariant, PTL

-----------------------------------------------------------------------------

(* The transaction locks (module SwiftTX), for any transactions,           *)
(* masternodes and quorums, any number of signatures required, and however *)
(* the message handler, the wallet and the cleanup interleave.             *)

(* The inductive invariant.                                                *)

(* The records of mapTxLocks.                                              *)
Lock(t) == [h : VoteHeights[t] \cup {0}, left : -1..Lifetime,
            votes : SUBSET ([mn : Signers, tx : {t}, h : Heights] \X Nat)]

(* No masternode signs a lock twice, because every vote that a lock holds  *)
(* is in mapTxLockVote.                                                    *)
LocksOK(l, s) ==
  \A t \in DOMAIN l :
    /\ t \in Txs /\ l[t] \in Lock(t) /\ IsFiniteSet(l[t].votes)
    /\ \A x, y \in l[t].votes : x[1].mn = y[1].mn => x = y
    /\ \A x \in l[t].votes : VoteHash(x[1]) \in s
LockInv == LocksOK(locks, lockVotes)

ReqInv ==
  /\ DOMAIN req \cup rejected \subseteq Txs
  /\ \A t \in DOMAIN req : req[t] \in {<<>>, Vin[t]} /\ (req[t] = <<>> => t \in rejected)

LockedInv ==
  \A o \in DOMAIN locked : o \in Outpoints /\ locked[o] \in Txs /\ o \in Range(Vin[locked[o]])

(* Only CreateNewLock gives a lock its height, and the request it was made *)
(* for is kept, rejected or waits for cs_main.                             *)
Requested ==
  \A t \in DOMAIN locks : locks[t].h # 0 =>
     t \in DOMAIN req \cup rejected \/ (handling # Nobody /\ handling.tx = t)

RestInv ==
  /\ loose \subseteq Txs
  /\ handling # Nobody => handling.tx \in Txs /\ handling.h \in VoteHeights[handling.tx] \cup {0}

SwiftInv == LockInv /\ ReqInv /\ LockedInv /\ Requested /\ CompleteHoldsInputs /\ RestInv

(* The inputs of t are all locked by t.                                    *)
Holds(t) == \A o \in Range(Vin[t]) : o \in DOMAIN locked /\ locked[o] = t

-----------------------------------------------------------------------------
(* A request is not empty.                                                 *)
LEMMA InputsNotEmpty == (\A t \in Txs : Vin[t] # <<>>) /\ Range(<<>>) = {}
BY SwiftTXAssumption DEF Range

(* Whether a lock is complete does not depend on its expiry.               *)
LEMMA CompleteFacts ==
  ASSUME NEW l, NEW k, l.votes = k.votes, l.h = k.h
  PROVE  Complete(l) <=> Complete(k)
BY DEF Complete, CountSignatures

(* A step that releases no input keeps CompleteHoldsInputs when it does so *)
(* for the one lock t whose votes or height it may change.                 *)
LEMMA HoldsStep ==
  ASSUME CompleteHoldsInputs, NEW t,
         DOMAIN locked \subseteq DOMAIN locked', \A o \in DOMAIN locked : locked'[o] = locked[o],
         loose \subseteq loose' \cup {t},
         \A u \in DOMAIN locks' : u # t =>
           /\ u \in DOMAIN locks /\ locks'[u].votes = locks[u].votes /\ locks'[u].h = locks[u].h
           /\ locks'[u].left > 0 => locks[u].left > 0,
         t \in DOMAIN locks' \ loose' /\ Complete(locks'[t]) /\ locks'[t].left > 0 => Holds(t)'
  PROVE  CompleteHoldsInputs'
<1> SUFFICES ASSUME NEW u \in DOMAIN locks' \ loose', Complete(locks'[u]), locks'[u].left > 0
             PROVE  Holds(u)'
  BY DEF CompleteHoldsInputs, Holds, Complete, CountSignatures
<1>1. CASE u = t
  BY <1>1
<1>2. CASE u # t
  <2>1. u \in DOMAIN locks \ loose /\ locks[u].left > 0
    BY <1>2
  <2>2. Complete(locks[u])
    BY <1>2, CompleteFacts
  <2>3. QED
    BY <2>1, <2>2 DEF CompleteHoldsInputs, Holds
<1>3. QED
  BY <1>1, <1>2

(* map.insert.                                                             *)
LEMMA InsertedFacts ==
  ASSUME NEW f, NEW k, NEW v
  PROVE  /\ DOMAIN Inserted(f, k, v) = DOMAIN f \cup {k}
         /\ \A x \in DOMAIN f : Inserted(f, k, v)[x] = f[x]
         /\ k \notin DOMAIN f => Inserted(f, k, v)[k] = v
BY DEF Inserted

(* What CreateNewLock leaves in the map.                                   *)
LEMMA NewLockFacts ==
  ASSUME SwiftInv, NEW t \in Txs, NEW h \in VoteHeights[t] \cup {0}
  PROVE  LET new == CreateNewLock(t, h)
         IN  /\ DOMAIN locks \subseteq DOMAIN new /\ DOMAIN new \subseteq DOMAIN locks \cup {t}
             /\ \A u \in DOMAIN locks : /\ new[u] \in Lock(u) /\ new[u].votes = locks[u].votes
                                        /\ u # t => new[u] = locks[u]
             /\ t \in DOMAIN new \ DOMAIN locks => new[t] \in Lock(t) /\ new[t].votes = {}
<1> DEFINE new == CreateNewLock(t, h)
<1>1. \A u \in DOMAIN locks : locks[u] \in Lock(u)
  BY DEF SwiftInv, LockInv, LocksOK
<1>2. CASE h = 0
  BY <1>1, <1>2 DEF CreateNewLock
<1>3. CASE h # 0 /\ t \in DOMAIN locks
  <2>1. new = [locks EXCEPT ![t].h = h]
    BY <1>3 DEF CreateNewLock
  <2>2. /\ DOMAIN new = DOMAIN locks /\ new[t] = [locks[t] EXCEPT !.h = h]
        /\ \A u \in DOMAIN locks \ {t} : new[u] = locks[u]
    BY <1>3, <2>1
  <2>3. new[t] \in Lock(t) /\ new[t].votes = locks[t].votes
    BY <1>1, <1>3, <2>2 DEF Lock
  <2>4. QED
    BY <1>1, <1>3, <2>2, <2>3
<1>4. CASE h # 0 /\ t \notin DOMAIN locks
  <2> DEFINE l == [h |-> h, votes |-> {}, left |-> Lifetime]
  <2>1. new = Inserted(locks, t, l)
    BY <1>4 DEF CreateNewLock
  <2>2. l \in Lock(t) /\ l.votes = {}
    BY SwiftTXAssumption DEF Lock
  <2> HIDE DEF l
  <2>3. /\ DOMAIN Inserted(locks, t, l) = DOMAIN locks \cup {t}
        /\ \A u \in DOMAIN locks : Inserted(locks, t, l)[u] = locks[u]
        /\ Inserted(locks, t, l)[t] = l
    BY <1>4, InsertedFacts
  <2>4. /\ DOMAIN new = DOMAIN locks \cup {t} /\ new[t] = l
        /\ \A u \in DOMAIN locks : new[u] = locks[u]
    BY <2>1, <2>3
  <2> HIDE DEF new
  <2>5. /\ \A u \in DOMAIN locks : new[u] \in Lock(u) /\ new[u].votes = locks[u].votes
        /\ new[t] \in Lock(t) /\ new[t].votes = {}
    BY <1>1, <2>2, <2>4
  <2>6. QED
    BY <1>4, <2>4, <2>5 DEF new
<1>5. QED
  BY <1>2, <1>3, <1>4

-----------------------------------------------------------------------------
(* The actions.                                                            *)

(* Locks after CreateNewLock.                                              *)
LEMMA NewLockStep ==
  ASSUME SwiftInv, NEW t \in Txs, NEW h \in VoteHeights[t] \cup {0}, locks' = CreateNewLock(t, h),
         UNCHANGED lockVotes
  PROVE  LockInv' /\ \A u \in DOMAIN locks' : u = t \/ (u \in DOMAIN locks /\ locks'[u] = locks[u])
<1>1. /\ DOMAIN locks \subseteq DOMAIN locks' /\ DOMAIN locks' \subseteq DOMAIN locks \cup {t}
      /\ \A u \in DOMAIN locks : /\ locks'[u] \in Lock(u) /\ locks'[u].votes = locks[u].votes
                                 /\ u # t => locks'[u] = locks[u]
      /\ t \in DOMAIN locks' \ DOMAIN locks => locks'[t] \in Lock(t) /\ locks'[t].votes = {}
  BY NewLockFacts
<1>2. \A u : Lock(u)' = Lock(u)
  BY DEF Lock
<1>3. ASSUME NEW u \in DOMAIN locks'
      PROVE  /\ u \in Txs /\ locks'[u] \in Lock(u)' /\ IsFiniteSet(locks'[u].votes)
             /\ \A x, y \in locks'[u].votes : x[1].mn = y[1].mn => x = y
             /\ \A x \in locks'[u].votes : VoteHash(x[1]) \in lockVotes
  <2>1. CASE u \in DOMAIN locks
    BY <1>1, <1>2, <2>1 DEF SwiftInv, LockInv, LocksOK
  <2>2. CASE u \notin DOMAIN locks
    BY <1>1, <1>2, <1>3, <2>2, FS_EmptySet
  <2>3. QED
    BY <2>1, <2>2
<1>4. LockInv'
  BY <1>3 DEF LockInv, LocksOK, VoteHash
<1>5. QED
  BY <1>1, <1>4

(* The inputs after CreateNewLock: a lock that it completes is loose.      *)
LEMMA NewLockHolds ==
  ASSUME SwiftInv, NEW t \in Txs, UNCHANGED locked, loose' = loose \cup CompletedLate(t, locks'),
         \A u \in DOMAIN locks' : u = t \/ (u \in DOMAIN locks /\ locks'[u] = locks[u])
  PROVE  CompleteHoldsInputs' /\ loose' \subseteq Txs
<1>1. CompleteHoldsInputs /\ loose \subseteq Txs
  BY DEF SwiftInv, RestInv
<1>2. ~(t \in DOMAIN locks' \ loose' /\ Complete(locks'[t]))
  BY DEF CompletedLate
<1>3. CompletedLate(t, locks') \subseteq {t}
  BY DEF CompletedLate
<1>4. CompleteHoldsInputs'
  BY <1>1, <1>2, HoldsStep
<1>5. QED
  BY <1>1, <1>3, <1>4

(* "ix", up to the wait for cs_main.                                       *)
LEMMA LockRequestStep == ASSUME SwiftInv, NEW t \in Txs, LockRequest(t) PROVE SwiftInv'
<1>1. PICK h \in VoteHeights[t] \cup {0} : locks' = CreateNewLock(t, h) /\ handling' = [tx |-> t, h |-> h]
  BY DEF LockRequest
<1>2. /\ handling = Nobody /\ handling'.tx = t /\ handling'.h = h
      /\ loose' = loose \cup CompletedLate(t, locks')
      /\ UNCHANGED <<req, rejected, lockVotes, locked>>
  BY <1>1 DEF LockRequest
<1>3. handling' # Nobody
  <2>1. h \in Heights
    <3>1. VoteHeights[t] \in {VoteHeights[u] : u \in Txs}
      OBVIOUS
    <3>2. h \in UNION {VoteHeights[u] : u \in Txs} \/ h \in {0}
      BY <3>1, Zenon
    <3>3. QED
      BY <3>2, Zenon DEF Heights
  <2>2. QED
    BY <1>1, <2>1, SwiftTXAssumption
<1>4. LockInv' /\ \A u \in DOMAIN locks' : u = t \/ (u \in DOMAIN locks /\ locks'[u] = locks[u])
  BY <1>1, <1>2, NewLockStep
<1>5. CompleteHoldsInputs' /\ loose' \subseteq Txs
  BY <1>2, <1>4, NewLockHolds
<1>6. ReqInv' /\ LockedInv' /\ RestInv'
  BY <1>2, <1>5 DEF SwiftInv, ReqInv, LockedInv, RestInv
<1>7. Requested'
  BY <1>2, <1>3, <1>4 DEF SwiftInv, Requested
<1>8. QED
  BY <1>4, <1>5, <1>6, <1>7 DEF SwiftInv

(* AcceptToMemoryPool takes the transaction.                               *)
LEMMA RequestAcceptedStep == ASSUME SwiftInv, RequestAccepted PROVE SwiftInv'
<1> DEFINE t == handling.tx
<1>1. /\ handling # Nobody /\ handling' = Nobody /\ t \in Txs
      /\ lockVotes \subseteq lockVotes' /\ req' = Inserted(req, t, Vin[t])
      /\ UNCHANGED <<rejected, locks, locked, loose>>
  BY DEF RequestAccepted, SwiftInv, RestInv
<1>2. /\ DOMAIN req' = DOMAIN req \cup {t} /\ \A u \in DOMAIN req : req'[u] = req[u]
      /\ t \notin DOMAIN req => req'[t] = Vin[t]
  BY <1>1 DEF Inserted
<1>3. LockInv'
  BY <1>1 DEF SwiftInv, LockInv, LocksOK, Lock
<1>4. ReqInv'
  BY <1>1, <1>2, InputsNotEmpty DEF SwiftInv, ReqInv
<1>5. LockedInv' /\ RestInv'
  BY <1>1 DEF SwiftInv, LockedInv, RestInv
<1>6. Requested'
  BY <1>1, <1>2 DEF SwiftInv, Requested
<1>7. CompleteHoldsInputs'
  BY <1>1 DEF SwiftInv, CompleteHoldsInputs, Complete, CountSignatures
<1>8. QED
  BY <1>3, <1>4, <1>5, <1>6, <1>7 DEF SwiftInv

(* k is l but for the times that are left.                                 *)
Expiring(l, k) ==
  /\ DOMAIN k = DOMAIN l
  /\ \A u \in DOMAIN l : \E n \in -1..Lifetime : k[u] = [l[u] EXCEPT !.left = n]

(* A lock that only expires keeps its votes and its height.                *)
LEMMA ExpiredLocks ==
  ASSUME NEW l, NEW k, NEW s, LocksOK(l, s), Expiring(l, k)
  PROVE  LocksOK(k, s) /\ DOMAIN k = DOMAIN l /\ \A u \in DOMAIN l : k[u].h = l[u].h /\ k[u].votes = l[u].votes
<1>1. ASSUME NEW u \in DOMAIN l
      PROVE  k[u] \in Lock(u) /\ k[u].votes = l[u].votes /\ k[u].h = l[u].h
  BY DEF LocksOK, Lock, Expiring
<1>2. QED
  BY <1>1 DEF LocksOK, Expiring

(* CheckForConflictingLocks only makes locks expire, that of the           *)
(* transaction it is called for among them.                                *)
LEMMA ExpireBothFacts ==
  ASSUME NEW l, NEW t, NEW vin, \A u \in DOMAIN l : l[u] \in Lock(u)
  PROVE  /\ Expiring(l, ExpireBoth(l, t, vin))
         /\ t \in DOMAIN l => ExpireBoth(l, t, vin)[t].left = 0
         /\ \A u \in DOMAIN l : ExpireBoth(l, t, vin)[u].left > 0 => l[u].left > 0
<1>1. PICK S : t \in S /\ ExpireBoth(l, t, vin) =
                 [u \in DOMAIN l |-> IF u \in S THEN [l[u] EXCEPT !.left = 0] ELSE l[u]]
  BY DEF ExpireBoth
<1>2. ASSUME NEW u \in DOMAIN l PROVE l[u] = [l[u] EXCEPT !.left = l[u].left] /\ l[u].left \in -1..Lifetime
  BY DEF Lock
<1>3. 0 \in -1..Lifetime
  BY SwiftTXAssumption
<1>4. Expiring(l, ExpireBoth(l, t, vin))
  BY <1>1, <1>2, <1>3 DEF Expiring
<1>5. \A u \in DOMAIN l : [l[u] EXCEPT !.left = 0].left = 0
  BY DEF Lock
<1>6. QED
  BY <1>1, <1>4, <1>5

(* Without a conflict LockInputs gives t all its inputs.                   *)
LEMMA LockInputsFacts ==
  ASSUME NEW t, NEW vin, locked' = LockInputs(t, vin)
  PROVE  /\ DOMAIN locked' = DOMAIN locked \cup Range(vin)
         /\ \A o \in DOMAIN locked : locked'[o] = locked[o]
         /\ \A o \in Range(vin) \ DOMAIN locked : locked'[o] = t
         /\ vin = Vin[t] /\ ~HasConflict(t, vin) => \A o \in Range(Vin[t]) : o \in DOMAIN locked' /\ locked'[o] = t
<1>1. /\ DOMAIN locked' = DOMAIN locked \cup Range(vin)
      /\ \A o \in DOMAIN locked : locked'[o] = locked[o]
      /\ \A o \in Range(vin) \ DOMAIN locked : locked'[o] = t
  BY DEF LockInputs
<1>2. ~HasConflict(t, vin) => \A o \in Range(vin) : o \in DOMAIN locked => locked[o] = t
  BY DEF HasConflict, ConflictAt, Range
<1>3. QED
  BY <1>1, <1>2

(* AcceptToMemoryPool refuses it.                                          *)
LEMMA RequestRejectedStep == ASSUME SwiftInv, RequestRejected PROVE SwiftInv'
<1>0. PICK t \in Txs : t = handling.tx
  BY DEF RequestRejected, SwiftInv, RestInv
<1> DEFINE full == t \in DOMAIN locks /\ Complete(locks[t])
<1>1. /\ handling # Nobody /\ handling' = Nobody /\ t \in Txs
      /\ rejected' = rejected \cup {t} /\ locked' = LockInputs(t, Vin[t]) /\ lockVotes' = lockVotes
      /\ loose' = IF full THEN loose \ {t} ELSE loose
      /\ \/ full /\ locks' = ExpireBoth(locks, t, Vin[t]) /\ req' = req
         \/ full /\ ~HasConflict(t, Vin[t]) /\ req' = Inserted(req, t, Vin[t]) /\ locks' = locks
         \/ ~full /\ UNCHANGED <<req, locks>>
  BY <1>0 DEF RequestRejected, SwiftInv, RestInv
<1> HIDE DEF full
<1>2. /\ LockInv' /\ DOMAIN locks' = DOMAIN locks
      /\ \A u \in DOMAIN locks : /\ locks'[u].h = locks[u].h /\ locks'[u].votes = locks[u].votes
                                 /\ locks'[u].left > 0 => locks[u].left > 0
  <2>1. CASE locks' = locks
    BY <1>1, <2>1 DEF SwiftInv, LockInv, LocksOK, Lock
  <2>2. CASE locks' = ExpireBoth(locks, t, Vin[t])
    <3>1. /\ Expiring(locks, ExpireBoth(locks, t, Vin[t]))
          /\ \A u \in DOMAIN locks : ExpireBoth(locks, t, Vin[t])[u].left > 0 => locks[u].left > 0
      BY ExpireBothFacts DEF SwiftInv, LockInv, LocksOK
    <3>2. LocksOK(locks', lockVotes) /\ DOMAIN locks' = DOMAIN locks
          /\ \A u \in DOMAIN locks : locks'[u].h = locks[u].h /\ locks'[u].votes = locks[u].votes
      BY <2>2, <3>1, ExpiredLocks DEF SwiftInv, LockInv
    <3>3. LockInv'
      BY <1>1, <3>2 DEF LockInv, LocksOK, Lock, VoteHash
    <3>4. QED
      BY <2>2, <3>1, <3>2, <3>3
  <2>3. QED
    BY <1>1, <2>1, <2>2
<1>3. /\ DOMAIN req \subseteq DOMAIN req' /\ DOMAIN req' \subseteq DOMAIN req \cup {t}
      /\ \A u \in DOMAIN req : req'[u] = req[u]
      /\ t \in DOMAIN req' \ DOMAIN req => req'[t] = Vin[t]
  BY <1>1 DEF Inserted
<1>4. ReqInv'
  BY <1>1, <1>3, InputsNotEmpty DEF SwiftInv, ReqInv
<1>5. /\ DOMAIN locked' = DOMAIN locked \cup Range(Vin[t])
      /\ \A o \in DOMAIN locked : locked'[o] = locked[o]
      /\ \A o \in Range(Vin[t]) \ DOMAIN locked : locked'[o] = t
      /\ ~HasConflict(t, Vin[t]) => Holds(t)'
  BY <1>1, LockInputsFacts DEF Holds
<1>6. LockedInv' /\ RestInv'
  BY <1>1, <1>5 DEF SwiftInv, LockedInv, RestInv, Outpoints
<1>7. Requested'
  BY <1>0, <1>1, <1>2, <1>3 DEF SwiftInv, Requested
<1>8. CompleteHoldsInputs'
  <2>1. CASE full
    <3>1. t \in DOMAIN locks' /\ locks'[t].left > 0 => Holds(t)'
      <4>1. ASSUME locks' = ExpireBoth(locks, t, Vin[t]), t \in DOMAIN locks' PROVE locks'[t].left = 0
        BY <1>2, <4>1, ExpireBothFacts DEF SwiftInv, LockInv, LocksOK
      <4>2. QED
        BY <1>1, <1>5, <2>1, <4>1
    <3>2. loose \subseteq loose' \cup {t} /\ CompleteHoldsInputs
      BY <1>1, <2>1 DEF SwiftInv
    <3>3. QED
      BY <1>2, <1>5, <3>1, <3>2, HoldsStep
  <2>2. CASE ~full
    <3>1. ~(t \in DOMAIN locks' /\ Complete(locks'[t]))
      BY <1>1, <2>2 DEF full
    <3>2. loose \subseteq loose' \cup {t} /\ CompleteHoldsInputs
      BY <1>1, <2>2 DEF SwiftInv
    <3>3. QED
      BY <1>2, <1>5, <3>1, <3>2, HoldsStep
  <2>3. QED
    BY <2>1, <2>2
<1>9. QED
  BY <1>2, <1>4, <1>6, <1>7, <1>8 DEF SwiftInv

(* The wallet's own request.                                               *)
LEMMA WalletRequestStep == ASSUME SwiftInv, NEW t \in Txs, WalletRequest(t) PROVE SwiftInv'
<1>1. PICK h \in VoteHeights[t] \cup {0} : locks' = CreateNewLock(t, h)
  BY DEF WalletRequest
<1>2. /\ req' = Inserted(req, t, Vin[t]) /\ loose' = loose \cup CompletedLate(t, locks')
      /\ UNCHANGED <<rejected, lockVotes, locked, handling>>
  BY DEF WalletRequest
<1>3. /\ DOMAIN req' = DOMAIN req \cup {t} /\ \A u \in DOMAIN req : req'[u] = req[u]
      /\ t \notin DOMAIN req => req'[t] = Vin[t]
  BY <1>2 DEF Inserted
<1>4. LockInv' /\ \A u \in DOMAIN locks' : u = t \/ (u \in DOMAIN locks /\ locks'[u] = locks[u])
  BY <1>1, <1>2, NewLockStep
<1>5. CompleteHoldsInputs' /\ loose' \subseteq Txs
  BY <1>2, <1>4, NewLockHolds
<1>6. ReqInv' /\ LockedInv' /\ RestInv'
  BY <1>2, <1>3, <1>5, InputsNotEmpty DEF SwiftInv, ReqInv, LockedInv, RestInv
<1>7. Requested'
  BY <1>2, <1>3, <1>4 DEF SwiftInv, Requested
<1>8. QED
  BY <1>4, <1>5, <1>6, <1>7 DEF SwiftInv

(* AddSignature: a vote not seen before is of a masternode that has not    *)
(* signed.                                                                 *)
LEMMA SignatureFacts ==
  ASSUME SwiftInv, NEW v \in LockVotes, VoteHash(v) \notin lockVotes
  PROVE  LET l == WithSignature(v)
         IN  /\ LocksOK(l, lockVotes \cup {VoteHash(v)}) /\ DOMAIN l = DOMAIN locks \cup {v.tx}
             /\ \A u \in DOMAIN locks : l[u].h = locks[u].h /\ (u # v.tx => l[u] = locks[u])
             /\ v.tx \notin DOMAIN locks => l[v.tx].h = 0
<1> DEFINE t == v.tx
           new == [h |-> 0, votes |-> {}, left |-> Lifetime]
           l0 == Inserted(locks, t, new)
           c == Cardinality({x \in l0[t].votes : x[1] = v})
           l == WithSignature(v)
<1>1. t \in Txs /\ v.h \in Heights /\ v \in [mn : Signers, tx : {t}, h : Heights]
  BY DEF LockVotes
<1>2. new \in Lock(t) /\ new.votes = {} /\ new.h = 0
  BY SwiftTXAssumption DEF Lock
<1> HIDE DEF new
<1>3. /\ DOMAIN l0 = DOMAIN locks \cup {t} /\ \A u \in DOMAIN locks : l0[u] = locks[u]
      /\ t \notin DOMAIN locks => l0[t] = new
  BY DEF Inserted
<1>4. /\ l0[t] \in Lock(t) /\ IsFiniteSet(l0[t].votes)
      /\ \A x, y \in l0[t].votes : x[1].mn = y[1].mn => x = y
      /\ \A x \in l0[t].votes : VoteHash(x[1]) \in lockVotes
      /\ t \notin DOMAIN locks => l0[t].h = 0
  <2>1. CASE t \in DOMAIN locks
    BY <1>3, <2>1 DEF SwiftInv, LockInv, LocksOK
  <2>2. CASE t \notin DOMAIN locks
    BY <1>2, <1>3, <2>2, FS_EmptySet
  <2>3. QED
    BY <2>1, <2>2
<1>5. c \in Nat
  <2>1. IsFiniteSet({x \in l0[t].votes : x[1] = v})
    BY <1>4, FS_Subset
  <2>2. QED
    BY <2>1, FS_CardinalityType
<1>6. l = [l0 EXCEPT ![t].votes = @ \cup {<<v, c>>}]
  BY DEF WithSignature, new
<1> HIDE DEF l, l0, c
<1>7. /\ DOMAIN l = DOMAIN locks \cup {t} /\ l[t] = [l0[t] EXCEPT !.votes = l0[t].votes \cup {<<v, c>>}]
      /\ \A u \in DOMAIN locks \ {t} : l[u] = locks[u]
  BY <1>3, <1>6
<1>8. l[t] \in Lock(t) /\ l[t].votes = l0[t].votes \cup {<<v, c>>} /\ l[t].h = l0[t].h
  <2>1. l0[t].votes \subseteq [mn : Signers, tx : {t}, h : Heights] \X Nat
    BY <1>4 DEF Lock
  <2>2. l0[t].votes \cup {<<v, c>>} \in SUBSET ([mn : Signers, tx : {t}, h : Heights] \X Nat)
    BY <1>1, <1>5, <2>1
  <2>3. QED
    BY <1>4, <1>7, <2>2 DEF Lock
<1>9. ASSUME NEW x \in l0[t].votes PROVE x[1].mn # v.mn
  <2>1. x[1].tx = t
    BY <1>4, <1>9 DEF Lock
  <2>2. VoteHash(x[1]) # VoteHash(v)
    BY <1>4, <1>9
  <2>3. QED
    BY <2>1, <2>2 DEF VoteHash
<1>10. /\ \A x, y \in l[t].votes : x[1].mn = y[1].mn => x = y
       /\ \A x \in l[t].votes : VoteHash(x[1]) \in lockVotes \cup {VoteHash(v)}
       /\ IsFiniteSet(l[t].votes)
  <2>1. IsFiniteSet(l[t].votes)
    <3>1. IsFiniteSet(l0[t].votes) /\ l[t].votes = l0[t].votes \cup {<<v, c>>}
      BY <1>4, <1>8
    <3>2. IsFiniteSet(l0[t].votes \cup {<<v, c>>})
      BY <3>1, FS_AddElement, Zenon
    <3>3. QED
      BY <3>1, <3>2, Zenon
  <2>2. \A x \in l[t].votes : x \in l0[t].votes \/ (x = <<v, c>> /\ x[1] = v)
    BY <1>8
  <2>3. QED
    BY <1>4, <1>9, <2>1, <2>2
<1>11. LocksOK(l, lockVotes \cup {VoteHash(v)})
  BY <1>1, <1>7, <1>8, <1>10 DEF SwiftInv, LockInv, LocksOK
<1>12. QED
  BY <1>3, <1>4, <1>7, <1>8, <1>11 DEF l

(* "txlvote".                                                              *)
LEMMA ConsensusVoteStep == ASSUME SwiftInv, NEW v \in LockVotes, ConsensusVote(v) PROVE SwiftInv'
<1> DEFINE t == v.tx
           l == WithSignature(v)
           vin == IF t \in DOMAIN req THEN req[t] ELSE <<>>
<1>1. /\ handling = Nobody /\ handling' = Nobody /\ VoteHash(v) \notin lockVotes
      /\ lockVotes' = lockVotes \cup {VoteHash(v)} /\ UNCHANGED rejected
      /\ t \in Txs
  BY DEF ConsensusVote, LockVotes
<1>2. CASE UNCHANGED <<req, locks, locked, loose>>
  <2>1. LockInv'
    BY <1>1, <1>2 DEF SwiftInv, LockInv, LocksOK, Lock, VoteHash
  <2>2. QED
    BY <1>1, <1>2, <2>1
       DEF SwiftInv, ReqInv, LockedInv, Requested, CompleteHoldsInputs, Complete, CountSignatures, RestInv
<1>3. CASE IF Complete(l[t]) THEN CompleteLock(t, l) ELSE locks' = l /\ UNCHANGED <<req, locked, loose>>
  <2>1. /\ LocksOK(l, lockVotes') /\ DOMAIN l = DOMAIN locks \cup {t}
        /\ \A u \in DOMAIN locks : l[u].h = locks[u].h /\ (u # t => l[u] = locks[u])
        /\ t \notin DOMAIN locks => l[t].h = 0
    BY <1>1, SignatureFacts
  <2> HIDE DEF l
  <2>2. CompleteHoldsInputs /\ loose \subseteq Txs
    BY DEF SwiftInv, RestInv
  <2>3. CASE ~Complete(l[t])
    <3>1. locks' = l /\ UNCHANGED <<req, locked, loose>>
      BY <1>3, <2>3
    <3>2. LockInv'
      BY <2>1, <3>1 DEF LockInv, LocksOK, Lock, VoteHash
    <3>3. Requested'
      BY <1>1, <2>1, <3>1 DEF SwiftInv, Requested
    <3>4. CompleteHoldsInputs'
      <4>1. \A u \in DOMAIN locks' : u # t => u \in DOMAIN locks /\ locks'[u] = locks[u]
        BY <2>1, <3>1
      <4>2. ~Complete(locks'[t])
        BY <2>3, <3>1
      <4>3. QED
        BY <2>2, <3>1, <4>1, <4>2, HoldsStep
    <3>5. QED
      BY <1>1, <3>1, <3>2, <3>3, <3>4 DEF SwiftInv, ReqInv, LockedInv, RestInv
  <2>4. CASE Complete(l[t])
    <3>1. l[t].h # 0
      BY <2>4, SwiftTXAssumption DEF Complete, CountSignatures
    <3>2. t \in DOMAIN locks /\ t \in DOMAIN req \cup rejected
      BY <1>1, <2>1, <3>1 DEF SwiftInv, Requested
    <3>3. /\ req' = Inserted(req, t, <<>>)
          /\ \/ locks' = ExpireBoth(l, t, vin) /\ UNCHANGED locked
             \/ locks' = l /\ locked' = LockInputs(t, vin) /\ ~HasConflict(t, vin)
          /\ loose' = IF vin = <<>> THEN loose \cup {t} ELSE loose \ {t}
      BY <1>3, <2>4 DEF CompleteLock
    <3>4. /\ DOMAIN req' = DOMAIN req \cup {t} /\ \A u \in DOMAIN req : req'[u] = req[u]
          /\ t \notin DOMAIN req => req'[t] = <<>>
      BY <3>3 DEF Inserted
    <3>5. /\ LocksOK(locks', lockVotes') /\ DOMAIN locks' = DOMAIN l
          /\ \A u \in DOMAIN l : /\ locks'[u].h = l[u].h /\ locks'[u].votes = l[u].votes
                                 /\ locks'[u].left > 0 => l[u].left > 0
          /\ locks' = l \/ locks'[t].left = 0
      <4>1. CASE locks' = l
        BY <2>1, <4>1
      <4>2. CASE locks' = ExpireBoth(l, t, vin)
        <5>1. \A u \in DOMAIN l : l[u] \in Lock(u)
          BY <2>1 DEF LocksOK
        <5>2. /\ Expiring(l, ExpireBoth(l, t, vin)) /\ ExpireBoth(l, t, vin)[t].left = 0
              /\ \A u \in DOMAIN l : ExpireBoth(l, t, vin)[u].left > 0 => l[u].left > 0
          BY <2>1, <5>1, ExpireBothFacts
        <5>3. /\ LocksOK(locks', lockVotes') /\ DOMAIN locks' = DOMAIN l
              /\ \A u \in DOMAIN l : locks'[u].h = l[u].h /\ locks'[u].votes = l[u].votes
          BY <2>1, <4>2, <5>2, ExpiredLocks
        <5>4. QED
          BY <4>2, <5>2, <5>3
      <4>3. QED
        BY <3>3, <4>1, <4>2
    <3>6. LockInv' /\ DOMAIN locks' = DOMAIN locks /\ \A u \in DOMAIN locks : locks'[u].h = locks[u].h
      <4>1. LockInv'
        BY <3>5 DEF LockInv, LocksOK, Lock, VoteHash
      <4>2. QED
        BY <2>1, <3>2, <3>5, <4>1
    <3>7. ReqInv'
      BY <1>1, <3>2, <3>4 DEF SwiftInv, ReqInv
    <3>8. Requested'
      BY <1>1, <3>4, <3>6 DEF SwiftInv, Requested
    <3>9. vin = <<>> \/ vin = Vin[t]
      BY DEF SwiftInv, ReqInv
    <3> HIDE DEF vin
    <3>10. /\ DOMAIN locked \subseteq DOMAIN locked' /\ DOMAIN locked' \subseteq DOMAIN locked \cup Range(vin)
           /\ \A o \in DOMAIN locked : locked'[o] = locked[o]
           /\ \A o \in DOMAIN locked' \ DOMAIN locked : locked'[o] = t
      BY <3>3 DEF LockInputs
    <3>11. LockedInv'
      BY <1>1, <3>9, <3>10, InputsNotEmpty DEF SwiftInv, LockedInv, Outpoints
    <3>12. CompleteHoldsInputs'
      <4>1. t \in DOMAIN locks' \ loose' /\ Complete(locks'[t]) /\ locks'[t].left > 0 => Holds(t)'
        <5> SUFFICES ASSUME t \notin loose', locks'[t].left > 0 PROVE Holds(t)'
          OBVIOUS
        <5>1. vin = Vin[t]
          BY <3>3, <3>9
        <5>2. (locked' = LockInputs(t, vin) /\ ~HasConflict(t, vin)) \/ locks'[t].left = 0
          <6>1. ASSUME locks' = ExpireBoth(l, t, vin) PROVE locks'[t].left = 0
            BY <2>1, <6>1, ExpireBothFacts DEF LocksOK
          <6>2. QED
            BY <3>3, <6>1
        <5>3. QED
          <6>1. Holds(t)' <=> \A o \in Range(Vin[t]) : o \in DOMAIN locked' /\ locked'[o] = t
            BY DEF Holds
          <6> HIDE DEF t
          <6>2. locked' = LockInputs(t, vin) /\ ~HasConflict(t, vin)
            BY <5>2
          <6>3. QED
            BY <5>1, <6>1, <6>2, LockInputsFacts
      <4>2. \A u \in DOMAIN locks' : u # t =>
               /\ u \in DOMAIN locks /\ locks'[u].votes = locks[u].votes /\ locks'[u].h = locks[u].h
               /\ locks'[u].left > 0 => locks[u].left > 0
        BY <2>1, <3>5, <3>6
      <4>3. loose \subseteq loose' \cup {t}
        BY <3>3
      <4>4. QED
        BY <2>2, <3>10, <4>1, <4>2, <4>3, HoldsStep
    <3>13. RestInv'
      BY <1>1, <2>2, <3>3 DEF RestInv
    <3>14. QED
      BY <3>6, <3>7, <3>8, <3>11, <3>12, <3>13 DEF SwiftInv
  <2>5. QED
    BY <2>3, <2>4
<1>4. QED
  BY <1>2, <1>3 DEF ConsensusVote

(* The hourly cleanup.  A lock that stays keeps the memory of its votes,   *)
(* for those forgotten are of other transactions, and its inputs, or it is *)
(* loose.                                                                  *)
LEMMA CleanStep == ASSUME SwiftInv, CleanTransactionLocksList PROVE SwiftInv'
<1> DEFINE full == Expired \cap DOMAIN req
           gone == UNION {Range(req[t]) : t \in full}
           old == {VoteHash(x[1]) : x \in UNION {locks[t].votes : t \in full}}
<1>1. /\ locked' = Without(locked, gone) /\ req' = Without(req, full)
      /\ rejected' = rejected \ full /\ lockVotes' = lockVotes \ old
      /\ locks' = Without(locks, Expired) /\ UNCHANGED handling
      /\ loose' = (loose \cup {t \in DOMAIN locks : Range(Vin[t]) \cap gone # {}}) \ Expired
  BY DEF CleanTransactionLocksList
<1>2. full \subseteq Expired
  OBVIOUS
<1>3. /\ \A u \in full : u \in DOMAIN locks /\ u \in DOMAIN req
      /\ \A o \in gone : \E u \in full : o \in Range(req[u])
      /\ \A k \in old : \E u \in full : \E x \in locks[u].votes : k = VoteHash(x[1])
  BY DEF Expired
<1> HIDE DEF full, gone, old
<1>4. /\ DOMAIN locked' = DOMAIN locked \ gone /\ \A o \in DOMAIN locked' : locked'[o] = locked[o]
      /\ DOMAIN req' = DOMAIN req \ full /\ \A u \in DOMAIN req' : req'[u] = req[u]
      /\ DOMAIN locks' = DOMAIN locks \ Expired /\ \A u \in DOMAIN locks' : locks'[u] = locks[u]
  BY <1>1 DEF Without, Restrict
<1>5. ASSUME NEW t \in DOMAIN locks', NEW x \in locks'[t].votes PROVE VoteHash(x[1]) \in lockVotes'
  <2>1. t \notin full /\ x \in locks[t].votes /\ t \in DOMAIN locks
    BY <1>2, <1>4, <1>5
  <2>2. ASSUME NEW u \in full, NEW y \in locks[u].votes PROVE VoteHash(x[1]) # VoteHash(y[1])
    <3>1. x[1].tx = t /\ y[1].tx = u
      BY <1>3, <2>1, <2>2 DEF SwiftInv, LockInv, LocksOK, Lock
    <3>2. QED
      BY <2>1, <3>1 DEF VoteHash
  <2>3. VoteHash(x[1]) \in lockVotes
    BY <2>1 DEF SwiftInv, LockInv, LocksOK
  <2>4. QED
    BY <1>1, <1>3, <2>2, <2>3
<1>6. LockInv'
  <2>1. LocksOK(locks', lockVotes')
    BY <1>4, <1>5 DEF SwiftInv, LockInv, LocksOK
  <2>2. QED
    BY <1>1, <2>1 DEF LockInv, LocksOK, Lock, VoteHash
<1>7. ReqInv'
  BY <1>1, <1>4 DEF SwiftInv, ReqInv
<1>8. LockedInv' /\ RestInv'
  <2>1. DOMAIN locks \subseteq Txs
    BY DEF SwiftInv, LockInv, LocksOK
  <2>2. QED
    BY <1>1, <1>4, <2>1 DEF SwiftInv, LockedInv, RestInv
<1>9. Requested'
  BY <1>1, <1>2, <1>4 DEF SwiftInv, Requested
<1>10. CompleteHoldsInputs'
  <2> SUFFICES ASSUME NEW t \in DOMAIN locks' \ loose', Complete(locks'[t]), locks'[t].left > 0,
                      NEW o \in Range(Vin[t])
               PROVE  o \in DOMAIN locked' /\ locked'[o] = t
    BY DEF CompleteHoldsInputs, Complete, CountSignatures
  <2>1. t \in DOMAIN locks /\ t \notin Expired /\ locks'[t] = locks[t]
    BY <1>4
  <2>2. t \notin loose /\ o \notin gone
    BY <1>1, <2>1
  <2>3. o \in DOMAIN locked /\ locked[o] = t
    BY <2>1, <2>2 DEF SwiftInv, CompleteHoldsInputs
  <2>4. QED
    BY <1>4, <2>2, <2>3
<1>11. QED
  BY <1>6, <1>7, <1>8, <1>9, <1>10 DEF SwiftInv

(* The clock.                                                              *)
LEMMA TickStep == ASSUME SwiftInv, Tick PROVE SwiftInv'
<1>1. /\ locks' = [t \in DOMAIN locks |-> [locks[t] EXCEPT !.left = IF @ < 0 THEN @ ELSE @ - 1]]
      /\ UNCHANGED <<req, rejected, lockVotes, locked, handling, loose>>
  BY DEF Tick
<1>2. ASSUME NEW u \in DOMAIN locks
      PROVE  \E n \in -1..Lifetime : locks'[u] = [locks[u] EXCEPT !.left = n]
  <2>1. locks[u].left \in -1..Lifetime
    BY DEF SwiftInv, LockInv, LocksOK, Lock
  <2> DEFINE n == IF locks[u].left < 0 THEN locks[u].left ELSE locks[u].left - 1
  <2>2. n \in -1..Lifetime
    BY <2>1, SwiftTXAssumption
  <2>3. locks'[u] = [locks[u] EXCEPT !.left = n]
    BY <1>1
  <2>4. QED
    BY <2>2, <2>3
<1>3. Expiring(locks, locks')
  BY <1>1, <1>2 DEF Expiring
<1>4. /\ LocksOK(locks', lockVotes') /\ DOMAIN locks' = DOMAIN locks
      /\ \A u \in DOMAIN locks : locks'[u].h = locks[u].h /\ locks'[u].votes = locks[u].votes
  BY <1>1, <1>3, ExpiredLocks DEF SwiftInv, LockInv
<1>5. LockInv'
  BY <1>1, <1>4 DEF LockInv, LocksOK, Lock, VoteHash
<1>6. Requested'
  BY <1>1, <1>4 DEF SwiftInv, Requested
<1>7. CompleteHoldsInputs'
  <2>1. ASSUME NEW u \in DOMAIN locks, locks'[u].left > 0 PROVE locks[u].left > 0
    <3>1. locks[u].left \in -1..Lifetime
      BY DEF SwiftInv, LockInv, LocksOK, Lock
    <3>2. locks'[u].left = IF locks[u].left < 0 THEN locks[u].left ELSE locks[u].left - 1
      BY <1>1 DEF SwiftInv, LockInv, LocksOK, Lock
    <3>3. QED
      BY <2>1, <3>1, <3>2
  <2> SUFFICES ASSUME NEW t \in DOMAIN locks \ loose, Complete(locks'[t]), locks'[t].left > 0
               PROVE  Holds(t)
    BY <1>1, <1>4 DEF CompleteHoldsInputs, Complete, CountSignatures, Holds
  <2>2. Complete(locks[t])
    BY <1>4, CompleteFacts
  <2>3. QED
    BY <2>1, <2>2 DEF SwiftInv, CompleteHoldsInputs, Holds
<1>8. QED
  BY <1>1, <1>5, <1>6, <1>7 DEF SwiftInv, ReqInv, LockedInv, RestInv

-----------------------------------------------------------------------------
(* It holds in every state.                                                *)
LEMMA SwiftInvInit == ASSUME SwiftInit PROVE SwiftInv
BY SwiftTXAssumption DEF SwiftInit, SwiftInv, LockInv, LocksOK, ReqInv, LockedInv, Requested, CompleteHoldsInputs, RestInv

(* Every step keeps it.                                                    *)
LEMMA SwiftInvNext == ASSUME SwiftInv, [SwiftNext]_swiftVars PROVE SwiftInv'
<1>1. ASSUME NEW t \in Txs, LockRequest(t) PROVE SwiftInv'
  BY <1>1, LockRequestStep
<1>2. ASSUME NEW t \in Txs, WalletRequest(t) PROVE SwiftInv'
  BY <1>2, WalletRequestStep
<1>3. CASE RequestAccepted
  BY <1>3, RequestAcceptedStep
<1>4. CASE RequestRejected
  BY <1>4, RequestRejectedStep
<1>5. ASSUME NEW v \in LockVotes, ConsensusVote(v) PROVE SwiftInv'
  BY <1>5, ConsensusVoteStep
<1>6. CASE CleanTransactionLocksList
  BY <1>6, CleanStep
<1>7. CASE Tick
  BY <1>7, TickStep
<1>8. CASE UNCHANGED swiftVars
  <2>1. UNCHANGED <<req, rejected, lockVotes, locks, locked, handling, loose>>
    BY <1>8 DEF swiftVars, maps
  <2>2. LockInv' /\ ReqInv' /\ LockedInv' /\ Requested' /\ RestInv'
    BY <2>1 DEF SwiftInv, LockInv, LocksOK, Lock, VoteHash, ReqInv, LockedInv, Requested, RestInv
  <2>3. CompleteHoldsInputs'
    BY <2>1 DEF SwiftInv, CompleteHoldsInputs, Complete, CountSignatures
  <2>4. QED
    BY <2>2, <2>3 DEF SwiftInv
<1>9. QED
  BY <1>1, <1>2, <1>3, <1>4, <1>5, <1>6, <1>7, <1>8 DEF SwiftNext

(* In every reachable state the votes of a lock are all remembered, the    *)
(* requests, rejections and locked inputs agree, and a complete lock holds *)
(* its inputs or is loose.                                                 *)
THEOREM SwiftInvariant == SwiftSpec => []SwiftInv
<1>1. SwiftInit => SwiftInv
  BY SwiftInvInit
<1>2. SwiftInv /\ [SwiftNext]_swiftVars => SwiftInv'
  BY SwiftInvNext
<1>3. QED
  BY <1>1, <1>2, PTL DEF SwiftSpec

(* However requests, votes, the wallet and the cleanup interleave: a       *)
(* complete lock holds all inputs of its transaction until it expires,     *)
(* unless its request came after the votes, was rejected before the last   *)
(* one, or the cleanup of a conflicting lock released the inputs; and the  *)
(* empty transaction in mapTxLockReq only ever stands for a rejected       *)
(* request.                                                                *)
THEOREM LocksTheorem == SwiftSpec => []LocksConsistent
<1>1. SwiftInv => LocksConsistent
  <2> SUFFICES ASSUME SwiftInv PROVE LocksConsistent
    OBVIOUS
  <2>1. DOMAIN req \cup rejected \cup DOMAIN locks \cup loose \subseteq Txs
    BY DEF SwiftInv, LockInv, LocksOK, ReqInv, RestInv
  <2>2. SwiftTypeOK
    BY <2>1 DEF SwiftInv, LockInv, LocksOK, Lock, ReqInv, LockedInv, SwiftTypeOK
  <2>3. CompleteHoldsInputs /\ EmptyRequestWasRejected
    BY DEF SwiftInv, ReqInv, EmptyRequestWasRejected
  <2>4. QED
    BY <2>2, <2>3 DEF LocksConsistent
<1>2. QED
  BY <1>1, SwiftInvariant, PTL

(* No masternode signs a lock twice, by whatever height it votes and       *)
(* whatever is delivered again before or after a cleanup.                  *)
THEOREM SignersTheorem == SwiftSpec => []SignersDistinct
<1>1. SwiftInv => SignersDistinct
  BY DEF SwiftInv, LockInv, LocksOK, SignersDistinct
<1>2. QED
  BY <1>1, SwiftInvariant, PTL
=============================================================================
