-------------------------- MODULE BlockCoinsProofs --------------------------
(***************************************************************************)
(* Connecting and disconnecting blocks keeps the coins right, for every    *)
(* tree of blocks and every transactions in them: the coins are those of   *)
(* the replayed chain, the tip can be taken off again, and mapStakeSpent   *)
(* is what the stake check may rely on.                                    *)
(*                                                                         *)
(* The loops of the code are recursive functions in the model; LoopExists  *)
(* and Climb are the two inductions over the turns of a loop.  Agrees says *)
(* that a view is the replay of what has been made and spent so far, in    *)
(* the middle of a block too, and every turn of every loop keeps it.       *)
(***************************************************************************)
EXTENDS BlockCoins, AncestryProofs

-----------------------------------------------------------------------------
(* CCoinsViewCache, as the map it shows.                                   *)
Views == [Txids -> Coins]

(* Spend keeps the types.                                                  *)
LEMMA SpendType ==
  ASSUME NEW c \in Coins, NEW n
  PROVE  Spend(c, n) \in Coins
BY DEF Spend, Coins, Clean, Pruned, Kinds

(* So does spending an input in a view.                                    *)
LEMMA SpendInputType ==
  ASSUME NEW v \in Views, NEW in \in Outpoints
  PROVE  SpendInput(v, in) \in Views
BY SpendType DEF Views, SpendInput, Outpoints

(* The views of UpdateCoins' loop, turn by turn.                           *)
LEMMA SpendInputsIs ==
  ASSUME NEW view \in Views, NEW tx \in TxType
  PROVE  /\ SpendInputs(view, tx) \in [0..Len(tx.vin) -> Views]
         /\ SpendInputs(view, tx)[0] = view
         /\ \A j \in 1..Len(tx.vin) : SpendInputs(view, tx)[j] = SpendInput(SpendInputs(view, tx)[j-1], tx.vin[j])
<1> DEFINE n == Len(tx.vin)
           g == [j \in 1..n |-> [v \in Views |-> SpendInput(v, tx.vin[j])]]
           s == SpendInputs(view, tx)
           Def(f) == f = [j \in 0..n |-> IF j = 0 THEN view ELSE SpendInput(f[j - 1], tx.vin[j])]
<1>1. n \in Nat /\ \A j \in 1..n : tx.vin[j] \in Outpoints
  BY DEF TxType
<1>2. s = CHOOSE f : Def(f)
  BY DEF SpendInputs
<1>3. g \in Bodies(n, Views)
  <2>1. \A j \in 1..n : \A v \in Views : SpendInput(v, tx.vin[j]) \in Views
    BY <1>1, SpendInputType
  <2>2. QED
    BY <2>1 DEF Bodies
<1>4. \A f : \A j \in 1..n : f[j - 1] \in Views => g[j][f[j - 1]] = SpendInput(f[j - 1], tx.vin[j])
  OBVIOUS
<1> HIDE DEF g, n, s
<1>5. PICK f \in Runs(n, Views) : IsRun(f, n, view, g)
  <2>1. n \in Nat /\ view \in Views
    BY <1>1
  <2>2. QED
    BY <1>3, <2>1, LoopExists
<1>6. Def(f)
  <2>1. \A j \in 0..n : f[j] = IF j = 0 THEN view ELSE SpendInput(f[j - 1], tx.vin[j])
    BY <1>1, <1>4, <1>5 DEF Runs, IsRun
  <2>2. QED
    BY <1>5, <2>1 DEF Runs
<1>7. Def(s)
  <2> HIDE DEF Def
  <2>1. QED
    BY <1>2, <1>6
<1>8. s[0] = view /\ \A j \in 1..n : s[j] = SpendInput(s[j - 1], tx.vin[j])
  <2>1. \A j \in 0..n : s[j] = IF j = 0 THEN view ELSE SpendInput(s[j - 1], tx.vin[j])
    BY <1>7
  <2>2. QED
    BY <1>1, <2>1
<1> DEFINE P == {j \in 0..n : s[j] \in Views}
<1>9. 0 \in P /\ \A j \in 1..n : j - 1 \in P => j \in P
  BY <1>1, <1>8, SpendInputType
<1>10. 0..n \subseteq P
  <2> HIDE DEF P
  <2>1. QED
    BY <1>1, <1>9, Climb
<1>11. s \in [0..n -> Views]
  BY <1>7, <1>10
<1>12. QED
  BY <1>8, <1>11 DEF s, n

-----------------------------------------------------------------------------
(* What is left of t when H[t] is the height at which it was made, 0 if it *)
(* was not, and S has been spent.                                          *)
Left(t, H, S) == IF H[t] = 0 THEN {} ELSE Unspent(t, S)

(* The flags of t, which coinstakes in M may have lost.                    *)
FlagOf(t, c, M) == c.kind = TxOf(t).kind \/ (t \in M /\ t \in Staked /\ c.kind = "plain")

(* The entry c of t is right at H, S and M,                                *)
Entry(t, c, H, S, M) ==
  /\ c.outs = Left(t, H, S)
  /\ c.outs = {} => c = Pruned
  /\ c.outs # {} => c.nHeight = H[t] /\ FlagOf(t, c, M)

(* and so is every entry of the view.                                      *)
Agrees(view, H, S, M) == view \in Views /\ \A t \in Txids : Entry(t, view[t], H, S, M)

(* What an input must be to be spent: made, one of the outputs, unspent.   *)
CanSpend(in, H, S) == H[in.hash] # 0 /\ in.n \in TxOf(in.hash).vout /\ in \notin S

(* What the assumptions say of a transaction ...                           *)
LEMMA TxFacts ==
  ASSUME NEW tx \in Txs
  PROVE  /\ tx \in TxType /\ tx.hash \in Txids /\ tx.vout \in SUBSET Nat /\ tx.kind \in Kinds
         /\ Len(tx.vin) \in Nat /\ DOMAIN tx.vin = 1..Len(tx.vin)
         /\ \A j \in 1..Len(tx.vin) : tx.vin[j] \in Outpoints
         /\ Range(tx.vin) = {tx.vin[j] : j \in 1..Len(tx.vin)}
         /\ TxOf(tx.hash) = tx
         /\ tx.kind = "coinstake" <=> tx.hash \in Staked
<1>1. PICK b \in Blocks : tx \in Range(Vtx[b])
  BY DEF Txs
<1>2. Vtx[b] \in Seq(TxType)
  BY BlockCoinsAssumption
<1>3. tx \in TxType
  BY <1>1, <1>2 DEF Range
<1>4. tx.vin \in Seq(Outpoints) /\ tx.hash \in Txids /\ tx.vout \in SUBSET Nat /\ tx.kind \in Kinds
  BY <1>3 DEF TxType
<1>5. /\ Len(tx.vin) \in Nat /\ DOMAIN tx.vin = 1..Len(tx.vin)
      /\ \A j \in 1..Len(tx.vin) : tx.vin[j] \in Outpoints
  BY <1>4
<1>6. Range(tx.vin) = {tx.vin[j] : j \in 1..Len(tx.vin)}
  BY <1>5 DEF Range
<1>7. \A s \in Txs : s.hash = tx.hash => s = tx
  BY BlockCoinsAssumption
<1>8. TxOf(tx.hash) = tx
  BY <1>7 DEF TxOf
<1>9. tx.kind = "coinstake" <=> tx.hash \in Staked
  BY <1>7 DEF Staked
<1>10. QED
  BY <1>3, <1>4, <1>5, <1>6, <1>8, <1>9

(* ... and of a block.                                                     *)
LEMMA BlockFacts ==
  ASSUME NEW b \in Blocks
  PROVE  /\ Len(Vtx[b]) \in Nat \ {0} /\ DOMAIN Vtx[b] = 1..Len(Vtx[b])
         /\ \A i \in 1..Len(Vtx[b]) : Vtx[b][i] \in Txs
         /\ Range(Vtx[b]) = {Vtx[b][i] : i \in 1..Len(Vtx[b])}
         /\ TxidsOf(b) = {Vtx[b][i].hash : i \in 1..Len(Vtx[b])}
         /\ Spends(b) = UNION {Range(Vtx[b][i].vin) : i \in 1..Len(Vtx[b])}
         /\ b \in Index /\ Prev[b] \in Index /\ Height[b] \in Nat \ {0}
<1>1. Vtx[b] \in Seq(TxType) /\ Vtx[b] # <<>>
  BY BlockCoinsAssumption
<1>2. Len(Vtx[b]) \in Nat \ {0} /\ DOMAIN Vtx[b] = 1..Len(Vtx[b])
  BY <1>1
<1>3. Range(Vtx[b]) = {Vtx[b][i] : i \in 1..Len(Vtx[b])}
  BY <1>2 DEF Range
<1>4. \A i \in 1..Len(Vtx[b]) : Vtx[b][i] \in Txs
  BY <1>3 DEF Txs
<1>5. TxidsOf(b) = {Vtx[b][i].hash : i \in 1..Len(Vtx[b])}
  BY <1>3 DEF TxidsOf
<1>6. Spends(b) = UNION {Range(Vtx[b][i].vin) : i \in 1..Len(Vtx[b])}
  BY <1>3 DEF Spends
<1>7. b \in Index /\ Prev[b] \in Index /\ Height[b] \in Nat \ {0}
  <2>1. b \in Index /\ Prev[b] \in Index /\ Height[b] = Height[Prev[b]] + 1
    BY AncestryAssumption DEF Index
  <2>2. Height[b] \in Nat /\ Height[Prev[b]] \in Nat
    BY <2>1, AncestryAssumption
  <2>3. QED
    BY <2>1, <2>2
<1>8. QED
  BY <1>2, <1>3, <1>4, <1>5, <1>6, <1>7

(* Spending one output.                                                    *)
LEMMA SpendStep ==
  ASSUME NEW H \in [Txids -> Nat], NEW S, NEW M, NEW view, Agrees(view, H, S, M),
         NEW in \in Outpoints, in.n \in view[in.hash].outs
  PROVE  /\ CanSpend(in, H, S)
         /\ Agrees(SpendInput(view, in), H, S \cup {in}, M)
<1> DEFINE t == in.hash
           v == SpendInput(view, in)
<1>1. t \in Txids /\ in.n \in Nat /\ in = [hash |-> t, n |-> in.n]
  BY DEF Outpoints
<1>2. view \in Views /\ Entry(t, view[t], H, S, M) /\ view[t] \in Coins
  BY <1>1 DEF Agrees, Views
<1>3. H[t] # 0 /\ view[t].outs = Unspent(t, S)
  BY <1>2 DEF Entry, Left
<1>4. CanSpend(in, H, S)
  BY <1>1, <1>3 DEF CanSpend, Unspent
<1>5. Unspent(t, S \cup {in}) = view[t].outs \ {in.n}
  BY <1>1, <1>3 DEF Unspent
<1>6. v \in Views /\ v[t] = Spend(view[t], in.n) /\ \A x \in Txids : x # t => v[x] = view[x]
  BY <1>1, <1>2, SpendInputType DEF SpendInput, Views
<1>7. Entry(t, v[t], H, S \cup {in}, M)
  <2>1. Left(t, H, S \cup {in}) = view[t].outs \ {in.n} /\ view[t].outs # {}
    BY <1>3, <1>5 DEF Left
  <2>2. view[t].nHeight = H[t] /\ FlagOf(t, view[t], M)
    BY <1>2, <2>1 DEF Entry
  <2>3. CASE view[t].outs \ {in.n} = {}
    <3>1. v[t] = Pruned
      BY <1>6, <2>3 DEF Spend, Clean
    <3>2. QED
      BY <2>1, <2>3, <3>1 DEF Entry, Pruned
  <2>4. CASE view[t].outs \ {in.n} # {}
    <3>1. v[t] = [outs |-> view[t].outs \ {in.n}, nHeight |-> view[t].nHeight, kind |-> view[t].kind]
      BY <1>6, <2>4 DEF Spend, Clean
    <3>2. QED
      BY <2>1, <2>2, <2>4, <3>1 DEF Entry, FlagOf
  <2>5. QED
    BY <2>3, <2>4
<1>8. ASSUME NEW x \in Txids, x # t PROVE Entry(x, v[x], H, S \cup {in}, M)
  <2>1. Unspent(x, S \cup {in}) = Unspent(x, S)
    BY <1>8, <1>1 DEF Unspent
  <2>2. Entry(x, view[x], H, S, M)
    BY DEF Agrees
  <2>3. QED
    BY <1>6, <1>8, <2>1, <2>2 DEF Entry, Left
<1>9. QED
  BY <1>4, <1>6, <1>7, <1>8 DEF Agrees

(* The first j inputs of tx.                                               *)
FirstInputs(tx, j) == {tx.vin[l] : l \in 1..j}

(* Inputs are outpoints.                                                   *)
LEMMA InputFacts ==
  ASSUME NEW tx \in Txs, NEW in \in Range(tx.vin)
  PROVE  in \in Outpoints /\ in.hash \in Txids
<1>1. \A j \in 1..Len(tx.vin) : tx.vin[j] \in Outpoints
  BY TxFacts
<1>2. Range(tx.vin) = {tx.vin[j] : j \in 1..Len(tx.vin)}
  BY TxFacts
<1>3. in \in Outpoints
  BY <1>1, <1>2
<1>4. QED
  BY <1>3 DEF Outpoints

(* Every transaction but a coinbase has an input.                          *)
LEMMA InputExists ==
  ASSUME NEW tx \in Txs, tx.kind # "coinbase"
  PROVE  \E in : in \in Range(tx.vin)
<1>1. tx.vin # <<>> /\ tx.vin \in Seq(Outpoints)
  BY TxFacts, BlockCoinsAssumption DEF TxType
<1>2. 1 \in 1..Len(tx.vin)
  BY <1>1
<1>3. tx.vin[1] \in Range(tx.vin)
  BY <1>2, TxFacts
<1>4. QED
  BY <1>3

(* No input is among the inputs before it.                                 *)
LEMMA FirstInputsFacts ==
  ASSUME NEW tx \in Txs
  PROVE  /\ FirstInputs(tx, 0) = {}
         /\ FirstInputs(tx, Len(tx.vin)) = Range(tx.vin)
         /\ \A j \in 1..Len(tx.vin) : /\ FirstInputs(tx, j) = FirstInputs(tx, j - 1) \cup {tx.vin[j]}
                                      /\ tx.vin[j] \notin FirstInputs(tx, j - 1)
<1>1. Len(tx.vin) \in Nat /\ Range(tx.vin) = {tx.vin[j] : j \in 1..Len(tx.vin)}
  BY TxFacts
<1>2. \A i, j \in 1..Len(tx.vin) : tx.vin[i] = tx.vin[j] => i = j
  BY TxFacts, BlockCoinsAssumption
<1>3. FirstInputs(tx, 0) = {} /\ FirstInputs(tx, Len(tx.vin)) = Range(tx.vin)
  BY <1>1 DEF FirstInputs
<1>4. ASSUME NEW j \in 1..Len(tx.vin)
      PROVE  FirstInputs(tx, j) = FirstInputs(tx, j - 1) \cup {tx.vin[j]}
  <2>1. 1..j = (1..(j - 1)) \cup {j}
    BY <1>1
  <2>2. QED
    BY <2>1 DEF FirstInputs
<1>5. ASSUME NEW j \in 1..Len(tx.vin), tx.vin[j] \in FirstInputs(tx, j - 1)
      PROVE  FALSE
  <2>1. PICK l \in 1..(j - 1) : tx.vin[j] = tx.vin[l]
    BY <1>5 DEF FirstInputs
  <2>2. l \in 1..Len(tx.vin) /\ l # j
    BY <1>1
  <2>3. QED
    BY <1>2, <2>1, <2>2
<1>6. QED
  BY <1>3, <1>4, <1>5

(* Spending the inputs of a transaction one by one.                        *)
LEMMA SpendAll ==
  ASSUME NEW H \in [Txids -> Nat], NEW S, NEW M, NEW view, Agrees(view, H, S, M),
         NEW tx \in Txs, \A in \in Range(tx.vin) : in.n \in view[in.hash].outs
  PROVE  /\ \A j \in 0..Len(tx.vin) :
              Agrees(SpendInputs(view, tx)[j], H, S \cup FirstInputs(tx, j), M)
         /\ \A in \in Range(tx.vin) : CanSpend(in, H, S)
<1> DEFINE n == Len(tx.vin)
           s == SpendInputs(view, tx)
           P == {j \in 0..n : Agrees(s[j], H, S \cup FirstInputs(tx, j), M)}
<1>1. /\ n \in Nat /\ tx \in TxType /\ \A j \in 1..n : tx.vin[j] \in Outpoints
      /\ Range(tx.vin) = {tx.vin[j] : j \in 1..n}
  BY TxFacts
<1>2. view \in Views
  BY DEF Agrees
<1>3. s[0] = view /\ \A j \in 1..n : s[j] = SpendInput(s[j - 1], tx.vin[j])
  BY <1>1, <1>2, SpendInputsIs
<1>4. ASSUME NEW j \in 1..n
      PROVE  tx.vin[j].n \in view[tx.vin[j].hash].outs /\ CanSpend(tx.vin[j], H, S)
  <2>1. tx.vin[j] \in Range(tx.vin) /\ tx.vin[j] \in Outpoints
    BY <1>1
  <2>2. QED
    BY <2>1, SpendStep
<1>5. 0 \in P
  <2>1. S \cup FirstInputs(tx, 0) = S
    BY FirstInputsFacts
  <2>2. Agrees(s[0], H, S \cup FirstInputs(tx, 0), M)
    BY <1>3, <2>1
  <2>3. 0 \in 0..n
    BY <1>1
  <2> HIDE DEF s, n
  <2>4. QED
    BY <2>2, <2>3
<1>6. ASSUME NEW j \in 1..n, j - 1 \in P PROVE j \in P
  <2> DEFINE in == tx.vin[j]
             T == S \cup FirstInputs(tx, j - 1)
  <2>1. Agrees(s[j - 1], H, T, M) /\ in \in Outpoints /\ in.hash \in Txids
    BY <1>1, <1>6 DEF Outpoints
  <2>2. CanSpend(in, H, T)
    BY <1>4, FirstInputsFacts DEF CanSpend
  <2>3. in.n \in s[j - 1][in.hash].outs
    <3>1. s[j - 1][in.hash].outs = Unspent(in.hash, T)
      BY <2>1, <2>2 DEF Agrees, Entry, Left, CanSpend
    <3>2. in = [hash |-> in.hash, n |-> in.n]
      BY <2>1 DEF Outpoints
    <3>3. QED
      BY <2>2, <3>1, <3>2 DEF Unspent, CanSpend
  <2>4. Agrees(SpendInput(s[j - 1], in), H, T \cup {in}, M)
    BY <2>1, <2>3, SpendStep
  <2>5. T \cup {in} = S \cup FirstInputs(tx, j)
    BY FirstInputsFacts
  <2>6. j \in 0..n
    BY <1>1
  <2>7. QED
    BY <1>3, <2>4, <2>5, <2>6
<1>7. 0..n \subseteq P
  <2> HIDE DEF P
  <2>1. QED
    BY <1>1, <1>5, <1>6, Climb
<1>8. QED
  BY <1>1, <1>4, <1>7

(* The undo record of an input says what it must.                          *)
UndoFor(u, in, H, S) ==
  IF Unspent(in.hash, S) = {in.n}
  THEN /\ u.nHeight = H[in.hash]
       /\ u.kind = TxOf(in.hash).kind \/ (in.hash \in Staked /\ u.kind = "plain")
  ELSE u.nHeight = 0

(* UpdateCoins records what it must.                                       *)
LEMMA UndoRecorded ==
  ASSUME NEW H \in [Txids -> Nat], NEW S, NEW M, NEW view, Agrees(view, H, S, M),
         NEW tx \in Txs, \A in \in Range(tx.vin) : in.n \in view[in.hash].outs
  PROVE  /\ TxUndo(view, tx) \in Seq([nHeight : Nat, kind : Kinds])
         /\ Len(TxUndo(view, tx)) = Len(tx.vin)
         /\ \A j \in 1..Len(tx.vin) :
              UndoFor(TxUndo(view, tx)[j], tx.vin[j], H, S \cup FirstInputs(tx, j - 1))
<1> DEFINE n == Len(tx.vin)
           s == SpendInputs(view, tx)
           U == [nHeight : Nat, kind : Kinds]
<1>1. /\ n \in Nat /\ tx \in TxType /\ \A j \in 1..n : tx.vin[j] \in Outpoints
      /\ Range(tx.vin) = {tx.vin[j] : j \in 1..n}
  BY TxFacts
<1>2. ASSUME NEW j \in 1..n
      PROVE  /\ UndoOf(s[j - 1][tx.vin[j].hash], tx.vin[j].n) \in U
             /\ UndoFor(UndoOf(s[j - 1][tx.vin[j].hash], tx.vin[j].n), tx.vin[j], H,
                        S \cup FirstInputs(tx, j - 1))
  <2> DEFINE in == tx.vin[j]
             T == S \cup FirstInputs(tx, j - 1)
             c == s[j - 1][in.hash]
  <2>1. j - 1 \in 0..n /\ in \in Outpoints /\ in.hash \in Txids /\ in \in Range(tx.vin)
    BY <1>1 DEF Outpoints
  <2>2. Agrees(s[j - 1], H, T, M) /\ CanSpend(in, H, S)
    BY <2>1, SpendAll
  <2>3. c \in Coins /\ Entry(in.hash, c, H, T, M)
    BY <2>1, <2>2 DEF Agrees, Views
  <2>4. c.outs = Unspent(in.hash, T)
    BY <2>2, <2>3 DEF Entry, Left, CanSpend
  <2> HIDE DEF c, T, in
  <2>5. UndoOf(c, in.n) \in U
    <3>1. c.nHeight \in Nat /\ c.kind \in Kinds
      BY <2>3 DEF Coins
    <3>2. 0 \in Nat /\ "plain" \in Kinds
      BY DEF Kinds
    <3>3. QED
      BY <3>1, <3>2 DEF UndoOf
  <2>6. CASE c.outs = {in.n}
    <3>1. UndoOf(c, in.n).nHeight = c.nHeight /\ UndoOf(c, in.n).kind = c.kind
      BY <2>6 DEF UndoOf
    <3>2. c.nHeight = H[in.hash] /\ FlagOf(in.hash, c, M)
      BY <2>3, <2>6 DEF Entry
    <3>3. QED
      BY <2>4, <2>5, <2>6, <3>1, <3>2, Zenon DEF UndoFor, FlagOf, c, T, in
  <2>7. CASE c.outs # {in.n}
    <3>1. UndoOf(c, in.n).nHeight = 0
      BY <2>7 DEF UndoOf
    <3>2. QED
      BY <2>4, <2>5, <2>7, <3>1 DEF UndoFor, c, T, in
  <2>8. QED
    BY <2>6, <2>7
<1> DEFINE f == [j \in 1..n |-> UndoOf(s[j - 1][tx.vin[j].hash], tx.vin[j].n)]
<1>3. f \in [1..n -> U]
  BY <1>2
<1>3a. f \in Seq(U) /\ Len(f) = n
  <2> HIDE DEF f, n, U
  <2>1. QED
    BY <1>1, <1>3
<1>4. TxUndo(view, tx) = f
  BY DEF TxUndo
<1>5. QED
  BY <1>2, <1>3, <1>3a, <1>4

(* The views that UpdateCoins makes.                                       *)
LEMMA UpdateCoinsType ==
  ASSUME NEW view \in Views, NEW tx \in Txs, NEW h \in Nat
  PROVE  UpdateCoins(view, tx, h) \in Views
<1>1. tx \in TxType /\ tx.hash \in Txids /\ tx.vout \in SUBSET Nat /\ tx.kind \in Kinds /\ Len(tx.vin) \in Nat
  BY TxFacts
<1>2. FromTx(tx, h) \in Coins
  BY <1>1 DEF FromTx, Clean, Pruned, Coins, Kinds
<1>3. SpendInputs(view, tx)[Len(tx.vin)] \in Views
  BY <1>1, SpendInputsIs
<1>4. QED
  BY <1>2, <1>3 DEF UpdateCoins, Views

(* A transaction connected: its inputs are spent and it is made at h.      *)
LEMMA ConnectOne ==
  ASSUME NEW H \in [Txids -> Nat], NEW S, NEW M, NEW view, Agrees(view, H, S, M),
         NEW tx \in Txs, NEW h \in Nat \ {0}, \A in \in Range(tx.vin) : in.n \in view[in.hash].outs,
         H[tx.hash] = 0, \A in \in S : in.hash # tx.hash
  PROVE  Agrees(UpdateCoins(view, tx, h), [H EXCEPT ![tx.hash] = h], S \cup Range(tx.vin), M)
<1> DEFINE n == Len(tx.vin)
           v == SpendInputs(view, tx)[n]
           w == UpdateCoins(view, tx, h)
           T == S \cup Range(tx.vin)
           G == [H EXCEPT ![tx.hash] = h]
           t == tx.hash
<1>1. /\ n \in Nat /\ t \in Txids /\ TxOf(t) = tx /\ n \in 0..n
      /\ tx.kind \in Kinds
  BY TxFacts
<1>2. Agrees(v, H, T, M) /\ \A in \in Range(tx.vin) : CanSpend(in, H, S)
  <2>1. /\ \A j \in 0..n : Agrees(SpendInputs(view, tx)[j], H, S \cup FirstInputs(tx, j), M)
        /\ \A in \in Range(tx.vin) : CanSpend(in, H, S)
    BY SpendAll
  <2>2. FirstInputs(tx, n) = Range(tx.vin)
    BY FirstInputsFacts
  <2>3. QED
    BY <1>1, <2>1, <2>2
<1>3. \A in \in T : in.hash # t
  BY <1>2 DEF CanSpend
<1>4. view \in Views /\ v \in Views
  BY <1>2 DEF Agrees
<1>5. w \in Views
  BY <1>4, UpdateCoinsType
<1>6. w[t] = FromTx(tx, h) /\ \A x \in Txids : x # t => w[x] = v[x]
  BY <1>1, <1>4 DEF UpdateCoins, Views
<1>7. G[t] = h /\ \A x \in Txids : x # t => G[x] = H[x]
  BY <1>1
<1>8. Unspent(t, T) = tx.vout
  BY <1>1, <1>3 DEF Unspent
<1> HIDE DEF v, w, T, G, t
<1>9. Entry(t, w[t], G, T, M)
  <2>1. Left(t, G, T) = tx.vout
    BY <1>7, <1>8 DEF Left
  <2>2. CASE tx.vout = {}
    <3>1. w[t] = Pruned
      BY <1>6, <2>2 DEF FromTx, Clean
    <3>2. QED
      BY <2>1, <2>2, <3>1 DEF Entry, Pruned
  <2>3. CASE tx.vout # {}
    <3>1. w[t] = [outs |-> tx.vout, nHeight |-> h, kind |-> tx.kind]
      BY <1>6, <2>3 DEF FromTx, Clean
    <3>2. QED
      BY <1>1, <1>7, <2>1, <2>3, <3>1 DEF Entry, FlagOf
  <2>4. QED
    BY <2>2, <2>3
<1>10. ASSUME NEW x \in Txids, x # t PROVE Entry(x, w[x], G, T, M)
  <2>1. Entry(x, v[x], H, T, M)
    BY <1>2 DEF Agrees
  <2>2. QED
    BY <1>6, <1>7, <1>10, <2>1 DEF Entry, Left
<1>11. QED
  BY <1>5, <1>9, <1>10 DEF Agrees, w, G, T

(* The views of ConnectBlock's loop.                                       *)
LEMMA ConnectTxsIs ==
  ASSUME NEW view \in Views, NEW b \in Blocks
  PROVE  /\ ConnectTxs(b, view)[0] = view
         /\ \A i \in 1..Len(Vtx[b]) :
              ConnectTxs(b, view)[i] = UpdateCoins(ConnectTxs(b, view)[i - 1], Vtx[b][i], Height[b])
<1> DEFINE n == Len(Vtx[b])
           g == [i \in 1..n |-> [v \in Views |-> UpdateCoins(v, Vtx[b][i], Height[b])]]
           s == ConnectTxs(b, view)
           Def(f) == f = [i \in 0..n |-> IF i = 0 THEN view ELSE UpdateCoins(f[i - 1], Vtx[b][i], Height[b])]
<1>1. n \in Nat /\ Height[b] \in Nat /\ \A i \in 1..n : Vtx[b][i] \in Txs
  BY BlockFacts
<1>2. s = CHOOSE f : Def(f)
  BY DEF ConnectTxs
<1>3. g \in Bodies(n, Views)
  <2>1. \A i \in 1..n : \A v \in Views : UpdateCoins(v, Vtx[b][i], Height[b]) \in Views
    BY <1>1, UpdateCoinsType
  <2>2. QED
    BY <2>1 DEF Bodies
<1>4. \A f : \A i \in 1..n : f[i - 1] \in Views => g[i][f[i - 1]] = UpdateCoins(f[i - 1], Vtx[b][i], Height[b])
  OBVIOUS
<1> HIDE DEF g, n, s
<1>5. PICK f \in Runs(n, Views) : IsRun(f, n, view, g)
  BY <1>1, <1>3, LoopExists
<1>6. Def(f)
  <2>1. \A i \in 0..n : f[i] = IF i = 0 THEN view ELSE UpdateCoins(f[i - 1], Vtx[b][i], Height[b])
    BY <1>1, <1>4, <1>5 DEF Runs, IsRun
  <2>2. QED
    BY <1>5, <2>1 DEF Runs
<1>7. Def(s)
  <2> HIDE DEF Def
  <2>1. QED
    BY <1>2, <1>6
<1>8. \A i \in 0..n : s[i] = IF i = 0 THEN view ELSE UpdateCoins(s[i - 1], Vtx[b][i], Height[b])
  BY <1>7
<1>9. QED
  BY <1>1, <1>8 DEF s, n

-----------------------------------------------------------------------------
(* The chain to b: the heights at which its transactions were made, and    *)
(* the same in the middle of connecting b, after i transactions.           *)
HeightsTo(b) == [t \in Txids |-> IF t \in Made(b) THEN MadeAt(b, t) ELSE 0]

FirstTxids(b, i) == {Vtx[b][k].hash : k \in 1..i}
HeightsAt(b, i) ==
  [t \in Txids |-> IF t \in FirstTxids(b, i) THEN Height[b] ELSE HeightsTo(Prev[b])[t]]
SpentAt(b, i) == SpentBy(Prev[b]) \cup UNION {Range(Vtx[b][k].vin) : k \in 1..i}

(* The chain to b is the chain to its parent and b.                        *)
LEMMA ChainFacts ==
  /\ ChainTo(Genesis) = {}
  /\ \A b \in Index : ChainTo(b) \subseteq Blocks
  /\ \A b \in Blocks : /\ ChainTo(b) = ChainTo(Prev[b]) \cup {b} /\ b \notin ChainTo(Prev[b])
                       /\ b \in ChainTo(b)
<1>1. ChainTo(Genesis) = {}
  BY AncestorsGenesis DEF ChainTo
<1>2. \A b \in Index : ChainTo(b) \subseteq Blocks
  BY AncestorsSelf DEF ChainTo, Index
<1>3. ASSUME NEW b \in Blocks
      PROVE  ChainTo(b) = ChainTo(Prev[b]) \cup {b} /\ b \notin ChainTo(Prev[b])
  BY AncestorsStep, AncestorsOfParent DEF ChainTo
<1>4. QED
  BY <1>1, <1>2, <1>3

(* A transaction of a chain is one of Txs, made at a height above genesis. *)
LEMMA MadeFacts ==
  ASSUME NEW b \in Index
  PROVE  /\ HeightsTo(b) \in [Txids -> Nat]
         /\ \A t \in Txids : HeightsTo(b)[t] # 0 <=> t \in Made(b)
         /\ \A t \in Made(b) : t \in Txids /\ \E x \in ChainTo(b) : \E tx \in Range(Vtx[x]) : tx \in Txs /\ tx.hash = t
<1>1. ASSUME NEW t \in Made(b)
      PROVE  /\ MadeAt(b, t) \in Nat \ {0} /\ t \in Txids
             /\ \E x \in ChainTo(b) : \E tx \in Range(Vtx[x]) : tx \in Txs /\ tx.hash = t
  <2>1. \E x \in ChainTo(b) : t \in TxidsOf(x)
    BY <1>1 DEF Made
  <2>2. PICK x \in ChainTo(b) : t \in TxidsOf(x) /\ MadeAt(b, t) = Height[x]
    BY <2>1 DEF MadeAt
  <2>3. x \in Blocks
    BY ChainFacts
  <2>4. PICK tx \in Range(Vtx[x]) : tx.hash = t
    BY <2>2 DEF TxidsOf
  <2>5. tx \in Txs
    BY <2>3 DEF Txs
  <2>6. t \in Txids
    BY <2>4, <2>5, TxFacts
  <2>7. Height[x] \in Nat \ {0}
    BY <2>3, BlockFacts
  <2>8. QED
    BY <2>2, <2>4, <2>5, <2>6, <2>7
<1>2. HeightsTo(b) \in [Txids -> Nat]
  BY <1>1 DEF HeightsTo
<1>3. \A t \in Txids : HeightsTo(b)[t] # 0 <=> t \in Made(b)
  BY <1>1 DEF HeightsTo
<1>4. QED
  BY <1>1, <1>2, <1>3

(* What the chain makes and spends, block by block.                        *)
LEMMA MadeStep ==
  /\ Made(Genesis) = {} /\ SpentBy(Genesis) = {} /\ HeightsTo(Genesis) = [t \in Txids |-> 0]
  /\ \A b \in Blocks : /\ Made(b) = Made(Prev[b]) \cup TxidsOf(b)
                       /\ SpentBy(b) = SpentBy(Prev[b]) \cup Spends(b)
<1>1. Made(Genesis) = {} /\ SpentBy(Genesis) = {}
  BY ChainFacts DEF Made, SpentBy
<1>2. HeightsTo(Genesis) = [t \in Txids |-> 0]
  BY <1>1 DEF HeightsTo
<1>3. ASSUME NEW b \in Blocks
      PROVE  Made(b) = Made(Prev[b]) \cup TxidsOf(b) /\ SpentBy(b) = SpentBy(Prev[b]) \cup Spends(b)
  <2>1. ChainTo(b) = ChainTo(Prev[b]) \cup {b}
    BY ChainFacts
  <2>2. QED
    BY <2>1 DEF Made, SpentBy
<1>4. QED
  BY <1>1, <1>2, <1>3

(* The heights and the spent outpoints between the chain to the parent and *)
(* the chain to b, transaction by transaction.                             *)
LEMMA AtFacts ==
  ASSUME NEW b \in Blocks
  PROVE  /\ \A i \in 0..Len(Vtx[b]) : HeightsAt(b, i) \in [Txids -> Nat]
         /\ HeightsAt(b, 0) = HeightsTo(Prev[b]) /\ SpentAt(b, 0) = SpentBy(Prev[b])
         /\ SpentAt(b, Len(Vtx[b])) = SpentBy(b)
         /\ \A i \in 1..Len(Vtx[b]) :
              /\ HeightsAt(b, i) = [HeightsAt(b, i - 1) EXCEPT ![Vtx[b][i].hash] = Height[b]]
              /\ SpentAt(b, i) = SpentAt(b, i - 1) \cup Range(Vtx[b][i].vin)
<1> DEFINE n == Len(Vtx[b])
<1>1. n \in Nat /\ Height[b] \in Nat /\ Prev[b] \in Index /\ HeightsTo(Prev[b]) \in [Txids -> Nat]
  BY BlockFacts, MadeFacts
<1>2. \A i \in 0..n : HeightsAt(b, i) \in [Txids -> Nat]
  BY <1>1 DEF HeightsAt
<1>3. FirstTxids(b, 0) = {} /\ SpentAt(b, 0) = SpentBy(Prev[b])
  BY DEF FirstTxids, SpentAt
<1>4. HeightsAt(b, 0) = HeightsTo(Prev[b])
  BY <1>1, <1>3 DEF HeightsAt
<1>5. SpentAt(b, n) = SpentBy(b)
  BY BlockFacts, MadeStep DEF SpentAt
<1>6. ASSUME NEW i \in 1..n
      PROVE  /\ HeightsAt(b, i) = [HeightsAt(b, i - 1) EXCEPT ![Vtx[b][i].hash] = Height[b]]
             /\ SpentAt(b, i) = SpentAt(b, i - 1) \cup Range(Vtx[b][i].vin)
  <2>1. 1..i = (1..(i - 1)) \cup {i}
    BY <1>1
  <2>2. FirstTxids(b, i) = FirstTxids(b, i - 1) \cup {Vtx[b][i].hash}
    BY <2>1 DEF FirstTxids
  <2>3. SpentAt(b, i) = SpentAt(b, i - 1) \cup Range(Vtx[b][i].vin)
    BY <2>1 DEF SpentAt
  <2>4. HeightsAt(b, i) = [HeightsAt(b, i - 1) EXCEPT ![Vtx[b][i].hash] = Height[b]]
    BY <2>2 DEF HeightsAt
  <2>5. QED
    BY <2>3, <2>4
<1>7. QED
  BY <1>2, <1>3, <1>4, <1>5, <1>6

(* What ConnectBlock establishes of the i-th transaction of b: it is not   *)
(* on the chain yet, its inputs are there and unspent, and none is of a    *)
(* coinstake of b itself.                                                  *)
SoundTx(b, i) ==
  /\ HeightsAt(b, i - 1)[Vtx[b][i].hash] = 0
  /\ \A in \in Range(Vtx[b][i].vin) :
       /\ CanSpend(in, HeightsAt(b, i - 1), SpentAt(b, i - 1))
       /\ in.hash \in Staked => in.hash \notin FirstTxids(b, i - 1)

(* The chain to b spends only what it has made.                            *)
SpentIsMade(b) == \A in \in SpentBy(b) : in.hash \in Made(b)

(* Every transaction of b connects.                                        *)
Sound(b) == SpentIsMade(Prev[b]) /\ \A i \in 1..Len(Vtx[b]) : SoundTx(b, i)

(* What is spent before turn i + 1 has been made before.                   *)
LEMMA SpentIsMadeAt ==
  ASSUME NEW b \in Blocks, SpentIsMade(Prev[b]), NEW i \in 0..Len(Vtx[b]),
         \A k \in 1..i : SoundTx(b, k), NEW in \in SpentAt(b, i)
  PROVE  in \in Outpoints /\ in.hash \in Txids /\ HeightsAt(b, i)[in.hash] # 0
<1>1. /\ Len(Vtx[b]) \in Nat /\ Height[b] \in Nat \ {0} /\ Prev[b] \in Index
      /\ \A k \in 1..Len(Vtx[b]) : Vtx[b][k] \in Txs
  BY BlockFacts
<1>2. CASE in \in SpentBy(Prev[b])
  <2>1. in.hash \in Made(Prev[b]) /\ in.hash \in Txids /\ HeightsTo(Prev[b])[in.hash] # 0
    BY <1>1, <1>2, MadeFacts DEF SpentIsMade
  <2>2. PICK x \in ChainTo(Prev[b]) : in \in Spends(x)
    BY <1>2 DEF SpentBy
  <2>3. x \in Blocks
    BY <1>1, ChainFacts
  <2>4. PICK tx \in Range(Vtx[x]) : in \in Range(tx.vin)
    BY <2>2 DEF Spends
  <2>5. tx \in Txs
    BY <2>3, <2>4 DEF Txs
  <2>6. in \in Outpoints
    BY <2>4, <2>5, InputFacts
  <2>7. QED
    BY <1>1, <2>1, <2>6 DEF HeightsAt
<1>3. CASE in \notin SpentBy(Prev[b])
  <2>1. PICK k \in 1..i : in \in Range(Vtx[b][k].vin)
    BY <1>3 DEF SpentAt
  <2>2. k \in 1..Len(Vtx[b]) /\ FirstTxids(b, k - 1) \subseteq FirstTxids(b, i)
    BY <1>1 DEF FirstTxids
  <2>3. in \in Outpoints /\ in.hash \in Txids
    BY <1>1, <2>1, <2>2, InputFacts
  <2>4. HeightsAt(b, k - 1)[in.hash] # 0
    BY <2>1 DEF SoundTx, CanSpend
  <2>5. QED
    BY <1>1, <2>2, <2>3, <2>4 DEF HeightsAt
<1>4. QED
  BY <1>2, <1>3

(* No transaction of a sound block is on the chain below it, and the       *)
(* heights after its last transaction are those of the chain to it.        *)
LEMMA SoundFacts ==
  ASSUME NEW b \in Blocks, Sound(b)
  PROVE  /\ TxidsOf(b) \cap Made(Prev[b]) = {}
         /\ Spends(b) \cap SpentBy(Prev[b]) = {}
         /\ HeightsAt(b, Len(Vtx[b])) = HeightsTo(b)
         /\ SpentIsMade(b)
         /\ \A in \in Spends(b) : in.hash \in Staked => in.hash \notin TxidsOf(b)
<1> DEFINE n == Len(Vtx[b])
<1>1. /\ n \in Nat /\ n \in 0..n /\ Height[b] \in Nat \ {0} /\ Prev[b] \in Index /\ b \in Index
      /\ \A k \in 1..n : Vtx[b][k] \in Txs /\ Vtx[b][k].hash \in Txids
      /\ TxidsOf(b) = FirstTxids(b, n)
  BY BlockFacts, TxFacts DEF FirstTxids
<1>2. ASSUME NEW t \in TxidsOf(b), t \in Made(Prev[b]) PROVE FALSE
  <2>1. PICK k \in 1..n : t = Vtx[b][k].hash
    BY <1>1 DEF FirstTxids
  <2>2. HeightsAt(b, k - 1)[t] = 0 /\ t \in Txids
    BY <1>1, <2>1 DEF Sound, SoundTx
  <2>3. HeightsTo(Prev[b])[t] # 0
    BY <1>1, <1>2, <2>2, MadeFacts
  <2>4. QED
    BY <1>1, <2>2, <2>3 DEF HeightsAt
<1>3. ASSUME NEW in \in Spends(b), in \in SpentBy(Prev[b]) PROVE FALSE
  <2>1. PICK k \in 1..n : in \in Range(Vtx[b][k].vin)
    BY BlockFacts
  <2>2. in \notin SpentAt(b, k - 1)
    BY <2>1 DEF Sound, SoundTx, CanSpend
  <2>3. QED
    BY <1>3, <2>2 DEF SpentAt
<1>4. ASSUME NEW t \in Txids PROVE HeightsAt(b, n)[t] = HeightsTo(b)[t]
  <2>1. Made(b) = Made(Prev[b]) \cup TxidsOf(b) /\ ChainTo(b) = ChainTo(Prev[b]) \cup {b}
    BY MadeStep, ChainFacts
  <2>2. CASE t \in TxidsOf(b)
    <3>1. \A x \in ChainTo(b) : t \in TxidsOf(x) <=> x = b
      BY <1>2, <2>1, <2>2 DEF Made
    <3>2. MadeAt(b, t) = Height[b]
      <4>1. b \in ChainTo(b)
        BY <2>1
      <4>2. QED
        BY <3>1, <4>1 DEF MadeAt
    <3>3. QED
      BY <1>1, <2>1, <2>2, <3>2 DEF HeightsAt, HeightsTo
  <2>3. CASE t \notin TxidsOf(b)
    <3>1. \A x : x \in ChainTo(b) /\ t \in TxidsOf(x) <=> x \in ChainTo(Prev[b]) /\ t \in TxidsOf(x)
      BY <2>1, <2>3
    <3>2. (CHOOSE x \in ChainTo(b) : t \in TxidsOf(x)) = (CHOOSE x \in ChainTo(Prev[b]) : t \in TxidsOf(x))
      BY <3>1, Zenon
    <3>3. MadeAt(b, t) = MadeAt(Prev[b], t)
      BY <3>2 DEF MadeAt
    <3>4. QED
      BY <1>1, <2>1, <2>3, <3>3 DEF HeightsAt, HeightsTo
  <2>4. QED
    BY <2>2, <2>3
<1>5. HeightsAt(b, n) = HeightsTo(b)
  BY <1>4 DEF HeightsAt, HeightsTo
<1>6. SpentIsMade(b)
  <2> SUFFICES ASSUME NEW in \in SpentBy(b) PROVE in.hash \in Made(b)
    BY DEF SpentIsMade
  <2>1. in \in SpentAt(b, n)
    BY AtFacts
  <2>2. in.hash \in Txids /\ HeightsAt(b, n)[in.hash] # 0
    BY <1>1, <2>1, SpentIsMadeAt DEF Sound
  <2>3. QED
    BY <1>1, <1>5, <2>2, MadeFacts
<1>7. ASSUME NEW in \in Spends(b), in.hash \in Staked, in.hash \in TxidsOf(b) PROVE FALSE
  <2>1. PICK k \in 1..n : in \in Range(Vtx[b][k].vin)
    BY BlockFacts
  <2>2. HeightsAt(b, k - 1)[in.hash] # 0 /\ in.hash \notin FirstTxids(b, k - 1)
    BY <1>7, <2>1 DEF Sound, SoundTx, CanSpend
  <2>3. in.hash \in Txids
    BY <1>1, <1>7 DEF FirstTxids
  <2>4. HeightsTo(Prev[b])[in.hash] # 0
    BY <2>2, <2>3 DEF HeightsAt
  <2>5. in.hash \in Made(Prev[b])
    BY <1>1, <2>3, <2>4, MadeFacts
  <2>6. QED
    BY <1>2, <1>7, <2>5
<1>8. QED
  BY <1>2, <1>3, <1>5, <1>6, <1>7

(* No transaction comes twice: the coinbases by their heights, any other   *)
(* because its inputs are gone.                                            *)
LEMMA NotMadeTwice ==
  ASSUME NEW b \in Blocks, NEW i \in 1..Len(Vtx[b]),
         \A in \in Range(Vtx[b][i].vin) : in \notin SpentAt(b, i - 1)
  PROVE  HeightsAt(b, i - 1)[Vtx[b][i].hash] = 0
<1> DEFINE tx == Vtx[b][i]
<1>1. /\ Prev[b] \in Index /\ tx \in Txs /\ tx.hash \in Txids /\ Len(Vtx[b]) \in Nat
      /\ \A k \in 1..Len(Vtx[b]) : Vtx[b][k] \in Txs
      /\ tx.kind = "coinbase" <=> i = 1
  BY BlockFacts, TxFacts, BlockCoinsAssumption
<1>2. ASSUME tx.hash \in FirstTxids(b, i - 1) PROVE FALSE
  <2>1. PICK k \in 1..(i - 1) : Vtx[b][k].hash = tx.hash
    BY <1>2 DEF FirstTxids
  <2>2. k \in 1..Len(Vtx[b]) /\ i # 1
    BY <1>1
  <2>3. Vtx[b][k] = tx
    BY <1>1, <2>1, <2>2, BlockCoinsAssumption
  <2>4. Range(tx.vin) \subseteq SpentAt(b, i - 1)
    BY <2>3 DEF SpentAt
  <2>5. \E in : in \in Range(tx.vin)
    BY <1>1, <2>2, InputExists
  <2>6. QED
    BY <2>4, <2>5
<1>3. ASSUME tx.hash \in Made(Prev[b]) PROVE FALSE
  <2>1. PICK x \in ChainTo(Prev[b]) : \E y \in Range(Vtx[x]) : y \in Txs /\ y.hash = tx.hash
    BY <1>1, <1>3, MadeFacts
  <2>2. tx \in Range(Vtx[x]) /\ x \in Blocks
    BY <1>1, <2>1, ChainFacts, BlockCoinsAssumption
  <2>3. CASE i = 1
    <3>1. PICK k \in 1..Len(Vtx[x]) : tx = Vtx[x][k]
      <4>1. Range(Vtx[x]) = {Vtx[x][k] : k \in 1..Len(Vtx[x])}
        BY <2>2, BlockFacts
      <4>2. QED
        BY <2>2, <4>1
    <3>2. k \in DOMAIN Vtx[x]
      BY <2>2, BlockFacts
    <3>3. k = 1
      BY <1>1, <2>2, <2>3, <3>1, <3>2, BlockCoinsAssumption
    <3>4. QED
      BY <2>1, <2>3, <3>1, <3>3, BlockCoinsAssumption
  <2>4. CASE i # 1
    <3>2. \E in : in \in Range(tx.vin)
      BY <1>1, <2>4, InputExists
    <3>3. Range(tx.vin) \subseteq SpentBy(Prev[b])
      BY <2>1, <2>2 DEF SpentBy, Spends
    <3>4. QED
      BY <3>2, <3>3 DEF SpentAt
  <2>5. QED
    BY <2>3, <2>4
<1>4. HeightsTo(Prev[b])[tx.hash] = 0
  BY <1>1, <1>3, MadeFacts
<1>5. QED
  BY <1>1, <1>2, <1>4 DEF HeightsAt

(* ConnectBlock: when every turn finds its inputs, the views follow the    *)
(* chain, and the block is sound.                                          *)
LEMMA ConnectAll ==
  ASSUME NEW b \in Blocks, NEW view, NEW M \in SUBSET Made(Prev[b]),
         Agrees(view, HeightsTo(Prev[b]), SpentBy(Prev[b]), M),
         SpentIsMade(Prev[b]), Connects(b, view)
  PROVE  /\ Sound(b)
         /\ \A i \in 0..Len(Vtx[b]) :
              Agrees(ConnectTxs(b, view)[i], HeightsAt(b, i), SpentAt(b, i), M)
<1> DEFINE n == Len(Vtx[b])
           s == ConnectTxs(b, view)
           P == {i \in 0..n : /\ Agrees(s[i], HeightsAt(b, i), SpentAt(b, i), M)
                              /\ \A k \in 1..i : SoundTx(b, k)}
<1>1. /\ n \in Nat /\ n \in 0..n /\ Height[b] \in Nat \ {0} /\ Prev[b] \in Index
      /\ \A k \in 1..n : Vtx[b][k] \in Txs
  BY BlockFacts
<1>2. s[0] = view /\ \A i \in 1..n : s[i] = UpdateCoins(s[i - 1], Vtx[b][i], Height[b])
  BY ConnectTxsIs DEF Agrees
<1>3. 0 \in P
  <2>1. Agrees(s[0], HeightsAt(b, 0), SpentAt(b, 0), M)
    BY <1>2, AtFacts
  <2>2. 0 \in 0..n /\ \A k \in 1..0 : SoundTx(b, k)
    BY <1>1
  <2> HIDE DEF s, n
  <2>3. QED
    BY <2>1, <2>2
<1>4. ASSUME NEW i \in 1..n, i - 1 \in P PROVE i \in P
  <2> DEFINE tx == Vtx[b][i]
             H == HeightsAt(b, i - 1)
             S == SpentAt(b, i - 1)
             v == s[i - 1]
  <2>1. i - 1 \in 0..n /\ Agrees(v, H, S, M) /\ H \in [Txids -> Nat] /\ \A k \in 1..(i - 1) : SoundTx(b, k)
    BY <1>1, <1>4, AtFacts
  <2>2. tx \in Txs /\ tx.hash \in Txids
    BY <1>1, TxFacts
  <2>3. ASSUME NEW in \in Range(tx.vin)
        PROVE  /\ in.n \in v[in.hash].outs
               /\ v[in.hash].kind # "plain" => Height[b] - v[in.hash].nHeight >= Maturity
    BY DEF Connects, InputsSpendable
  <2>4. \A in \in Range(tx.vin) : CanSpend(in, H, S)
    <3> HIDE DEF tx, H, S, v
    <3>1. QED
      BY <2>1, <2>2, <2>3, SpendAll
  <2>5. H[tx.hash] = 0
    BY <2>4, NotMadeTwice DEF CanSpend
  <2>6. ASSUME NEW in \in Range(tx.vin), in.hash \in Staked, in.hash \in FirstTxids(b, i - 1) PROVE FALSE
    <3> DEFINE t == in.hash
    <3>1. in.n \in v[t].outs /\ t \in Txids
      BY <2>2, <2>3, InputFacts
    <3>2. v[t].nHeight = H[t] /\ FlagOf(t, v[t], M)
      BY <2>1, <3>1 DEF Agrees, Entry
    <3>3. H[t] = Height[b]
      BY <2>6, <3>1 DEF HeightsAt
    <3>4. PICK k \in 1..(i - 1) : Vtx[b][k].hash = t
      BY <2>6 DEF FirstTxids
    <3>5. t \notin M
      <4>1. HeightsAt(b, k - 1)[t] = 0
        BY <2>1, <3>4 DEF SoundTx
      <4>2. HeightsTo(Prev[b])[t] = 0
        BY <1>1, <3>1, <4>1 DEF HeightsAt
      <4>3. QED
        BY <1>1, <3>1, <4>2, MadeFacts
    <3>6. TxOf(t).kind = "coinstake"
      <4>1. PICK y \in Txs : y.kind = "coinstake" /\ y.hash = t
        BY <2>6 DEF Staked
      <4>2. QED
        BY <4>1, TxFacts
    <3>7. v[t].kind = "coinstake"
      BY <3>2, <3>5, <3>6 DEF FlagOf
    <3>8. Height[b] - Height[b] >= Maturity
      BY <2>3, <3>2, <3>3, <3>7
    <3>9. QED
      BY <1>1, <3>8, BlockCoinsAssumption
  <2>7. SoundTx(b, i)
    BY <2>4, <2>5, <2>6 DEF SoundTx
  <2>8. Agrees(s[i], HeightsAt(b, i), SpentAt(b, i), M)
    <3>1. \A in \in S : in.hash # tx.hash
      BY <2>1, <2>5, SpentIsMadeAt
    <3>2. s[i] = UpdateCoins(v, tx, Height[b])
      BY <1>2
    <3>3. HeightsAt(b, i) = [H EXCEPT ![tx.hash] = Height[b]] /\ SpentAt(b, i) = S \cup Range(tx.vin)
      BY AtFacts
    <3>4. \A in \in Range(tx.vin) : in.n \in v[in.hash].outs
      BY <2>3
    <3> HIDE DEF s, v, tx, H, S
    <3>5. Agrees(UpdateCoins(v, tx, Height[b]), [H EXCEPT ![tx.hash] = Height[b]], S \cup Range(tx.vin), M)
      BY <1>1, <2>1, <2>2, <2>5, <3>1, <3>4, ConnectOne
    <3>6. QED
      BY <3>2, <3>3, <3>5
  <2>9. \A k \in 1..i : SoundTx(b, k)
    BY <1>1, <2>1, <2>7
  <2>10. i \in 0..n
    BY <1>1
  <2> HIDE DEF s, n
  <2>11. QED
    BY <2>8, <2>9, <2>10
<1>5. 0..n \subseteq P
  <2> HIDE DEF P
  <2>1. QED
    BY <1>1, <1>3, <1>4, Climb
<1>6. QED
  BY <1>1, <1>5 DEF Sound

-----------------------------------------------------------------------------
(* The records of b say what must be put back.                             *)
Records == [nHeight : Nat, kind : Kinds]
UndoRight(b, recs) ==
  \A i \in 1..Len(Vtx[b]) : \A j \in 1..Len(Vtx[b][i].vin) :
    UndoFor(recs[i][j], Vtx[b][i].vin[j], HeightsAt(b, i - 1),
            SpentAt(b, i - 1) \cup FirstInputs(Vtx[b][i], j - 1))

(* They have the shape of b.                                               *)
UndoShape(b, recs) ==
  /\ recs \in Seq(Seq(Records)) /\ Len(recs) = Len(Vtx[b])
  /\ \A i \in 1..Len(Vtx[b]) : Len(recs[i]) = Len(Vtx[b][i].vin)

(* ConnectBlock leaves such records.                                       *)
LEMMA BlockUndoRecorded ==
  ASSUME NEW b \in Blocks, NEW view, NEW M \in SUBSET Made(Prev[b]),
         Agrees(view, HeightsTo(Prev[b]), SpentBy(Prev[b]), M),
         SpentIsMade(Prev[b]), Connects(b, view)
  PROVE  /\ UndoShape(b, BlockUndo(b, view)) /\ UndoRight(b, BlockUndo(b, view))
         /\ BlockUndo(b, view) # NoUndo
<1> DEFINE n == Len(Vtx[b])
           s == ConnectTxs(b, view)
           f == [i \in 1..n |-> TxUndo(s[i - 1], Vtx[b][i])]
<1>1. n \in Nat \ {0} /\ \A k \in 1..n : Vtx[b][k] \in Txs
  BY BlockFacts
<1>2. ASSUME NEW i \in 1..n
      PROVE  /\ f[i] \in Seq(Records) /\ Len(f[i]) = Len(Vtx[b][i].vin)
             /\ \A j \in 1..Len(Vtx[b][i].vin) :
                  UndoFor(f[i][j], Vtx[b][i].vin[j], HeightsAt(b, i - 1),
                          SpentAt(b, i - 1) \cup FirstInputs(Vtx[b][i], j - 1))
  <2> DEFINE tx == Vtx[b][i]
             H == HeightsAt(b, i - 1)
             S == SpentAt(b, i - 1)
             v == s[i - 1]
  <2>1. i - 1 \in 0..n /\ tx \in Txs
    BY <1>1
  <2>2. Agrees(v, H, S, M) /\ H \in [Txids -> Nat]
    BY <2>1, ConnectAll, AtFacts
  <2>3. \A in \in Range(tx.vin) : in.n \in v[in.hash].outs
    BY DEF Connects, InputsSpendable
  <2>4. f[i] = TxUndo(v, tx)
    OBVIOUS
  <2> HIDE DEF tx, H, S, v
  <2>5. /\ TxUndo(v, tx) \in Seq(Records) /\ Len(TxUndo(v, tx)) = Len(tx.vin)
        /\ \A j \in 1..Len(tx.vin) : UndoFor(TxUndo(v, tx)[j], tx.vin[j], H, S \cup FirstInputs(tx, j - 1))
    BY <2>1, <2>2, <2>3, UndoRecorded DEF Records
  <2>6. QED
    BY <2>4, <2>5 DEF tx, H, S
<1>3. BlockUndo(b, view) = f
  BY DEF BlockUndo
<1>4. f \in [1..n -> Seq(Records)]
  <2>1. \A i \in 1..n : f[i] \in Seq(Records)
    BY <1>2
  <2>2. QED
    BY <2>1
<1> HIDE DEF f
<1>5. f \in Seq(Seq(Records)) /\ Len(f) = n
  <2> HIDE DEF n
  <2>1. QED
    BY <1>1, <1>4
<1>6. f # <<>>
  BY <1>1, <1>5
<1>7. QED
  BY <1>2, <1>3, <1>5, <1>6 DEF UndoShape, UndoRight, NoUndo

-----------------------------------------------------------------------------
(* The views of DisconnectBlock's inner loop keep the types ...            *)
LEMMA RestoreInputType ==
  ASSUME NEW v \in Views, NEW in \in Outpoints, NEW u \in Records
  PROVE  RestoreInput(v, in, u) \in Views
<1> DEFINE c == IF u.nHeight # 0 THEN Restored(u) ELSE v[in.hash]
<1>1. in.hash \in Txids /\ in.n \in Nat
  BY DEF Outpoints
<1>2. Restored(u) \in Coins /\ v[in.hash] \in Coins
  BY <1>1 DEF Restored, Records, Coins, Kinds, Views
<1>3. c \in Coins
  BY <1>2
<1> HIDE DEF c
<1>4. Unspend(c, in.n) \in Coins
  BY <1>1, <1>3 DEF Unspend, Coins
<1>5. RestoreInput(v, in, u) = [v EXCEPT ![in.hash] = Unspend(c, in.n)]
  BY DEF RestoreInput, c
<1>6. QED
  BY <1>1, <1>4, <1>5 DEF Views

(* ... turn by turn.                                                       *)
LEMMA RestoreInputsIs ==
  ASSUME NEW view \in Views, NEW tx \in TxType, NEW recs \in Seq(Records), Len(recs) = Len(tx.vin)
  PROVE  /\ RestoreInputs(view, tx, recs)[0] = view
         /\ \A k \in 1..Len(tx.vin) :
              LET j == Len(tx.vin) + 1 - k
              IN  RestoreInputs(view, tx, recs)[k] =
                    RestoreInput(RestoreInputs(view, tx, recs)[k - 1], tx.vin[j], recs[j])
         /\ RestoreInputs(view, tx, recs)[Len(tx.vin)] \in Views
<1> DEFINE n == Len(tx.vin)
           B(v, k) == RestoreInput(v, tx.vin[n + 1 - k], recs[n + 1 - k])
           g == [k \in 1..n |-> [v \in Views |-> B(v, k)]]
           s == RestoreInputs(view, tx, recs)
           Def(f) == f = [k \in 0..n |-> IF k = 0 THEN view ELSE B(f[k - 1], k)]
<1>1. n \in Nat /\ n \in 0..n /\ \A j \in 1..n : tx.vin[j] \in Outpoints /\ recs[j] \in Records
  BY DEF TxType
<1>2. s = CHOOSE f : Def(f)
  BY DEF RestoreInputs, Backwards
<1>3. \A k \in 1..n : \A v \in Views : B(v, k) \in Views
  <2> TAKE k \in 1..n
  <2>1. n + 1 - k \in 1..n
    BY <1>1
  <2>2. QED
    BY <1>1, <2>1, RestoreInputType
<1>4. g \in Bodies(n, Views)
  BY <1>3 DEF Bodies
<1>5. \A f : \A k \in 1..n : f[k - 1] \in Views => g[k][f[k - 1]] = B(f[k - 1], k)
  OBVIOUS
<1> HIDE DEF g, n, s, B
<1>6. PICK f \in Runs(n, Views) : IsRun(f, n, view, g)
  BY <1>1, <1>4, LoopExists
<1>7. Def(f)
  <2>1. \A k \in 0..n : f[k] = IF k = 0 THEN view ELSE B(f[k - 1], k)
    <3>1. f[0] = view /\ \A k \in 1..n : f[k] = g[k][f[k - 1]]
      BY <1>6 DEF IsRun
    <3>2. \A k \in 1..n : f[k - 1] \in Views
      BY <1>1, <1>6 DEF Runs
    <3>3. \A k \in 1..n : f[k] = B(f[k - 1], k)
      BY <1>5, <3>1, <3>2
    <3>4. QED
      BY <1>1, <3>1, <3>3
  <2>2. QED
    BY <1>6, <2>1 DEF Runs
<1>8. Def(s)
  <2> HIDE DEF Def
  <2>1. QED
    BY <1>2, <1>7
<1>9. s[0] = view /\ \A k \in 1..n : s[k] = B(s[k - 1], k)
  <2>1. \A k \in 0..n : s[k] = IF k = 0 THEN view ELSE B(s[k - 1], k)
    BY <1>8
  <2>2. QED
    BY <1>1, <2>1
<1> DEFINE P == {k \in 0..n : s[k] \in Views}
<1>10. 0 \in P /\ \A k \in 1..n : k - 1 \in P => k \in P
  BY <1>1, <1>3, <1>9
<1>11. 0..n \subseteq P
  <2> HIDE DEF P
  <2>1. QED
    BY <1>1, <1>10, Climb
<1>12. QED
  BY <1>1, <1>9, <1>11 DEF s, n, B

(* Putting one output back.  A coinstake that was spent out has lost its   *)
(* flag then.                                                              *)
LEMMA RestoreStep ==
  ASSUME NEW H \in [Txids -> Nat], NEW S, NEW M, NEW view, NEW in \in Outpoints,
         Agrees(view, H, S \cup {in}, M), CanSpend(in, H, S), NEW u \in Records, UndoFor(u, in, H, S),
         \E tx \in Txs : tx.hash = in.hash,
         in.hash \in Staked /\ Unspent(in.hash, S \cup {in}) = {} => in.hash \in M
  PROVE  /\ Agrees(RestoreInput(view, in, u), H, S, M)
         /\ InputRestores(view, in, u)
<1> DEFINE t == in.hash
           v == RestoreInput(view, in, u)
           T == S \cup {in}
<1>1. t \in Txids /\ in.n \in Nat /\ in = [hash |-> t, n |-> in.n] /\ H[t] # 0
  BY DEF Outpoints, CanSpend
<1>2. view \in Views /\ Entry(t, view[t], H, T, M) /\ view[t] \in Coins
  BY <1>1 DEF Agrees, Views
<1>3. view[t].outs = Unspent(t, T)
  BY <1>1, <1>2 DEF Entry, Left
<1>4. Unspent(t, S) = view[t].outs \cup {in.n} /\ in.n \notin view[t].outs
  BY <1>1, <1>3 DEF CanSpend, Unspent
<1>5. u.nHeight # 0 <=> view[t].outs = {}
  BY <1>1, <1>4 DEF UndoFor
<1>6. InputRestores(view, in, u)
  BY <1>4, <1>5 DEF InputRestores
<1>7. v \in Views /\ v[t] = Unspend(IF u.nHeight # 0 THEN Restored(u) ELSE view[t], in.n)
      /\ \A x \in Txids : x # t => v[x] = view[x]
  BY <1>1, <1>2, RestoreInputType DEF RestoreInput, Views
<1> HIDE DEF v
<1>8. Left(t, H, S) = view[t].outs \cup {in.n}
  BY <1>1, <1>4 DEF Left
<1>9. Entry(t, v[t], H, S, M)
  <2>1. CASE view[t].outs # {}
    <3>1. v[t] = [outs |-> view[t].outs \cup {in.n}, nHeight |-> view[t].nHeight, kind |-> view[t].kind]
      BY <1>5, <1>7, <2>1 DEF Unspend
    <3>2. view[t].nHeight = H[t] /\ FlagOf(t, view[t], M)
      BY <1>2, <2>1 DEF Entry
    <3>3. QED
      BY <1>8, <3>1, <3>2 DEF Entry, FlagOf
  <2>2. CASE view[t].outs = {}
    <3>1. v[t] = [outs |-> {in.n}, nHeight |-> u.nHeight, kind |-> IF u.kind = "coinstake" THEN "plain" ELSE u.kind]
      BY <1>5, <1>7, <2>2 DEF Unspend, Restored
    <3>2. u.nHeight = H[t] /\ (u.kind = TxOf(t).kind \/ (t \in Staked /\ u.kind = "plain"))
      BY <1>4, <2>2 DEF UndoFor
    <3>3. t \in Staked => t \in M
      BY <1>3, <2>2
    <3>4. TxOf(t).kind = "coinstake" <=> t \in Staked
      BY TxFacts
    <3>5. FlagOf(t, v[t], M)
      BY <3>1, <3>2, <3>3, <3>4 DEF FlagOf
    <3>6. QED
      BY <1>8, <2>2, <3>1, <3>2, <3>5 DEF Entry
  <2>3. QED
    BY <2>1, <2>2
<1>10. ASSUME NEW x \in Txids, x # t PROVE Entry(x, v[x], H, S, M)
  <2>1. Unspent(x, T) = Unspent(x, S)
    BY <1>1, <1>10 DEF Unspent
  <2>2. Entry(x, view[x], H, T, M)
    BY DEF Agrees
  <2>3. QED
    BY <1>7, <1>10, <2>1, <2>2 DEF Entry, Left
<1>11. QED
  BY <1>6, <1>7, <1>9, <1>10 DEF Agrees, v

(* The records recs can put the inputs of tx back into coins at H and S:   *)
(* the inputs were spendable there, each record is right for its turn, and *)
(* M has every coinstake of which nothing is left.                         *)
Restorable(tx, recs, H, S, M) ==
  /\ recs \in Seq(Records) /\ Len(recs) = Len(tx.vin)
  /\ \A in \in Range(tx.vin) : CanSpend(in, H, S) /\ \E y \in Txs : y.hash = in.hash
  /\ \A j \in 1..Len(tx.vin) : UndoFor(recs[j], tx.vin[j], H, S \cup FirstInputs(tx, j - 1))
  /\ \A t \in Staked : H[t] # 0 /\ Unspent(t, S \cup Range(tx.vin)) = {} => t \in M

(* Putting the inputs of a transaction back, last first.                   *)
LEMMA RestoreAll ==
  ASSUME NEW H \in [Txids -> Nat], NEW S, NEW M, NEW view, NEW tx \in Txs,
         Agrees(view, H, S \cup Range(tx.vin), M),
         NEW recs, Restorable(tx, recs, H, S, M)
  PROVE  /\ Agrees(RestoreInputs(view, tx, recs)[Len(tx.vin)], H, S, M)
         /\ \A k \in 1..Len(tx.vin) :
              LET j == Len(tx.vin) + 1 - k
              IN  InputRestores(RestoreInputs(view, tx, recs)[k - 1], tx.vin[j], recs[j])
<1> USE DEF Restorable
<1> DEFINE n == Len(tx.vin)
           s == RestoreInputs(view, tx, recs)
           P == {k \in 0..n : Agrees(s[k], H, S \cup FirstInputs(tx, n - k), M)}
<1>1. /\ n \in Nat /\ n \in 0..n /\ tx \in TxType /\ view \in Views
      /\ \A j \in 1..n : tx.vin[j] \in Outpoints /\ recs[j] \in Records /\ tx.vin[j] \in Range(tx.vin)
  <2>1. /\ n \in Nat /\ tx \in TxType /\ \A j \in 1..n : tx.vin[j] \in Outpoints
        /\ Range(tx.vin) = {tx.vin[j] : j \in 1..n}
    BY TxFacts
  <2>2. view \in Views
    BY DEF Agrees
  <2>3. \A j \in 1..n : recs[j] \in Records
    OBVIOUS
  <2> HIDE DEF n
  <2>4. QED
    BY <2>1, <2>2, <2>3
<1>2. s[0] = view /\ \A k \in 1..n : s[k] = RestoreInput(s[k - 1], tx.vin[n + 1 - k], recs[n + 1 - k])
  BY <1>1, RestoreInputsIs
<1>3. 0 \in P
  <2>1. n - 0 = n /\ 0 \in 0..n
    BY <1>1
  <2>2. Agrees(s[0], H, S \cup FirstInputs(tx, n - 0), M)
    BY <1>2, <2>1, FirstInputsFacts
  <2> HIDE DEF s, n
  <2>3. QED
    BY <2>1, <2>2
<1>4. ASSUME NEW k \in 1..n, k - 1 \in P
      PROVE  k \in P /\ InputRestores(s[k - 1], tx.vin[n + 1 - k], recs[n + 1 - k])
  <2> DEFINE j == n + 1 - k
             in == tx.vin[j]
             u == recs[j]
             T == S \cup FirstInputs(tx, j - 1)
             v == s[k - 1]
  <2>1. j \in 1..n /\ n - (k - 1) = j /\ n - k = j - 1 /\ k \in 0..n
    BY <1>1
  <2>2. /\ FirstInputs(tx, j) = FirstInputs(tx, j - 1) \cup {in} /\ in \notin FirstInputs(tx, j - 1)
    BY <2>1, FirstInputsFacts
  <2>3. FirstInputs(tx, j) \subseteq Range(tx.vin)
    BY <1>1, <2>1 DEF FirstInputs
  <2>4. Agrees(v, H, T \cup {in}, M)
    <3>1. Agrees(v, H, S \cup FirstInputs(tx, j), M)
      BY <1>4, <2>1
    <3>2. S \cup FirstInputs(tx, j) = T \cup {in}
      BY <2>2
    <3>3. QED
      BY <3>1, <3>2
  <2>5. in \in Outpoints /\ u \in Records /\ in \in Range(tx.vin)
    BY <1>1, <2>1
  <2>6. CanSpend(in, H, T) /\ \E y \in Txs : y.hash = in.hash
    BY <2>2, <2>5 DEF CanSpend
  <2>7. UndoFor(u, in, H, T)
    BY <2>1
  <2>8. in.hash \in Staked /\ Unspent(in.hash, T \cup {in}) = {} => in.hash \in M
    <3>1. T \cup {in} \subseteq S \cup Range(tx.vin)
      BY <2>2, <2>3
    <3>2. Unspent(in.hash, S \cup Range(tx.vin)) \subseteq Unspent(in.hash, T \cup {in})
      BY <3>1 DEF Unspent
    <3>3. H[in.hash] # 0
      BY <2>6 DEF CanSpend
    <3>4. QED
      BY <3>2, <3>3
  <2>9. s[k] = RestoreInput(v, in, u)
    BY <1>2
  <2>10. n - k = j - 1 /\ T = S \cup FirstInputs(tx, n - k)
    BY <2>1
  <2> HIDE DEF j, in, u, T, v, s, n
  <2>11. Agrees(RestoreInput(v, in, u), H, T, M) /\ InputRestores(v, in, u)
    BY <2>4, <2>5, <2>6, <2>7, <2>8, RestoreStep
  <2>12. Agrees(s[k], H, S \cup FirstInputs(tx, n - k), M)
    BY <2>9, <2>10, <2>11
  <2>13. QED
    BY <2>1, <2>11, <2>12 DEF j, in, u, v
<1>5. 0..n \subseteq P
  <2> HIDE DEF P
  <2>1. QED
    BY <1>1, <1>3, <1>4, Climb
<1>6. ASSUME NEW k \in 1..n PROVE InputRestores(s[k - 1], tx.vin[n + 1 - k], recs[n + 1 - k])
  <2>1. k - 1 \in 0..n
    BY <1>1
  <2> HIDE DEF P
  <2>2. k - 1 \in P
    BY <1>5, <2>1
  <2>3. QED
    BY <1>4, <2>2
<1>7. Agrees(s[n], H, S, M)
  <2>1. n - n = 0
    BY <1>1
  <2>2. Agrees(s[n], H, S \cup FirstInputs(tx, n - n), M)
    <3>1. n \in P
      BY <1>1, <1>5
    <3> HIDE DEF n, s
    <3>2. QED
      BY <3>1
  <2>3. S \cup FirstInputs(tx, 0) = S
    BY FirstInputsFacts
  <2>4. QED
    BY <2>1, <2>2, <2>3
<1>8. QED
  BY <1>6, <1>7

(* A transaction disconnected: it is made no more, its inputs are back.    *)
LEMMA DisconnectOne ==
  ASSUME NEW H \in [Txids -> Nat], NEW S, NEW M, NEW view, NEW tx \in Txs, NEW h \in Nat \ {0},
         Agrees(view, [H EXCEPT ![tx.hash] = h], S \cup Range(tx.vin), M),
         H[tx.hash] = 0, \A in \in S : in.hash \in Txids /\ H[in.hash] # 0,
         NEW recs, Restorable(tx, recs, H, S, M)
  PROVE  /\ Agrees(DisconnectTx(view, tx, recs), H, S, M)
         /\ tx.hash \notin M \/ tx.vout = {} => TxDisconnects(view, tx, recs, h)
<1> DEFINE n == Len(tx.vin)
           w == Removed(view, tx)
           T == S \cup Range(tx.vin)
           G == [H EXCEPT ![tx.hash] = h]
           t == tx.hash
<1>1. n \in Nat /\ t \in Txids /\ TxOf(t) = tx
  BY TxFacts
<1>2. view \in Views
  BY DEF Agrees
<1>3. w \in Views /\ w[t] = Pruned /\ \A x \in Txids : x # t => w[x] = view[x]
  BY <1>1, <1>2 DEF Removed, Views, Pruned, Coins, Kinds
<1>4. G[t] = h /\ \A x \in Txids : x # t => G[x] = H[x]
  BY <1>1
<1>5. Agrees(w, H, T, M)
  <2>1. Entry(t, w[t], H, T, M)
    BY <1>3 DEF Entry, Left, Pruned
  <2>2. ASSUME NEW x \in Txids, x # t PROVE Entry(x, w[x], H, T, M)
    <3>1. Entry(x, view[x], G, T, M)
      BY DEF Agrees
    <3> HIDE DEF w, G, T
    <3>2. QED
      BY <1>3, <1>4, <2>2, <3>1 DEF Entry, Left
  <2>3. QED
    BY <1>3, <2>1, <2>2 DEF Agrees
<1>6. /\ Agrees(RestoreInputs(w, tx, recs)[n], H, S, M)
      /\ \A k \in 1..n : InputRestores(RestoreInputs(w, tx, recs)[k - 1], tx.vin[n + 1 - k], recs[n + 1 - k])
  <2> HIDE DEF w, T
  <2>1. Agrees(w, H, S \cup Range(tx.vin), M)
    BY <1>5 DEF T
  <2>2. /\ Agrees(RestoreInputs(w, tx, recs)[Len(tx.vin)], H, S, M)
        /\ \A k \in 1..Len(tx.vin) :
             LET j == Len(tx.vin) + 1 - k
             IN  InputRestores(RestoreInputs(w, tx, recs)[k - 1], tx.vin[j], recs[j])
    BY <2>1, RestoreAll
  <2>3. QED
    BY <2>2
<1>7. ASSUME t \notin M \/ tx.vout = {} PROVE view[t] = FromTx(tx, h)
  <2>1. Unspent(t, T) = tx.vout
    <3>1. \A in \in T : in.hash # t
      BY DEF Restorable, CanSpend
    <3>2. QED
      BY <1>1, <3>1 DEF Unspent
  <2>2. Entry(t, view[t], G, T, M) /\ view[t] \in Coins
    BY <1>1, <1>2 DEF Agrees, Views
  <2>3. Left(t, G, T) = tx.vout
    BY <1>4, <2>1 DEF Left
  <2> HIDE DEF G, T
  <2>4. CASE tx.vout = {}
    BY <2>2, <2>3, <2>4 DEF Entry, FromTx, Clean
  <2>5. CASE tx.vout # {}
    <3>1. view[t].outs = tx.vout /\ view[t].nHeight = h /\ view[t].kind = tx.kind
      BY <1>1, <1>4, <1>7, <2>2, <2>3, <2>5 DEF Entry, FlagOf
    <3>2. view[t] = [outs |-> tx.vout, nHeight |-> h, kind |-> tx.kind]
      BY <2>2, <3>1 DEF Coins
    <3>3. QED
      BY <2>5, <3>2 DEF FromTx, Clean
  <2>6. QED
    BY <2>4, <2>5
<1>8. QED
  BY <1>6, <1>7 DEF DisconnectTx, TxDisconnects, Backwards

(* The views of DisconnectBlock's outer loop keep the types ...            *)
LEMMA DisconnectTxType ==
  ASSUME NEW view \in Views, NEW tx \in Txs, NEW recs \in Seq(Records), Len(recs) = Len(tx.vin)
  PROVE  DisconnectTx(view, tx, recs) \in Views
<1>1. tx \in TxType /\ tx.hash \in Txids
  BY TxFacts
<1>2. Removed(view, tx) \in Views
  BY <1>1 DEF Removed, Views, Pruned, Coins, Kinds
<1>3. QED
  BY <1>1, <1>2, RestoreInputsIs DEF DisconnectTx

(* ... turn by turn.                                                       *)
LEMMA DisconnectTxsIs ==
  ASSUME NEW view \in Views, NEW b \in Blocks, UndoShape(b, undo[b])
  PROVE  /\ DisconnectTxs(b, view)[0] = view
         /\ \A k \in 1..Len(Vtx[b]) :
              LET i == Len(Vtx[b]) + 1 - k
              IN  DisconnectTxs(b, view)[k] =
                    DisconnectTx(DisconnectTxs(b, view)[k - 1], Vtx[b][i], undo[b][i])
<1> DEFINE n == Len(Vtx[b])
           B(v, k) == DisconnectTx(v, Vtx[b][n + 1 - k], undo[b][n + 1 - k])
           g == [k \in 1..n |-> [v \in Views |-> B(v, k)]]
           s == DisconnectTxs(b, view)
           Def(f) == f = [k \in 0..n |-> IF k = 0 THEN view ELSE B(f[k - 1], k)]
<1>1. n \in Nat /\ \A i \in 1..n : Vtx[b][i] \in Txs
  BY BlockFacts
<1>2. s = CHOOSE f : Def(f)
  BY DEF DisconnectTxs
<1>3. \A k \in 1..n : \A v \in Views : B(v, k) \in Views
  <2> TAKE k \in 1..n
  <2>1. n + 1 - k \in 1..n
    BY <1>1
  <2>2. \A i \in 1..n : undo[b][i] \in Seq(Records) /\ Len(undo[b][i]) = Len(Vtx[b][i].vin)
    BY DEF UndoShape
  <2>3. QED
    BY <1>1, <2>1, <2>2, DisconnectTxType
<1>4. g \in Bodies(n, Views)
  BY <1>3 DEF Bodies
<1>5. \A f : \A k \in 1..n : f[k - 1] \in Views => g[k][f[k - 1]] = B(f[k - 1], k)
  OBVIOUS
<1> HIDE DEF g, n, s, B
<1>6. PICK f \in Runs(n, Views) : IsRun(f, n, view, g)
  BY <1>1, <1>4, LoopExists
<1>7. Def(f)
  <2>1. \A k \in 0..n : f[k] = IF k = 0 THEN view ELSE B(f[k - 1], k)
    <3>1. f[0] = view /\ \A k \in 1..n : f[k] = g[k][f[k - 1]]
      BY <1>6 DEF IsRun
    <3>2. \A k \in 1..n : f[k - 1] \in Views
      BY <1>1, <1>6 DEF Runs
    <3>3. \A k \in 1..n : f[k] = B(f[k - 1], k)
      BY <1>5, <3>1, <3>2
    <3>4. QED
      BY <1>1, <3>1, <3>3
  <2>2. QED
    BY <1>6, <2>1 DEF Runs
<1>8. Def(s)
  <2> HIDE DEF Def
  <2>1. QED
    BY <1>2, <1>7
<1>9. s[0] = view /\ \A k \in 1..n : s[k] = B(s[k - 1], k)
  <2>1. \A k \in 0..n : s[k] = IF k = 0 THEN view ELSE B(s[k - 1], k)
    BY <1>8
  <2>2. QED
    BY <1>1, <2>1
<1>10. QED
  BY <1>9 DEF s, n, B

(* DisconnectBlock on coins that are the replay of the chain to b: the     *)
(* views go back transaction by transaction, and every turn finds what it  *)
(* expects unless a coinstake of b has lost its flag.  M holds the         *)
(* coinstakes without a flag, those of which nothing is left included.     *)
LEMMA DisconnectAll ==
  ASSUME NEW b \in Blocks, Sound(b), UndoShape(b, undo[b]), UndoRight(b, undo[b]), undo[b] # NoUndo,
         NEW view, NEW M, Agrees(view, HeightsTo(b), SpentBy(b), M),
         \A t \in Staked : t \in Made(b) /\ Unspent(t, SpentBy(b)) = {} => t \in M
  PROVE  /\ Agrees(DisconnectTxs(b, view)[Len(Vtx[b])], HeightsTo(Prev[b]), SpentBy(Prev[b]), M)
         /\ (\A tx \in Range(Vtx[b]) : tx.hash \notin M \/ tx.vout = {}) => Disconnects(b, view)
<1> DEFINE n == Len(Vtx[b])
           s == DisconnectTxs(b, view)
           P == {k \in 0..n : Agrees(s[k], HeightsAt(b, n - k), SpentAt(b, n - k), M)}
           Fine(tx) == tx.hash \notin M \/ tx.vout = {}
<1>1. /\ n \in Nat /\ n \in 0..n /\ Prev[b] \in Index /\ b \in Index /\ Height[b] \in Nat \ {0}
      /\ \A i \in 1..n : Vtx[b][i] \in Txs /\ Vtx[b][i] \in Range(Vtx[b])
  <2>1. Range(Vtx[b]) = {Vtx[b][i] : i \in 1..n}
    BY BlockFacts
  <2>2. QED
    BY <2>1, BlockFacts
<1>2. s[0] = view /\ \A k \in 1..n : s[k] = DisconnectTx(s[k - 1], Vtx[b][n + 1 - k], undo[b][n + 1 - k])
  BY DisconnectTxsIs DEF Agrees
<1>3. 0 \in P
  <2>1. n - 0 = n /\ 0 \in 0..n
    BY <1>1
  <2>2. HeightsAt(b, n) = HeightsTo(b) /\ SpentAt(b, n) = SpentBy(b)
    BY SoundFacts, AtFacts
  <2>3. Agrees(s[0], HeightsAt(b, n - 0), SpentAt(b, n - 0), M)
    BY <1>2, <2>1, <2>2
  <2> HIDE DEF s, n
  <2>4. QED
    BY <2>1, <2>3
<1>4. ASSUME NEW k \in 1..n, k - 1 \in P
      PROVE  LET i == n + 1 - k
             IN  k \in P /\ (Fine(Vtx[b][i]) => TxDisconnects(s[k - 1], Vtx[b][i], undo[b][i], Height[b]))
  <2> DEFINE i == n + 1 - k
             tx == Vtx[b][i]
             H == HeightsAt(b, i - 1)
             S == SpentAt(b, i - 1)
             v == s[k - 1]
             recs == undo[b][i]
             h == Height[b]
  <2>1. i \in 1..n /\ i - 1 \in 0..n /\ n - (k - 1) = i /\ n - k = i - 1 /\ k \in 0..n
    BY <1>1
  <2>2. tx \in Txs /\ h \in Nat \ {0} /\ H \in [Txids -> Nat]
    BY <1>1, <2>1, AtFacts
  <2>3. HeightsAt(b, i) = [H EXCEPT ![tx.hash] = h] /\ SpentAt(b, i) = S \cup Range(tx.vin)
    BY <2>1, AtFacts
  <2>4. Agrees(v, [H EXCEPT ![tx.hash] = h], S \cup Range(tx.vin), M)
    <3>1. Agrees(v, HeightsAt(b, i), SpentAt(b, i), M)
      BY <1>4, <2>1
    <3>2. QED
      BY <2>3, <3>1
  <2>5. recs \in Seq(Records) /\ Len(recs) = Len(tx.vin)
    <3>1. \A l \in 1..n : undo[b][l] \in Seq(Records) /\ Len(undo[b][l]) = Len(Vtx[b][l].vin)
      BY DEF UndoShape
    <3>2. QED
      BY <2>1, <3>1
  <2>6. /\ H[tx.hash] = 0 /\ \A in \in Range(tx.vin) : CanSpend(in, H, S)
    BY <2>1 DEF Sound, SoundTx
  <2>7. \A in \in S : in.hash \in Txids /\ H[in.hash] # 0
    <3>1. \A l \in 1..(i - 1) : l \in 1..n
      BY <1>1, <2>1
    <3>2. \A l \in 1..(i - 1) : SoundTx(b, l)
      BY <3>1 DEF Sound
    <3>3. QED
      BY <2>1, <3>2, SpentIsMadeAt DEF Sound
  <2>8. ASSUME NEW x \in Txids, H[x] # 0 PROVE x \in Made(b) /\ \E y \in Txs : y.hash = x
    <3>1. x \in FirstTxids(b, i - 1) \/ HeightsTo(Prev[b])[x] # 0
      BY <2>8 DEF HeightsAt
    <3>2. FirstTxids(b, i - 1) \subseteq TxidsOf(b)
      BY <1>1, <2>1, BlockFacts DEF FirstTxids
    <3>3. x \in Made(b)
      BY <1>1, <3>1, <3>2, MadeFacts, MadeStep
    <3>4. QED
      BY <1>1, <3>3, MadeFacts
  <2>9. \A in \in Range(tx.vin) : CanSpend(in, H, S) /\ \E y \in Txs : y.hash = in.hash
    BY <2>2, <2>6, <2>8, InputFacts DEF CanSpend
  <2>10. \A j \in 1..Len(tx.vin) : UndoFor(recs[j], tx.vin[j], H, S \cup FirstInputs(tx, j - 1))
    BY <2>1 DEF UndoRight
  <2>11. \A t \in Staked : H[t] # 0 /\ Unspent(t, S \cup Range(tx.vin)) = {} => t \in M
    <3>1. SpentAt(b, i) \subseteq SpentAt(b, n)
      BY <1>1, <2>1 DEF SpentAt
    <3>2. S \cup Range(tx.vin) \subseteq SpentBy(b)
      BY <2>3, <3>1, AtFacts
    <3>3. \A t : Unspent(t, SpentBy(b)) \subseteq Unspent(t, S \cup Range(tx.vin))
      BY <3>2 DEF Unspent
    <3>4. Staked \subseteq Txids
      BY TxFacts DEF Staked
    <3> HIDE DEF H, S, tx
    <3>5. QED
      BY <2>8, <3>3, <3>4
  <2>12. s[k] = DisconnectTx(v, tx, recs)
    BY <1>2
  <2>13. H = HeightsAt(b, n - k) /\ S = SpentAt(b, n - k)
    BY <2>1
  <2> HIDE DEF i, tx, H, S, v, recs, h, n, s
  <2>14. /\ Agrees(DisconnectTx(v, tx, recs), H, S, M)
         /\ tx.hash \notin M \/ tx.vout = {} => TxDisconnects(v, tx, recs, h)
    <3>1. Restorable(tx, recs, H, S, M)
      BY <2>5, <2>9, <2>10, <2>11 DEF Restorable
    <3>2. QED
      BY <2>2, <2>4, <2>6, <2>7, <3>1, DisconnectOne
  <2>15. Agrees(s[k], HeightsAt(b, n - k), SpentAt(b, n - k), M)
    BY <2>12, <2>13, <2>14
  <2>16. QED
    BY <2>1, <2>14, <2>15 DEF i, tx, v, recs, h
<1>5. 0..n \subseteq P
  <2> HIDE DEF P
  <2>1. QED
    BY <1>1, <1>3, <1>4, Climb
<1>6. Agrees(s[n], HeightsTo(Prev[b]), SpentBy(Prev[b]), M)
  <2>1. n - n = 0
    BY <1>1
  <2>2. Agrees(s[n], HeightsAt(b, n - n), SpentAt(b, n - n), M)
    <3>1. n \in P
      BY <1>1, <1>5
    <3> HIDE DEF n, s
    <3>2. QED
      BY <3>1
  <2>3. QED
    BY <2>1, <2>2, AtFacts
<1>7. ASSUME \A tx \in Range(Vtx[b]) : Fine(tx) PROVE Disconnects(b, view)
  <2> SUFFICES ASSUME NEW k \in 1..n
               PROVE  TxDisconnects(s[k - 1], Vtx[b][n + 1 - k], undo[b][n + 1 - k], Height[b])
    BY DEF Disconnects
  <2>1. k - 1 \in 0..n /\ n + 1 - k \in 1..n
    BY <1>1
  <2>2. Fine(Vtx[b][n + 1 - k])
    BY <1>1, <1>7, <2>1
  <2> HIDE DEF P, Fine
  <2>3. k - 1 \in P
    BY <1>5, <2>1
  <2>4. QED
    BY <1>4, <2>2, <2>3
<1>8. QED
  BY <1>6, <1>7

-----------------------------------------------------------------------------
(* The inductive invariant: every undo record on disk belongs to a block   *)
(* that connected, and puts back what its transactions spent, on whatever  *)
(* branch it lies; the coins are the replay of the active chain.           *)
UndoInv ==
  /\ undo \in [Blocks -> Seq(Seq(Records))]
  /\ \A b \in Blocks : undo[b] # NoUndo => UndoShape(b, undo[b]) /\ Sound(b) /\ UndoRight(b, undo[b])
  /\ \A b \in Chain : undo[b] # NoUndo

CoinsInv ==
  /\ best \in Index /\ peak \in Nat /\ Height[best] <= peak /\ since \subseteq Chain
  /\ flagless \subseteq Staked /\ flagless \subseteq Made(best)
  /\ SpentIsMade(best)
  /\ Agrees(coins, HeightsTo(best), SpentBy(best), flagless)

IInv == CoinsInv /\ UndoInv /\ StakeSpentTracksChain

(* The blocks of a chain are its blocks' own chains, in line.              *)
LEMMA ChainLinear ==
  ASSUME NEW c \in Index, NEW a \in ChainTo(c), NEW b \in ChainTo(c), a # b
  PROVE  a \in ChainTo(Prev[b]) \/ b \in ChainTo(Prev[a])
<1>1. a \in Blocks /\ b \in Blocks /\ a # Genesis /\ b # Genesis
  BY ChainFacts DEF ChainTo
<1>2. a \in Ancestors(b) \/ b \in Ancestors(a)
  BY AncestorsLinear DEF ChainTo
<1>3. Ancestors(a) = {a} \cup Ancestors(Prev[a]) /\ Ancestors(b) = {b} \cup Ancestors(Prev[b])
  BY <1>1, AncestorsStep
<1>4. QED
  BY <1>1, <1>2, <1>3 DEF ChainTo

(* No outpoint is spent twice on a chain of sound blocks.                  *)
LEMMA ChainSpendsOnce ==
  ASSUME NEW c \in Index, \A x \in ChainTo(c) : Sound(x)
  PROVE  \A a, b \in ChainTo(c) : a # b => Spends(a) \cap Spends(b) = {}
<1> SUFFICES ASSUME NEW a \in ChainTo(c), NEW b \in ChainTo(c), a # b
             PROVE  Spends(a) \cap Spends(b) = {}
  OBVIOUS
<1>1. a \in Blocks /\ b \in Blocks
  BY ChainFacts
<1>2. Spends(a) \cap SpentBy(Prev[a]) = {} /\ Spends(b) \cap SpentBy(Prev[b]) = {}
  BY <1>1, SoundFacts
<1>3. a \in ChainTo(Prev[b]) \/ b \in ChainTo(Prev[a])
  BY ChainLinear
<1>4. QED
  BY <1>2, <1>3 DEF SpentBy

(* The blocks of a chain are not above its tip.                            *)
LEMMA ChainHeights ==
  ASSUME NEW c \in Index, NEW a \in ChainTo(c)
  PROVE  /\ a \in Blocks /\ Height[a] \in Nat \ {0} /\ Height[c] \in Nat /\ Height[a] <= Height[c]
         /\ a # c => Height[a] < Height[c]
<1>1. a \in Blocks
  BY ChainFacts
<1>2. Height[a] \in Nat \ {0}
  BY <1>1, BlockFacts
<1>3. Height[c] \in Nat /\ Height[a] <= Height[c] /\ (Height[a] = Height[c] => a = c)
  BY AncestorsLower DEF ChainTo
<1>4. QED
  BY <1>1, <1>2, <1>3

(* The parts of IInv as facts about the chain.                             *)
LEMMA ChainIsSound ==
  ASSUME IInv
  PROVE  \A x \in Chain : /\ x \in Blocks /\ Sound(x) /\ undo[x] # NoUndo
                          /\ UndoShape(x, undo[x]) /\ UndoRight(x, undo[x])
<1>1. Chain \subseteq Blocks
  BY ChainFacts DEF IInv, CoinsInv, Chain
<1>2. QED
  BY <1>1 DEF IInv, UndoInv

(* The start.                                                              *)
LEMMA InvInit == Init => IInv
<1> SUFFICES ASSUME Init PROVE IInv
  OBVIOUS
<1>1. Chain = {} /\ Made(best) = {} /\ SpentBy(best) = {} /\ HeightsTo(best) = [t \in Txids |-> 0]
  BY ChainFacts, MadeStep DEF Init, Chain
<1>2. Agrees(coins, HeightsTo(best), SpentBy(best), flagless)
  BY <1>1 DEF Init, Agrees, Views, Entry, Left, Pruned, Coins, Kinds
<1>3. CoinsInv
  BY <1>1, <1>2, AncestryAssumption DEF CoinsInv, Init, SpentIsMade, Index
<1>4. UndoInv
  BY <1>1 DEF UndoInv, Init, NoUndo
<1>5. StakeSpentTracksChain
  BY <1>1 DEF StakeSpentTracksChain, Init
<1>6. QED
  BY <1>3, <1>4, <1>5 DEF IInv

(* Every recorded pair is an outpoint that the block of the chain at that  *)
(* height spends; and the pairs of the blocks connected lately, since the  *)
(* start, are recorded.                                                    *)
LEMMA StakeSpentFacts ==
  ASSUME StakeSpentTracksChain
  PROVE  /\ \A e \in stakeSpent : \E x \in since : \E in \in Spends(x) : e = <<in, Height[x]>>
         /\ \A x \in since : \A in \in Spends(x) :
              Height[x] >= peak - MaxReorg /\ TxidsOf(x) \cap flagless = {} => <<in, Height[x]>> \in stakeSpent
BY DEF StakeSpentTracksChain

(* Connecting a block keeps the coins and the records right ...            *)
LEMMA ConnectTipCoins ==
  ASSUME IInv, NEW b \in Blocks, ConnectTip(b)
  PROVE  /\ CoinsInv' /\ UndoInv' /\ Sound(b)
<1>1. /\ Prev[b] = best /\ best' = b /\ flagless' = flagless /\ Connects(b, coins)
      /\ coins' = ConnectTxs(b, coins)[Len(Vtx[b])]
  BY DEF ConnectTip
<1>2. /\ Agrees(coins, HeightsTo(Prev[b]), SpentBy(Prev[b]), flagless)
      /\ SpentIsMade(Prev[b]) /\ flagless \in SUBSET Made(Prev[b])
  BY <1>1 DEF IInv, CoinsInv
<1>3. b \in Index /\ Len(Vtx[b]) \in Nat /\ Height[b] \in Nat /\ Len(Vtx[b]) \in 0..Len(Vtx[b])
  BY BlockFacts
<1>4. Sound(b) /\ Agrees(coins', HeightsAt(b, Len(Vtx[b])), SpentAt(b, Len(Vtx[b])), flagless)
  BY <1>1, <1>2, <1>3, ConnectAll
<1>5. Agrees(coins', HeightsTo(b), SpentBy(b), flagless)
  BY <1>4, SoundFacts, AtFacts
<1>6. CoinsInv'
  <2>1. peak' \in Nat /\ Height[b] <= peak'
    BY <1>3 DEF ConnectTip, IInv, CoinsInv
  <2>2. flagless \subseteq Staked /\ flagless \subseteq Made(b)
    BY <1>1, MadeStep DEF IInv, CoinsInv
  <2>3. SpentIsMade(b)
    BY <1>4, SoundFacts
  <2>4. since' \subseteq Chain'
    <3>1. Chain' = Chain \cup {b}
      BY <1>1, ChainFacts DEF Chain
    <3>2. QED
      BY <3>1 DEF ConnectTip, IInv, CoinsInv
  <2>5. QED
    BY <1>1, <1>3, <1>5, <2>1, <2>2, <2>3, <2>4 DEF CoinsInv
<1>7. UndoInv'
  <2> DEFINE new == BlockUndo(b, coins)
  <2>1. UndoShape(b, new) /\ UndoRight(b, new) /\ new # NoUndo
    BY <1>1, <1>2, BlockUndoRecorded
  <2>2. new \in Seq(Seq(Records))
    BY <2>1 DEF UndoShape
  <2>3. undo' = IF undo[b] = NoUndo THEN [undo EXCEPT ![b] = new] ELSE undo
    BY DEF ConnectTip
  <2> HIDE DEF new
  <2>4. undo \in [Blocks -> Seq(Seq(Records))]
    BY DEF IInv, UndoInv
  <2>5. undo' \in [Blocks -> Seq(Seq(Records))]
    BY <2>2, <2>3, <2>4
  <2>6. ASSUME NEW x \in Blocks, undo'[x] # NoUndo
        PROVE  UndoShape(x, undo'[x]) /\ Sound(x) /\ UndoRight(x, undo'[x])
    <3>1. CASE undo'[x] = undo[x]
      BY <2>6, <3>1 DEF IInv, UndoInv
    <3>2. CASE undo'[x] # undo[x]
      <4>1. x = b /\ undo'[x] = new
        BY <2>3, <2>4, <3>2
      <4>2. QED
        BY <1>4, <2>1, <4>1
    <3>3. QED
      BY <3>1, <3>2
  <2>7. ASSUME NEW x \in ChainTo(b) PROVE undo'[x] # NoUndo
    <3>1. x \in Chain \/ x = b
      BY <1>1, ChainFacts DEF Chain
    <3>2. x \in Chain => undo[x] # NoUndo
      BY DEF IInv, UndoInv
    <3>3. x \in Blocks
      BY <1>3, ChainFacts
    <3>4. QED
      BY <2>1, <2>3, <2>4, <3>1, <3>2, <3>3
  <2>8. QED
    BY <1>1, <2>5, <2>6, <2>7 DEF UndoInv, Chain
<1>8. QED
  BY <1>4, <1>6, <1>7

(* ... and mapStakeSpent.                                                  *)
LEMMA ConnectTipStakes ==
  ASSUME IInv, NEW b \in Blocks, ConnectTip(b)
  PROVE  StakeSpentTracksChain'
<1>1. Prev[b] = best /\ best' = b /\ flagless' = flagless /\ stakeSpent' = StakeSpentAfter(b)
  BY DEF ConnectTip
<1>2. since' = since \cup {b} /\ since \subseteq Chain
  BY DEF ConnectTip, IInv, CoinsInv
<1>3. /\ Height[b] \in Nat /\ peak \in Nat /\ peak' \in Nat /\ peak' >= peak /\ peak' >= Height[b]
      /\ MaxReorg \in Nat
  BY BlockFacts, BlockCoinsAssumption DEF IInv, CoinsInv, ConnectTip
<1>4. /\ \A e \in stakeSpent : \E x \in since : \E in \in Spends(x) : e = <<in, Height[x]>>
      /\ \A x \in since : \A in \in Spends(x) :
           Height[x] >= peak - MaxReorg /\ TxidsOf(x) \cap flagless = {} => <<in, Height[x]>> \in stakeSpent
  BY StakeSpentFacts DEF IInv
<1>5. Spends(b) \cap {e[1] : e \in stakeSpent} = {}
  <2> SUFFICES ASSUME NEW in \in Spends(b), NEW e \in stakeSpent, in = e[1] PROVE FALSE
    OBVIOUS
  <2>1. PICK x \in Chain : e[1] \in Spends(x)
    BY <1>2, <1>4
  <2>2. in \in SpentBy(Prev[b])
    BY <1>1, <2>1 DEF SpentBy, Chain
  <2>3. QED
    BY <2>2, ConnectTipCoins, SoundFacts
<1>6. StakeSpentWith(b) = stakeSpent \cup (Spends(b) \X {Height[b]})
  BY <1>5 DEF StakeSpentWith
<1>7. ASSUME NEW x \in since', NEW in \in Spends(x), Height[x] >= peak' - MaxReorg,
             TxidsOf(x) \cap flagless' = {}
      PROVE  <<in, Height[x]>> \in stakeSpent'
  <2>1. Height[x] \in Nat
    BY <1>2, ChainHeights, BlockFacts DEF Chain, IInv, CoinsInv
  <2>2. Height[x] >= Height[b] - MaxReorg
    BY <1>3, <1>7, <2>1
  <2>3. <<in, Height[x]>> \in StakeSpentWith(b)
    <3>1. CASE x = b
      BY <1>6, <3>1
    <3>2. CASE x \in since
      <4>1. Height[x] >= peak - MaxReorg
        BY <1>3, <1>7, <2>1
      <4>2. QED
        BY <1>1, <1>4, <1>6, <1>7, <3>2, <4>1
    <3>3. QED
      BY <1>2, <3>1, <3>2
  <2>4. QED
    BY <1>1, <2>2, <2>3 DEF StakeSpentAfter
<1>8. ASSUME NEW e \in stakeSpent' PROVE \E x \in since' : \E in \in Spends(x) : e = <<in, Height[x]>>
  <2>1. e \in StakeSpentWith(b)
    BY <1>1 DEF StakeSpentAfter
  <2>2. CASE e \in stakeSpent
    BY <1>2, <1>4, <2>2
  <2>3. CASE e \in Spends(b) \X {Height[b]}
    BY <1>2, <2>3
  <2>4. QED
    BY <1>6, <2>1, <2>2, <2>3
<1>9. QED
  BY <1>7, <1>8 DEF StakeSpentTracksChain

(* The coinstakes without a flag and those with nothing left.              *)
Bare == flagless \cup {t \in Staked : coins[t].outs = {}}

(* What disconnecting the tip does to the coins, and when it succeeds.     *)
LEMMA TipDisconnects ==
  ASSUME IInv, best # Genesis
  PROVE  /\ Agrees(DisconnectTxs(best, coins)[Len(Vtx[best])], HeightsTo(Prev[best]), SpentBy(Prev[best]), Bare)
         /\ TxidsOf(best) \cap flagless = {} => Disconnects(best, coins)
<1>1. best \in Blocks /\ best \in Index
  BY DEF IInv, CoinsInv, Index
<1>2. best \in Chain
  BY <1>1, ChainFacts DEF Chain
<1>3. Sound(best) /\ UndoShape(best, undo[best]) /\ UndoRight(best, undo[best]) /\ undo[best] # NoUndo
  BY <1>2, ChainIsSound
<1>4. Agrees(coins, HeightsTo(best), SpentBy(best), flagless)
  BY DEF IInv, CoinsInv
<1>5. Agrees(coins, HeightsTo(best), SpentBy(best), Bare)
  BY <1>4 DEF Agrees, Entry, FlagOf, Bare
<1>6. Staked \subseteq Txids
  BY TxFacts DEF Staked
<1>7. ASSUME NEW t \in Staked, t \in Made(best) PROVE coins[t].outs = Unspent(t, SpentBy(best))
  <2>1. HeightsTo(best)[t] # 0
    BY <1>1, <1>6, <1>7, MadeFacts
  <2>2. QED
    BY <1>4, <1>6, <2>1 DEF Agrees, Entry, Left
<1>8. \A t \in Staked : t \in Made(best) /\ Unspent(t, SpentBy(best)) = {} => t \in Bare
  BY <1>7 DEF Bare
<1>9. ASSUME TxidsOf(best) \cap flagless = {}, NEW tx \in Range(Vtx[best]), tx.hash \in Bare
      PROVE  tx.vout = {}
  <2> DEFINE t == tx.hash
  <2>1. t \in TxidsOf(best) /\ tx \in Txs
    BY <1>1 DEF TxidsOf, Txs
  <2>2. t \in Staked /\ coins[t].outs = {} /\ t \in Made(best)
    BY <1>1, <1>9, <2>1, MadeStep DEF Bare
  <2>3. TxOf(t) = tx
    BY <2>1, TxFacts
  <2>4. \A in \in SpentBy(best) : in.hash # t
    <3>1. \A in \in Spends(best) : in.hash # t
      BY <1>1, <1>3, <2>1, <2>2, SoundFacts
    <3>2. \A in \in SpentBy(Prev[best]) : in.hash # t
      BY <1>1, <1>3, <2>1, SoundFacts DEF Sound, SpentIsMade
    <3>3. QED
      BY <1>1, <3>1, <3>2, MadeStep
  <2>5. Unspent(t, SpentBy(best)) = tx.vout
    BY <2>3, <2>4 DEF Unspent
  <2>6. QED
    BY <1>7, <2>2, <2>5
<1>10. /\ Agrees(DisconnectTxs(best, coins)[Len(Vtx[best])], HeightsTo(Prev[best]), SpentBy(Prev[best]), Bare)
       /\ (\A tx \in Range(Vtx[best]) : tx.hash \notin Bare \/ tx.vout = {}) => Disconnects(best, coins)
  BY <1>1, <1>3, <1>5, <1>8, DisconnectAll
<1>11. QED
  BY <1>9, <1>10

(* Disconnecting the tip leaves the coins of its parent's chain.           *)
LEMMA DisconnectTipCoins ==
  ASSUME IInv, DisconnectTip
  PROVE  CoinsInv' /\ UndoInv'
<1> DEFINE p == Prev[best]
<1>1. /\ best # Genesis /\ best' = p /\ undo' = undo /\ peak' = peak
      /\ coins' = DisconnectTxs(best, coins)[Len(Vtx[best])]
      /\ flagless' = (flagless \cup {t \in Staked : coins[t].outs = {} /\ coins'[t].outs # {}}) \ TxidsOf(best)
  BY DEF DisconnectTip
<1>2. best \in Blocks /\ best \in Index /\ p \in Index /\ Height[p] \in Nat /\ Height[best] = Height[p] + 1
  BY <1>1, AncestryAssumption DEF IInv, CoinsInv, Index
<1>3. Sound(best)
  BY <1>2, ChainFacts, ChainIsSound DEF Chain
<1>4. Agrees(coins', HeightsTo(p), SpentBy(p), Bare)
  BY <1>1, TipDisconnects
<1>5. TxidsOf(best) \cap Made(p) = {} /\ Made(best) = Made(p) \cup TxidsOf(best)
  BY <1>2, <1>3, SoundFacts, MadeStep
<1>6. flagless \subseteq Staked /\ flagless \subseteq Made(best) /\ Staked \subseteq Txids
  BY TxFacts DEF IInv, CoinsInv, Staked
<1>7. ASSUME NEW t \in Txids, coins'[t].outs # {} PROVE t \in Made(p)
  <2>1. HeightsTo(p)[t] # 0
    BY <1>4, <1>7 DEF Agrees, Entry, Left
  <2>2. QED
    BY <1>2, <2>1, MadeFacts
<1>8. flagless' \subseteq Staked /\ flagless' \subseteq Made(p)
  BY <1>1, <1>5, <1>6, <1>7
<1>9. Agrees(coins', HeightsTo(p), SpentBy(p), flagless')
  <2>1. ASSUME NEW t \in Txids, coins'[t].outs # {}, t \in Bare PROVE t \in flagless'
    BY <1>1, <1>5, <1>7, <2>1 DEF Bare
  <2>2. ASSUME NEW t \in Txids PROVE Entry(t, coins'[t], HeightsTo(p), SpentBy(p), flagless')
    <3>1. Entry(t, coins'[t], HeightsTo(p), SpentBy(p), Bare)
      BY <1>4 DEF Agrees
    <3>2. QED
      BY <2>1, <3>1 DEF Entry, FlagOf
  <2>3. QED
    BY <1>4, <2>2 DEF Agrees
<1>10. CoinsInv'
  <2>1. SpentIsMade(p)
    BY <1>3 DEF Sound
  <2>2. peak \in Nat /\ Height[p] <= peak
    BY <1>2 DEF IInv, CoinsInv
  <2>3. since' \subseteq Chain'
    <3>1. Chain = Chain' \cup {best}
      BY <1>1, <1>2, ChainFacts DEF Chain
    <3>2. QED
      BY <3>1 DEF DisconnectTip, IInv, CoinsInv
  <2>4. QED
    BY <1>1, <1>2, <1>8, <1>9, <2>1, <2>2, <2>3 DEF CoinsInv
<1>11. UndoInv'
  <2>1. Chain' \subseteq Chain
    BY <1>1, <1>2, ChainFacts DEF Chain
  <2>2. QED
    BY <1>1, <2>1 DEF IInv, UndoInv
<1>12. QED
  BY <1>10, <1>11

(* Disconnecting forgets the outpoints of the tip and no others.           *)
LEMMA DisconnectStakes ==
  ASSUME IInv, best # Genesis
  PROVE  /\ StakeSpentWithout(best) \subseteq stakeSpent
         /\ \A e \in StakeSpentWithout(best) : e[1] \notin Spends(best)
         /\ \A x \in Chain : x # best =>
              \A in \in Spends(x) : <<in, Height[x]>> \in stakeSpent => <<in, Height[x]>> \in StakeSpentWithout(best)
<1>1. best \in Index /\ best \in Chain
  BY ChainFacts DEF IInv, CoinsInv, Index, Chain
<1>2. undo[best] # NoUndo /\ \A x \in ChainTo(best) : Sound(x)
  BY <1>1, ChainIsSound DEF Chain
<1>3. \A x \in Chain : x # best => Spends(x) \cap Spends(best) = {}
  BY <1>1, <1>2, ChainSpendsOnce DEF Chain
<1>4. StakeSpentWithout(best) = {e \in stakeSpent : e[1] \notin Spends(best)}
  BY <1>2 DEF StakeSpentWithout
<1>5. QED
  BY <1>3, <1>4

(* mapStakeSpent then follows the shorter chain.                           *)
LEMMA DisconnectTipStakes ==
  ASSUME IInv, DisconnectTip
  PROVE  StakeSpentTracksChain'
<1>1. /\ best # Genesis /\ best' = Prev[best] /\ peak' = peak /\ stakeSpent' = StakeSpentWithout(best)
      /\ flagless' = (flagless \cup {t \in Staked : coins[t].outs = {} /\ coins'[t].outs # {}}) \ TxidsOf(best)
  BY DEF DisconnectTip
<1>2. /\ best \in Blocks /\ best \in Chain /\ Chain = Chain' \cup {best} /\ best \notin Chain'
      /\ since' = since \ {best} /\ since \subseteq Chain
  <2>1. since' = since \ {best} /\ since \subseteq Chain
    BY DEF DisconnectTip, IInv, CoinsInv
  <2>2. QED
    BY <1>1, <2>1, ChainFacts DEF IInv, CoinsInv, Index, Chain
<1>3. /\ \A e \in stakeSpent : \E x \in since : \E in \in Spends(x) : e = <<in, Height[x]>>
      /\ \A x \in since : \A in \in Spends(x) :
           Height[x] >= peak - MaxReorg /\ TxidsOf(x) \cap flagless = {} => <<in, Height[x]>> \in stakeSpent
  BY StakeSpentFacts DEF IInv
<1>4. ASSUME NEW x \in since', NEW in \in Spends(x), Height[x] >= peak' - MaxReorg,
             TxidsOf(x) \cap flagless' = {}
      PROVE  <<in, Height[x]>> \in stakeSpent'
  <2>1. TxidsOf(x) \cap TxidsOf(best) = {}
    <3>1. TxidsOf(x) \subseteq Made(Prev[best])
      BY <1>1, <1>2 DEF Made, Chain
    <3>2. QED
      BY <1>2, <3>1, ChainIsSound, SoundFacts
  <2>2. TxidsOf(x) \cap flagless = {}
    BY <1>1, <1>4, <2>1
  <2>3. QED
    BY <1>1, <1>2, <1>3, <1>4, <2>2, DisconnectStakes
<1>5. ASSUME NEW e \in stakeSpent' PROVE \E x \in since' : \E in \in Spends(x) : e = <<in, Height[x]>>
  <2>1. PICK x \in since : \E in \in Spends(x) : e = <<in, Height[x]>>
    BY <1>1, <1>3, DisconnectStakes
  <2>2. x # best
    BY <1>1, <2>1, DisconnectStakes
  <2>3. QED
    BY <1>2, <2>1, <2>2
<1>6. QED
  BY <1>4, <1>5 DEF StakeSpentTracksChain

(* A disconnection that fails leaves the coins alone; the tip it forgets   *)
(* the outpoints of has a coinstake without its flag.                      *)
LEMMA DisconnectFailsInv ==
  ASSUME IInv, DisconnectFails
  PROVE  IInv'
<1>1. /\ best # Genesis /\ ~Disconnects(best, coins) /\ stakeSpent' = StakeSpentWithout(best)
      /\ UNCHANGED <<coins, best, undo, peak, since, flagless>>
  BY DEF DisconnectFails
<1>2. CoinsInv' /\ UndoInv' /\ since \subseteq Chain
  BY <1>1 DEF IInv, CoinsInv, UndoInv, Chain
<1>3. /\ \A e \in stakeSpent : \E x \in since : \E in \in Spends(x) : e = <<in, Height[x]>>
      /\ \A x \in since : \A in \in Spends(x) :
           Height[x] >= peak - MaxReorg /\ TxidsOf(x) \cap flagless = {} => <<in, Height[x]>> \in stakeSpent
  BY StakeSpentFacts DEF IInv
<1>4. ASSUME NEW x \in since, NEW in \in Spends(x), Height[x] >= peak - MaxReorg, TxidsOf(x) \cap flagless = {}
      PROVE  <<in, Height[x]>> \in stakeSpent'
  <2>1. x # best
    BY <1>1, <1>4, TipDisconnects
  <2>2. QED
    BY <1>1, <1>2, <1>3, <1>4, <2>1, DisconnectStakes
<1>5. \A e \in stakeSpent' : \E x \in since : \E in \in Spends(x) : e = <<in, Height[x]>>
  BY <1>1, <1>3, DisconnectStakes
<1>6. StakeSpentTracksChain'
  BY <1>1, <1>2, <1>4, <1>5 DEF StakeSpentTracksChain
<1>7. QED
  BY <1>2, <1>6 DEF IInv

(* A restart empties mapStakeSpent, and the highest tip is the tip again.  *)
LEMMA RestartInv ==
  ASSUME IInv, Restart
  PROVE  IInv'
<1>1. /\ stakeSpent' = {} /\ peak' = Height[best] /\ since' = {}
      /\ coins' = coins /\ best' = best /\ undo' = undo /\ flagless' = flagless
  BY DEF Restart
<1>2. best \in Index /\ Height[best] \in Nat
  BY AncestryAssumption DEF IInv, CoinsInv, Index
<1>3. CoinsInv'
  BY <1>1, <1>2 DEF IInv, CoinsInv
<1>4. UndoInv'
  BY <1>1 DEF IInv, UndoInv, Chain
<1>5. StakeSpentTracksChain'
  BY <1>1 DEF StakeSpentTracksChain
<1>6. QED
  BY <1>3, <1>4, <1>5 DEF IInv

(* Every step keeps the invariant.                                         *)
LEMMA InvNext == IInv /\ [Next]_vars => IInv'
<1> SUFFICES ASSUME IInv, [Next]_vars PROVE IInv'
  OBVIOUS
<1>1. ASSUME NEW b \in Blocks, ConnectTip(b) PROVE IInv'
  BY <1>1, ConnectTipCoins, ConnectTipStakes DEF IInv
<1>2. CASE DisconnectTip
  BY <1>2, DisconnectTipCoins, DisconnectTipStakes DEF IInv
<1>3. CASE DisconnectFails
  BY <1>3, DisconnectFailsInv
<1>4. CASE Restart
  BY <1>4, RestartInv
<1>5. CASE UNCHANGED vars
  BY <1>5 DEF vars, IInv, CoinsInv, UndoInv, StakeSpentTracksChain, Chain
<1>6. QED
  BY <1>1, <1>2, <1>3, <1>4, <1>5 DEF Next

(* The invariant holds throughout.                                         *)
LEMMA InvAlways == Spec => []IInv
BY InvInit, InvNext, PTL DEF Spec

-----------------------------------------------------------------------------
(* ConnectTip and DisconnectTip in any order leave the coins of the        *)
(* replayed chain, on which nothing is spent twice.                        *)
THEOREM CoinsAlwaysReplayed == Spec => []CoinsAreReplayed
<1>1. IInv => CoinsAreReplayed
  <2> SUFFICES ASSUME IInv PROVE CoinsAreReplayed
    OBVIOUS
  <2>1. best \in Index /\ Agrees(coins, HeightsTo(best), SpentBy(best), flagless)
    BY DEF IInv, CoinsInv
  <2>2. ASSUME NEW t \in Txids
        PROVE  \/ coins[t] = Replayed(t)
               \/ t \in flagless /\ coins[t] = [Replayed(t) EXCEPT !.kind = "plain"]
    <3> DEFINE c == coins[t]
               S == SpentBy(best)
               h == MadeAt(best, t)
    <3>1. c \in Coins /\ Entry(t, c, HeightsTo(best), S, flagless)
      BY <2>1 DEF Agrees, Views
    <3>2. c = [outs |-> c.outs, nHeight |-> c.nHeight, kind |-> c.kind]
      BY <3>1 DEF Coins
    <3> HIDE DEF c
    <3>3. CASE t \notin Made(best)
      <4>1. c.outs = {} /\ c = Pruned
        BY <2>1, <3>1, <3>3, MadeFacts DEF Entry, Left
      <4>2. QED
        BY <3>3, <4>1 DEF Replayed, c
    <3>4. CASE t \in Made(best)
      <4>1. HeightsTo(best)[t] = h /\ HeightsTo(best)[t] # 0
        BY <2>1, <3>4, MadeFacts DEF HeightsTo
      <4>2. c.outs = Unspent(t, S)
        BY <3>1, <4>1 DEF Entry, Left
      <4>3. Replayed(t) = Clean([outs |-> c.outs, nHeight |-> h, kind |-> TxOf(t).kind])
        BY <3>4, <4>2 DEF Replayed
      <4>4. CASE c.outs = {}
        <5>1. c = Pruned
          BY <3>1, <4>4 DEF Entry
        <5>2. Replayed(t) = Pruned
          BY <4>3, <4>4 DEF Clean
        <5>3. QED
          BY <5>1, <5>2 DEF c
      <4>5. CASE c.outs # {}
        <5>1. Replayed(t) = [outs |-> c.outs, nHeight |-> h, kind |-> TxOf(t).kind]
          BY <4>3, <4>5 DEF Clean
        <5>2. c.nHeight = h /\ (c.kind = TxOf(t).kind \/ (t \in flagless /\ c.kind = "plain"))
          BY <3>1, <4>1, <4>5 DEF Entry, FlagOf
        <5>3. QED
          BY <3>2, <5>1, <5>2 DEF c
      <4>6. QED
        BY <4>4, <4>5
    <3>5. QED
      BY <3>3, <3>4
  <2>3. \A a, b \in Chain : a # b => Spends(a) \cap Spends(b) = {}
    BY <2>1, ChainIsSound, ChainSpendsOnce DEF Chain
  <2>4. QED
    BY <2>2, <2>3 DEF CoinsAreReplayed
<1>2. QED
  BY <1>1, InvAlways, PTL

(* DisconnectBlock can take the tip off again, in every state, unless the  *)
(* tip holds a coinstake that has lost its flag.                           *)
THEOREM TipAlwaysDisconnects == Spec => []TipCanBeDisconnected
<1>1. IInv => TipCanBeDisconnected
  BY TipDisconnects DEF TipCanBeDisconnected
<1>2. QED
  BY <1>1, InvAlways, PTL

(* The invariant implies the type invariant.                               *)
LEMMA InvTypes == IInv => TypeOK
<1> SUFFICES ASSUME IInv PROVE TypeOK
  OBVIOUS
<1>1. /\ best \in Index /\ peak \in Nat /\ Height[best] <= peak /\ since \subseteq Chain
      /\ flagless \subseteq Staked
      /\ Agrees(coins, HeightsTo(best), SpentBy(best), flagless)
  BY DEF IInv, CoinsInv
<1>2. ASSUME NEW x \in Chain PROVE x \in Blocks /\ Height[x] \in 1..peak
  BY <1>1, ChainHeights DEF Chain
<1>3. coins \in [Txids -> Coins]
  BY <1>1 DEF Agrees, Views
<1>4. ASSUME NEW t \in Txids
      PROVE  IF coins[t].outs = {} THEN coins[t] = Pruned ELSE coins[t].nHeight \in 1..peak
  <2>1. Entry(t, coins[t], HeightsTo(best), SpentBy(best), flagless)
    BY <1>1 DEF Agrees
  <2>2. CASE coins[t].outs = {}
    BY <2>1, <2>2 DEF Entry
  <2>3. CASE coins[t].outs # {}
    <3>1. coins[t].nHeight = HeightsTo(best)[t] /\ HeightsTo(best)[t] # 0
      BY <2>1, <2>3 DEF Entry, Left
    <3>2. t \in Made(best) /\ coins[t].nHeight = MadeAt(best, t)
      BY <1>1, <3>1, MadeFacts DEF HeightsTo
    <3>3. \E x \in ChainTo(best) : t \in TxidsOf(x)
      BY <3>2 DEF Made
    <3>4. \E x \in ChainTo(best) : MadeAt(best, t) = Height[x]
      BY <3>3 DEF MadeAt
    <3>5. QED
      BY <1>2, <2>3, <3>2, <3>4 DEF Chain
  <2>4. QED
    BY <2>2, <2>3
<1>5. undo \in [Blocks -> Seq(Seq([nHeight : Nat, kind : Kinds]))]
  BY DEF IInv, UndoInv, Records
<1>6. ASSUME NEW b \in Blocks, undo[b] # NoUndo
      PROVE  /\ Len(undo[b]) = Len(Vtx[b])
             /\ \A i \in DOMAIN Vtx[b] : Len(undo[b][i]) = Len(Vtx[b][i].vin)
  BY <1>6, BlockFacts DEF IInv, UndoInv, UndoShape
<1>7. stakeSpent \subseteq Outpoints \X (1..peak)
  <2> SUFFICES ASSUME NEW e \in stakeSpent PROVE e \in Outpoints \X (1..peak)
    OBVIOUS
  <2>1. PICK x \in Chain : \E in \in Spends(x) : e = <<in, Height[x]>>
    BY <1>1, StakeSpentFacts DEF IInv
  <2>2. PICK in \in Spends(x) : e = <<in, Height[x]>>
    BY <2>1
  <2>3. PICK tx \in Range(Vtx[x]) : in \in Range(tx.vin)
    BY DEF Spends
  <2>4. tx \in Txs
    BY <1>2 DEF Txs
  <2>5. in \in Outpoints
    BY <2>3, <2>4, InputFacts
  <2>6. QED
    BY <1>2, <2>2, <2>5
<1>8. QED
  BY <1>1, <1>3, <1>4, <1>5, <1>6, <1>7 DEF TypeOK

(* A stake that is spent below the parent on the active chain is gone from *)
(* the coins, and mapStakeSpent has it at the height of the block that     *)
(* spends it, too low for the test.                                        *)
LEMMA InvStakes == IInv => AcceptedStakeIsUnspent
<1> SUFFICES ASSUME IInv, NEW b \in StakeBlocks, NEW have \in SUBSET Fork(b), StakeCheck(b, have),
                    NEW a \in ChainTo(Prev[b]), ~(a = Prev[b] /\ a \in Chain), a \notin Fork(b) \ have,
                    NEW in \in StakeOf(b), in \in Spends(a)
             PROVE  FALSE
  BY DEF AcceptedStakeIsUnspent
<1>1. b \in Blocks /\ Prev[b] \in Index /\ best \in Index
  BY BlockFacts DEF StakeBlocks, IInv, CoinsInv
<1>2. a \in Chain /\ a # Prev[b]
  BY DEF StakeCheck, Fork
<1>3. a \in Blocks /\ Height[a] \in Nat /\ Height[Prev[b]] \in Nat /\ Height[a] < Height[Prev[b]]
  BY <1>1, <1>2, ChainHeights
<1>4. in \in SpentBy(best)
  BY <1>2 DEF SpentBy, Chain
<1>5. in \in Outpoints /\ in.hash \in Txids /\ in = [hash |-> in.hash, n |-> in.n]
  <2>1. PICK tx \in Range(Vtx[a]) : in \in Range(tx.vin)
    BY DEF Spends
  <2>2. tx \in Txs
    BY <1>3 DEF Txs
  <2>3. in \in Outpoints /\ in.hash \in Txids
    BY <2>1, <2>2, InputFacts
  <2>4. QED
    BY <2>3 DEF Outpoints
<1>6. in.n \notin coins[in.hash].outs
  <2>1. coins[in.hash].outs = Left(in.hash, HeightsTo(best), SpentBy(best))
    BY <1>5 DEF IInv, CoinsInv, Agrees, Entry
  <2>2. QED
    BY <1>4, <1>5, <2>1 DEF Left, Unspent
<1>7. PICK h \in Height[Prev[b]]..peak : <<in, h>> \in stakeSpent
  BY <1>6 DEF StakeCheck, StakeIsRecent
<1>8. PICK x \in Chain : in \in Spends(x) /\ h = Height[x]
  BY <1>7, StakeSpentFacts DEF IInv, CoinsInv
<1>9. x = a
  BY <1>1, <1>2, <1>8, ChainIsSound, ChainSpendsOnce DEF Chain
<1>10. QED
  BY <1>3, <1>7, <1>8, <1>9

(* mapStakeSpent follows the part of the active chain connected since the  *)
(* start, through every sequence of reorganisations and restarts, and a    *)
(* stake that AcceptBlock lets through is spent by none of the blocks of   *)
(* its branch that AcceptBlock reads, the parent on the active chain       *)
(* excepted.                                                               *)
THEOREM StakesAlwaysFollow == Spec => []StakesFollowChain
<1>1. IInv => StakesFollowChain
  BY InvTypes, InvStakes DEF StakesFollowChain, IInv
<1>2. QED
  BY <1>1, InvAlways, PTL
=============================================================================
