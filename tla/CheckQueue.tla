----------------------------- MODULE CheckQueue -----------------------------
(***************************************************************************)
(* The parallel script-check queue of src/checkqueue.h (CCheckQueue and    *)
(* its RAII controller CCheckQueueControl), as ConnectBlock in             *)
(* src/main.cpp drives it.                                                 *)
(*                                                                         *)
(* Every critical section of Loop() runs under one boost::mutex from the   *)
(* lock to the wait or to the end of the block, so each is one action; the *)
(* checks themselves run outside the lock, one step per check.  The queue  *)
(* is a set: the code uses the vector as a stack because "the order of     *)
(* booleans doesn't matter", and taking ANY batch of the right size        *)
(* includes the last-in ones.                                              *)
(*                                                                         *)
(* Threads are interrupted at shutdown (threadGroup.interrupt_all), and    *)
(* condition_variable::wait is the only interruption point inside Loop():  *)
(* the counters a waiting thread had raised then stay raised.              *)
(***************************************************************************)
EXTENDS Integers, FiniteSets

CONSTANTS
  Workers,     \* the threads that run ThreadScriptCheck
  Master,      \* the thread inside ConnectBlock (it holds cs_main)
  Checks,      \* the script checks of a block
  Bad,         \* the checks whose operator() returns false
  BatchSize    \* nBatchSize

ASSUME CheckQueueAssumption ==
  /\ Master \notin Workers
  /\ IsFiniteSet(Workers)
  /\ IsFiniteSet(Checks)
  /\ Bad \subseteq Checks
  /\ BatchSize \in Nat \ {0}

Threads == Workers \cup {Master}

VARIABLES
  queue,       \* checks pushed and not taken yet
  nIdle,       \* threads inside cond.wait
  nTotal,      \* threads inside Loop()
  nTodo,       \* checks pushed and not accounted for yet
  fAllOk,      \* the shared temporary result
  pc,          \* where each thread is
  batch,       \* vChecks of each thread; nNow is its size
  left,        \* the part of batch not evaluated yet
  fOk,         \* the local result of each thread
  unwinding,   \* the master leaves ConnectBlock early: Wait()'s result is dropped
  interrupted, \* threads that boost interrupted
  added,       \* history: checks added under the current controller
  passed,      \* history: those of them that ran and returned true
  verdict      \* history: what the last Wait() returned, "none" before

queueVars == <<queue, nIdle, nTotal, nTodo, fAllOk, pc, batch, left, fOk,
          unwinding, interrupted, added, passed, verdict>>

shared == <<queue, nIdle, nTotal, nTodo, fAllOk>>
local  == <<batch, left, fOk>>
hist   == <<added, passed, verdict>>

(* closed: no controller; open: controller built, checks being added;      *)
(* enter: about to lock for the first time; work: runs its batch outside   *)
(* the lock; wait: blocked in cond.wait; awake: left cond.wait, needs the  *)
(* lock; dead: a worker whose Loop() was left by thread_interrupted.       *)
PCs == {"closed", "open", "enter", "work", "wait", "awake", "dead"}

QueueInit ==
  /\ queue = {} /\ nIdle = 0 /\ nTotal = 0 /\ nTodo = 0 /\ fAllOk = TRUE
  /\ pc = [t \in Threads |-> IF t = Master THEN "closed" ELSE "enter"]
  /\ batch = [t \in Threads |-> {}]
  /\ left = [t \in Threads |-> {}]
  /\ fOk = [t \in Threads |-> TRUE]
  /\ unwinding = FALSE
  /\ interrupted = {}
  /\ added = {} /\ passed = {} /\ verdict = "none"

-----------------------------------------------------------------------------
(* IsIdle(): what the constructor of the controller asserts.               *)
IsIdle == nTotal = nIdle /\ nTodo = 0 /\ fAllOk

(* CCheckQueueControl(pqueue): a new controller for the next block.        *)
OpenControl ==
  /\ pc[Master] = "closed"
  /\ pc' = [pc EXCEPT ![Master] = "open"]
  /\ added' = {} /\ passed' = {} /\ verdict' = "none"
  /\ UNCHANGED <<shared, local, unwinding, interrupted>>

(* condWorker.notify_one() for one check, notify_all() for more.           *)
NotifyWorkers(n) ==
  LET sleeping == {w \in Workers : pc[w] = "wait"}
  IN  IF n > 1
      THEN pc' = [t \in Threads |-> IF t \in sleeping THEN "awake" ELSE pc[t]]
      ELSE IF n = 1 /\ sleeping # {}
           THEN \E w \in sleeping : pc' = [pc EXCEPT ![w] = "awake"]
           ELSE pc' = pc

(* Add(vChecks): push the checks of one transaction.                       *)
Add(S) ==
  /\ pc[Master] = "open"
  /\ queue' = queue \cup S
  /\ nTodo' = nTodo + Cardinality(S)
  /\ NotifyWorkers(Cardinality(S))
  /\ added' = added \cup S
  /\ UNCHANGED <<nIdle, nTotal, fAllOk, local, unwinding, interrupted, passed, verdict>>

(* control.Wait() at the end of ConnectBlock (early = FALSE), or the       *)
(* destructor's Wait() after an early error return (early = TRUE).         *)
Wait(early) ==
  /\ pc[Master] = "open"
  /\ pc' = [pc EXCEPT ![Master] = "enter"]
  /\ unwinding' = early
  /\ UNCHANGED <<shared, local, interrupted, hist>>

-----------------------------------------------------------------------------
(* Loop(), from the while (queue.empty()) test on, with the lock held.     *)

(* nNow: a share of the queue, at least 1 and at most nBatchSize.          *)
NowSize(size, tot, idle) ==
  LET share   == size \div (tot + idle + 1)
      limited == IF share < BatchSize THEN share ELSE BatchSize
  IN  IF limited < 1 THEN 1 ELSE limited

(* The master leaves with the result and resets it for the next block.     *)
ReturnResult(t, ok, n, tot, idle, pcs) ==
  /\ queue = {} /\ t = Master /\ n = 0
  /\ nTotal' = tot - 1
  /\ nIdle' = idle
  /\ fAllOk' = TRUE
  /\ pc' = [pcs EXCEPT ![t] = "closed"]
  /\ verdict' = IF unwinding THEN "none" ELSE IF ok THEN "ok" ELSE "fail"
  /\ unwinding' = FALSE
  /\ batch' = [batch EXCEPT ![t] = {}]
  /\ UNCHANGED <<queue, left, fOk>>

(* Nothing to take: block on the thread's condition variable.              *)
Sleep(t, ok, n, tot, idle, pcs) ==
  /\ queue = {} /\ ~(t = Master /\ n = 0)
  /\ nTotal' = tot
  /\ nIdle' = idle + 1
  /\ fAllOk' = ok
  /\ pc' = [pcs EXCEPT ![t] = "wait"]
  /\ batch' = [batch EXCEPT ![t] = {}]
  /\ UNCHANGED <<queue, left, fOk, unwinding, verdict>>

(* Take a batch off the queue and remember the result so far.              *)
TakeBatch(t, ok, n, tot, idle, pcs) ==
  /\ queue # {}
  /\ \E b \in SUBSET queue :
       /\ Cardinality(b) = NowSize(Cardinality(queue), tot, idle)
       /\ queue' = queue \ b
       /\ batch' = [batch EXCEPT ![t] = b]
       /\ left' = [left EXCEPT ![t] = b]
  /\ fOk' = [fOk EXCEPT ![t] = ok]
  /\ nTotal' = tot
  /\ nIdle' = idle
  /\ fAllOk' = ok
  /\ pc' = [pcs EXCEPT ![t] = "work"]
  /\ UNCHANGED <<unwinding, verdict>>

LoopTop(t, ok, n, tot, idle, pcs) ==
  /\ nTodo' = n
  /\ \/ ReturnResult(t, ok, n, tot, idle, pcs)
     \/ Sleep(t, ok, n, tot, idle, pcs)
     \/ TakeBatch(t, ok, n, tot, idle, pcs)
  /\ UNCHANGED <<interrupted, added, passed>>

(* First iteration of Loop(): the thread joins the pool.                   *)
Enter(t) ==
  /\ pc[t] = "enter"
  /\ LoopTop(t, fAllOk, nTodo, nTotal + 1, nIdle, pc)

(* Mutant of NotifyMaster: nobody tells the master.                        *)
NotifyNobody(t, n) == pc

(* The worker that accounts for the last check wakes the master.           *)
NotifyMaster(t, n) ==
  IF n = 0 /\ t # Master /\ pc[Master] = "wait"
  THEN [pc EXCEPT ![Master] = "awake"] ELSE pc

(* Mutants of Cleanup: the local result is lost; the batch counts as one   *)
(* check; the thread joins the pool again; it counts as having waited.     *)
CleanupDropsResult(t) ==
  LET n == nTodo - Cardinality(batch[t])
  IN  /\ pc[t] = "work" /\ left[t] = {}
      /\ LoopTop(t, fAllOk, n, nTotal, nIdle, NotifyMaster(t, n))
CleanupCountsOne(t) ==
  /\ pc[t] = "work" /\ left[t] = {}
  /\ LoopTop(t, fAllOk /\ fOk[t], nTodo - 1, nTotal, nIdle, NotifyMaster(t, nTodo - 1))
CleanupJoinsAgain(t) ==
  LET n == nTodo - Cardinality(batch[t])
  IN  /\ pc[t] = "work" /\ left[t] = {}
      /\ LoopTop(t, fAllOk /\ fOk[t], n, nTotal + 1, nIdle, NotifyMaster(t, n))
CleanupLowersIdle(t) ==
  LET n == nTodo - Cardinality(batch[t])
  IN  /\ pc[t] = "work" /\ left[t] = {}
      /\ LoopTop(t, fAllOk /\ fOk[t], n, nTotal, nIdle - 1, NotifyMaster(t, n))

(* Later iterations: clean up after the previous batch, then go on.        *)
Cleanup(t) ==
  LET n == nTodo - Cardinality(batch[t])
  IN  /\ pc[t] = "work" /\ left[t] = {}
      /\ LoopTop(t, fAllOk /\ fOk[t], n, nTotal, nIdle, NotifyMaster(t, n))

(* cond.wait returned: the while test is evaluated again.                  *)
WakeUp(t) ==
  /\ pc[t] = "awake"
  /\ LoopTop(t, fAllOk, nTodo, nTotal, nIdle - 1, pc)

(* Execute one check of the batch, unless one already failed.              *)
Execute(t) ==
  /\ pc[t] = "work"
  /\ \E c \in left[t] :
       /\ left' = [left EXCEPT ![t] = @ \ {c}]
       /\ fOk' = [fOk EXCEPT ![t] = @ /\ c \notin Bad]
       /\ passed' = IF fOk[t] /\ c \notin Bad THEN passed \cup {c} ELSE passed
  /\ UNCHANGED <<shared, pc, batch, unwinding, interrupted, added, verdict>>

(* condition_variable::wait may return without a notification.             *)
SpuriousWakeup(t) ==
  /\ pc[t] = "wait"
  /\ pc' = [pc EXCEPT ![t] = "awake"]
  /\ UNCHANGED <<shared, local, unwinding, interrupted, hist>>

(* interrupt_all() at shutdown: cond.wait throws.  A worker thread ends;   *)
(* the master unwinds and the controller's destructor calls Wait() again.  *)
(* Neither lowers nIdle nor nTotal.                                        *)
Interrupt(t) ==
  /\ t \notin interrupted
  /\ pc[t] \in {"wait", "awake"}
  /\ interrupted' = interrupted \cup {t}
  /\ pc' = [pc EXCEPT ![t] = IF t = Master THEN "enter" ELSE "dead"]
  /\ unwinding' = (t = Master \/ unwinding)
  /\ UNCHANGED <<shared, local, hist>>

MasterStep ==
  \/ OpenControl
  \/ \E S \in SUBSET (Checks \ added) : Add(S)
  \/ \E early \in BOOLEAN : Wait(early)

LoopStep(t) == Enter(t) \/ Cleanup(t) \/ WakeUp(t) \/ Execute(t)

QueueNext ==
  \/ MasterStep
  \/ \E t \in Threads : LoopStep(t) \/ SpuriousWakeup(t) \/ Interrupt(t)

(* A runnable thread keeps running and gets the mutex in the end; nothing  *)
(* forces a new block, a spurious wakeup or a shutdown.                    *)
QueueFairness == \A t \in Threads : WF_queueVars(LoopStep(t))

QueueSpec == QueueInit /\ [][QueueNext]_queueVars
FairQueueSpec == QueueSpec /\ QueueFairness

-----------------------------------------------------------------------------
(* The values each variable may take; nTodo is an unsigned int, and no     *)
(* counter ever drops below zero.                                          *)
QueueTypes ==
  /\ queue \subseteq Checks
  /\ nIdle \in Int /\ nTotal \in Int /\ nTodo \in Int
  /\ fAllOk \in BOOLEAN
  /\ pc \in [Threads -> PCs]
  /\ batch \in [Threads -> SUBSET Checks]
  /\ left \in [Threads -> SUBSET Checks]
  /\ fOk \in [Threads -> BOOLEAN]
  /\ unwinding \in BOOLEAN
  /\ interrupted \subseteq Threads
  /\ added \subseteq Checks /\ passed \subseteq Checks
  /\ verdict \in {"none", "ok", "fail"}

QueueTypeOK == QueueTypes /\ nIdle \in Nat /\ nTotal \in Nat /\ nTodo \in Nat

Outstanding == queue \cup UNION {batch[t] : t \in Threads}

(* "Number of verifications that haven't completed yet": nTodo counts the  *)
(* checks in the queue and in the workers' own batches, each exactly once. *)
TodoCountsOutstanding == nTodo = Cardinality(Outstanding)

(* Wait() returns true exactly when every check added for the block ran    *)
(* and succeeded, whoever ran it and whatever batch it was in.             *)
VerdictCorrect ==
  /\ verdict = "ok" => added \cap Bad = {} /\ passed = added
  /\ verdict = "fail" => added \cap Bad # {}

(* The assertion of CCheckQueueControl's constructor: between two blocks   *)
(* the queue is idle, also after threads were interrupted in their waits.  *)
IdleBetweenBlocks == pc[Master] = "closed" => IsIdle

(* Wait() always returns: the master never sleeps through the last check.  *)
WaitReturns == (pc[Master] = "enter") ~> (pc[Master] = "closed")

-----------------------------------------------------------------------------
(* The inductive invariant behind QueueTypeOK, TodoCountsOutstanding,           *)
(* VerdictCorrect and IdleBetweenBlocks.                                   *)
Working == {t \in Threads : pc[t] = "work"}
Waiting == {t \in Threads : pc[t] \in {"wait", "awake", "dead"}}

(* nIdle and nTotal count the threads inside cond.wait and inside Loop(),  *)
(* plus one each for the wait an interrupted master never came back from.  *)
PoolInv ==
  /\ nIdle = Cardinality(Waiting) + (IF Master \in interrupted THEN 1 ELSE 0)
  /\ nTotal = nIdle + Cardinality(Working)

(* A check is in one place: in the queue or in one thread's batch.         *)
BatchInv ==
  /\ \A t \in Threads : pc[t] = "work" <=> batch[t] # {}
  /\ \A t \in Threads : left[t] \subseteq batch[t]
  /\ \A t \in Threads : batch[t] \cap queue = {}
  /\ \A t, u \in Threads : t # u => batch[t] \cap batch[u] = {}
  /\ Outstanding \subseteq added

(* While a controller lives, fAllOk and the local results tell of exactly  *)
(* the checks already accounted for, respectively already evaluated.       *)
ResultInv ==
  /\ passed \subseteq added \ Bad
  /\ pc[Master] # "closed" /\ fAllOk => added \ Outstanding \subseteq passed
  /\ ~fAllOk => added \cap Bad # {}
  /\ \A t \in Threads : pc[t] = "work" /\ fOk[t] => batch[t] \ left[t] \subseteq passed
  /\ \A t \in Threads : pc[t] = "work" /\ ~fOk[t] => added \cap Bad # {}
  /\ pc[Master] = "closed" => Outstanding = {} /\ fAllOk
  /\ pc[Master] # "closed" => verdict = "none"
  /\ pc[Master] # "dead"

QueueInv ==
  /\ QueueTypes /\ PoolInv /\ BatchInv /\ TodoCountsOutstanding
  /\ ResultInv /\ VerdictCorrect
=============================================================================
