--------------------------- MODULE ThreadPoolProofs ---------------------------
(***************************************************************************)
(* Proofs that the pool's safety properties hold for any number of         *)
(* workers, tasks and callers and any sequence of submits, waits, stops    *)
(* and resizes.                                                            *)
(***************************************************************************)
EXTENDS ThreadPool, OperatorLemmas, FiniteSetTheorems, TLAPS

USE ThreadPoolAssumption

\* The tasks counted by activeTasks form a finite set.
LEMMA PendingFinite ==
  ASSUME TypeOK, \A w \in Holding : task[w] \in submitted
  PROVE  Pending \subseteq Tasks /\ IsFiniteSet(Pending)
<1>1. Range(taskQueue) \subseteq Tasks
  BY DEF TypeOK, Range
<1>2. Pending \subseteq Tasks
  BY <1>1 DEF TypeOK, Pending
<1>3. QED
  BY <1>2, FS_Subset

-----------------------------------------------------------------------------

\* The pool as its constructor leaves it satisfies the inductive invariant.
LEMMA InitPoolInv == Init => PoolInv
<1> SUFFICES ASSUME Init PROVE PoolInv
  OBVIOUS
<1>1. threads \subseteq Workers
  BY DEF Init, ThreadSets
<1>2. TypeOK
  BY <1>1 DEF Init, TypeOK, WorkerPC, CallerPC
<1>3. LockInv /\ ThreadInv /\ NoEmptyPop /\ QueueInv
  BY DEF Init, LockInv, ThreadInv, NoEmptyPop, QueueInv, Callers
<1>4. Holding = {}
  BY DEF Init, Holding
<1>5. Range(taskQueue) = {}
  BY DEF Init, Range
<1>6. Pending = {}
  BY <1>4, <1>5 DEF Pending
<1>7. CountInv
  BY <1>6, FS_EmptySet DEF CountInv, Init
<1>8. HoldingInv /\ NoTaskLost /\ executed \subseteq submitted
  BY <1>4 DEF HoldingInv, NoTaskLost, Init
<1>9. QED
  BY <1>2, <1>3, <1>7, <1>8 DEF PoolInv

\* Steps that leave queue, tasks in hand and histories alone preserve the parts
\* of the invariant that speak of them.
LEMMA TaskPartUnchanged ==
  ASSUME PoolInv, Holding' = Holding,
         \A w \in Holding : wpc'[w] = wpc[w],
         UNCHANGED <<taskQueue, task, activeTasks, submitted, executed>>
  PROVE  QueueInv' /\ HoldingInv' /\ CountInv' /\ NoTaskLost'
         /\ (executed \subseteq submitted)'
<1>1. Pending' = Pending
  BY DEF Pending
<1>2. InHand' = InHand
  <2>1. \A w \in Workers : wpc'[w] = "run" <=> wpc[w] = "run"
    BY DEF Holding
  <2>2. QED
    BY <2>1 DEF InHand
<1>3. QED
  BY <1>1, <1>2 DEF PoolInv, QueueInv, HoldingInv, CountInv, NoTaskLost

\* A worker that moves between two places where it holds no task.
LEMMA MoveKeepsTasks ==
  ASSUME PoolInv, NEW w \in Workers, NEW to \in WorkerPC,
         wpc[w] \notin {"run", "retire"}, to \notin {"run", "retire"},
         wpc' = [wpc EXCEPT ![w] = to],
         UNCHANGED <<taskQueue, task, activeTasks, submitted, executed>>
  PROVE  QueueInv' /\ HoldingInv' /\ CountInv' /\ NoTaskLost'
         /\ (executed \subseteq submitted)'
<1>1. wpc \in [Workers -> WorkerPC]
  BY DEF PoolInv, TypeOK
<1>2. Holding' = Holding /\ \A v \in Holding : wpc'[v] = wpc[v]
  BY <1>1 DEF Holding
<1>3. QED
  BY <1>2, TaskPartUnchanged

\* Every step of a worker preserves the invariant.
LEMMA WorkerPoolInv ==
  ASSUME PoolInv, NEW w \in Workers, WorkerStep(w) \/ SpuriousWakeup(w)
  PROVE  PoolInv'
<1> USE DEF Goto
<1>t. /\ TypeOK /\ LockInv /\ ThreadInv /\ NoEmptyPop /\ QueueInv /\ HoldingInv
      /\ CountInv /\ NoTaskLost /\ executed \subseteq submitted
  BY DEF PoolInv
<1>w. wpc \in [Workers -> WorkerPC] /\ task \in [Workers -> Tasks \cup {NoOne}]
  BY <1>t DEF TypeOK
<1>1. CASE LoopTest(w)
  <2>1. QueueInv' /\ HoldingInv' /\ CountInv' /\ NoTaskLost'
        /\ (executed \subseteq submitted)'
    BY <1>1, MoveKeepsTasks DEF LoopTest, WorkerPC
  <2>2. TypeOK' /\ LockInv' /\ ThreadInv' /\ NoEmptyPop'
    BY <1>1, <1>t DEF LoopTest, TypeOK, WorkerPC, LockInv, ThreadInv, NoEmptyPop
  <2>3. QED
    BY <2>1, <2>2 DEF PoolInv
<1>2. CASE Lock(w)
  <2>1. QueueInv' /\ HoldingInv' /\ CountInv' /\ NoTaskLost'
        /\ (executed \subseteq submitted)'
    BY <1>2, MoveKeepsTasks DEF Lock, WorkerPC
  <2>2. TypeOK' /\ LockInv' /\ ThreadInv' /\ NoEmptyPop'
    BY <1>2, <1>t DEF Lock, TypeOK, WorkerPC, LockInv, ThreadInv, NoEmptyPop
  <2>3. QED
    BY <2>1, <2>2 DEF PoolInv
<1>3. CASE CheckPredicate(w)
  <2>1. QueueInv' /\ HoldingInv' /\ CountInv' /\ NoTaskLost'
        /\ (executed \subseteq submitted)'
    BY <1>3, MoveKeepsTasks DEF CheckPredicate, WorkerPC
  <2>2. TypeOK' /\ LockInv' /\ ThreadInv'
    BY <1>3, <1>t DEF CheckPredicate, TypeOK, WorkerPC, LockInv, ThreadInv
  <2>3. NoEmptyPop'
    BY <1>3, <1>t, <1>w DEF CheckPredicate, NoEmptyPop
  <2>4. QED
    BY <2>1, <2>2, <2>3 DEF PoolInv
<1>4. CASE Block(w)
  <2>1. QueueInv' /\ HoldingInv' /\ CountInv' /\ NoTaskLost'
        /\ (executed \subseteq submitted)'
    BY <1>4, MoveKeepsTasks DEF Block, WorkerPC
  <2>2. TypeOK' /\ LockInv' /\ ThreadInv' /\ NoEmptyPop'
    BY <1>4, <1>t DEF Block, TypeOK, WorkerPC, LockInv, ThreadInv, NoEmptyPop
  <2>3. QED
    BY <2>1, <2>2 DEF PoolInv
<1>5. CASE SpuriousWakeup(w)
  <2>1. QueueInv' /\ HoldingInv' /\ CountInv' /\ NoTaskLost'
        /\ (executed \subseteq submitted)'
    BY <1>5, MoveKeepsTasks DEF SpuriousWakeup, WorkerPC
  <2>2. TypeOK' /\ LockInv' /\ ThreadInv' /\ NoEmptyPop'
    BY <1>5, <1>t
       DEF SpuriousWakeup, TypeOK, WorkerPC, LockInv, ThreadInv, NoEmptyPop
  <2>3. QED
    BY <2>1, <2>2 DEF PoolInv
<1>6. CASE LeaveStopped(w)
  <2>1. QueueInv' /\ HoldingInv' /\ CountInv' /\ NoTaskLost'
        /\ (executed \subseteq submitted)'
    BY <1>6, MoveKeepsTasks DEF LeaveStopped, WorkerPC
  <2>2. TypeOK' /\ LockInv' /\ ThreadInv' /\ NoEmptyPop'
    BY <1>6, <1>t
       DEF LeaveStopped, TypeOK, WorkerPC, LockInv, ThreadInv, NoEmptyPop
  <2>3. QED
    BY <2>1, <2>2 DEF PoolInv
<1>7. CASE PopTask(w)
  <2> USE DEF PopTask
  <2>1. taskQueue # <<>>
    BY <1>7, <1>t DEF NoEmptyPop
  <2>2. taskQueue \in Seq(Tasks)
    BY <1>t DEF TypeOK
  <2> DEFINE hd == Head(taskQueue)
  <2>3. /\ hd = taskQueue[1] /\ hd \in Tasks
        /\ taskQueue' \in Seq(Tasks) /\ Len(taskQueue') = Len(taskQueue) - 1
        /\ Len(taskQueue) \in Nat /\ Len(taskQueue) >= 1
        /\ \A i \in 1..Len(taskQueue') : taskQueue'[i] = taskQueue[i + 1]
        /\ Range(taskQueue) = Range(taskQueue') \cup {hd}
    BY <1>7, <2>1, <2>2, HeadTail
  <2> HIDE DEF hd
  <2>4. /\ wpc' = [wpc EXCEPT ![w] = "run"] /\ wpc[w] = "pop"
        /\ task' = [task EXCEPT ![w] = hd] /\ queueMutex' = NoOne
        /\ UNCHANGED <<running, activeTasks, threads, cpc, resizeTo, submitted,
                       executed>>
    BY <1>7 DEF hd
  <2>5. TypeOK' /\ LockInv' /\ ThreadInv'
    BY <1>t, <2>3, <2>4 DEF TypeOK, WorkerPC, LockInv, ThreadInv
  <2>6. NoEmptyPop'
    BY <1>t, <1>w, <2>4 DEF NoEmptyPop, LockInv
  <2>7. QueueInv'
    <3>1. ASSUME NEW i \in 1..Len(taskQueue')
          PROVE  taskQueue'[i] \in submitted' \ executed' /\ i + 1 \in 1..Len(taskQueue)
                 /\ taskQueue'[i] = taskQueue[i + 1]
      BY <1>t, <2>3, <2>4 DEF QueueInv
    <3>2. QED
      BY <1>t, <3>1, <2>3 DEF QueueInv
  <2>8. Holding' = Holding \cup {w} /\ w \notin Holding
    BY <1>w, <2>4 DEF Holding
  <2>9. /\ task'[w] = hd /\ wpc'[w] = "run"
        /\ \A v \in Workers \ {w} : task'[v] = task[v] /\ wpc'[v] = wpc[v]
    BY <1>w, <2>4
  <2>10. /\ hd \in submitted \ executed
         /\ \A i \in 1..Len(taskQueue') : taskQueue'[i] # hd
         /\ \A v \in Holding : task[v] # hd
    <3>1. hd \in submitted \ executed /\ \A v \in Holding : task[v] # hd
      BY <1>t, <2>3 DEF QueueInv, HoldingInv
    <3>2. ASSUME NEW i \in 1..Len(taskQueue') PROVE taskQueue'[i] # hd
      <4>1. i + 1 \in 1..Len(taskQueue) /\ 1 \in 1..Len(taskQueue) /\ i + 1 # 1
        BY <2>3
      <4>2. QED
        BY <4>1, <1>t, <2>3 DEF QueueInv
    <3>3. QED
      BY <3>1, <3>2
  <2>11. HoldingInv'
    <3>1. ASSUME NEW v \in Holding, v # w
          PROVE  /\ task'[v] = task[v] /\ wpc'[v] = wpc[v]
                 /\ task[v] \in submitted /\ (wpc[v] = "run" <=> task[v] \notin executed)
                 /\ \A i \in 1..Len(taskQueue') : taskQueue'[i] # task[v]
      <4>1. task'[v] = task[v] /\ wpc'[v] = wpc[v]
        BY <2>9, <3>1 DEF Holding
      <4>2. \A i \in 1..Len(taskQueue') :
               i + 1 \in 1..Len(taskQueue) /\ taskQueue'[i] = taskQueue[i + 1]
        BY <2>3
      <4>3. QED
        BY <1>t, <4>1, <4>2, <3>1 DEF HoldingInv
    <3>2. \A v, u \in Holding : task[v] = task[u] => v = u
      BY <1>t DEF HoldingInv
    <3>3. QED
      BY <3>1, <3>2, <2>4, <2>8, <2>9, <2>10 DEF HoldingInv
  <2>12. Pending' = Pending
    <3>1. {task'[v] : v \in Holding'} = {task[v] : v \in Holding} \cup {hd}
      BY <2>8, <2>9 DEF Holding
    <3>2. QED
      BY <3>1, <2>3 DEF Pending
  <2>13. CountInv'
    BY <1>t, <2>12, <2>4 DEF CountInv
  <2>14. NoTaskLost'
    <3>1. InHand \cup {hd} \subseteq InHand'
      BY <2>9, <2>4 DEF InHand
    <3>2. QED
      BY <1>t, <3>1, <2>3, <2>4 DEF NoTaskLost
  <2>15. QED
    BY <1>t, <2>4, <2>5, <2>6, <2>7, <2>11, <2>13, <2>14 DEF PoolInv
<1>8. CASE RunTask(w)
  <2> USE DEF RunTask
  <2>1. /\ wpc[w] = "run" /\ wpc' = [wpc EXCEPT ![w] = "retire"]
        /\ executed' = executed \cup {task[w]}
        /\ UNCHANGED <<running, activeTasks, taskQueue, queueMutex, threads,
                       task, cpc, resizeTo, submitted>>
    BY <1>8
  <2>2. w \in Holding /\ Holding' = Holding
    BY <1>w, <2>1 DEF Holding
  <2>3. task[w] \in submitted /\ task[w] \in Tasks
    BY <1>t, <2>2 DEF HoldingInv, TypeOK
  <2>4. TypeOK' /\ LockInv' /\ ThreadInv' /\ NoEmptyPop'
    BY <1>t, <2>1, <2>3
       DEF TypeOK, WorkerPC, LockInv, ThreadInv, NoEmptyPop
  <2>5. QueueInv' /\ (executed \subseteq submitted)'
    BY <1>t, <2>1, <2>2, <2>3 DEF QueueInv, HoldingInv
  <2>6. HoldingInv'
    <3>1. wpc'[w] = "retire" /\ \A v \in Workers \ {w} : wpc'[v] = wpc[v]
      BY <1>w, <2>1
    <3>2. QED
      BY <1>t, <2>1, <2>2, <3>1 DEF HoldingInv, Holding
  <2>7. CountInv'
    BY <1>t, <2>1, <2>2 DEF CountInv, Pending
  <2>8. NoTaskLost'
    <3>1. InHand \subseteq InHand' \cup {task[w]}
      BY <1>w, <2>1 DEF InHand
    <3>2. QED
      BY <1>t, <2>1, <3>1 DEF NoTaskLost
  <2>9. QED
    BY <2>4, <2>5, <2>6, <2>7, <2>8 DEF PoolInv
<1>9. CASE RetireTask(w)
  <2> USE DEF RetireTask
  <2>1. /\ wpc[w] = "retire" /\ wpc' = [wpc EXCEPT ![w] = "top"]
        /\ activeTasks' = activeTasks - 1
        /\ task' = [task EXCEPT ![w] = NoOne]
        /\ UNCHANGED <<running, taskQueue, queueMutex, threads, cpc, resizeTo,
                       submitted, executed>>
    BY <1>9
  <2>2. w \in Holding /\ Holding' = Holding \ {w}
    BY <1>w, <2>1 DEF Holding
  <2>3. /\ task'[w] = NoOne /\ wpc'[w] = "top"
        /\ \A v \in Workers \ {w} : task'[v] = task[v] /\ wpc'[v] = wpc[v]
    BY <1>w, <2>1
  <2>4. Pending' = Pending \ {task[w]} /\ task[w] \in Pending
    <3>1. /\ \A v \in Holding \ {w} : task[v] # task[w] /\ task'[v] = task[v]
          /\ \A i \in 1..Len(taskQueue) : taskQueue[i] # task[w]
      BY <1>t, <2>2, <2>3 DEF HoldingInv, Holding
    <3>2. DOMAIN taskQueue = 1..Len(taskQueue)
      BY <1>t DEF TypeOK
    <3>3. task[w] \notin Range(taskQueue)
      BY <3>1, <3>2 DEF Range
    <3>4. {task'[v] : v \in Holding'} = {task[v] : v \in Holding} \ {task[w]}
      BY <3>1, <2>2
    <3>5. QED
      BY <3>3, <3>4, <2>1, <2>2 DEF Pending
  <2>5. CountInv' /\ activeTasks' \in Nat
    <3>1. IsFiniteSet(Pending)
      BY <1>t, PendingFinite DEF HoldingInv
    <3>2. IsFiniteSet(Pending') /\ Cardinality(Pending') = Cardinality(Pending) - 1
      BY <3>1, <2>4, FS_RemoveElement
    <3>3. Cardinality(Pending') \in Nat
      BY <3>2, FS_CardinalityType
    <3>4. QED
      BY <1>t, <3>2, <3>3, <2>1 DEF CountInv
  <2>6. TypeOK' /\ LockInv' /\ ThreadInv' /\ NoEmptyPop'
    BY <1>t, <2>1, <2>5 DEF TypeOK, WorkerPC, LockInv, ThreadInv, NoEmptyPop
  <2>7. QueueInv' /\ (executed \subseteq submitted)'
    BY <1>t, <2>1 DEF QueueInv
  <2>8. HoldingInv'
    <3>1. \A v \in Holding' : v \in Holding /\ task'[v] = task[v] /\ wpc'[v] = wpc[v]
      BY <2>2, <2>3 DEF Holding
    <3>2. QED
      BY <1>t, <3>1, <2>1 DEF HoldingInv
  <2>9. NoTaskLost'
    <3>1. InHand \subseteq InHand'
      BY <1>w, <2>1, <2>3 DEF InHand
    <3>2. QED
      BY <1>t, <2>1, <3>1 DEF NoTaskLost
  <2>10. QED
    BY <2>5, <2>6, <2>7, <2>8, <2>9 DEF PoolInv
<1>10. QED
  BY <1>1, <1>2, <1>3, <1>4, <1>5, <1>6, <1>7, <1>8, <1>9 DEF WorkerStep

\* Every step of a thread that calls the pool preserves the invariant.
LEMMA CallerPoolInv ==
  ASSUME PoolInv,
         \/ \E c \in Submitters : NotifyOne(c) \/ \E t \in Tasks : Submit(c, t)
         \/ WaitForCompletion \/ CompletionSeen
         \/ Stop \/ \E n \in ThreadCounts : SetThreadCount(n)
         \/ NotifyAll \/ JoinAll \/ Restart
  PROVE  PoolInv'
<1> USE DEF Call, Callers
<1>t. /\ TypeOK /\ LockInv /\ ThreadInv /\ NoEmptyPop /\ QueueInv /\ HoldingInv
      /\ CountInv /\ NoTaskLost /\ executed \subseteq submitted
  BY DEF PoolInv
<1>w. wpc \in [Workers -> WorkerPC] /\ cpc \in [Callers -> CallerPC]
  BY <1>t DEF TypeOK
<1>q. ASSUME UNCHANGED <<taskQueue, task, activeTasks, submitted, executed>>,
             UNCHANGED wpc
      PROVE  QueueInv' /\ HoldingInv' /\ CountInv' /\ NoTaskLost'
             /\ (executed \subseteq submitted)'
  BY <1>q, TaskPartUnchanged DEF Holding
<1>1. ASSUME NEW c \in Submitters, NEW t \in Tasks, Submit(c, t)
      PROVE  PoolInv'
  <2>1. taskQueue \in Seq(Tasks) /\ activeTasks \in Nat
    BY <1>t DEF TypeOK
  <2>2. /\ taskQueue' \in Seq(Tasks) /\ Len(taskQueue') = Len(taskQueue) + 1
        /\ Len(taskQueue) \in Nat
        /\ \A i \in 1..Len(taskQueue) : taskQueue'[i] = taskQueue[i]
        /\ taskQueue'[Len(taskQueue) + 1] = t
        /\ Range(taskQueue') = Range(taskQueue) \cup {t}
    BY <1>1, <2>1, AppendFacts DEF Submit
  <2>3. /\ queueMutex = NoOne /\ t \notin submitted
        /\ cpc' = [cpc EXCEPT ![c] = "notify"] /\ cpc[c] = "idle"
        /\ activeTasks' = activeTasks + 1 /\ submitted' = submitted \cup {t}
        /\ UNCHANGED <<running, queueMutex, threads, wpc, task, resizeTo,
                       executed>>
    BY <1>1 DEF Submit
  <2>4. TypeOK' /\ LockInv' /\ ThreadInv'
    BY <1>t, <2>1, <2>2, <2>3 DEF TypeOK, CallerPC, LockInv, ThreadInv
  <2>5. NoEmptyPop'
    BY <1>t, <2>3 DEF NoEmptyPop, LockInv
  <2>6. \A i \in 1..Len(taskQueue') :
           i = Len(taskQueue) + 1 \/ i \in 1..Len(taskQueue)
    BY <2>2
  <2>7. QueueInv' /\ (executed \subseteq submitted)'
    BY <1>t, <2>2, <2>3, <2>6 DEF QueueInv
  <2>8. Holding' = Holding /\ InHand' = InHand
    BY <2>3 DEF Holding, InHand
  <2>9. HoldingInv'
    BY <1>t, <2>2, <2>3, <2>6, <2>8 DEF HoldingInv
  <2>10. Pending' = Pending \cup {t}
    BY <2>2, <2>3, <2>8 DEF Pending
  <2>11. t \notin Pending
    <3>1. DOMAIN taskQueue = 1..Len(taskQueue)
      BY <2>1
    <3>2. QED
      BY <1>t, <2>3, <3>1 DEF Pending, Range, QueueInv, HoldingInv
  <2>12. CountInv'
    <3>1. IsFiniteSet(Pending)
      BY <1>t, PendingFinite DEF HoldingInv
    <3>2. Cardinality(Pending') = Cardinality(Pending) + 1
      BY <3>1, <2>10, <2>11, FS_AddElement
    <3>3. QED
      BY <1>t, <3>2, <2>3 DEF CountInv
  <2>13. NoTaskLost'
    BY <1>t, <2>2, <2>3, <2>8 DEF NoTaskLost
  <2>14. QED
    BY <2>4, <2>5, <2>7, <2>9, <2>12, <2>13 DEF PoolInv
<1>2. ASSUME NEW c \in Submitters, NotifyOne(c)
      PROVE  PoolInv'
  <2>1. TypeOK' /\ LockInv' /\ ThreadInv' /\ NoEmptyPop'
    BY <1>2, <1>t DEF NotifyOne, WaitingWorkers, TypeOK, WorkerPC, CallerPC,
                      LockInv, ThreadInv, NoEmptyPop
  <2>2. Holding' = Holding /\ \A v \in Holding : wpc'[v] = wpc[v]
    BY <1>2, <1>w DEF NotifyOne, WaitingWorkers, Holding
  <2>3. QED
    BY <1>2, <2>1, <2>2, TaskPartUnchanged DEF NotifyOne, PoolInv
<1>3. CASE WaitForCompletion
  <2>1. TypeOK' /\ LockInv' /\ ThreadInv' /\ NoEmptyPop'
    BY <1>3, <1>t DEF WaitForCompletion, TypeOK, CallerPC, LockInv, ThreadInv,
                      NoEmptyPop
  <2>2. QED
    BY <1>3, <1>q, <2>1 DEF WaitForCompletion, PoolInv
<1>4. CASE CompletionSeen
  <2>1. TypeOK' /\ LockInv' /\ ThreadInv' /\ NoEmptyPop'
    BY <1>4, <1>t DEF CompletionSeen, TypeOK, CallerPC, LockInv, ThreadInv,
                      NoEmptyPop
  <2>2. QED
    BY <1>4, <1>q, <2>1 DEF CompletionSeen, PoolInv
<1>5. ASSUME NEW n \in ThreadCounts \cup {-1}, ClearRunning(n)
      PROVE  PoolInv'
  <2>1. TypeOK' /\ LockInv' /\ ThreadInv' /\ NoEmptyPop'
    BY <1>5, <1>t DEF ClearRunning, TypeOK, CallerPC, LockInv, ThreadInv,
                      NoEmptyPop
  <2>2. QED
    BY <1>5, <1>q, <2>1 DEF ClearRunning, PoolInv
<1>6. CASE Stop
  BY <1>5, <1>6 DEF Stop
<1>7. ASSUME NEW n \in ThreadCounts, SetThreadCount(n)
      PROVE  PoolInv'
  BY <1>5, <1>7 DEF SetThreadCount
<1>8. CASE NotifyAll
  <2>1. TypeOK' /\ LockInv' /\ ThreadInv' /\ NoEmptyPop'
    BY <1>8, <1>t DEF NotifyAll, TypeOK, WorkerPC, CallerPC, LockInv, ThreadInv,
                      NoEmptyPop
  <2>2. Holding' = Holding /\ \A v \in Holding : wpc'[v] = wpc[v]
    BY <1>8, <1>w DEF NotifyAll, Holding
  <2>3. QED
    BY <1>8, <2>1, <2>2, TaskPartUnchanged DEF NotifyAll, PoolInv
<1>9. CASE JoinAll
  <2>1. TypeOK' /\ LockInv' /\ ThreadInv' /\ NoEmptyPop'
    BY <1>9, <1>t DEF JoinAll, TypeOK, CallerPC, LockInv, ThreadInv, NoEmptyPop
  <2>2. QED
    BY <1>9, <1>q, <2>1 DEF JoinAll, PoolInv
<1>10. CASE Restart
  <2>1. \A w \in Workers : wpc[w] = "exited"
    BY <1>10, <1>t DEF Restart, ThreadInv
  <2>2. threads' \subseteq Workers
    BY <1>10 DEF Restart, ThreadSets
  <2>3. \A w \in Workers : wpc'[w] \in {"top", "exited"}
    BY <1>10 DEF Restart
  <2>4. TypeOK' /\ LockInv' /\ ThreadInv' /\ NoEmptyPop'
    BY <1>10, <1>t, <2>1, <2>2, <2>3
       DEF Restart, TypeOK, WorkerPC, CallerPC, LockInv, ThreadInv, NoEmptyPop
  <2>5. Holding = {} /\ Holding' = {}
    BY <2>1, <2>3 DEF Holding
  <2>6. QED
    BY <1>10, <2>4, <2>5, TaskPartUnchanged DEF Restart, PoolInv
<1>11. QED
  BY <1>1, <1>2, <1>3, <1>4, <1>6, <1>7, <1>8, <1>9, <1>10

-----------------------------------------------------------------------------

\* The inductive invariant holds in every reachable state of the pool, for any
\* number of threads, tasks and callers.
THEOREM PoolInvariant == Spec => []PoolInv
<1>1. PoolInv /\ [Next]_poolVars => PoolInv'
  <2> SUFFICES ASSUME PoolInv, [Next]_poolVars PROVE PoolInv'
    OBVIOUS
  <2>1. ASSUME Next PROVE PoolInv'
    BY <2>1, WorkerPoolInv, CallerPoolInv DEF Next
  <2>2. CASE UNCHANGED poolVars
    <3>1. TypeOK' /\ LockInv' /\ ThreadInv' /\ NoEmptyPop'
      BY <2>2 DEF poolVars, PoolInv, TypeOK, LockInv, ThreadInv, NoEmptyPop
    <3>2. Holding' = Holding /\ \A v \in Holding : wpc'[v] = wpc[v]
      BY <2>2 DEF poolVars, Holding
    <3>3. QED
      BY <2>2, <3>1, <3>2, TaskPartUnchanged DEF poolVars, PoolInv
  <2>3. QED
    BY <2>1, <2>2
<1>2. QED
  BY <1>1, InitPoolInv, PTL DEF Spec

\* Every variable keeps its type; in particular the unsigned activeTasks never
\* wraps below zero in activeTasks--.
THEOREM PoolTypeCorrect == Spec => []TypeOK
<1>1. PoolInv => TypeOK
  BY DEF PoolInv
<1>2. QED
  BY <1>1, PoolInvariant, PTL

\* waitForCompletion() returns only when every submitted task has returned.
THEOREM WaitIsSound == Spec => []CompletionSound
<1>1. PoolInv => CompletionSound
  <2> SUFFICES ASSUME PoolInv, activeTasks = 0 PROVE submitted \subseteq executed
    BY DEF CompletionSound
  <2>1. IsFiniteSet(Pending)
    BY PendingFinite DEF PoolInv, HoldingInv
  <2>2. Pending = {}
    BY <2>1, FS_EmptySet DEF PoolInv, CountInv
  <2>3. InHand \subseteq Pending
    BY DEF InHand, Holding, Pending
  <2>4. QED
    BY <2>2, <2>3 DEF PoolInv, NoTaskLost, Pending
<1>2. QED
  BY <1>1, PoolInvariant, PTL

\* A submitted task is in one place: queued, in one worker's hands, or executed. stop()
\* and setThreadCount() lose none, and none is taken from the queue or run twice.
THEOREM TasksAreKept == Spec => []TasksKept
<1>1. PoolInv => TasksKept
  <2> SUFFICES ASSUME PoolInv PROVE NoTaskLost /\ ExecutedOnce
    BY DEF TasksKept
  <2>1. /\ \A w \in Workers : wpc[w] = "run" => task[w] \notin executed
        /\ \A v, w \in Workers :
             wpc[v] = "run" /\ wpc[w] = "run" /\ task[v] = task[w] => v = w
    BY DEF PoolInv, HoldingInv, Holding
  <2>2. DOMAIN taskQueue = 1..Len(taskQueue)
    BY DEF PoolInv, TypeOK
  <2>3. ASSUME NEW i \in 1..Len(taskQueue)
        PROVE  taskQueue[i] \notin InHand /\ taskQueue[i] \notin executed
    BY DEF PoolInv, QueueInv, HoldingInv, Holding, InHand
  <2>4. Range(taskQueue) \cap (InHand \cup executed) = {}
    BY <2>2, <2>3 DEF Range
  <2>5. QED
    BY <2>1, <2>4 DEF PoolInv, ExecutedOnce
<1>2. QED
  BY <1>1, PoolInvariant, PTL

\* front() and pop() are never applied to an empty queue.
THEOREM PopsAreSafe == Spec => []NoEmptyPop
<1>1. PoolInv => NoEmptyPop
  BY DEF PoolInv
<1>2. QED
  BY <1>1, PoolInvariant, PTL

-----------------------------------------------------------------------------
(* The pool implements TaskPool: submit(), the pop and the return of a task are *)
(* its three steps, everything else a thread does leaves the tasks alone.       *)

\* A step that leaves the queue, the history and the running tasks alone is a
\* stuttering step of TaskPool.
LEMMA TasksUntouched ==
  ASSUME UNCHANGED <<taskQueue, executed>>,
         \A w \in Workers : wpc'[w] = "run" <=> wpc[w] = "run",
         \A w \in Workers : wpc[w] = "run" => task'[w] = task[w]
  PROVE  UNCHANGED TaskView!taskVars
<1>1. InHand' = InHand
  BY DEF InHand
<1>2. QED
  BY <1>1 DEF TaskView!taskVars

\* Each step of a worker takes the head of the queue, finishes a task it has in
\* hand, or does nothing to the tasks.
LEMMA WorkerImplements ==
  ASSUME PoolInv, NEW w \in Workers, WorkerStep(w) \/ SpuriousWakeup(w)
  PROVE  [TaskView!Next]_(TaskView!taskVars)
<1> USE DEF Goto
<1>t. TypeOK /\ NoEmptyPop /\ HoldingInv
  BY DEF PoolInv
<1>w. wpc \in [Workers -> WorkerPC] /\ task \in [Workers -> Tasks \cup {NoOne}]
  BY <1>t DEF TypeOK
<1>1. CASE PopTask(w)
  <2> USE DEF PopTask
  <2>1. taskQueue # <<>>
    BY <1>1, <1>t DEF NoEmptyPop
  <2>2. /\ wpc'[w] = "run" /\ task'[w] = Head(taskQueue) /\ wpc[w] # "run"
        /\ \A v \in Workers \ {w} : task'[v] = task[v] /\ wpc'[v] = wpc[v]
        /\ taskQueue' = Tail(taskQueue) /\ executed' = executed
    BY <1>1, <1>w
  <2>3. InHand' = InHand \cup {Head(taskQueue)}
    BY <2>2 DEF InHand
  <2>4. TaskView!Take
    BY <2>1, <2>2, <2>3 DEF TaskView!Take
  <2>5. QED
    BY <2>4 DEF TaskView!Next
<1>2. CASE RunTask(w)
  <2> USE DEF RunTask
  <2>1. /\ wpc[w] = "run" /\ wpc'[w] # "run" /\ task' = task
        /\ \A v \in Workers \ {w} : wpc'[v] = wpc[v]
        /\ taskQueue' = taskQueue /\ executed' = executed \cup {task[w]}
    BY <1>2, <1>w
  <2>2. \A v \in Workers \ {w} : wpc[v] = "run" => task[v] # task[w]
    BY <1>t, <2>1 DEF HoldingInv, Holding
  <2>3. InHand' = InHand \ {task[w]} /\ task[w] \in InHand
    BY <2>1, <2>2 DEF InHand
  <2>4. task[w] \in Tasks
    BY <1>t, <2>1 DEF HoldingInv, Holding, TypeOK
  <2>5. TaskView!Finish(task[w])
    BY <2>1, <2>3 DEF TaskView!Finish
  <2>6. QED
    BY <2>4, <2>5 DEF TaskView!Next
<1>3. ASSUME NEW to \in WorkerPC, wpc[w] # "run", to # "run",
             wpc' = [wpc EXCEPT ![w] = to],
             \A v \in Workers : wpc[v] = "run" => task'[v] = task[v],
             UNCHANGED <<taskQueue, executed>>
      PROVE  UNCHANGED TaskView!taskVars
  BY <1>3, <1>w, TasksUntouched
<1>4. CASE RetireTask(w)
  BY <1>3, <1>4, <1>w DEF RetireTask, WorkerPC
<1>5. CASE LoopTest(w)
  BY <1>3, <1>5, <1>w DEF LoopTest, WorkerPC
<1>6. CASE Lock(w)
  BY <1>3, <1>6, <1>w DEF Lock, WorkerPC
<1>7. CASE CheckPredicate(w)
  BY <1>3, <1>7, <1>w DEF CheckPredicate, WorkerPC
<1>8. CASE Block(w)
  BY <1>3, <1>8, <1>w DEF Block, WorkerPC
<1>9. CASE SpuriousWakeup(w)
  BY <1>3, <1>9, <1>w DEF SpuriousWakeup, WorkerPC
<1>10. CASE LeaveStopped(w)
  BY <1>3, <1>10, <1>w DEF LeaveStopped, WorkerPC
<1>11. QED
  BY <1>1, <1>2, <1>4, <1>5, <1>6, <1>7, <1>8, <1>9, <1>10 DEF WorkerStep

\* A caller submits a task the pool has not seen, or leaves the tasks alone;
\* stop() and setThreadCount() are among the latter.
LEMMA CallerImplements ==
  ASSUME PoolInv,
         \/ \E c \in Submitters : NotifyOne(c) \/ \E t \in Tasks : Submit(c, t)
         \/ WaitForCompletion \/ CompletionSeen
         \/ Stop \/ \E n \in ThreadCounts : SetThreadCount(n)
         \/ NotifyAll \/ JoinAll \/ Restart
  PROVE  [TaskView!Next]_(TaskView!taskVars)
<1>w. wpc \in [Workers -> WorkerPC]
  BY DEF PoolInv, TypeOK
<1>1. ASSUME NEW c \in Submitters, NEW t \in Tasks, Submit(c, t)
      PROVE  TaskView!Submit(t)
  <2>1. /\ t \notin submitted /\ taskQueue' = Append(taskQueue, t)
        /\ UNCHANGED <<wpc, task, executed>>
    BY <1>1 DEF Submit
  <2>2. DOMAIN taskQueue = 1..Len(taskQueue)
    BY DEF PoolInv, TypeOK
  <2>3. t \notin Range(taskQueue)
    BY <2>1, <2>2 DEF PoolInv, QueueInv, Range
  <2>4. t \notin InHand /\ t \notin executed
    BY <2>1 DEF PoolInv, HoldingInv, Holding, InHand
  <2>5. InHand' = InHand
    BY <2>1 DEF InHand
  <2>6. QED
    BY <2>1, <2>3, <2>4, <2>5 DEF TaskView!Submit, TaskView!Range, Range
<1>2. ASSUME NEW c \in Submitters, NotifyOne(c)
      PROVE  UNCHANGED TaskView!taskVars
  <2>1. \A w \in Workers : wpc'[w] = "run" <=> wpc[w] = "run"
    BY <1>2, <1>w DEF NotifyOne, WaitingWorkers
  <2>2. QED
    BY <1>2, <2>1, TasksUntouched DEF NotifyOne
<1>3. ASSUME UNCHANGED <<taskQueue, wpc, task, executed>>
      PROVE  UNCHANGED TaskView!taskVars
  BY <1>3, TasksUntouched
<1>4. ASSUME WaitForCompletion \/ CompletionSeen \/ JoinAll
      PROVE  UNCHANGED TaskView!taskVars
  BY <1>3, <1>4 DEF WaitForCompletion, CompletionSeen, JoinAll
<1>5. ASSUME Stop \/ \E n \in ThreadCounts : SetThreadCount(n)
      PROVE  UNCHANGED TaskView!taskVars
  BY <1>3, <1>5 DEF Stop, SetThreadCount, ClearRunning
<1>6. CASE NotifyAll
  <2>1. \A w \in Workers : wpc'[w] = "run" <=> wpc[w] = "run"
    BY <1>6 DEF NotifyAll
  <2>2. QED
    BY <1>6, <2>1, TasksUntouched DEF NotifyAll
<1>7. CASE Restart
  <2>1. Owner \in Callers /\ cpc[Owner] = "restart"
    BY <1>7 DEF Restart, Call, Callers
  <2>2. \A w \in Workers : wpc[w] # "run" /\ wpc'[w] # "run"
    BY <1>7, <2>1 DEF Restart, PoolInv, ThreadInv
  <2>3. QED
    BY <1>7, <2>2, TasksUntouched DEF Restart
<1>8. QED
  BY <1>1, <1>2, <1>4, <1>5, <1>6, <1>7 DEF TaskView!Next

\* For any number of threads and callers the pool serves its tasks first come
\* first served and hands each to one worker, whatever the order of submits,
\* stops and resizes: it implements TaskPool, on which Server is built.
THEOREM PoolImplementsTaskPool == Spec => ImplementsTaskPool
<1>1. Init => TaskView!Init
  BY DEF Init, TaskView!Init, InHand
<1>2. PoolInv /\ [Next]_poolVars => [TaskView!Next]_(TaskView!taskVars)
  <2> SUFFICES ASSUME PoolInv, [Next]_poolVars
               PROVE  [TaskView!Next]_(TaskView!taskVars)
    OBVIOUS
  <2>1. CASE Next
    BY <2>1, WorkerImplements, CallerImplements DEF Next
  <2>2. CASE UNCHANGED poolVars
    BY <2>2, TasksUntouched DEF poolVars
  <2>3. QED
    BY <2>1, <2>2
<1>3. QED
  BY <1>1, <1>2, PoolInvariant, PTL DEF Spec, ImplementsTaskPool, TaskView!Spec

=============================================================================
