------------------------------ MODULE ThreadPool ------------------------------
(***************************************************************************)
(* The worker pool of include/ThreadPool.h and src/thread/ThreadPool.cpp:  *)
(* a mutex-protected task queue, one condition variable, the atomics       *)
(* running and activeTasks, and the worker threads of the vector threads.  *)
(*                                                                         *)
(* Threads that call the pool are the Submitters (the accept thread of     *)
(* SyncServer, or the main thread in SyncManager::syncLocal) and the Owner *)
(* (the main thread), the only one that waits, stops or resizes.           *)
(* Every access to a variable that another thread may change is a step of  *)
(* its own; what runs under one lock_guard is one step.                    *)
(***************************************************************************)
EXTENDS Integers, Sequences, FiniteSets, Functions

CONSTANTS Workers,       \* identities available to worker threads
          Tasks,         \* tasks that may be submitted, each once
          Submitters,    \* threads that call submit()
          Owner,         \* thread that calls waitForCompletion/stop/setThreadCount
          ThreadCounts,  \* sizes the pool is created with or resized to
          NoOne          \* no thread, no task

ASSUME ThreadPoolAssumption ==
  /\ IsFiniteSet(Workers) /\ IsFiniteSet(Tasks)
  /\ ThreadCounts \subseteq 0..Cardinality(Workers)
  /\ NoOne \notin Workers \cup Tasks

VARIABLES
  running,       \* std::atomic<bool> running
  activeTasks,   \* std::atomic<size_t> activeTasks
  taskQueue,     \* std::queue of tasks, guarded by queueMutex
  queueMutex,    \* worker that holds queueMutex between two steps, or NoOne
  threads,       \* std::vector<std::thread> threads: the thread objects in it
  wpc,           \* where each worker thread is in workerThread()
  task,          \* the local variable task of each worker
  cpc,           \* where each calling thread is in the pool's API
  resizeTo,      \* argument of the setThreadCount() in progress, -1 if none
  submitted,     \* history: tasks that submit() has queued
  executed       \* history: tasks whose function has returned

poolVars == <<running, activeTasks, taskQueue, queueMutex, threads, wpc, task,
              cpc, resizeTo, submitted, executed>>

Callers == Submitters \cup {Owner}

WorkerPC == {"top", "lock", "check", "block", "waiting", "pop", "run",
             "retire", "exited"}
CallerPC == {"idle", "notify", "wait", "notifyAll", "join", "restart"}

TypeOK ==
  /\ running \in BOOLEAN
  /\ activeTasks \in Nat
  /\ taskQueue \in Seq(Tasks)
  /\ queueMutex \in Workers \cup {NoOne}
  /\ threads \subseteq Workers
  /\ wpc \in [Workers -> WorkerPC]
  /\ task \in [Workers -> Tasks \cup {NoOne}]
  /\ cpc \in [Callers -> CallerPC]
  /\ resizeTo \in ThreadCounts \cup {-1}
  /\ submitted \subseteq Tasks
  /\ executed \subseteq Tasks

\* The thread identities a vector of n std::thread objects may hold.
ThreadSets(n) == {S \in SUBSET Workers : Cardinality(S) = n}

\* ThreadPool::ThreadPool: running, no task, threadCount fresh workers.
Init ==
  /\ running = TRUE
  /\ activeTasks = 0
  /\ taskQueue = <<>>
  /\ queueMutex = NoOne
  /\ threads \in UNION {ThreadSets(n) : n \in ThreadCounts}
  /\ wpc = [w \in Workers |-> IF w \in threads THEN "top" ELSE "exited"]
  /\ task = [w \in Workers |-> NoOne]
  /\ cpc = [c \in Callers |-> "idle"]
  /\ resizeTo = -1
  /\ submitted = {}
  /\ executed = {}

-----------------------------------------------------------------------------
(* workerThread() *)

Goto(w, from, to) == wpc[w] = from /\ wpc' = [wpc EXCEPT ![w] = to]

\* while (running)
LoopTest(w) ==
  /\ Goto(w, "top", IF running THEN "lock" ELSE "exited")
  /\ UNCHANGED <<running, activeTasks, taskQueue, queueMutex, threads, task,
                 cpc, resizeTo, submitted, executed>>

\* unique_lock on entry, and the re-acquisition inside condition.wait
Lock(w) ==
  /\ queueMutex = NoOne
  /\ Goto(w, "lock", "check")
  /\ queueMutex' = w
  /\ UNCHANGED <<running, activeTasks, taskQueue, threads, task, cpc, resizeTo,
                 submitted, executed>>

\* Variant of CheckPredicate: the predicate looks at activeTasks instead of the
\* queue.
PredicateOnCounter(w) ==
  /\ Goto(w, "check", IF ~running \/ activeTasks > 0 THEN "pop" ELSE "block")
  /\ UNCHANGED <<running, activeTasks, taskQueue, queueMutex, threads, task,
                 cpc, resizeTo, submitted, executed>>

\* the wait predicate, evaluated with the mutex held
CheckPredicate(w) ==
  /\ Goto(w, "check", IF ~running \/ taskQueue # <<>> THEN "pop" ELSE "block")
  /\ UNCHANGED <<running, activeTasks, taskQueue, queueMutex, threads, task,
                 cpc, resizeTo, submitted, executed>>

\* condition.wait releases the mutex and blocks, atomically
Block(w) ==
  /\ Goto(w, "block", "waiting")
  /\ queueMutex' = NoOne
  /\ UNCHANGED <<running, activeTasks, taskQueue, threads, task, cpc, resizeTo,
                 submitted, executed>>

\* a condition variable may wake without a notification
SpuriousWakeup(w) ==
  /\ Goto(w, "waiting", "lock")
  /\ UNCHANGED <<running, activeTasks, taskQueue, queueMutex, threads, task,
                 cpc, resizeTo, submitted, executed>>

\* if (!running && taskQueue.empty()) return;
LeaveStopped(w) ==
  /\ ~running /\ taskQueue = <<>>
  /\ Goto(w, "pop", "exited")
  /\ queueMutex' = NoOne
  /\ UNCHANGED <<running, activeTasks, taskQueue, threads, task, cpc, resizeTo,
                 submitted, executed>>

\* Variants of PopTask: activeTasks-- when the task is taken, not when it has
\* returned; front() without pop(); the newest task first.
PopCountsDown(w) ==
  /\ running \/ taskQueue # <<>>
  /\ Goto(w, "pop", "run")
  /\ task' = [task EXCEPT ![w] = Head(taskQueue)]
  /\ taskQueue' = Tail(taskQueue)
  /\ queueMutex' = NoOne
  /\ activeTasks' = activeTasks - 1
  /\ UNCHANGED <<running, threads, cpc, resizeTo, submitted, executed>>

FrontWithoutPop(w) ==
  /\ running \/ taskQueue # <<>>
  /\ Goto(w, "pop", "run")
  /\ task' = [task EXCEPT ![w] = Head(taskQueue)]
  /\ queueMutex' = NoOne
  /\ UNCHANGED <<running, activeTasks, taskQueue, threads, cpc, resizeTo,
                 submitted, executed>>

PopNewest(w) ==
  /\ running \/ taskQueue # <<>>
  /\ Goto(w, "pop", "run")
  /\ task' = [task EXCEPT ![w] = taskQueue[Len(taskQueue)]]
  /\ taskQueue' = SubSeq(taskQueue, 1, Len(taskQueue) - 1)
  /\ queueMutex' = NoOne
  /\ UNCHANGED <<running, activeTasks, threads, cpc, resizeTo, submitted,
                 executed>>

\* task = move(front()); pop(); and the end of the locked block
PopTask(w) ==
  /\ running \/ taskQueue # <<>>
  /\ Goto(w, "pop", "run")
  /\ task' = [task EXCEPT ![w] = Head(taskQueue)]
  /\ taskQueue' = Tail(taskQueue)
  /\ queueMutex' = NoOne
  /\ UNCHANGED <<running, activeTasks, threads, cpc, resizeTo, submitted,
                 executed>>

\* task(), returning or throwing an exception that is caught and logged
RunTask(w) ==
  /\ Goto(w, "run", "retire")
  /\ executed' = executed \cup {task[w]}
  /\ UNCHANGED <<running, activeTasks, taskQueue, queueMutex, threads, task,
                 cpc, resizeTo, submitted>>

\* Variants of RetireTask: the counter is decremented twice, or, as on an
\* exception that skips it, not at all.
RetireTwice(w) ==
  /\ Goto(w, "retire", "top")
  /\ activeTasks' = activeTasks - 2
  /\ task' = [task EXCEPT ![w] = NoOne]
  /\ UNCHANGED <<running, taskQueue, queueMutex, threads, cpc, resizeTo,
                 submitted, executed>>

RetireUncounted(w) ==
  /\ Goto(w, "retire", "top")
  /\ task' = [task EXCEPT ![w] = NoOne]
  /\ UNCHANGED <<running, activeTasks, taskQueue, queueMutex, threads, cpc,
                 resizeTo, submitted, executed>>

\* activeTasks--
RetireTask(w) ==
  /\ Goto(w, "retire", "top")
  /\ activeTasks' = activeTasks - 1
  /\ task' = [task EXCEPT ![w] = NoOne]
  /\ UNCHANGED <<running, taskQueue, queueMutex, threads, cpc, resizeTo,
                 submitted, executed>>

WorkerStep(w) ==
  \/ LoopTest(w) \/ Lock(w) \/ CheckPredicate(w) \/ Block(w)
  \/ LeaveStopped(w) \/ PopTask(w) \/ RunTask(w) \/ RetireTask(w)

-----------------------------------------------------------------------------
(* submit() *)

Call(c, from, to) == cpc[c] = from /\ cpc' = [cpc EXCEPT ![c] = to]

\* the lock_guard block: emplace and activeTasks++
Submit(c, t) ==
  /\ queueMutex = NoOne
  /\ t \notin submitted
  /\ Call(c, "idle", "notify")
  /\ taskQueue' = Append(taskQueue, t)
  /\ activeTasks' = activeTasks + 1
  /\ submitted' = submitted \cup {t}
  /\ UNCHANGED <<running, queueMutex, threads, wpc, task, resizeTo, executed>>

WaitingWorkers == {w \in Workers : wpc[w] = "waiting"}

\* Variant of NotifyOne: the notification is forgotten.
NotifyNobody(c) ==
  /\ Call(c, "notify", "idle")
  /\ UNCHANGED <<running, activeTasks, taskQueue, queueMutex, threads, wpc,
                 task, resizeTo, submitted, executed>>

\* condition.notify_one()
NotifyOne(c) ==
  /\ Call(c, "notify", "idle")
  /\ \/ /\ WaitingWorkers = {}
        /\ UNCHANGED wpc
     \/ \E w \in WaitingWorkers : wpc' = [wpc EXCEPT ![w] = "lock"]
  /\ UNCHANGED <<running, activeTasks, taskQueue, queueMutex, threads, task,
                 resizeTo, submitted, executed>>

-----------------------------------------------------------------------------
(* waitForCompletion(), stop() and setThreadCount() *)

WaitForCompletion ==
  /\ Call(Owner, "idle", "wait")
  /\ UNCHANGED <<running, activeTasks, taskQueue, queueMutex, threads, wpc,
                 task, resizeTo, submitted, executed>>

\* while (activeTasks > 0) sleep: leaves the loop on reading 0
CompletionSeen ==
  /\ activeTasks = 0
  /\ Call(Owner, "wait", "idle")
  /\ UNCHANGED <<running, activeTasks, taskQueue, queueMutex, threads, wpc,
                 task, resizeTo, submitted, executed>>

\* running = false, without the mutex
ClearRunning(n) ==
  /\ Call(Owner, "idle", "notifyAll")
  /\ running' = FALSE
  /\ resizeTo' = n
  /\ UNCHANGED <<activeTasks, taskQueue, queueMutex, threads, wpc, task,
                 submitted, executed>>

Stop == ClearRunning(-1)

\* setThreadCount(n) returns at once when n is the current vector's size
SetThreadCount(n) ==
  /\ n # Cardinality(threads)
  /\ ClearRunning(n)

\* condition.notify_all()
NotifyAll ==
  /\ Call(Owner, "notifyAll", "join")
  /\ wpc' = [w \in Workers |-> IF wpc[w] = "waiting" THEN "lock" ELSE wpc[w]]
  /\ UNCHANGED <<running, activeTasks, taskQueue, queueMutex, threads, task,
                 resizeTo, submitted, executed>>

\* join() of every thread; the joined objects stay in the vector
JoinAll ==
  /\ \A w \in threads : wpc[w] = "exited"
  /\ Call(Owner, "join", IF resizeTo = -1 THEN "idle" ELSE "restart")
  /\ UNCHANGED <<running, activeTasks, taskQueue, queueMutex, threads, wpc,
                 task, resizeTo, submitted, executed>>

\* Variant of Restart: the resized pool starts with an empty queue.
RestartEmpty ==
  /\ Call(Owner, "restart", "idle")
  /\ running' = TRUE
  /\ threads' \in ThreadSets(resizeTo)
  /\ wpc' = [w \in Workers |-> IF w \in threads' THEN "top" ELSE "exited"]
  /\ resizeTo' = -1
  /\ taskQueue' = <<>>
  /\ UNCHANGED <<activeTasks, queueMutex, task, submitted, executed>>

\* setThreadCount() after stop(): running = true; clear(); emplace_back * n
Restart ==
  /\ Call(Owner, "restart", "idle")
  /\ running' = TRUE
  /\ threads' \in ThreadSets(resizeTo)
  /\ wpc' = [w \in Workers |-> IF w \in threads' THEN "top" ELSE "exited"]
  /\ resizeTo' = -1
  /\ UNCHANGED <<activeTasks, taskQueue, queueMutex, task, submitted, executed>>

-----------------------------------------------------------------------------

Next ==
  \/ \E w \in Workers : WorkerStep(w) \/ SpuriousWakeup(w)
  \/ \E c \in Submitters : NotifyOne(c) \/ \E t \in Tasks : Submit(c, t)
  \/ WaitForCompletion \/ CompletionSeen
  \/ Stop \/ \E n \in ThreadCounts : SetThreadCount(n)
  \/ NotifyAll \/ JoinAll \/ Restart

Spec == Init /\ [][Next]_poolVars

\* Threads that can run do run, a mutex that keeps being released is got by
\* every thread that wants it, and tasks return. No fairness on spurious
\* wake-ups and none on the decision to submit, wait, stop or resize.
Fairness ==
  /\ \A w \in Workers : /\ WF_poolVars(WorkerStep(w))
                        /\ SF_poolVars(Lock(w))
  /\ \A c \in Submitters : WF_poolVars(NotifyOne(c))
  /\ WF_poolVars(CompletionSeen)
  /\ WF_poolVars(NotifyAll)
  /\ WF_poolVars(JoinAll)
  /\ WF_poolVars(Restart)

FairSpec == Spec /\ Fairness

-----------------------------------------------------------------------------
(* Properties *)

\* tasks taken from the queue whose function has not returned
InHand == {task[w] : w \in {v \in Workers : wpc[v] = "run"}}

\* When waitForCompletion() reads activeTasks = 0 no submitted task is still
\* queued or running: SyncManager::syncLocal reports completion on this.
CompletionSound == activeTasks = 0 => submitted \subseteq executed

\* No task disappears, whatever stop() and setThreadCount() do to the threads:
\* it is queued, in a worker's hands, or has run.
NoTaskLost == submitted \subseteq Range(taskQueue) \cup InHand \cup executed

\* A task is handed to one worker only and never runs twice, also when a
\* resize makes new threads take over the queue of the old ones.
ExecutedOnce ==
  /\ \A w \in Workers : wpc[w] = "run" => task[w] \notin executed
  /\ \A v, w \in Workers : wpc[v] = "run" /\ wpc[w] = "run" /\ task[v] = task[w]
                              => v = w
  /\ Range(taskQueue) \cap (InHand \cup executed) = {}

\* A task that submit() has queued is in one place at every time: in the queue, in
\* the hands of one worker, or executed, whatever stop() and setThreadCount() do.
TasksKept == NoTaskLost /\ ExecutedOnce

\* taskQueue.front() is never called on an empty queue: a worker between the
\* wait predicate and pop sees a task unless the pool has stopped, although
\* running is read twice and changes without the mutex.
NoEmptyPop ==
  \A w \in Workers : wpc[w] = "pop" /\ taskQueue = <<>> => ~running

TaskView == INSTANCE TaskPool WITH queue <- taskQueue, taken <- InHand,
                                   done <- executed

\* The pool with its threads, its mutex, stop() and setThreadCount() does to the
\* tasks only what TaskPool allows: first come first served, one worker each.
ImplementsTaskPool == TaskView!Spec

\* While the pool is running with at least one thread every submitted task is
\* executed: no notify_one() is lost between the predicate and the block.
TasksProgress ==
  \A t \in Tasks :
    t \in submitted ~> t \in executed \/ ~running \/ threads = {}

\* waitForCompletion() returns when it is called on a running, non-empty pool.
WaitReturns ==
  (cpc[Owner] = "wait" /\ running /\ threads # {}) ~> cpc[Owner] = "idle"

\* stop(), and so the destructors of SyncManager and SyncServer, returns
\* ("stops all worker threads", ThreadPool.cpp:99).
StopReturns == cpc[Owner] = "join" ~> cpc[Owner] # "join"

-----------------------------------------------------------------------------
(* The inductive invariant behind CompletionSound, TasksKept and NoEmptyPop. *)

\* workers that hold a task not yet subtracted from activeTasks
Holding == {w \in Workers : wpc[w] \in {"run", "retire"}}

\* tasks that activeTasks counts
Pending == Range(taskQueue) \cup {task[w] : w \in Holding}

LockInv ==
  \A w \in Workers : queueMutex = w <=> wpc[w] \in {"check", "block", "pop"}

ThreadInv ==
  /\ \A w \in Workers \ threads : wpc[w] = "exited"
  /\ cpc[Owner] = "restart" => \A w \in Workers : wpc[w] = "exited"

QueueInv ==
  /\ \A i \in 1..Len(taskQueue) : taskQueue[i] \in submitted \ executed
  /\ \A i, j \in 1..Len(taskQueue) : taskQueue[i] = taskQueue[j] => i = j

HoldingInv ==
  \A w \in Holding :
    /\ task[w] \in submitted
    /\ wpc[w] = "run" <=> task[w] \notin executed
    /\ \A i \in 1..Len(taskQueue) : taskQueue[i] # task[w]
    /\ \A v \in Holding : task[v] = task[w] => v = w

CountInv == activeTasks = Cardinality(Pending)

PoolInv ==
  /\ TypeOK /\ LockInv /\ ThreadInv /\ NoEmptyPop /\ QueueInv /\ HoldingInv
  /\ CountInv /\ NoTaskLost /\ executed \subseteq submitted

=============================================================================
