---------------------------- MODULE TreeSyncProofs ----------------------------
(***************************************************************************)
(* Proofs that the synchronisation of a tree keeps its safety properties   *)
(* for trees of any shape, any number of workers, any order of the tasks   *)
(* and any number of I/O errors and runs.                                  *)
(***************************************************************************)
EXTENDS TreeSync, OperatorLemmas, FiniteSetTheorems, TLAPS

USE TreeSyncAssumption DEF Targets, Present

Busy == {w \in Workers : worker[w].pc # "free"}

\* The pool: what the workers hold, that nobody works between two runs, and that
\* every task of the run is waiting, in work or counted.
PoolInv ==
  /\ DOMAIN dest = Paths
  /\ worker \in [Workers -> [pc : {"free", "dirs", "mkdir"}, path : Paths, todo : Seq(Paths)]]
  /\ \A w \in Busy : worker[w].path \in Targets
  /\ \A w \in Workers : worker[w].pc = "mkdir" => worker[w].todo # <<>>
  /\ pc = "idle" => queue = <<>> /\ Busy = {}
  /\ pc = "wait" => result = "none"
  /\ totalTasks = completedTasks + Len(queue) + Cardinality(Busy)
  /\ totalTasks \in Nat /\ completedTasks \in Nat

\* what a task that has not failed leaves at its path
Synced(p) == dest[p] = src[p] \/ (src[p] = Dir /\ IsFile(dest[p]))

\* As long as no task of the run has failed, a path that is not yet synchronised
\* waits in the queue or is in the hands of a worker, or the scan has not read it.
TaskInv ==
  failed = {} /\ (pc = "wait" \/ result = "true") =>
    \A p \in Present \ unread : \/ Synced(p)
                                \/ p \in Range(queue)
                                \/ \E w \in Busy : worker[w].path = p

\* The task of a directory ends with the directory itself, which no other task
\* takes away again.
DirInv ==
  \A w \in Busy :
    src[worker[w].path] = Dir =>
      /\ worker[w].todo # <<>> => worker[w].todo[Len(worker[w].todo)] = worker[w].path
      /\ worker[w].todo = <<>> /\ failed = {} => dest[worker[w].path] # None

\* The inductive invariant.
TreeInv == TypeOK /\ PoolInv /\ TaskInv /\ DirInv

-----------------------------------------------------------------------------
(* The operators *)

\* A list of all elements of a finite set, as SyncLocal makes it of the tasks.
LEMMA Enumerated ==
  ASSUME NEW S, IsFiniteSet(S), NEW q \in SetToSeqs(S)
  PROVE  q \in Seq(S) /\ Len(q) = Cardinality(S) /\ Range(q) = S
<1> DEFINE D == 1..Cardinality(S)
<1>1. q \in [D -> S] /\ \A i, j \in D : i # j => q[i] # q[j]
  BY DEF SetToSeqs
<1>2. Cardinality(S) \in Nat
  BY FS_CardinalityType
<1>3. q \in Seq(S) /\ Len(q) = Cardinality(S)
  BY <1>1, <1>2
<1>4. IsFiniteSet(D) /\ Cardinality(D) = Cardinality(S)
  <2>1. 1 \in Int /\ Cardinality(S) \in Int
    BY <1>2
  <2>2. /\ IsFiniteSet(D)
        /\ Cardinality(D) = IF 1 > Cardinality(S) THEN 0 ELSE Cardinality(S) - 1 + 1
    BY <2>1, FS_Interval
  <2>3. QED
    BY <1>2, <2>2
<1>5. q \in Injection(D, S)
  BY <1>1 DEF Injection, IsInjective
<1>6. q \in Surjection(D, S)
  BY <1>4, <1>5, FS_Injection
<1>7. Range(q) = S
  BY <1>1, <1>6 DEF Surjection, Range
<1>8. QED
  BY <1>3, <1>7

\* createDirectory's levels of a path: paths all of them, the path itself the last.
LEMMA LevelsOfPath ==
  ASSUME NEW p \in Paths
  PROVE  /\ Levels(p) \in Seq(Paths) /\ Levels(p) # <<>>
         /\ Levels(p)[Len(Levels(p))] = p
<1>1. p \in Seq(STRING) /\ Len(p) \in Nat
  OBVIOUS
<1>2. \A n \in 1..Len(p) + 1 : SubSeq(p, 1, n - 1) \in Paths
  <2> SUFFICES ASSUME NEW n \in 1..Len(p) + 1 PROVE SubSeq(p, 1, n - 1) \in Prefixes(p)
    OBVIOUS
  <2>1. n - 1 \in 0..Len(p)
    BY <1>1
  <2>2. QED
    BY <2>1 DEF Prefixes
<1>3. Levels(p) \in Seq(Paths) /\ Len(Levels(p)) = Len(p) + 1
  BY <1>1, <1>2 DEF Levels
<1>4. Levels(p)[Len(p) + 1] = SubSeq(p, 1, Len(p))
  BY <1>1 DEF Levels
<1>5. SubSeq(p, 1, Len(p)) = p
  BY <1>1
<1>6. QED
  BY <1>1, <1>3, <1>4, <1>5

\* The parent of a path is a path.
LEMMA ParentOfPath ==
  ASSUME NEW p \in Targets
  PROVE  Front(p) \in Paths
<1>1. p \in Seq(STRING) /\ Len(p) \in Nat /\ Len(p) >= 1
  OBVIOUS
<1>2. Len(p) - 1 \in 0..Len(p)
  BY <1>1
<1>3. QED
  BY <1>2 DEF Front, Prefixes

\* The source has nothing below a file.
LEMMA BelowFile ==
  ASSUME src \in Trees, NEW p \in Paths, NEW q \in Paths,
         IsFile(src[p]), IsPrefix(p, q), src[q] # None
  PROVE  q = p
BY DEF IsTree, IsFile, IsStrictPrefix

\* What a transfer writes is a content of the source or a part of one.
LEMMA WrittenIsStored ==
  ASSUME src \in Trees, NEW p \in Paths, IsFile(src[p])
  PROVE  src[p] \in Stored /\ Prefixes(src[p]) \subseteq Stored
<1>1. src[p] \in Contents
  BY DEF Contents
<1>2. QED
  BY <1>1 DEF Stored

-----------------------------------------------------------------------------
(* The invariant *)

\* Before the first run.
LEMMA InitTreeInv == Init => TreeInv
<1> SUFFICES ASSUME Init PROVE TreeInv
  OBVIOUS
<1>1. /\ src \in Trees /\ dest \in OldTrees /\ sameTime \in [Targets -> BOOLEAN]
      /\ pc = "idle" /\ strategy \in Strategies /\ queue = <<>>
      /\ worker = [w \in Workers |-> Free] /\ totalTasks = 0 /\ completedTasks = 0
      /\ result = "none" /\ failed = {} /\ unread = {} /\ errors = 0 /\ changes = 0
  BY DEF Init
<1>2. /\ <<>> \in Seq(Paths)
      /\ Free \in [pc : {"free", "dirs", "mkdir"}, path : Paths, todo : Seq(Paths)]
  BY DEF Free
<1>3. Busy = {} /\ Cardinality(Busy) = 0
  BY <1>1, FS_EmptySet DEF Busy, Free
<1>4. TypeOK
  <2>1. \A p \in Paths : dest[p] \in {None, Dir} \cup Stored
    <3> SUFFICES ASSUME NEW p \in Paths, IsFile(dest[p]) PROVE dest[p] \in Contents
      BY DEF IsFile, Stored
    <3>1. QED
      BY <1>1 DEF Contents
  <2>2. queue \in Seq(Targets)
    BY <1>1
  <2>3. Cardinality(Targets) \in Nat
    BY FS_Subset, FS_CardinalityType
  <2>4. totalTasks \in 0..Cardinality(Targets) /\ completedTasks \in 0..totalTasks
    BY <1>1, <2>3
  <2>5. \A w \in Workers : /\ worker[w].pc \in {"free", "dirs", "mkdir"}
                           /\ worker[w].path \in Paths /\ worker[w].todo \in Seq(Paths)
    BY <1>1, <1>2
  <2>6. QED
    BY <1>1, <2>1, <2>2, <2>4, <2>5 DEF TypeOK
<1>5. PoolInv
  <2>1. totalTasks = completedTasks + Len(queue) + Cardinality(Busy)
    BY <1>1, <1>3
  <2>2. QED
    BY <1>1, <1>2, <1>3, <2>1 DEF PoolInv, Free
<1>6. TaskInv /\ DirInv
  BY <1>1, <1>3 DEF TaskInv, DirInv
<1>7. QED
  BY <1>4, <1>5, <1>6 DEF TreeInv

\* A run begins: every path that may differ becomes a task.
LEMMA SyncLocalTreeInv ==
  ASSUME TreeInv, SyncLocal
  PROVE  TreeInv'
<1>t. TypeOK /\ PoolInv
  BY DEF TreeInv
<1>1. /\ pc = "idle" /\ pc' = "wait" /\ strategy' \in Strategies /\ completedTasks' = 0
      /\ result' = "none" /\ failed' = {}
      /\ UNCHANGED <<src, dest, sameTime, worker, changes>>
  BY DEF SyncLocal, treeVars
<1>e. errors' \in 0..MaxErrors
  BY <1>t DEF SyncLocal, TypeOK
<1>s. \E hidden \in SUBSET Present, blind, half \in SUBSET Files :
        Submit(hidden, blind, half)
  BY DEF SyncLocal, Hidden
<1>p. PICK hidden \in SUBSET Present, blind, half \in SUBSET Files :
        Submit(hidden, blind, half)
  BY <1>s
<1>2. PICK tasks \in Changed(hidden, blind, half) :
        /\ queue' \in SetToSeqs(tasks) /\ totalTasks' = Cardinality(tasks)
        /\ unread' = hidden \cup (blind \ tasks)
  BY <1>p DEF Submit
<1>3. tasks \subseteq Targets /\ unread' \subseteq Targets
  BY <1>p, <1>2 DEF Changed, Present, Files
<1>4. IsFiniteSet(Targets) /\ Cardinality(Targets) \in Nat
  BY FS_Subset, FS_CardinalityType
<1>5. /\ IsFiniteSet(tasks) /\ Cardinality(tasks) \in Nat
      /\ Cardinality(tasks) <= Cardinality(Targets)
  BY <1>3, <1>4, FS_Subset, FS_CardinalityType
<1>6. queue' \in Seq(tasks) /\ Len(queue') = Cardinality(tasks) /\ Range(queue') = tasks
  BY <1>2, <1>5, Enumerated
<1>7. Busy = {} /\ Busy' = Busy /\ Cardinality(Busy') = 0
  BY <1>t, <1>1, FS_EmptySet DEF PoolInv, Busy
<1>8. TypeOK'
  <2>1. queue' \in Seq(Targets)
    BY <1>3, <1>6
  <2>2. totalTasks' \in 0..Cardinality(Targets) /\ completedTasks' \in 0..totalTasks'
    BY <1>1, <1>2, <1>4, <1>5
  <2>3. QED
    BY <1>t, <1>1, <1>e, <1>3, <2>1, <2>2 DEF TypeOK
<1>9. PoolInv'
  <2>1. totalTasks' = completedTasks' + Len(queue') + Cardinality(Busy')
    BY <1>1, <1>2, <1>5, <1>6, <1>7
  <2>2. QED
    BY <1>t, <1>1, <1>2, <1>5, <1>7, <2>1 DEF PoolInv
<1>10. TaskInv'
  <2> SUFFICES ASSUME NEW p \in Present, p \notin unread', p \notin tasks
               PROVE  dest[p] = src[p]
    BY <1>1, <1>6 DEF TaskInv, Synced, Present
  <2>1. dest[p] # None /\ ~NeedSync(p)
    BY <1>2 DEF Changed
  <2>2. IsFile(src[p]) <=> IsFile(dest[p])
    BY <2>1 DEF NeedSync
  <2>3. CASE IsFile(src[p])
    BY <2>1, <2>3 DEF NeedSync
  <2>4. CASE ~IsFile(src[p])
    BY <2>1, <2>2, <2>4 DEF IsFile
  <2>5. QED
    BY <2>3, <2>4
<1>11. DirInv'
  BY <1>7 DEF DirInv
<1>12. QED
  BY <1>8, <1>9, <1>10, <1>11 DEF TreeInv

\* The end of a run, and a change of the source between two runs.
LEMMA IdleTreeInv ==
  ASSUME TreeInv, Completed \/ ChangeSource
  PROVE  TreeInv'
<1> USE DEF treeVars, budgetVars
<1>t. TypeOK /\ PoolInv /\ TaskInv /\ DirInv
  BY DEF TreeInv
<1>1. CASE Completed
  <2>1. /\ pc = "wait" /\ pc' = "idle" /\ result' = "true" /\ queue = <<>> /\ Busy = {}
        /\ UNCHANGED <<src, dest, sameTime, strategy, totalTasks, unread, queue, worker,
                       completedTasks, failed, errors, changes>>
    BY <1>1 DEF Completed, NoTaskLeft, Busy
  <2>2. Busy' = Busy
    BY <2>1 DEF Busy
  <2>3. TypeOK'
    BY <1>t, <2>1 DEF TypeOK
  <2>4. PoolInv'
    BY <1>t, <2>1, <2>2 DEF PoolInv
  <2>5. TaskInv' /\ DirInv'
    BY <1>t, <2>1, <2>2 DEF TaskInv, DirInv, Synced
  <2>6. QED
    BY <2>3, <2>4, <2>5 DEF TreeInv
<1>2. CASE ChangeSource
  <2>1. /\ pc = "idle" /\ src' \in Trees /\ sameTime' \in [Targets -> BOOLEAN]
        /\ changes < MaxChanges /\ changes' = changes + 1 /\ result' = "none"
        /\ UNCHANGED <<dest, pc, strategy, totalTasks, unread, queue, worker, completedTasks,
                       failed, errors>>
    BY <1>2 DEF ChangeSource
  <2>2. Busy' = Busy /\ Busy = {}
    BY <1>t, <2>1 DEF PoolInv, Busy
  <2>3. TypeOK'
    BY <1>t, <2>1 DEF TypeOK
  <2>4. PoolInv'
    BY <1>t, <2>1, <2>2 DEF PoolInv
  <2>5. TaskInv' /\ DirInv'
    BY <2>1, <2>2 DEF TaskInv, DirInv
  <2>6. QED
    BY <2>3, <2>4, <2>5 DEF TreeInv
<1>3. QED
  BY <1>1, <1>2

-----------------------------------------------------------------------------
(* The workers *)

\* Between two runs nobody works.
LEMMA BusyMeansWait ==
  ASSUME TreeInv, NEW w \in Workers, worker[w].pc # "free"
  PROVE  w \in Busy /\ pc = "wait" /\ worker[w].path \in Targets /\ src \in Trees
BY DEF TreeInv, PoolInv, Busy, TypeOK

\* The pool is finite.
LEMMA BusyFinite == IsFiniteSet(Busy) /\ Cardinality(Busy) \in Nat
<1>1. Busy \in SUBSET Workers
  BY DEF Busy
<1>2. QED
  BY <1>1, FS_Subset, FS_CardinalityType

\* A worker takes the first task; a directory makes its own path last.
LEMMA TakeTreeInv ==
  ASSUME TreeInv, NEW w \in Workers, TakeTask(w)
  PROVE  TreeInv'
<1> DEFINE p == Head(queue)
           r == [pc |-> "dirs", path |-> p,
                 todo |-> Levels(IF src[p] = Dir THEN p ELSE Front(p))]
<1>t. TypeOK /\ PoolInv /\ TaskInv /\ DirInv
  BY DEF TreeInv
<1>1. /\ queue # <<>> /\ worker[w].pc = "free" /\ queue' = Tail(queue)
      /\ worker' = [worker EXCEPT ![w] = r]
      /\ UNCHANGED <<src, dest, sameTime, pc, strategy, totalTasks, result, unread, completedTasks,
                     failed, errors, changes>>
  BY DEF TakeTask, Becomes, treeVars, managerVars, budgetVars
<1>2. /\ p \in Targets /\ Tail(queue) \in Seq(Targets) /\ Len(Tail(queue)) = Len(queue) - 1
      /\ Len(queue) \in Nat /\ Range(queue) = Range(Tail(queue)) \cup {p}
  BY <1>t, <1>1, HeadTail DEF TypeOK
<1>3. /\ r.todo \in Seq(Paths) /\ r.todo # <<>>
      /\ src[p] = Dir => r.todo[Len(r.todo)] = p
  BY <1>2, LevelsOfPath, ParentOfPath
<1>4. r \in [pc : {"free", "dirs", "mkdir"}, path : Paths, todo : Seq(Paths)]
      /\ r.pc = "dirs" /\ r.path = p
  BY <1>2, <1>3
<1> HIDE DEF r, p
<1>5. /\ worker' \in [Workers -> [pc : {"free", "dirs", "mkdir"}, path : Paths, todo : Seq(Paths)]]
      /\ worker'[w] = r /\ \A v \in Workers : v # w => worker'[v] = worker[v]
  BY <1>t, <1>1, <1>4 DEF PoolInv
<1>6. w \notin Busy /\ Busy' = Busy \cup {w}
  BY <1>1, <1>4, <1>5 DEF Busy
<1>7. Cardinality(Busy') = Cardinality(Busy) + 1 /\ Cardinality(Busy) \in Nat
  BY <1>6, BusyFinite, FS_AddElement
<1>8. pc = "wait"
  BY <1>t, <1>1 DEF PoolInv, TypeOK
<1>9. TypeOK'
  <2>1. queue' \in Seq(Targets)
    BY <1>1, <1>2
  <2>2. \A v \in Workers : /\ worker'[v].pc \in {"free", "dirs", "mkdir"}
                           /\ worker'[v].path \in Paths /\ worker'[v].todo \in Seq(Paths)
    BY <1>5
  <2>3. QED
    BY <1>t, <1>1, <2>1, <2>2 DEF TypeOK
<1>10. PoolInv'
  <2>1. totalTasks' = completedTasks' + Len(queue') + Cardinality(Busy')
    BY <1>t, <1>1, <1>2, <1>7 DEF PoolInv
  <2>2. \A v \in Busy' : worker'[v].path \in Targets
    BY <1>t, <1>2, <1>4, <1>5, <1>6 DEF PoolInv, Busy
  <2>3. \A v \in Workers : worker'[v].pc = "mkdir" => worker'[v].todo # <<>>
    BY <1>t, <1>4, <1>5 DEF PoolInv
  <2>4. QED
    BY <1>t, <1>1, <1>5, <1>8, <2>1, <2>2, <2>3 DEF PoolInv
<1>11. TaskInv'
  <2> SUFFICES ASSUME failed = {}, NEW x \in Present \ unread
               PROVE  \/ Synced(x)' \/ x \in Range(queue')
                      \/ \E v \in Busy' : worker'[v].path = x
    BY <1>1 DEF TaskInv
  <2>1. \/ Synced(x) \/ x \in Range(queue) \/ \E v \in Busy : worker[v].path = x
    BY <1>t, <1>8 DEF TaskInv
  <2>2. Synced(x) => Synced(x)'
    BY <1>1 DEF Synced
  <2>3. \A v \in Busy : v \in Busy' /\ worker'[v] = worker[v]
    BY <1>5, <1>6 DEF Busy
  <2>4. QED
    BY <1>1, <1>2, <1>4, <1>5, <1>6, <2>1, <2>2, <2>3
<1>12. DirInv'
  <2> SUFFICES ASSUME NEW v \in Busy', src[worker'[v].path] = Dir
               PROVE  /\ worker'[v].todo # <<>>
                           => worker'[v].todo[Len(worker'[v].todo)] = worker'[v].path
                      /\ worker'[v].todo = <<>> /\ failed = {} => dest[worker'[v].path] # None
    BY <1>1 DEF DirInv
  <2>1. CASE v = w
    BY <1>3, <1>4, <1>5, <2>1
  <2>2. CASE v # w
    BY <1>t, <1>5, <1>6, <2>2 DEF DirInv, Busy
  <2>3. QED
    BY <2>1, <2>2
<1>13. QED
  BY <1>9, <1>10, <1>11, <1>12 DEF TreeInv

\* A worker goes on with its task: it has found or made the next level.
LEMMA LevelTreeInv ==
  ASSUME TreeInv, NEW w \in Workers, worker[w].pc # "free", worker[w].todo # <<>>,
         NEW r \in [pc : {"dirs", "mkdir"}, path : {worker[w].path}, todo : Seq(Paths)],
         worker' = [worker EXCEPT ![w] = r],
         \/ r.todo = worker[w].todo
         \/ r.todo = Tail(worker[w].todo) /\ dest'[Head(worker[w].todo)] # None /\ r.pc = "dirs",
         UNCHANGED <<src, sameTime, pc, strategy, totalTasks, result, unread, queue, completedTasks,
                     failed, errors, changes>>,
         DOMAIN dest' = Paths,
         \A x \in Paths : dest'[x] = dest[x] \/ (dest[x] = None /\ dest'[x] = Dir)
  PROVE  TreeInv'
<1>t. TypeOK /\ PoolInv /\ TaskInv /\ DirInv
  BY DEF TreeInv
<1>1. w \in Busy /\ pc = "wait" /\ worker[w].path \in Targets
  BY BusyMeansWait
<1>2. r.pc \in {"dirs", "mkdir"} /\ r.path = worker[w].path /\ r.todo \in Seq(Paths)
  OBVIOUS
<1>3. worker[w].todo \in Seq(Paths)
  BY <1>t DEF TypeOK
<1>4. /\ worker' \in [Workers -> [pc : {"free", "dirs", "mkdir"}, path : Paths, todo : Seq(Paths)]]
      /\ worker'[w] = r /\ \A v \in Workers : v # w => worker'[v] = worker[v]
  BY <1>t, <1>1, <1>2 DEF PoolInv
<1>5. Busy' = Busy /\ \A v \in Busy : worker'[v].path = worker[v].path
  BY <1>1, <1>2, <1>4 DEF Busy
<1>6. TypeOK'
  <2>1. \A x \in Paths : dest'[x] \in {None, Dir} \cup Stored
    BY <1>t DEF TypeOK
  <2>2. \A v \in Workers : /\ worker'[v].pc \in {"free", "dirs", "mkdir"}
                           /\ worker'[v].path \in Paths /\ worker'[v].todo \in Seq(Paths)
    BY <1>4
  <2>3. QED
    BY <1>t, <2>1, <2>2 DEF TypeOK
<1>7. PoolInv'
  <2>1. \A v \in Workers : worker'[v].pc = "mkdir" => worker'[v].todo # <<>>
    BY <1>t, <1>4 DEF PoolInv
  <2>2. QED
    BY <1>t, <1>1, <1>4, <1>5, <2>1 DEF PoolInv
<1>8. TaskInv'
  <2> SUFFICES ASSUME failed = {}, NEW x \in Present \ unread
               PROVE  \/ Synced(x)' \/ x \in Range(queue')
                      \/ \E v \in Busy' : worker'[v].path = x
    BY DEF TaskInv
  <2>1. \/ Synced(x) \/ x \in Range(queue) \/ \E v \in Busy : worker[v].path = x
    BY <1>t, <1>1 DEF TaskInv
  <2>2. Synced(x) => Synced(x)'
    BY DEF Synced, IsFile
  <2>3. QED
    BY <1>5, <2>1, <2>2
<1>9. DirInv'
  <2> SUFFICES ASSUME NEW v \in Busy, src[worker[v].path] = Dir
               PROVE  /\ worker'[v].todo # <<>>
                           => worker'[v].todo[Len(worker'[v].todo)] = worker[v].path
                      /\ worker'[v].todo = <<>> /\ failed = {} => dest'[worker[v].path] # None
    BY <1>5 DEF DirInv
  <2>1. worker[v].path \in Paths
    BY <1>t DEF PoolInv
  <2>2. CASE worker'[v].todo = worker[v].todo
    BY <1>t, <2>1, <2>2 DEF DirInv
  <2>3. CASE worker'[v].todo # worker[v].todo
    <3>1. v = w /\ r.todo = Tail(worker[w].todo) /\ dest'[Head(worker[w].todo)] # None
      BY <1>4, <2>3 DEF Busy
    <3>2. worker[w].todo[Len(worker[w].todo)] = worker[w].path
      BY <1>t, <1>1, <3>1 DEF DirInv
    <3>3. /\ Head(worker[w].todo) = worker[w].todo[1] /\ Len(r.todo) = Len(worker[w].todo) - 1
          /\ Len(worker[w].todo) \in Nat /\ Len(worker[w].todo) >= 1
          /\ \A i \in 1..Len(r.todo) : r.todo[i] = worker[w].todo[i + 1]
      BY <1>3, <3>1, HeadTail
    <3>4. CASE r.todo = <<>>
      <4>1. Len(r.todo) = 0
        BY <3>4
      <4>2. Len(worker[w].todo) = 1
        <5> DEFINE n == Len(worker[w].todo)
        <5>1. n \in Nat /\ n - 1 = 0
          BY <3>3, <4>1
        <5> HIDE DEF n
        <5>2. n = 1
          BY <5>1
        <5>3. QED
          BY <5>2 DEF n
      <4>3. QED
        BY <1>4, <3>1, <3>2, <3>3, <3>4, <4>2
    <3>5. CASE r.todo # <<>>
      <4>1. Len(r.todo) \in 1..Len(r.todo) /\ Len(r.todo) + 1 = Len(worker[w].todo)
        BY <1>2, <3>3, <3>5
      <4>2. r.todo[Len(r.todo)] = worker[w].path
        BY <3>2, <3>3, <4>1
      <4>3. QED
        BY <1>4, <3>1, <3>5, <4>2
    <3>6. QED
      BY <3>4, <3>5
  <2>4. QED
    BY <2>2, <2>3
<1>10. QED
  BY <1>6, <1>7, <1>8, <1>9 DEF TreeInv

\* The end of a task, whatever it has done to the tree: if it has not failed, its
\* path is synchronised and it has spoiled no other.
LEMMA FinishTreeInv ==
  ASSUME TreeInv, NEW w \in Workers, worker[w].pc # "free",
         UNCHANGED <<src, pc, strategy, totalTasks, result, unread, queue, changes>>,
         errors' \in 0..MaxErrors, sameTime' \in [Targets -> BOOLEAN],
         DOMAIN dest' = Paths, \A x \in Paths : dest'[x] \in {None, Dir} \cup Stored,
         \/ Finish(w, FALSE)
         \/ /\ Finish(w, TRUE)
            /\ failed = {} => \/ dest'[worker[w].path] = src[worker[w].path]
                              \/ src[worker[w].path] = Dir /\ dest'[worker[w].path] # None
            /\ \A x \in Targets : src[x] # None /\ x # worker[w].path => dest'[x] = dest[x]
  PROVE  TreeInv'
<1>t. TypeOK /\ PoolInv /\ TaskInv /\ DirInv
  BY DEF TreeInv
<1>1. w \in Busy /\ pc = "wait" /\ worker[w].path \in Targets
  BY BusyMeansWait
<1>2. /\ worker' = [worker EXCEPT ![w] = Free] /\ completedTasks' = completedTasks + 1
      /\ failed' = failed \/ failed' = failed \cup {worker[w].path}
  BY DEF Finish, Becomes
<1>3. /\ Free \in [pc : {"free", "dirs", "mkdir"}, path : Paths, todo : Seq(Paths)]
      /\ Free.pc = "free"
  BY DEF Free
<1>4. /\ worker' \in [Workers -> [pc : {"free", "dirs", "mkdir"}, path : Paths, todo : Seq(Paths)]]
      /\ worker'[w] = Free /\ \A v \in Workers : v # w => worker'[v] = worker[v]
  BY <1>t, <1>2, <1>3 DEF PoolInv
<1>5. Busy' = Busy \ {w}
  BY <1>3, <1>4 DEF Busy
<1>6. /\ Cardinality(Busy') = Cardinality(Busy) - 1
      /\ Cardinality(Busy) \in Nat /\ Cardinality(Busy') \in Nat
  <2>1. IsFiniteSet(Busy) /\ Cardinality(Busy) \in Nat
    BY BusyFinite
  <2>2. IsFiniteSet(Busy') /\ Cardinality(Busy') = Cardinality(Busy) - 1
    BY <1>1, <1>5, <2>1, FS_RemoveElement
  <2>3. QED
    BY <2>1, <2>2, FS_CardinalityType
<1>7. queue \in Seq(Targets) /\ Len(queue) \in Nat
  BY <1>t DEF TypeOK
<1>8. /\ totalTasks = completedTasks' + Len(queue) + Cardinality(Busy')
      /\ totalTasks \in Nat /\ completedTasks' \in Nat /\ completedTasks' \in 0..totalTasks
  <2> DEFINE b == Cardinality(Busy)
             n == Len(queue)
  <2>1. /\ totalTasks = completedTasks + n + b /\ totalTasks \in Nat /\ completedTasks \in Nat
        /\ n \in Nat /\ b \in Nat /\ b - 1 \in Nat
    BY <1>t, <1>6, <1>7 DEF PoolInv
  <2> HIDE DEF b, n
  <2>2. /\ totalTasks = (completedTasks + 1) + n + (b - 1)
        /\ completedTasks + 1 \in Nat /\ completedTasks + 1 \in 0..totalTasks
    BY <2>1
  <2>3. QED
    BY <1>2, <1>6, <2>1, <2>2 DEF b, n
<1>9. TypeOK'
  <2>1. \A v \in Workers : /\ worker'[v].pc \in {"free", "dirs", "mkdir"}
                           /\ worker'[v].path \in Paths /\ worker'[v].todo \in Seq(Paths)
    BY <1>4
  <2>2. failed' \subseteq Targets
    BY <1>t, <1>1, <1>2 DEF TypeOK
  <2>3. QED
    BY <1>t, <1>8, <2>1, <2>2 DEF TypeOK
<1>10. PoolInv'
  <2>1. \A v \in Busy' : worker'[v].path \in Targets
    BY <1>t, <1>4, <1>5 DEF PoolInv, Busy
  <2>2. \A v \in Workers : worker'[v].pc = "mkdir" => worker'[v].todo # <<>>
    <3> SUFFICES ASSUME NEW v \in Workers, worker'[v].pc = "mkdir" PROVE worker'[v].todo # <<>>
      OBVIOUS
    <3>1. v # w
      BY <1>3, <1>4
    <3>2. QED
      BY <1>t, <1>4, <3>1 DEF PoolInv
  <2>3. QED
    BY <1>t, <1>1, <1>4, <1>8, <2>1, <2>2 DEF PoolInv
<1>11. ASSUME failed' = {}
       PROVE  /\ failed = {}
              /\ \/ dest'[worker[w].path] = src[worker[w].path]
                 \/ src[worker[w].path] = Dir /\ dest'[worker[w].path] # None
              /\ \A x \in Targets : src[x] # None /\ x # worker[w].path => dest'[x] = dest[x]
  BY <1>11 DEF Finish
<1>12. TaskInv'
  <2> SUFFICES ASSUME failed' = {}, NEW x \in Present \ unread
               PROVE  \/ Synced(x)' \/ x \in Range(queue)
                      \/ \E v \in Busy' : worker'[v].path = x
    BY DEF TaskInv
  <2>1. \/ Synced(x) \/ x \in Range(queue) \/ \E v \in Busy : worker[v].path = x
    BY <1>t, <1>1, <1>11 DEF TaskInv
  <2>2. CASE x = worker[w].path
    BY <1>11, <2>2 DEF Synced, IsFile
  <2>3. CASE x # worker[w].path
    <3>1. Synced(x) => Synced(x)'
      BY <1>11, <2>3 DEF Synced
    <3>2. ASSUME NEW v \in Busy, worker[v].path = x PROVE v \in Busy' /\ worker'[v].path = x
      BY <1>4, <1>5, <2>3, <3>2 DEF Busy
    <3>3. QED
      BY <2>1, <3>1, <3>2
  <2>4. QED
    BY <2>2, <2>3
<1>13. DirInv'
  <2> SUFFICES ASSUME NEW v \in Busy', src[worker'[v].path] = Dir
               PROVE  /\ worker'[v].todo # <<>>
                           => worker'[v].todo[Len(worker'[v].todo)] = worker'[v].path
                      /\ worker'[v].todo = <<>> /\ failed' = {} => dest'[worker'[v].path] # None
    BY DEF DirInv
  <2>1. v \in Busy /\ worker'[v] = worker[v] /\ v \in Workers
    BY <1>4, <1>5 DEF Busy
  <2>2. worker[v].path \in Targets
    BY <1>t, <2>1 DEF PoolInv
  <2>3. /\ worker[v].todo # <<>> => worker[v].todo[Len(worker[v].todo)] = worker[v].path
        /\ worker[v].todo = <<>> /\ failed = {} => dest[worker[v].path] # None
    BY <1>t, <2>1 DEF DirInv
  <2>4. ASSUME worker[v].todo = <<>>, failed' = {} PROVE dest'[worker[v].path] # None
    <3>1. CASE worker[v].path = worker[w].path
      BY <1>11, <2>1, <2>4, <3>1 DEF IsFile
    <3>2. CASE worker[v].path # worker[w].path
      BY <1>11, <2>1, <2>2, <2>3, <2>4, <3>2
    <3>3. QED
      BY <3>1, <3>2
  <2>5. QED
    BY <2>1, <2>3, <2>4
<1>14. QED
  BY <1>9, <1>10, <1>12, <1>13 DEF TreeInv

\* stat() of a level, and mkdir() of one that is missing.
LEMMA DirsTreeInv ==
  ASSUME TreeInv, NEW w \in Workers, StatDir(w) \/ MakeDir(w)
  PROVE  TreeInv'
<1> USE DEF treeVars, managerVars, budgetVars, At
<1> DEFINE todo == worker[w].todo
<1>t. TypeOK /\ PoolInv
  BY DEF TreeInv
<1>1. /\ worker[w] \in [pc : {"free", "dirs", "mkdir"}, path : Paths, todo : Seq(Paths)]
      /\ worker[w].pc # "free" /\ todo # <<>> /\ DOMAIN dest = Paths
  BY <1>t DEF StatDir, MakeDir, PoolInv
<1>2. todo \in Seq(Paths) /\ Head(todo) \in Paths /\ Tail(todo) \in Seq(Paths)
  BY <1>1, HeadTail
<1>3. CASE StatDir(w)
  <2>1. UNCHANGED <<src, dest, sameTime, pc, strategy, totalTasks, result, unread, queue,
                    completedTasks, failed, errors, changes>>
    BY <1>3 DEF StatDir
  <2>2. CASE dest[Head(todo)] = None
    <3> DEFINE r == [worker[w] EXCEPT !.pc = "mkdir"]
    <3>1. worker' = [worker EXCEPT ![w] = r]
      BY <1>3, <2>2 DEF StatDir, Becomes
    <3>2. /\ r \in [pc : {"dirs", "mkdir"}, path : {worker[w].path}, todo : Seq(Paths)]
          /\ r.todo = todo
      BY <1>1
    <3> HIDE DEF r
    <3>3. QED
      BY <1>1, <2>1, <3>1, <3>2, LevelTreeInv
  <2>3. CASE dest[Head(todo)] # None
    <3> DEFINE r == [worker[w] EXCEPT !.todo = Tail(@)]
    <3>1. worker' = [worker EXCEPT ![w] = r]
      BY <1>3, <2>3 DEF StatDir, Becomes
    <3>2. /\ r \in [pc : {"dirs", "mkdir"}, path : {worker[w].path}, todo : Seq(Paths)]
          /\ r.todo = Tail(todo) /\ r.pc = "dirs"
      BY <1>1, <1>2, <1>3 DEF StatDir
    <3> HIDE DEF r
    <3>3. QED
      BY <1>1, <2>1, <2>3, <3>1, <3>2, LevelTreeInv
  <2>4. QED
    BY <2>2, <2>3
<1>4. CASE MakeDir(w)
  <2> DEFINE d == Head(todo)
  <2>1. UNCHANGED <<src, sameTime, pc, strategy, totalTasks, result, unread, queue, errors,
                    changes>>
    BY <1>4 DEF MakeDir
  <2>2. CASE /\ dest[d] = None /\ dest' = [dest EXCEPT ![d] = Dir]
             /\ Becomes(w, [worker[w] EXCEPT !.pc = "dirs", !.todo = Tail(@)])
             /\ UNCHANGED <<completedTasks, failed>>
    <3> DEFINE r == [worker[w] EXCEPT !.pc = "dirs", !.todo = Tail(@)]
    <3>1. worker' = [worker EXCEPT ![w] = r]
      BY <2>2 DEF Becomes
    <3>2. /\ r \in [pc : {"dirs", "mkdir"}, path : {worker[w].path}, todo : Seq(Paths)]
          /\ r.todo = Tail(todo) /\ r.pc = "dirs"
      BY <1>1, <1>2
    <3>3. /\ DOMAIN dest' = Paths /\ dest'[d] # None
          /\ \A x \in Paths : dest'[x] = dest[x] \/ (dest[x] = None /\ dest'[x] = Dir)
      BY <1>1, <1>2, <2>2
    <3> HIDE DEF r
    <3>4. QED
      BY <1>1, <2>1, <2>2, <3>1, <3>2, <3>3, LevelTreeInv
  <2>3. CASE Finish(w, FALSE) /\ UNCHANGED dest
    <3>1. /\ errors' \in 0..MaxErrors /\ sameTime' \in [Targets -> BOOLEAN]
          /\ DOMAIN dest' = Paths /\ \A x \in Paths : dest'[x] \in {None, Dir} \cup Stored
      BY <1>t, <1>1, <2>1, <2>3 DEF TypeOK
    <3>2. QED
      BY <1>1, <2>1, <2>3, <3>1, FinishTreeInv
  <2>4. QED
    BY <1>4, <2>2, <2>3 DEF MakeDir
<1>5. QED
  BY <1>3, <1>4

\* What handleConflict leaves is a tree with its paths, and everything that the
\* source has elsewhere is still there.
LEMMA ConflictFacts ==
  ASSUME TreeInv, NEW p \in Targets, IsFile(src[p])
  PROVE  /\ DOMAIN AfterConflict(p) = Paths
         /\ \A x \in Paths : AfterConflict(p)[x] \in {None, Dir} \cup Stored
         /\ \A x \in Paths : src[x] # None /\ x # p => AfterConflict(p)[x] = dest[x]
<1>1. /\ src \in Trees /\ DOMAIN dest = Paths
      /\ \A x \in Paths : dest[x] \in {None, Dir} \cup Stored
  BY DEF TreeInv, TypeOK, PoolInv
<1>2. \A x \in Paths : src[x] # None /\ x # p => ~IsPrefix(p, x)
  BY <1>1, BelowFile
<1>3. /\ DOMAIN Without(p) = Paths
      /\ \A x \in Paths : Without(p)[x] = IF IsPrefix(p, x) THEN None ELSE dest[x]
  BY DEF Without
<1>4. QED
  BY <1>1, <1>2, <1>3 DEF AfterConflict

\* The steps that end a task.
LEMMA EndTreeInv ==
  ASSUME TreeInv, NEW w \in Workers,
         \/ DirectoryDone(w) \/ FileSkipped(w) \/ FileCopied(w) \/ TransferRefused(w)
         \/ TaskFails(w)
  PROVE  TreeInv'
<1> USE DEF treeVars, managerVars, budgetVars, At
<1> DEFINE p == worker[w].path
<1>t. TypeOK /\ PoolInv /\ DirInv
  BY DEF TreeInv
<1>1. worker[w].pc # "free"
  BY DEF DirectoryDone, FileSkipped, FileCopied, TransferRefused, TaskFails, AtFile
<1>2. w \in Busy /\ p \in Targets /\ p \in Paths /\ src \in Trees
  BY <1>1, BusyMeansWait
<1>3. UNCHANGED <<src, pc, strategy, totalTasks, result, unread, queue, changes>>
  BY DEF DirectoryDone, FileSkipped, FileCopied, TransferRefused, TaskFails
<1>4. /\ errors \in 0..MaxErrors /\ sameTime \in [Targets -> BOOLEAN] /\ DOMAIN dest = Paths
      /\ \A x \in Paths : dest[x] \in {None, Dir} \cup Stored
  BY <1>t DEF TypeOK, PoolInv
<1>5. CASE DirectoryDone(w)
  <2>1. /\ worker[w].todo = <<>> /\ src[p] = Dir /\ Finish(w, TRUE)
        /\ UNCHANGED <<dest, sameTime, errors>>
    BY <1>5 DEF DirectoryDone
  <2>2. failed = {} => dest'[p] # None
    BY <1>t, <1>2, <2>1 DEF DirInv
  <2>3. /\ errors' \in 0..MaxErrors /\ sameTime' \in [Targets -> BOOLEAN] /\ DOMAIN dest' = Paths
        /\ \A x \in Paths : dest'[x] \in {None, Dir} \cup Stored
        /\ \A x \in Targets : src[x] # None /\ x # p => dest'[x] = dest[x]
    BY <1>4, <2>1
  <2>4. QED
    BY <1>1, <1>3, <2>1, <2>2, <2>3, FinishTreeInv
<1>6. CASE FileSkipped(w)
  <2>1. Finish(w, FALSE) /\ UNCHANGED <<dest, sameTime, errors>>
    BY <1>6 DEF FileSkipped
  <2>2. QED
    BY <1>1, <1>3, <1>4, <2>1, FinishTreeInv
<1>7. CASE FileCopied(w)
  <2>1. /\ IsFile(src[p]) /\ Finish(w, TRUE) /\ UNCHANGED errors
        /\ dest' = [AfterConflict(p) EXCEPT ![p] = src[p]]
    BY <1>7 DEF FileCopied, AtFile
  <2>2. PICK same \in BOOLEAN : sameTime' = [sameTime EXCEPT ![p] = same]
    BY <1>7 DEF FileCopied
  <2>3. sameTime' \in [Targets -> BOOLEAN]
    BY <1>4, <2>2
  <2>4. src[p] \in Stored
    BY <1>2, <2>1, WrittenIsStored
  <2>5. /\ DOMAIN dest' = Paths /\ dest'[p] = src[p]
        /\ \A x \in Paths : dest'[x] \in {None, Dir} \cup Stored
        /\ \A x \in Targets : src[x] # None /\ x # p => dest'[x] = dest[x]
    BY <1>2, <2>1, <2>4, ConflictFacts
  <2>6. Finish(w, TRUE) /\ errors' \in 0..MaxErrors
    BY <1>4, <2>1
  <2>7. QED
    BY <1>1, <1>3, <2>3, <2>5, <2>6, FinishTreeInv
<1>8. CASE TransferRefused(w)
  <2>1. /\ Finish(w, FALSE) /\ UNCHANGED <<sameTime, errors>>
        /\ dest' = dest \/ dest' = [dest EXCEPT ![p] = None]
    BY <1>8 DEF TransferRefused
  <2>2. DOMAIN dest' = Paths /\ \A x \in Paths : dest'[x] \in {None, Dir} \cup Stored
    BY <1>4, <2>1
  <2>3. QED
    BY <1>1, <1>3, <1>4, <2>1, <2>2, FinishTreeInv
<1>9. CASE TaskFails(w)
  <2>1. errors < MaxErrors /\ errors' = errors + 1 /\ Finish(w, FALSE) /\ UNCHANGED sameTime
    BY <1>9 DEF TaskFails
  <2>2. errors' \in 0..MaxErrors
    BY <1>4, <2>1
  <2>3. DOMAIN dest' = Paths /\ \A x \in Paths : dest'[x] \in {None, Dir} \cup Stored
    <3>1. CASE UNCHANGED dest
      BY <1>4, <3>1
    <3>2. CASE /\ AtFile(w)
               /\ \E f \in {None} \cup (Prefixes(src[p]) \ {src[p]}) :
                    dest' = [AfterConflict(p) EXCEPT ![p] = f]
      <4>1. IsFile(src[p])
        BY <3>2 DEF AtFile
      <4>2. PICK f \in {None} \cup Prefixes(src[p]) : dest' = [AfterConflict(p) EXCEPT ![p] = f]
        BY <3>2
      <4>3. f \in {None, Dir} \cup Stored
        BY <1>2, <4>1, <4>2, WrittenIsStored
      <4>4. QED
        BY <1>2, <4>1, <4>2, <4>3, ConflictFacts
    <3>3. QED
      BY <1>9, <3>1, <3>2 DEF TaskFails
  <2>4. QED
    BY <1>1, <1>3, <1>4, <2>1, <2>2, <2>3, FinishTreeInv
<1>10. QED
  BY <1>5, <1>6, <1>7, <1>8, <1>9

-----------------------------------------------------------------------------
(* The theorems *)

\* The pool, the task list and the directories of the tasks in every reachable
\* state of a synchronisation.
THEOREM TreeInvariant == Spec => []TreeInv
<1>1. Init => TreeInv
  BY InitTreeInv
<1>2. TreeInv /\ [Next]_vars => TreeInv'
  <2> SUFFICES ASSUME TreeInv, [Next]_vars PROVE TreeInv'
    OBVIOUS
  <2>1. CASE SyncLocal
    BY <2>1, SyncLocalTreeInv
  <2>2. CASE Completed \/ ChangeSource
    BY <2>2, IdleTreeInv
  <2>3. ASSUME NEW w \in Workers, WorkerStep(w) PROVE TreeInv'
    BY <2>3, TakeTreeInv, DirsTreeInv, EndTreeInv DEF WorkerStep
  <2>4. CASE UNCHANGED vars
    BY <2>4 DEF vars, treeVars, managerVars, budgetVars, TreeInv, TypeOK, PoolInv, TaskInv, DirInv,
                Busy, Synced
  <2>5. QED
    BY <2>1, <2>2, <2>3, <2>4 DEF Next
<1>3. QED
  BY <1>1, <1>2, PTL DEF Spec

\* Types: in particular every task is counted once by completedTasks, which stays
\* within totalTasks, and nothing but contents and parts of them gets stored.
THEOREM TypeCorrect == Spec => []TypeOK
<1>1. TreeInv => TypeOK
  BY DEF TreeInv
<1>2. QED
  BY <1>1, TreeInvariant, PTL

\* The task list of detectChanges is complete up to what the file system did not show:
\* if syncLocal returns and no task has failed, the destination mirrors what the scan
\* has read of the source.
THEOREM TaskListSuffices == Spec => []TasksSuffice
<1>1. TreeInv => TasksSuffice
  <2> SUFFICES ASSUME TreeInv, result = "true", failed = {}, NEW p \in Present \ unread
               PROVE  Synced(p)
    BY DEF TasksSuffice, Synced
  <2>1. pc = "idle" /\ queue = <<>> /\ Busy = {}
    BY DEF TreeInv, PoolInv, TypeOK
  <2>2. Range(queue) = {}
    BY <2>1 DEF Range
  <2>3. QED
    BY <2>1, <2>2 DEF TreeInv, TaskInv
<1>2. QED
  BY <1>1, TreeInvariant, PTL

\* With the strategy skip no step of a run changes anything that is at the
\* destination: mkdir() makes what is missing, and every transfer goes to a name
\* that nothing has, or fails before it has changed anything.
THEOREM SkipKeepsAll == Spec => SkipKeeps
<1> USE DEF treeVars, managerVars, budgetVars, At
<1>1. ASSUME TreeInv, [Next]_vars, pc = "wait", strategy = "skip",
             NEW x \in Paths, dest[x] # None
      PROVE  dest'[x] = dest[x]
  <2>1. DOMAIN dest = Paths
    BY <1>1 DEF TreeInv, PoolInv
  <2>2. CASE SyncLocal \/ Completed \/ ChangeSource \/ UNCHANGED vars
    BY <2>2 DEF SyncLocal, Completed, ChangeSource, vars
  <2>3. ASSUME NEW w \in Workers, WorkerStep(w) PROVE dest'[x] = dest[x]
    <3> DEFINE p == worker[w].path
    <3>1. CASE TakeTask(w) \/ StatDir(w) \/ DirectoryDone(w) \/ FileSkipped(w)
      BY <3>1 DEF TakeTask, StatDir, DirectoryDone, FileSkipped
    <3>2. CASE MakeDir(w)
      BY <1>1, <2>1, <3>2 DEF MakeDir
    <3>3. CASE FileCopied(w)
      <4>1. dest[p] = None /\ dest' = [dest EXCEPT ![p] = src[p]]
        BY <1>1, <3>3 DEF FileCopied, Skipped, AfterConflict
      <4>2. QED
        BY <1>1, <2>1, <4>1
    <3>4. CASE TransferRefused(w)
      <4>1. dest[p] = None /\ (dest' = dest \/ dest' = [dest EXCEPT ![p] = None])
        BY <1>1, <3>4 DEF TransferRefused, Skipped
      <4>2. QED
        BY <1>1, <2>1, <4>1
    <3>5. CASE TaskFails(w)
      <4>1. \/ UNCHANGED dest
            \/ dest[p] = None /\ \E f : dest' = [dest EXCEPT ![p] = f]
        BY <1>1, <3>5 DEF TaskFails, Skipped, AfterConflict
      <4>2. QED
        BY <1>1, <2>1, <4>1
    <3>6. QED
      BY <2>3, <3>1, <3>2, <3>3, <3>4, <3>5 DEF WorkerStep
  <2>4. QED
    BY <1>1, <2>2, <2>3 DEF Next
<1>2. TreeInv /\ [Next]_vars =>
        [pc = "wait" /\ strategy = "skip"
           => \A p \in Paths : dest[p] # None => dest'[p] = dest[p]]_vars
  BY <1>1
<1>3. QED
  BY <1>2, TreeInvariant, PTL DEF Spec, SkipKeeps
=============================================================================
