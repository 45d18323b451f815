------------------------------- MODULE TreeSync -------------------------------
(***************************************************************************)
(* The synchronisation of a directory tree to a local destination:         *)
(* SyncManager::syncLocal compares the two trees (FileSync::detectChanges),*)
(* submits one task per path that differs to the thread pool, waits for    *)
(* the pool and returns. The tasks run in parallel and each of them makes  *)
(* the directories on its path (LinuxFileUtil::createDirectory) with one   *)
(* stat and one mkdir per level.                                           *)
(*                                                                         *)
(* The pool is what ThreadPool promises: a queue, workers that take tasks  *)
(* from its front, and a wait that ends when no task is left. The transfer *)
(* of one file is one step (FileSync has its parts). A path is the         *)
(* sequence of its names below the destination directory, which is <<>>.   *)
(***************************************************************************)
EXTENDS Integers, Sequences, FiniteSets, SequencesExt

CONSTANTS Paths,       \* the paths that may exist in either tree
          None, Dir,   \* what a path is, if it is not a file's content
          Trees,       \* the trees the source may have
          OldTrees,    \* what may be at the destination before the first run
          Workers,     \* threads of the pool
          Strategies,  \* conflict strategies of the runs (option -c)
          MaxErrors,   \* bound on I/O errors of tasks and scans with errors
          MaxChanges   \* bound on changes of the source in a behaviour

\* a file system tree: what is above something that exists is a directory
IsTree(t) ==
  \A p, q \in Paths : t[q] # None /\ IsStrictPrefix(p, q) => t[p] = Dir

ASSUME TreeSyncAssumption ==
  /\ <<>> \in Paths /\ Paths \subseteq Seq(STRING)
  /\ \A p \in Paths : Prefixes(p) \subseteq Paths
  /\ IsFiniteSet(Paths) /\ IsFiniteSet(Workers) /\ None # Dir
  /\ \A t \in Trees : DOMAIN t = Paths /\ IsTree(t) /\ t[<<>>] = Dir
  /\ \A t \in OldTrees : DOMAIN t = Paths /\ IsTree(t)
  /\ Strategies \subseteq {"overwrite", "skip", "rename"}
  /\ MaxErrors \in Nat /\ MaxChanges \in Nat

VARIABLES
  src, dest,   \* the two trees
  sameTime,    \* whether the st_mtime of a path agree in the two trees
  pc,          \* syncLocal: "idle" or "wait" in waitForCompletion
  strategy,    \* conflictStrategy of the run
  queue,       \* destination paths of the tasks no worker has taken
  worker,      \* each worker: where it is, its task, the directories to make
  totalTasks, completedTasks,
  result,      \* value returned by the last syncLocal
  failed,      \* history: tasks of this run that did not do their work
  unread,      \* history: source paths the scan of this run has not got, or not
               \* compared, because of errors that it does not report
  errors, changes

treeVars == <<src, dest, sameTime>>
managerVars == <<pc, strategy, totalTasks, result, unread>>
budgetVars == <<errors, changes>>
vars == <<treeVars, managerVars, queue, worker, completedTasks, failed,
          budgetVars>>

Targets == Paths \ {<<>>}
IsFile(x) == x \notin {None, Dir}
Contents == UNION {{t[p] : p \in {q \in Paths : IsFile(t[q])}} :
                     t \in Trees \cup OldTrees}
Free == [pc |-> "free", path |-> <<>>, todo |-> <<>>]

\* what a file may hold: a content, or the part of it before a lost write
Stored == Contents \cup UNION {Prefixes(c) : c \in Contents}

TypeOK ==
  /\ src \in Trees
  /\ \A p \in Paths : dest[p] \in {None, Dir} \cup Stored
  /\ sameTime \in [Targets -> BOOLEAN]
  /\ pc \in {"idle", "wait"} /\ strategy \in Strategies
  /\ queue \in Seq(Targets)
  /\ \A w \in Workers : /\ worker[w].pc \in {"free", "dirs", "mkdir"}
                        /\ worker[w].path \in Paths
                        /\ worker[w].todo \in Seq(Paths)
  /\ totalTasks \in 0..Cardinality(Targets)
  /\ completedTasks \in 0..totalTasks
  /\ result \in {"none", "true"}
  /\ failed \subseteq Targets /\ unread \subseteq Targets
  /\ errors \in 0..MaxErrors /\ changes \in 0..MaxChanges

Init ==
  /\ src \in Trees /\ dest \in OldTrees
  /\ sameTime \in [Targets -> BOOLEAN]
  /\ pc = "idle" /\ strategy \in Strategies
  /\ queue = <<>> /\ worker = [w \in Workers |-> Free]
  /\ totalTasks = 0 /\ completedTasks = 0 /\ result = "none"
  /\ failed = {} /\ unread = {} /\ errors = 0 /\ changes = 0

-----------------------------------------------------------------------------
(* SyncManager::syncLocal *)

\* needSync for a file whose MD5 is "" on both sides, because neither opens;
\* also a variant of NeedSync that forgets the MD5.
NeedSyncByStat(p) ==
  \/ IsFile(src[p]) # IsFile(dest[p])
  \/ IsFile(src[p]) /\ (Len(src[p]) # Len(dest[p]) \/ ~sameTime[p])

\* needSync: the file types, then size and mtime, then the MD5 values differ
NeedSync(p) ==
  \/ IsFile(src[p]) # IsFile(dest[p])
  \/ IsFile(src[p]) /\ (Len(src[p]) # Len(dest[p]) \/ ~sameTime[p])
  \/ IsFile(src[p]) /\ src[p] # dest[p]

Present == {p \in Targets : src[p] # None}
Files == {p \in Targets : IsFile(src[p])}

\* What collectMetadata may miss without a word: of the source what is below a
\* directory that opendir refuses, and an entry that stat refuses with all that
\* is below it.
Hidden == {H \in SUBSET Present :
             \A p \in H, q \in Present : IsPrefix(p, q) => q \in H}

\* detectChanges, if the scan has missed the paths in hidden, got no MD5 of the
\* files in blind at either side, and for those in half none at one side, or
\* nothing at the destination: sets of paths to be synchronised. The sizes and
\* times of two directories agree or not, as their file systems have it.
Changed(hidden, blind, half) ==
  LET must == {p \in Present :
                 \/ dest[p] = None \/ p \in half
                 \/ IF p \in blind THEN NeedSyncByStat(p) ELSE NeedSync(p)}
      dirs == {p \in Targets : src[p] = Dir /\ dest[p] = Dir}
  IN  {(must \cup D) \ hidden : D \in SUBSET dirs}

\* detectChanges makes the task list; the hash maps list the tasks in any order
Submit(hidden, blind, half) ==
  /\ \E tasks \in Changed(hidden, blind, half) :
       /\ queue' \in SetToSeqs(tasks)
       /\ totalTasks' = Cardinality(tasks)
       /\ unread' = hidden \cup (blind \ tasks)

\* a run of syncLocal up to the wait; errors of the scan are not reported
SyncLocal ==
  /\ pc = "idle" /\ pc' = "wait"
  /\ strategy' \in Strategies
  /\ \/ Submit({}, {}, {}) /\ UNCHANGED errors
     \/ /\ errors < MaxErrors /\ errors' = errors + 1
        /\ \E hidden \in Hidden, blind \in SUBSET Files :
             \E half \in SUBSET (Files \ blind) : Submit(hidden, blind, half)
  /\ completedTasks' = 0 /\ result' = "none" /\ failed' = {}
  /\ UNCHANGED <<treeVars, worker, changes>>

NoTaskLeft == queue = <<>> /\ \A w \in Workers : worker[w].pc = "free"

\* Variant of Completed: the queue is empty.
CompletedEarly ==
  /\ pc = "wait" /\ queue = <<>>
  /\ pc' = "idle" /\ result' = "true"
  /\ UNCHANGED <<treeVars, strategy, totalTasks, unread, queue, worker,
                 completedTasks, failed, budgetVars>>

\* waitForCompletion() returns, and syncLocal returns true
Completed ==
  /\ pc = "wait" /\ NoTaskLeft
  /\ pc' = "idle" /\ result' = "true"
  /\ UNCHANGED <<treeVars, strategy, totalTasks, unread, queue, worker,
                 completedTasks, failed, budgetVars>>

-----------------------------------------------------------------------------
(* processSyncTask in a worker *)

\* Variant of Levels: mkdir() of the last level only.
LastLevel(p) == <<p>>

\* every level of a path, from the destination directory down
Levels(p) == [n \in 1..Len(p) + 1 |-> SubSeq(p, 1, n - 1)]

Becomes(w, r) == worker' = [worker EXCEPT ![w] = r]

\* executeSyncTask: a directory makes its own path, a file that of its parent
TakeTask(w) ==
  /\ queue # <<>> /\ worker[w].pc = "free"
  /\ LET p == Head(queue) IN
       Becomes(w, [pc |-> "dirs", path |-> p,
                   todo |-> Levels(IF src[p] = Dir THEN p ELSE Front(p))])
  /\ queue' = Tail(queue)
  /\ UNCHANGED <<treeVars, managerVars, completedTasks, failed, budgetVars>>

\* Variant of Finish: processSyncTask counts a failed task twice.
FinishTwice(w, ok) ==
  /\ Becomes(w, Free)
  /\ completedTasks' = completedTasks + (IF ok THEN 1 ELSE 2)
  /\ failed' = IF ok THEN failed ELSE failed \cup {worker[w].path}

\* the end of processSyncTask, which does not look at the result
Finish(w, ok) ==
  /\ Becomes(w, Free)
  /\ completedTasks' = completedTasks + 1
  /\ failed' = IF ok THEN failed ELSE failed \cup {worker[w].path}

At(w, where) == worker[w].pc = where

\* createDirectory: stat() of the next level
StatDir(w) ==
  /\ At(w, "dirs") /\ worker[w].todo # <<>>
  /\ IF dest[Head(worker[w].todo)] = None
       THEN Becomes(w, [worker[w] EXCEPT !.pc = "mkdir"])
       ELSE Becomes(w, [worker[w] EXCEPT !.todo = Tail(@)])
  /\ UNCHANGED <<treeVars, managerVars, queue, completedTasks, failed,
                 budgetVars>>

\* mkdir() of a level that stat() has not found; EEXIST and ENOTDIR make
\* createDirectory, and with it the task, return false
MakeDir(w) ==
  /\ At(w, "mkdir")
  /\ LET d == Head(worker[w].todo) IN
     \/ /\ dest[d] = None /\ (d = <<>> \/ dest[Front(d)] = Dir)
        /\ dest' = [dest EXCEPT ![d] = Dir]
        /\ Becomes(w, [worker[w] EXCEPT !.pc = "dirs", !.todo = Tail(@)])
        /\ UNCHANGED <<completedTasks, failed>>
     \/ /\ dest[d] # None \/ (d # <<>> /\ dest[Front(d)] # Dir)
        /\ Finish(w, FALSE)
        /\ UNCHANGED dest
  /\ UNCHANGED <<src, sameTime, managerVars, queue, budgetVars>>

\* syncDirectory after createDirectory: chmod, true
DirectoryDone(w) ==
  /\ At(w, "dirs") /\ worker[w].todo = <<>> /\ src[worker[w].path] = Dir
  /\ Finish(w, TRUE)
  /\ UNCHANGED <<treeVars, managerVars, queue, budgetVars>>

\* what is below a directory moves with it when it is renamed
Without(p) == [q \in Paths |-> IF IsPrefix(p, q) THEN None ELSE dest[q]]

\* the destination as handleConflict leaves it for the transfer
AfterConflict(p) ==
  IF dest[p] # None /\ strategy = "rename" THEN Without(p) ELSE dest

Skipped(p) == dest[p] # None /\ strategy = "skip"

AtFile(w) ==
  At(w, "dirs") /\ worker[w].todo = <<>> /\ IsFile(src[worker[w].path])

\* Variant of FileSkipped: skip is not looked at.
NeverSkipped(w) ==
  /\ AtFile(w) /\ Skipped(worker[w].path)
  /\ dest' = [dest EXCEPT ![worker[w].path] = src[worker[w].path]]
  /\ Finish(w, TRUE)
  /\ UNCHANGED <<src, sameTime, managerVars, queue, budgetVars>>

\* syncFile returns false for an existing file and the strategy skip
FileSkipped(w) ==
  /\ AtFile(w) /\ Skipped(worker[w].path)
  /\ Finish(w, FALSE)
  /\ UNCHANGED <<treeVars, managerVars, queue, budgetVars>>

\* open() for writing fails: a directory has the name, or the parent is none
CannotOpen(p) == AfterConflict(p)[p] = Dir \/ dest[Front(p)] # Dir

\* syncFile copies the file; its new mtime is that of the copy
FileCopied(w) ==
  /\ AtFile(w)
  /\ LET p == worker[w].path IN
       /\ ~Skipped(p) /\ ~CannotOpen(p)
       /\ dest' = [AfterConflict(p) EXCEPT ![p] = src[p]]
       /\ \E same \in BOOLEAN : sameTime' = [sameTime EXCEPT ![p] = same]
  /\ Finish(w, TRUE)
  /\ UNCHANGED <<src, managerVars, queue, budgetVars>>

\* the transfer cannot start; cleanupCorruptedFile's remove() takes a directory
\* away if it is empty
TransferRefused(w) ==
  /\ AtFile(w)
  /\ LET p == worker[w].path IN
       /\ ~Skipped(p) /\ CannotOpen(p)
       /\ dest' = IF \E q \in Paths : IsStrictPrefix(p, q) /\ dest[q] # None
                    THEN dest ELSE [dest EXCEPT ![p] = None]
  /\ Finish(w, FALSE)
  /\ UNCHANGED <<src, sameTime, managerVars, queue, budgetVars>>

\* stat(), mkdir(), chmod() or rename() fails; or a transfer: the partial file
\* is removed, or its end is missing because the last write is not checked
TaskFails(w) ==
  /\ errors < MaxErrors /\ errors' = errors + 1
  /\ \/ /\ At(w, "mkdir") \/ (At(w, "dirs") /\ worker[w].todo = <<>>)
        /\ UNCHANGED dest
     \/ /\ AtFile(w)
        /\ LET p == worker[w].path IN
             /\ ~Skipped(p) /\ ~CannotOpen(p)
             /\ \E f \in {None} \cup (Prefixes(src[p]) \ {src[p]}) :
                  dest' = [AfterConflict(p) EXCEPT ![p] = f]
  /\ Finish(w, FALSE)
  /\ UNCHANGED <<src, sameTime, managerVars, queue, changes>>

WorkerStep(w) ==
  \/ TakeTask(w) \/ StatDir(w) \/ MakeDir(w) \/ DirectoryDone(w)
  \/ FileSkipped(w) \/ FileCopied(w) \/ TransferRefused(w) \/ TaskFails(w)

-----------------------------------------------------------------------------

\* between two runs other programs change the source
ChangeSource ==
  /\ pc = "idle" /\ changes < MaxChanges
  /\ changes' = changes + 1
  /\ src' \in Trees \ {src}
  /\ sameTime' \in [Targets -> BOOLEAN]
  /\ \A p \in Targets : src'[p] = src[p] => sameTime'[p] = sameTime[p]
  /\ result' = "none"
  /\ UNCHANGED <<dest, pc, strategy, totalTasks, unread, queue, worker,
                 completedTasks, failed, errors>>

Next ==
  \/ SyncLocal \/ Completed \/ ChangeSource
  \/ \E w \in Workers : WorkerStep(w)

Spec == Init /\ [][Next]_vars

\* The pool's threads and the main thread run, and the user starts the tool
\* again and again, of which infinitely often with overwrite.
FairSpec ==
  /\ Spec
  /\ SF_vars(SyncLocal /\ strategy' = "overwrite") /\ WF_vars(Completed)
  /\ \A w \in Workers : WF_vars(WorkerStep(w))

-----------------------------------------------------------------------------
(* Properties *)

\* The destination has everything the source has; nothing is ever deleted.
Mirrored == \A p \in Targets : src[p] # None => dest[p] = src[p]

\* The task list is complete up to what the file system did not show: if
\* syncLocal returns and no task has returned false, the destination mirrors the
\* source, whatever sizes, times and types the two trees had, whatever the scan
\* could not read at the destination, in whatever order and however interleaved
\* the tasks ran, except for the source paths that the scan has missed or could
\* not compare, and where a file has the name of a directory, which
\* createDirectory takes for the directory.
TasksSuffice ==
  result = "true" /\ failed = {}
    => \A p \in Present \ unread : \/ dest[p] = src[p]
                                   \/ src[p] = Dir /\ IsFile(dest[p])

\* With the strategy skip a run never changes what it finds at the destination.
SkipKeeps ==
  [][pc = "wait" /\ strategy = "skip"
       => \A p \in Paths : dest[p] # None => dest'[p] = dest[p]]_vars

\* syncLocal returns true if the sync succeeded and false otherwise
\* (SyncManager.cpp:49): on true the destination mirrors the source.
TrueMeansMirrored == result = "true" => Mirrored

\* a file has the name of a directory
Clash == \E p \in Targets : dest[p] # None /\ IsFile(src[p]) # IsFile(dest[p])

\* If the tool is run often enough the destination mirrors the source between
\* the runs, unless a file has the name of a directory: a lost race for a
\* directory is not lost again, because the directory is there in the next run.
EventuallyMirrored == <>[](pc = "idle" => Mirrored \/ Clash)

=============================================================================
