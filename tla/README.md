# sync-tool: specifications, model checking and proofs

TLA+ models of the file synchronisation tool in this repository, the TLC configurations
that check them on small instances, and TLAPS proofs of their safety properties for
every instance. Paths below are relative to the repository; `PROJECT.json` maps every
definition to the lines it models, lists the hazards of the code with the properties
that cover them, and gives every property a mutation of the model that breaks it.

## The system

| Component | Source | State | Operations | Talks to | Module |
|---|---|---|---|---|---|
| Thread pool | `include/ThreadPool.h`, `src/thread/ThreadPool.cpp` | task queue, `running`, `activeTasks`, threads | submit, workerThread, waitForCompletion, stop, setThreadCount | everything that runs in parallel | ThreadPool, TaskPool |
| Local file sync | `src/core/FileSync.cpp` | destination, `.sync_progress`, `.bak` | syncFile, resumeSync, transferFile, saveProgress, loadProgress, handleConflict, cleanupCorruptedFile | the disk, over many runs of the program | FileSync |
| Chunked transfer | `FileSync::transferLargeFileAsync` | destination, shared progress file, `transferred`, `hasError` | one `std::async` thread per chunk | called by syncFile for files of 10 MB and more | LargeTransfer |
| Tree sync | `src/core/SyncManager.cpp`, `FileSync::detectChanges`, `LinuxFileUtil::createDirectory` | the two trees, the task list | syncLocal, processSyncTask, executeSyncTask, syncDirectory | pool, file sync | TreeSync |
| Remote client | `FileSync::syncRemote`, `sendFileSync`, `src/network/TcpClient.cpp` | progress file per file, connection | connect, metadata, offset and data per task, acknowledgement | server, by TCP | RemoteSync |
| Server session | `src/server/SyncServer.cpp` (`handleClient`, `receiveFileData`), `src/network/TcpServer.cpp` | files below the base directory | one pool task per connection | client, pool | RemoteSync, Server |
| Server life cycle | `SyncServer::start`, `stop`, `main()` with `--server` | listening socket, accept thread, flags | start, accept loop, signal, stop, destructor | pool, TcpServer | Server |
| Asynchronous I/O | `src/thread/AsyncIOHandler.cpp`, `FileSync::sendFileViaAsyncIO` | epoll set, callback and buffer maps | registerWrite, ioThread, remove, stop | remote client, large files | AsyncIO |
| RPC | `src/rpc/RpcClient.cpp`, `RpcServer.cpp` | one connection, the caller's response objects | listFiles, getFileMeta | server session (mode byte 1), the base directory | Rpc |
| Protocol buffers | `src/rpc/sync_service.pb.cc`, `include/rpc/sync_service.pb.h` | messages | construct, Clear, parse, serialize, measure, merge | RPC | Protobuf, Wire |
| Others | CLI, LogUtil, ExceptionHandler, heartbeats | | | | |

What is hard here: the pool's flags are changed without the mutex its waiters
use; chunk threads and pool workers share files and directories without locks;
a kill may come between any two writes, and the next run interprets what it
finds; the client and the server decide about a resume independently; workers of
old sessions live on when their client is gone; the I/O thread shares maps and a
condition variable with its caller without a lock; the accept thread is detached
and outlives what it uses; the directory changes while it is listed; almost no
timeouts exist.

What makes each component correct: a wait that returns means that the tasks
were executed, and none is lost or executed twice (pool); true means copied and
a record never promises what is not there (file sync, chunked transfer); a
finished run has compared everything and repeated runs converge (tree); an
acknowledgement means that the server has the files, and nobody waits for ever
(remote); what is on the socket is a beginning of the file and true means all of
it (asynchronous I/O); an answer describes the directory as it was during the
call, and a failed call has a reason (RPC); every accepted connection is served
and closed once, and a signal ends the server (server).

## Modules

### ThreadPool

One variable per member of the class, a program counter per worker (`wpc`) and
per calling thread (`cpc`), and two histories, `submitted` and `executed`. Every
access to `running`, `activeTasks` or the queue is a step of its own; a
`lock_guard` block is one step, and the mutex is a variable only for the worker
that holds it between the wait predicate and the pop. Blocking in
`condition.wait` (`Block`) is separate from the evaluation of its predicate
(`CheckPredicate`), and wake-ups may be spurious. `Submitters` are the threads
that call `submit` (accept thread, main thread); `Owner` is the main thread,
which alone waits, stops and resizes. `Stop` and `SetThreadCount` share the steps
`ClearRunning`, `NotifyAll`, `JoinAll`; a resize goes on with `Restart`.
Destructors are `Stop`.

### TaskPool

What a user of the pool relies on: tasks wait in the order of their submission,
each is taken once and is done when its function has returned. ThreadPool
implements it (`ImplementsTaskPool`, with the queue, the held tasks and the
executed tasks as the mapping); the refinement is checked by TLC and proved.
Server is built on its actions `Submit`, `Take` and `Finish`.

### LargeTransfer

`transferLargeFileAsync`, called with offset 0 (its only call; the branch for a
positive offset is dead and left out). Contents are sequences of units, the size
of a chunk is a constant. The caller opens and preallocates (the units read as
`Hole`), starts one thread per chunk, and joins them all. A thread tests
`hasError`, copies, counts, and saves its count in two steps: truncation of the
progress file and its content. A copy may fail after a part of it was written;
`saveProgress` may fail silently. The module is
checked as a part of FileSync, which calls it.

### FileSync

Extends LargeTransfer: `syncFile` and `resumeSync` over any number of runs.
`Run` has the steps of a call, from `HandleConflict` to `Cleanup`; `Crash` kills
the process between any two of them, and `ChangeSource` rewrites the source
between runs. A block of `transferFile` is written at once (libstdc++ does not
buffer a write of that size), the last short one may stay in the stream's buffer
until the destructor (`unflushed`), and both unchecked writes may get lost
(`RestLost`, `FlushLost`). `LoadProgress` models the parsing of the record:
nothing is recognised for a path with white space. The strategy is an input of
`HandleConflict`, as it is an option of each run. Two histories name what
the properties need: `sound` (the resume began on a true prefix of the source
and no unchecked write has failed) and `interrupted` (a transfer of this run has
failed: a checked write, a file that does not open, or the chunked transfer). Permissions, the speed limit and logging are left out.

### TreeSync

`SyncManager::syncLocal` over whole trees, with the pool as ThreadPool promises
it. `Changed` is `detectChanges`: types, sizes, mtimes and MD5 values (equality
of contents) are compared; whether two mtimes agree is an arbitrary Boolean,
because a copy gets the time at which it is made. The scan reports no errors, and
one may happen in any run: what `opendir` or `stat` refuses is not there, with
everything below it (`Hidden`), and a file that does not open has the MD5 "" at one
side (it is copied) or at both (size and mtime decide, `NeedSyncByStat`). The
history `unread` has the source paths that a run has not got or not compared for
this reason. The tasks come in any order, as from the hash map. A worker makes the directories on its path with one `StatDir`
and one `MakeDir` per level, then finishes a directory or copies a file in one
step (FileSync has its parts; kills are modelled there and not here). A failed
transfer removes the file or, for a lost last write, truncates it. A directory
where a file should be, and a file where a directory should be, behave as the
system calls make them behave.

### RemoteSync

Client and server with one connection per session. `up` is the byte stream to
the server as tokens (the metadata of all tasks is one of them), `down` the
answer, `link` the state of the connection. Bytes count as sent when they are
in the stream; `CutLink` loses any tail of it and possibly the answer. The server
reads whatever comes next as what it expects next: data taken for an offset is
any offset, an offset taken for data is `Garbage`. `write` goes to the end of the
file under `O_APPEND` and to the descriptor's position otherwise, so that two
workers on one file interfere as they do on the disk. The client may be killed
and started again while the old worker is active; the server may be killed, or
end by SIGPIPE, and be restarted: a negative acknowledgement on a broken connection
raises it (`ReadFails`), and so may the positive one (`AckPiped`). `ServerError` is a
directory that cannot be made, or an `open` or `write` that fails. Histories: `quiet` (no older worker was active
when this session began) and `mixed` (that was not so for some session, or a
worker has restarted a file which a client was resuming). Files are below the
threshold of the asynchronous path (AsyncIO has that), the source does not change during a
session, and there is a free worker for each session.

### AsyncIO

`AsyncIOHandler` with its only user, `sendFileViaAsyncIO`. A buffer is a range of
positions of the file; the socket has room for a number of bytes, which the peer
makes by reading; events are edge-triggered: one when the descriptor is added
while there is room, one when a full socket gets room. `registerWrite` is three
steps (epoll, callback, buffer), between which the I/O thread may look into the
maps, find nothing, and lose the event. The flag and the notification of the
callback are two steps taken without the mutex of the waiting thread.
`RegisterNext`, inside the callback, finds the descriptor still registered.
`registerRead` and the branch for readable descriptors have no caller and are
left out, and so is the callback of the second buffer, which is never stored
(AsyncHang).

### Protobuf

The eight messages of `sync_service.proto` as the generated code treats them.
For each message there is one table per generated function: the fields
`SharedCtor` sets, those `Clear` resets, the tags `_InternalParse` accepts, the
fields `_InternalSerialize` writes in its order, those `ByteSizeLong` measures and
`MergeImpl` takes over; `CtorOf` to `MergeOf` select the table of a type. Construction, `Clear` and merging are operators over these
tables: a message field is merged into the one that is there, a `oneof` case
replaces the other, elements are appended. The program copies only the two responses;
`MergeFrom` merges one of them and `MergeInner` what is in its fields, which goes no
deeper, so that the module needs no RECURSIVE operator. Arenas, unknown-field sets, swap and
reflection are not used by the program and are left out.

### Wire

What the generated functions do with bytes, for messages of any nesting:
`ByteSizeLong`, `InternalSerialize` and `InternalParse` over the tables of Protobuf.
proto3 default values are not written. The wire is a sequence of tokens with their
lengths in bytes; a nested message is read up to the length that was measured for
it, and a string that is not UTF-8 makes the parser refuse the message.

### Rpc

`RpcClient`, its caller and `RpcServer::handleRpcClient` over one connection, with
the messages of Protobuf. Every system call of the server on the directory is a
step (`stat`, `opendir` with the first `readdir`, one `stat` per entry, the
opening and the reading of a file for its MD5), and files and directories appear,
change and vanish between them. Each of these calls may also fail although the node
is there, without permission or descriptors (`StatFails`, `ReadDirFails`, `EntryFails`,
`MetaFails`, `MD5Fails`); the server answers a success in all cases but the first. The
recursion of `listDirectory` is a stack. The
caller uses the same response objects for every call. `FreshLocals` is the
construction of the loop's variables in each round. `seen` is a history of what may have
been found at each path during the call: the nodes it has had, and nothing if a system
call has failed on it or above it; the properties are about it. How messages become
bytes is a parameter (`Size`, `Serialize`, `Parse`), to which MCRpc gives the operators of
Wire: every run is with the bytes, and the proofs can reason about Rpc without them.
What Rpc needs of the three is the property `CodecFaithful`.

### Server

`main()` with `--server`, `SyncServer::start` and `stop`, the detached accept
thread, the workers of the pool (with TaskPool's actions) and the clients, which
connect, send any mode byte or none, and go. `StopPool` clears the flag and
notifies; `deaf` says that a thread missed both (the lost wake-up of PoolStop), and
`SubmitClient` may wake it. A thread that `stop()` finds waiting takes one more task
(`TakeLate`). `BrokenPipe` is the SIGPIPE of an answer to a client that has gone,
`UseAfterDelete` the accept thread's use of an object that the destructor has
deleted; both end the process. What a session transfers is RemoteSync's and Rpc's.
A `Patient` client need never send or close. Descriptors do not run out, `accept`
fails only because the socket was closed, and `AsyncIOHandler::stop` returns, as
AsyncIO shows.

## Runs

| Run | Question | Result |
|---|---|---|
| Pool | Do counter, queue and workers agree under every interleaving with stop and resize, does the pool implement TaskPool? Is every task executed, does a wait return? | holds |
| PoolStop | Does `stop()` return ("停止所有工作线程", ThreadPool.cpp:99)? | no: lost wake-up |
| Sync | What do true, false and a progress record mean after any history of kills, errors, strategies and source changes, for small and chunked files? Is the chunked transfer all or nothing? Does every call return, and does running again repair the destination? | holds |
| SyncResume | Is a break point kept: does a resumed transfer complete the copy (README.md:9), or at least an interrupted write leave its offset (README.md:181)? | no to both: a block appears twice, and the saved offset is deleted |
| Tree | Is the task list complete for what the scan could read, does skip keep what is there, do repeated runs converge to a mirror? | holds |
| TreeRace | Does true from `syncLocal` mean success (SyncManager.cpp:49)? | no: race for a directory |
| Remote | When does an acknowledgement mean that the server has the files, with and without -r, and when is what it has left a beginning of the file? Do runs end and workers get free, whenever a connection breaks or a process dies? | holds |
| RemoteResume | Does a run with -r end (README.md:182)? | no: both sides wait |
| Rpc | Does every message arrive as it was sent? Do listings and metadata describe the directory as it was found during the call, whichever system calls fail, does a call on a sound connection fail only for a reason, does every call return? | holds |
| Async | Is what is on the socket a beginning of the file, does true mean all of it, is no deleted buffer read, does `stop()` return? | holds |
| AsyncHang | Are large files sent by the asynchronous path (README.md:189)? | no: the second buffer is never registered |
| Server | Is every accepted connection served, held in one place and closed once, does a signal end the server, do sessions end before the objects they use are deleted? | holds |

Bounds, and why they are enough for the cases in question:

- Pool: two workers and three tasks give a queue that is longer than the set of
  workers, a worker that blocks while another takes its task, and every resize
  between 0, 1 and 2. The safety part and the refinement are proved for all sizes.
- Sync: a source of one block and a rest and one of two chunks with a short last
  one, over an older file or none; one kill, and two errors, so that the resume after
  a kill and the transfer after it both fail, that a write and the record of it
  both fail, or that an error meets a thread of a chunk that is starting, copying,
  counting or saving; one change of the source between the two sizes; every
  strategy (about 105 000 states).
- SyncResume: one kill and one error, so that one behaviour can break both promises;
  `BreakPointKept` is their disjunction, and its counterexample refutes each of them.
- Tree: a directory with two files gives two tasks racing for each of two levels
  (the destination and the directory); three source versions differ in content at
  equal size, and in type; three old destinations; one error, in a task or in the
  scan, which then hides any part of the source and any MD5 values (about 801 000
  states). TreeRace has no error, so that the race alone is to blame.
- Remote: a directory and a file of two units, which is cut in the middle; two
  sessions, the second with or without -r while the worker of the first may be
  active; one cut, one kill, one server error (about 141 000 states).
- Rpc: two calls, the second with the objects of the first, on the same connection
  or on a new one; two changes, so that a path disappears and comes back, or a file
  becomes a directory; a name that is not UTF-8; one fault: a cut connection, a killed
  client or a system call that fails (about 607 000 states).
- Async: files of 0 to 7 bytes with buffers of 3 and room for 2: no buffer, a
  short one, exactly one, and more, each with full and partial writes.
- Server: three clients at two threads with a backlog of two; one of them may stay
  for ever, one sends nothing, RPC or an unknown byte, one synchronises (about
  60 000 states).

Deadlock is not checked: every system may stop, a pool after `stop()`, a client
after its run, a server after a signal, and the bounded budgets make it so in the
models.

Fairness:

- Pool: every thread that can take a step takes it (weak), a worker gets a mutex
  that keeps being released (strong, on `Lock`), tasks return; nothing is assumed
  about spurious wake-ups or about calls being made.
- Sync: a process that is not killed runs on; for `Heals` the user starts a sync
  with the strategy overwrite again and again (strong, because runs with -r or
  other strategies may come between).
- Tree: threads run, the user starts runs with overwrite again and again (strong).
- Remote: client and workers run on; nothing is assumed of connections, errors,
  kills or restarts. That workers get free holds for failures that the kernel
  reports; a peer that vanishes silently is a listed hazard.
- Rpc: the worker and a client that waits run on; the steps that read or write a
  message are named by the stage they leave, which they always can when they are
  enabled. Nothing is assumed of calls, changes or faults.
- Async: both threads run and the peer keeps reading; a wait need never end
  without a notification.
- Server: all threads of the server run, and clients that are not patient leave
  sooner or later. Nothing is assumed of patient ones, of signals or of SIGPIPE.

## Disagreements with comments and documentation

Shown by the runs with a violation:

- `stop()` may never return: `running` and `notify_all` are outside the mutex
  (ThreadPool.cpp:102).
- A resume appends to whatever is at the destination (FileSync.cpp:445). A kill
  between a block and its record doubles the block; true is returned, against
  README.md:9.
- The offset that is saved when a write fails (FileSync.cpp:479) is deleted again by
  the cleanup of `syncFile` (FileSync.cpp:431), with the file: the next run begins at 0,
  against README.md:181. SyncResume shows both.
- Two workers race between `stat` and `mkdir` (LinuxFileUtil.cpp:93-96); the loser's
  task fails, its result is ignored (SyncManager.cpp:144), true is returned. The
  next run repairs it (`EventuallyMirrored`).
- After an offset mismatch the server expects the whole file and the client sends
  the rest (SyncServer.cpp:417): both wait.
- The callback of the first buffer registers the second while the descriptor is
  still in the epoll set (FileSync.cpp:894); `EPOLL_CTL_ADD` fails, `registerWrite`
  returns without storing anything (AsyncIOHandler.cpp:96), and the caller waits
  for ever.

Visible in the models, and the reason for the conditions in the passing
properties:

- `SuccessExact` needs `sound`: the last write and the flush are not checked
  (FileSync.cpp:496), and a resume does not check what it continues.
- `FailureHarmless` is what is left of README.md:181: nothing is resumed after a failed
  transfer, but nothing is resumed wrongly either. The failed write may have left a part of a
  block behind the saved offset, and without the cleanup a resume would append to it.
- The record of a chunked transfer counts bytes and is no offset
  (FileSync.cpp:741); `ProgressNeverAhead` states what it does mean.
- `ProgressBacked` is about what `loadProgress` reads: the record of a path with a
  blank is never recognised and never replaced, so what it says may be stale
  (FileSync.cpp:549). It needs that nothing was renamed: the record outlives the
  file it describes; a second `rename` run also replaces the first backup (FileSync.cpp:584).
- `TasksSuffice` excepts a file in the place of a directory, which `createDirectory`
  accepts (LinuxFileUtil.cpp:106), and what is `unread`: a directory that does not open
  counts as empty (LinuxFileUtil.cpp:123), an entry without `stat` does not count at all
  (FileSync.cpp:54), and `syncLocal` returns true without a failed task. mtimes are not copied, so unchanged files are
  copied again (FileSync.cpp:148).
- `AckSound` needs `quiet`: the worker of a killed client may still truncate or write
  the file after the next session was acknowledged (SyncServer.cpp:398). With -r it
  needs `~mixed`: only sizes are compared (SyncServer.cpp:407).
- The negative acknowledgement on a broken connection raises SIGPIPE and ends the
  server (TcpServer.cpp:122).
- A pool worker that tests `running` at the top of its loop leaves with tasks queued
  (ThreadPool.cpp:29), unlike the comment at line 37.
- `SignalEndsServer` excepts a `deaf` thread (PoolStop), and a client that stays
  connected without sending: there is no timeout on a read.
- Closing the listening socket does not wake `epoll_wait`, unlike the comment in
  SyncServer::stop; the timeout of one second does (`Leave`). Nobody waits for the
  accept thread, which may therefore use what the destructor has deleted
  (`UseAfterDelete`).
- `FalseJustified` excepts names that are not UTF-8: one of them anywhere below the
  directory makes the client refuse the whole listing, and the server does not
  learn of it.
- `ListingTrue` excepts paths that a failed `opendir`, `readdir` or `stat` has hidden
  (RpcServer.cpp:221, 236): the listing is incomplete, and `success` is true.
- `MetaTrue` promises the MD5 of the described content only if the file was not
  changed during the call: `stat` and the reading are separate. A `stat` that fails is
  answered as a file that does not exist (RpcServer.cpp:111), a file that does not
  open with the MD5 "" (RpcServer.cpp:259), both with `success`.

## Proofs

Each theorem is `Spec => []P` or `Spec => [][A]_vars` for a property that a run checks
on a small instance, proved for every value of the constants that the module's
assumption allows; those about Rpc have one hypothesis more, `[]CodecFaithful`, which
the run Rpc checks. In each module the named invariant (`PoolInv`, `AsyncInv`,
`ServerInv`, `FileInv`, `TreeInv`, `RemoteInv`, `RpcInv`) is inductive; the properties are
not, and the text says what had to be added. There is a lemma for the initial states,
one for every action or group of actions that share their argument, and a last step that
combines them. `OperatorLemmas` has the facts about sequences that several of the
modules need: `HeadTail`, `AppendFacts`, what appending and removing do to a sequence
without repetitions, prefixes.

### ThreadPoolProofs

For every finite set of workers and tasks, any callers and any pool sizes:
`TypeOK`, `CompletionSound`, `TasksKept` and `NoEmptyPop`. That
`activeTasks = 0` implies that all tasks were executed follows only from what the
counter counts. `PoolInv` has the parts

- `LockInv`: the mutex is held exactly by the worker at `check`, `block` or `pop`.
  So at most one worker is there, and a queue found non-empty by the predicate
  is non-empty at the pop, which gives `NoEmptyPop`;
- `ThreadInv`: workers outside the vector, and all workers when a resize
  restarts, have exited, so that new threads never meet old ones;
- `QueueInv`, `HoldingInv`: queued tasks are submitted, not executed and distinct;
  held tasks are submitted, held once and not queued;
- `CountInv`: `activeTasks` is the number of queued and held tasks;
- `NoTaskLost`, which is half of `TasksKept`, and `executed \subseteq submitted`; the
  other half, `ExecutedOnce`, follows from `QueueInv` and `HoldingInv`.

`WorkerPoolInv` and `CallerPoolInv` prove that the steps of workers and callers preserve
it; `TaskPartUnchanged` is what all actions that touch no task share, `MoveKeepsTasks`
the pop, and `PendingFinite` the cardinality.

`PoolImplementsTaskPool` proves that `Spec` implies `TaskPool`'s specification under the
mapping of `ImplementsTaskPool`. `TasksUntouched` says that a step that leaves queue,
held and executed tasks alone is a stuttering step of TaskPool; `WorkerImplements` and
`CallerImplements` show, from `PoolInv`, that the pop is `Take`, the return of a task
is `Finish`, a submission is `Submit` (the task is new by `QueueInv` and `HoldingInv`),
and that everything else stutters.

### FileSyncProofs

For any contents, any block and chunk sizes, any number of runs, kills, errors and
changes of the source. The first part is about LargeTransfer alone: what the chunk
threads keep, `LargeInv`, which the second part uses for the steps of FileSync that
belong to LargeTransfer. Its arithmetic: the chunks cover the file (`ChunksCover`), stay within
it (`ChunkWithin`) and are disjoint (`ChunksDisjoint`).

- `CopyInv`: what a thread has copied stays copied, whatever the others write; with
  `ChunksCover` this gives the half of `LargeAllOrNothing` that is about true;
- `CountInv`: `moved` is the number of units in the chunks that were counted, and what a
  thread has read of the counter is not above it; with `CopyInv` (`RecordedIsCopied`)
  this gives the action property `ProgressNeverAhead`, although threads save their
  counts out of order;
- `ThreadsInv`, `EndInv`, `NoErrorInv`: when there are threads, what the caller finds
  after it has joined them, and that nothing fails without an error.

`FileInv` adds `RunInv` (which call is under way, the parameters of `transferFile`, what is
in the stream's buffer), `SoundInv` (a sound run has written what it has read, the
strengthening that `SuccessExact` needs) and `BackedInv` (without errors and renames
the position at which `transferFile` writes is not behind the end of the destination,
which `ProgressBacked` needs). `FailureHarmless` and the other half of
`LargeAllOrNothing` follow from the order of the two removals.

### TreeSyncProofs

For trees of any shape, any number of workers, any order of the tasks and any number
of errors and runs: `TypeOK`, `TasksSuffice` and the action property `SkipKeeps`. The
assumption says that the trees are trees: what is above something that exists is a
directory.

- `PoolInv`: every task of the run is waiting, in work or counted, so that
  `completedTasks` never goes beyond `totalTasks`;
- `TaskInv`: as long as no task has failed, a path that is not yet synchronised is
  queued or in work, or `unread`;
- `DirInv`: the last level that the task of a directory makes is the directory, and it
  is still there when the task ends. Without this `TaskInv` is not inductive:
  `syncDirectory` returns true without looking at the directory again.

A rename takes away everything below the path; that it spoils no other task's work
needs that the source, being a tree, has nothing below a file (`BelowFile`).

### RemoteSyncProofs

For any task list that is not empty, any size of the server's buffer and any number of
sessions, cut connections, kills and errors: `TypeOK`, `AckSound` and
`StoredIsBeginning`. `RemoteInv` has two
halves. `BaseInv` holds whatever the sessions do to one another: the client and every
handler work on a task of the list, a handler in file data has its file on the disk and
has not buffered more than the rest of the file, and a quiet session is the only one
that is active. It gives `TypeOK`, also for sessions that overlap and handlers that take
file data for an offset.

`SessionInv` is about the sessions that `AckSound` speaks of (`Good`). A place in what the
client sends is a task and a number of its units; `Fits` says which token may follow a
place and where it leads, `Leads` that a sequence of tokens leads from one place to
another.

- `StreamInv`: what is on the way leads from where the handler reads to where the client
  writes, as long as the connection takes what the client sends, and otherwise to some
  place before (`LeadsCut`); the handler has stored all earlier tasks, the first
  `received` units of its file, and has in its buffer the units that follow. So the token
  that comes is the one the handler expects, and its offset is one the client asked for;
- `PrefixInv`: as long as no sessions have mixed, the server has a beginning of every
  file. A resuming session needs it: the server compares only the size of its file with
  the offset. It is `StoredIsBeginning` with the length of the beginning as a witness;
- `AckInv`: the handler that has acknowledged is gone, and everything is there.

A handler that starts a file again does so only for a client that is resuming, whose
session is not good from then on (`ReopenSessionInv`); this is why `mixed` is part of the
property.

### AsyncIOProofs

For every size of the file, the buffer and the socket: `TypeOK`, `SentIsPrefix`,
`TrueMeansSent` and `WritesLiveBuffer`. `EarlyInv` says that nothing is sent before the
third step of `registerWrite`, `EntryInv` that the entry in the map is what is left of the
first buffer and follows what has been sent, `DoneInv` that the flag is set only when
the whole file is on the socket, and that nothing is written any more from then on.

### ServerProofs

For any number of clients and threads, and any backlog: `TypeOK`, `OneHolder` and
`NoSessionAfterDelete`. `HolderInv` says that the five places of a connection exclude one
another, that a client that has not connected is in none and a connected one in some;
queue and backlog have no repetitions, without which a removal from the front would
not remove. `ThreadInv` counts: threads that have exited and sessions together are at
most the threads of the pool, so that no session is left when all of them are joined.

### RpcProofs

For any directory trees, any requests, any names that are not UTF-8, any number of calls,
changes and faults, and any codec: `TypeOK`, `ListingTrue`, `MetaTrue` and `FalseJustified`, if
the codec is faithful. The hypothesis `[]CodecFaithful` says of the bytes only that a
request and a response are read as what they were made of, or refused for a name that is
not UTF-8; that the client's objects then say nothing of an earlier call, and that the
listing is complete as far as it could be read, is proved. `RpcInv` has the parts

- `TreeInv`, `SeenInv`: at every time what has a name lies in a directory, and `seen`
  has at least what is there now. A path that was there during the whole call, and that no
  failed system call has hidden, has been in directories that could be read during the
  whole call; without this the walk might miss it;
- `LocalsInv`, `RoundInv`: the variables of a round are new when the server waits, and
  there is one request or one response at a time, so that no answer meets another call;
- `WorkInv`: the handler works on the request of the call under way. For `listDirectory`
  this is `Walk`: the calls on the stack are on one path (`Shape`), what is listed was seen
  and is listed once, and a path that could be found all the time is listed as soon as no call
  on the stack has still to come to it (`Visited`). The stack is empty when the walk
  ends, and then everything is visited;
- `AnswerInv`, `ResultInv`: the response on the way says what the call has asked for, or has
  a reason not to (`Says`), and after the call the client's objects say the same.

What a failed system call takes away, `seen` has as nothing found, there and below
(`FailsHides`); so a step of the walk that leaves something out by an error keeps `Walk`,
and the lemmas for the other steps see only a `seen` that has grown (`Grows`).

The client assigns the parsed message to the caller's object (`operator=`, which is
`Clear` and `MergeFrom`); that nothing of the old answer is left is a lemma about the
tables of Protobuf.

### Only model-checked

Liveness under fairness is out of the prover's reach: `TasksProgress` and `WaitReturns`
(pool), `CallReturns` and `Heals` (file sync), `EventuallyMirrored` (tree), Rpc's `CallReturns`,
`RunEnds` and `WorkersFreed` (remote), `StopReturns` (asynchronous I/O), `AcceptedIsServed` and
`SignalEndsServer` (server).

`CodecFaithful` is checked by TLC on every message of the run Rpc, and is a hypothesis of
the theorems of RpcProofs: Wire's functions are RECURSIVE operators, and what they do to
messages of any length is an induction over data; the prover can use neither.

## Not modelled, and the plan

Modelled in this order: pool, chunked transfer, file sync, remote sync, tree,
asynchronous I/O, protocol buffers and RPC, server; proved in this order: pool,
asynchronous I/O, server, chunked transfer, file sync, tree, remote sync, RPC. Every safety
property of the passing runs is proved, Rpc's from `CodecFaithful`, which is the only one
that is model-checked alone. What is left is to say more about the components that are
proved, above all what holds of the sessions that `AckSound` and `StoredIsBeginning` leave
out: those that overlap with an older worker.

Left out, and why:

- Logging, exception classes and messages, option parsing: they keep no state that
  the rest reads; each option is an input of a model.
- Heartbeats, `registerRead`, `FileSync::syncLocal`: no caller.
- The MD5 algorithm (contents are compared), permissions and the speed limit.
- Changes of the source while it is sent: `sendFileSync` loops for ever when the
  file gets shorter, a listed hazard without a property.
- AsyncIO and RemoteSync are separate: by AsyncHang no file that takes the
  asynchronous path is sent beyond the first buffer. That path also leaves the
  socket in non-blocking mode for what follows (a listed hazard).
- Arenas, unknown fields, swap and reflection of the generated code: not used by
  the program.
