------------------------------- MODULE AsyncIO -------------------------------
(***************************************************************************)
(* AsyncIOHandler, the epoll loop in a thread of its own, and its only     *)
(* user, FileSync::sendFileViaAsyncIO, which sends one file over one       *)
(* socket and waits on a condition variable until the callbacks say that   *)
(* the file has been sent.                                                 *)
(*                                                                         *)
(* The two threads share the maps of the handler without a lock; a lookup  *)
(* that races with an insertion finds the entry or does not. A buffer is a *)
(* range of positions of the file. The socket takes as many bytes as there *)
(* is room in its send buffer, the peer makes room by reading, and epoll   *)
(* is edge-triggered: one event when the descriptor is added while there   *)
(* is room, one when a socket that was full gets room.                     *)
(***************************************************************************)
EXTENDS Integers, Sequences, FiniteSets, FiniteSetsExt

CONSTANTS Sizes,         \* the sizes of the file
          bufferSize,    \* bytes per buffer (8192 in the code)
          Room,          \* the send buffer of the socket
          PeerMayClose   \* whether the peer may close the connection

ASSUME AsyncAssumption ==
  /\ Sizes \subseteq Nat /\ bufferSize \in Nat \ {0} /\ Room \in Nat \ {0}
  /\ PeerMayClose \in BOOLEAN

VARIABLES
  size,        \* the file
  \* AsyncIOHandler
  running,
  iopc,        \* where the I/O thread is
  writeCallback,  \* the entry of the socket in writeCallbacks
  writeBuffer,    \* the entry of the socket in writeBuffers
  registered,  \* the socket is in the epoll set
  ready,       \* an event of it is pending
  \* sendFileViaAsyncIO
  mpc,         \* where the calling thread is
  gcount,      \* how much of the file has been read
  eof,         \* srcFile.eof()
  live,        \* the buffers that have been allocated and not deleted
  transferDone,
  \* the socket
  sent,        \* the positions of the file written to it, in this order
  space,       \* room in its send buffer
  link         \* "open", or "closed" by the peer

handlerVars == <<running, iopc, writeCallback, writeBuffer, registered, ready>>
senderVars == <<mpc, gcount, eof, live, transferDone>>
netVars == <<sent, space, link>>
vars == <<size, handlerVars, senderVars, netVars>>

NoBuffer == [id |-> 0, from |-> 0, size |-> 0]
Buffer(id, from, n) == [id |-> id, from |-> from, size |-> n]

TypeOK ==
  /\ size \in Sizes /\ gcount \in 0..size /\ eof \in BOOLEAN
  /\ running \in BOOLEAN /\ registered \in BOOLEAN /\ ready \in BOOLEAN
  /\ iopc \in {"poll", "event", "write", "callback", "store", "notify", "remove",
               "exited"}
  /\ writeCallback \in {"none", "first", "next"}
  /\ writeBuffer.size \in 0..bufferSize /\ writeBuffer.from \in 0..size
  /\ mpc \in {"start", "add", "setCallback", "setBuffer", "test", "sleep",
              "blocked", "true", "false", "join", "stopped", "killed"}
  /\ live \subseteq {1, 2} /\ transferDone \in BOOLEAN
  /\ sent \in Seq(1..size) /\ space \in 0..Room /\ link \in {"open", "closed"}
  /\ ready => registered

\* start() has been called by SyncManager::init
Init ==
  /\ size \in Sizes
  /\ running = TRUE /\ iopc = "poll"
  /\ writeCallback = "none" /\ writeBuffer = NoBuffer
  /\ registered = FALSE /\ ready = FALSE
  /\ mpc = "start" /\ gcount = 0 /\ eof = FALSE /\ live = {}
  /\ transferDone = FALSE
  /\ sent = <<>> /\ space = Room /\ link = "open"

\* Variant of Read: the bytes asked for are taken for the bytes read.
ReadFull(id, kept) ==
  /\ gcount' = gcount + bufferSize
  /\ eof' = (gcount + bufferSize > size)
  /\ live' = kept \cup {id}

\* a new buffer and srcFile.read(): eof() is true once a read has got less than
\* it asked for; a buffer that stays empty is deleted at once
Read(id, kept) ==
  /\ gcount' = Min({size, gcount + bufferSize})
  /\ eof' = (gcount + bufferSize > size)
  /\ live' = kept \cup (IF gcount' > gcount THEN {id} ELSE {})

-----------------------------------------------------------------------------
(* sendFileViaAsyncIO, in the thread of syncRemote *)

\* the file cannot be opened, or the first buffer is read
Start ==
  /\ mpc = "start"
  /\ \/ mpc' = "false" /\ UNCHANGED <<gcount, eof, live>>
     \/ Read(1, {}) /\ mpc' = IF gcount' > 0 THEN "add" ELSE "true"
  /\ UNCHANGED <<size, handlerVars, transferDone, netVars>>

\* registerWrite in three steps: epoll_ctl ...
Add ==
  /\ mpc = "add" /\ mpc' = "setCallback"
  /\ registered' = TRUE /\ ready' = (space > 0)
  /\ UNCHANGED <<size, running, iopc, writeCallback, writeBuffer, gcount, eof,
                 live, transferDone, netVars>>

\* ... writeCallbacks[fd] ...
SetCallback ==
  /\ mpc = "setCallback" /\ mpc' = "setBuffer"
  /\ writeCallback' = "first"
  /\ UNCHANGED <<size, running, iopc, writeBuffer, registered, ready, gcount, eof,
                 live, transferDone, netVars>>

\* ... and writeBuffers[fd]
SetBuffer ==
  /\ mpc = "setBuffer" /\ mpc' = "test"
  /\ writeBuffer' = Buffer(1, 0, gcount)
  /\ UNCHANGED <<size, running, iopc, writeCallback, registered, ready, gcount,
                 eof, live, transferDone, netVars>>

\* cv.wait: the predicate is tested under a mutex that the callbacks do not take,
\* so that something may happen before the thread is asleep
TestDone ==
  /\ mpc = "test"
  /\ mpc' = IF transferDone THEN "true" ELSE "sleep"
  /\ UNCHANGED <<size, handlerVars, gcount, eof, live, transferDone, netVars>>

Sleep ==
  /\ mpc = "sleep" /\ mpc' = "blocked"
  /\ UNCHANGED <<size, handlerVars, gcount, eof, live, transferDone, netVars>>

\* a wait may end without a notification
SpuriousWakeUp ==
  /\ mpc = "blocked" /\ mpc' = "test"
  /\ UNCHANGED <<size, handlerVars, gcount, eof, live, transferDone, netVars>>

\* AsyncIOHandler::stop, by SyncManager::stop at the end of the program ...
Stop ==
  /\ mpc \in {"true", "false"} /\ mpc' = "join"
  /\ running' = FALSE
  /\ UNCHANGED <<size, iopc, writeCallback, writeBuffer, registered, ready, gcount,
                 eof, live, transferDone, netVars>>

\* ... which waits for the thread
Join ==
  /\ mpc = "join" /\ iopc = "exited" /\ mpc' = "stopped"
  /\ UNCHANGED <<size, handlerVars, gcount, eof, live, transferDone, netVars>>

-----------------------------------------------------------------------------
(* ioThread *)

At(from, to) == iopc = from /\ iopc' = to

\* epoll_wait returns the event
Poll ==
  /\ At("poll", "event") /\ ready
  /\ ready' = FALSE
  /\ UNCHANGED <<size, running, writeCallback, writeBuffer, registered, senderVars,
                 netVars>>

\* Variant of Exit: epoll_wait without its timeout.
ExitOnEvent ==
  /\ At("poll", "exited") /\ ~running /\ ready
  /\ UNCHANGED <<size, running, writeCallback, writeBuffer, registered, ready,
                 senderVars, netVars>>

\* epoll_wait has timed out, or the event has been handled: the loop's condition
Exit ==
  /\ At("poll", "exited") /\ ~running
  /\ UNCHANGED <<size, running, writeCallback, writeBuffer, registered, ready,
                 senderVars, netVars>>

\* the lookup in both maps; without an entry the event is lost
Lookup ==
  /\ iopc = "event"
  /\ iopc' = IF writeCallback # "none" /\ writeBuffer # NoBuffer THEN "write"
             ELSE "poll"
  /\ UNCHANGED <<size, running, writeCallback, writeBuffer, registered, ready,
                 senderVars, netVars>>

Positions(from, n) == [i \in 1..n |-> from + i]

\* Variant of Write: a short write is taken for a complete one.
WriteShort ==
  /\ iopc = "write" /\ link = "open"
  /\ LET n == Min({space, writeBuffer.size}) IN
     /\ sent' = sent \o Positions(writeBuffer.from, n)
     /\ space' = space - n
     /\ iopc' = IF n > 0 THEN "callback" ELSE "poll"
  /\ UNCHANGED <<size, running, writeBuffer, writeCallback, registered, ready,
                 senderVars, link>>

\* Variant of Write: the buffer is not advanced after a short write.
WriteAgain ==
  /\ iopc = "write" /\ link = "open"
  /\ LET n == Min({space, writeBuffer.size}) IN
     /\ sent' = sent \o Positions(writeBuffer.from, n)
     /\ space' = space - n
     /\ iopc' = IF n = writeBuffer.size THEN "callback" ELSE "poll"
  /\ UNCHANGED <<size, running, writeBuffer, writeCallback, registered, ready,
                 senderVars, link>>

\* write(): all of the buffer, or a part of it, or nothing (EAGAIN)
Write ==
  /\ iopc = "write" /\ link = "open"
  /\ LET n == Min({space, writeBuffer.size}) IN
     /\ sent' = sent \o Positions(writeBuffer.from, n)
     /\ space' = space - n
     /\ IF n = writeBuffer.size
          THEN iopc' = "callback" /\ UNCHANGED writeBuffer
          ELSE /\ iopc' = "poll"
               /\ writeBuffer' = [writeBuffer EXCEPT !.from = @ + n, !.size = @ - n]
  /\ UNCHANGED <<size, running, writeCallback, registered, ready, senderVars, link>>

\* write() to a connection that the peer has closed fails, which is ignored, or
\* SIGPIPE ends the process
WriteFails ==
  /\ iopc = "write" /\ link = "closed"
  /\ \/ iopc' = "poll" /\ UNCHANGED mpc
     \/ iopc' = "exited" /\ mpc' = "killed"
  /\ UNCHANGED <<size, running, writeCallback, writeBuffer, registered, ready,
                 gcount, eof, live, transferDone, netVars>>

\* registerWrite in the I/O thread: epoll_ctl fails for a descriptor that is
\* there already, and then the callback and the buffer are not stored
RegisterNext ==
  IF registered
    THEN UNCHANGED <<registered, ready, writeCallback, writeBuffer>>
    ELSE /\ registered' = TRUE /\ ready' = (space > 0)
         /\ writeCallback' = "next"
         /\ writeBuffer' = Buffer(2, gcount, gcount' - gcount)

\* the first callback: the buffer is deleted, the next one is read and registered
FirstCallback ==
  /\ iopc = "callback" /\ writeCallback = "first"
  /\ IF eof
       THEN /\ live' = live \ {1} /\ iopc' = "store"
            /\ UNCHANGED <<gcount, eof, registered, ready, writeCallback, writeBuffer>>
       ELSE /\ Read(2, live \ {1})
            /\ IF gcount' > gcount
                 THEN RegisterNext /\ iopc' = "remove"
                 ELSE /\ iopc' = "store"
                      /\ UNCHANGED <<registered, ready, writeCallback, writeBuffer>>
  /\ UNCHANGED <<size, running, mpc, transferDone, netVars>>

\* transferDone.store(true) ...
StoreDone ==
  /\ At("store", "notify")
  /\ transferDone' = TRUE
  /\ UNCHANGED <<size, running, writeCallback, writeBuffer, registered, ready, mpc,
                 gcount, eof, live, netVars>>

\* ... and cv.notify_one(), which wakes the thread if it is asleep
Notify ==
  /\ At("notify", "remove")
  /\ mpc' = IF mpc = "blocked" THEN "test" ELSE mpc
  /\ UNCHANGED <<size, running, writeCallback, writeBuffer, registered, ready,
                 gcount, eof, live, transferDone, netVars>>

\* Variant of Remove: the entry is kept after the callback.
RemoveNothing ==
  /\ At("remove", "poll")
  /\ UNCHANGED <<size, running, senderVars, netVars, registered, ready, writeCallback,
                 writeBuffer>>

\* remove(fd), after the callback has returned
Remove ==
  /\ At("remove", "poll")
  /\ registered' = FALSE /\ ready' = FALSE
  /\ writeCallback' = "none" /\ writeBuffer' = NoBuffer
  /\ UNCHANGED <<size, running, senderVars, netVars>>

-----------------------------------------------------------------------------
(* The peer *)

\* the peer reads what is in the send buffer; the edge is at the change from full
PeerReads ==
  /\ link = "open" /\ space < Room
  /\ space' = Room
  /\ ready' = (ready \/ (registered /\ space = 0))
  /\ UNCHANGED <<size, running, iopc, writeCallback, writeBuffer, registered,
                 senderVars, sent, link>>

\* epoll reports a connection that is closed
PeerCloses ==
  /\ PeerMayClose /\ link = "open" /\ mpc # "killed"
  /\ link' = "closed" /\ space' = Room
  /\ ready' = registered
  /\ UNCHANGED <<size, running, iopc, writeCallback, writeBuffer, registered,
                 senderVars, sent>>

-----------------------------------------------------------------------------

Sender == \/ Start \/ Add \/ SetCallback \/ SetBuffer \/ TestDone \/ Sleep
          \/ Stop \/ Join
IoThread == \/ Poll \/ Exit \/ Lookup \/ Write \/ WriteFails \/ FirstCallback
            \/ StoreDone \/ Notify \/ Remove

Next == Sender \/ IoThread \/ SpuriousWakeUp \/ PeerReads \/ PeerCloses

\* Both threads keep running and the peer keeps reading; a wait need never end
\* without a notification.
Fairness == WF_vars(Sender) /\ WF_vars(IoThread) /\ WF_vars(PeerReads)

Spec == Init /\ [][Next]_vars
FairSpec == Spec /\ Fairness

-----------------------------------------------------------------------------
(* Properties *)

\* What is on the socket is a beginning of the file, without a gap or a
\* repetition: whatever part of a buffer each write() has taken.
SentIsPrefix == \A i \in DOMAIN sent : sent[i] = i

\* sendFileViaAsyncIO returns true only when the whole file is on the socket,
\* although the calling thread learns of it from another thread's flag.
TrueMeansSent == mpc = "true" => Len(sent) = size

\* write() never reads a buffer that has been deleted: the callback deletes it
\* while its entry is still in the map, and the entry is gone before the next
\* event is looked up.
WritesLiveBuffer == iopc = "write" => writeBuffer.id \in live

\* AsyncIOHandler::stop returns, whatever events are outstanding: epoll_wait has
\* a timeout.
StopReturns == mpc = "join" ~> mpc = "stopped"

\* Once the first buffer has been written the rest of the file follows: the
\* callback registers the next buffer.
RestIsSent == iopc = "callback" ~> Len(sent) = size
=============================================================================
