------------------------------ MODULE RemoteSync ------------------------------
(***************************************************************************)
(* The remote synchronisation: the client FileSync::syncRemote with        *)
(* sendFileSync over TcpClient, the server's SyncServer::handleClient with *)
(* receiveFileData over TcpServer, and the TCP connections between them.   *)
(*                                                                         *)
(* Sessions follow one another: each is a connection, handled by its own   *)
(* worker of the server's pool, which may still be busy when the client    *)
(* has been killed and run again. The client never waits for the server    *)
(* before it has sent everything.                                          *)
(*                                                                         *)
(* A client sends one unit of a file at a time. The metadata of all tasks  *)
(* is one token of the stream: losing any part of it has the same effect.  *)
(* The source files do not change. sendFileViaAsyncIO is not part of this  *)
(* module: files are below LARGE_FILE_THRESHOLD.                           *)
(***************************************************************************)
EXTENDS Integers, Sequences, FiniteSets, FiniteSetsExt, SequencesExt

CONSTANTS Tasks,           \* the task list: file contents, or Dir
          Dir, NoFile, EmptyFile,
          Garbage,         \* a unit that is not file data
          ServerBuffer,    \* bufferSize of receiveFileData, in units
          LocalDirExists,  \* the client has a local directory named destDir
          ResumeModes,     \* the values of -r in the runs of the client
          MaxSessions, MaxCuts, MaxKills, MaxErrors   \* bounds of a behaviour

Sessions == 1..MaxSessions
Files == {i \in DOMAIN Tasks : Tasks[i] # Dir}
FileSize(i) == Len(Tasks[i])
Sizes == {0} \cup UNION {0..FileSize(i) : i \in Files}
Units == {Garbage} \cup UNION {Range(Tasks[i]) : i \in Files}

ASSUME RemoteSyncAssumption ==
  /\ Tasks \in Seq({Dir} \cup Seq(Units)) /\ Len(Tasks) > 0
  /\ ServerBuffer \in Nat \ {0}
  /\ LocalDirExists \in BOOLEAN /\ ResumeModes \subseteq BOOLEAN
  /\ MaxSessions \in Nat /\ MaxErrors \in Nat
  /\ MaxCuts \in Nat /\ MaxKills \in Nat

VARIABLES
  \* the client process and its disk
  cpc, ci,    \* where syncRemote is, and in which task
  sent,       \* transferred of sendFileSync
  resume,     \* the option -r of this run
  cprog,      \* the progress file of each task
  result,     \* value returned by the last syncRemote
  \* the connections
  session,    \* number of the latest session
  up,         \* bytes sent and not yet read by the server
  down,       \* answer of the server: "none", "ACK" or "NAK"
  link,       \* "none", "open", "fin": closed by the client, "reset": broken
  \* the server process and its disk
  serverUp,
  worker,     \* state of handleClient for each session
  stored,     \* what the server has at the path of each task
  cuts, kills, errors,
  quiet,      \* history: no worker of an older session was active when the
              \* current session began
  mixed       \* history: that was not so for some session, or a worker has
              \* restarted a file that the client was resuming

clientVars == <<cpc, ci, sent, resume, cprog, result>>
netVars == <<session, up, down, link>>
serverVars == <<serverUp, worker, stored>>
budgetVars == <<cuts, kills, errors>>
historyVars == <<quiet, mixed>>
vars == <<clientVars, netVars, serverVars, budgetVars, historyVars>>

\* what eight bytes of file data may be read as, when taken for an offset
AnyOffset == {-1} \cup Sizes

Header == [kind |-> "header"]
Offset(n) == [kind |-> "offset", n |-> n]
Data(u) == [kind |-> "data", u |-> u]
Tokens == {Header} \cup {Offset(n) : n \in Sizes} \cup {Data(u) : u \in Units}

AsUnit(t) == IF t.kind = "data" THEN t.u ELSE Garbage

\* the locals of handleClient before it has received anything of task i
Handler(where, i) ==
  [pc |-> where, i |-> i, append |-> FALSE, received |-> 0, pos |-> 0, buf |-> <<>>]
Closed == Handler("closed", 0)

TypeOK ==
  /\ cpc \in {"idle", "offset", "data", "save", "saveWrite", "failSave",
              "failWrite", "ack"}
  /\ ci \in 0..Len(Tasks) /\ sent \in Sizes /\ resume \in BOOLEAN
  /\ cprog \in [Files -> {NoFile, EmptyFile} \cup Sizes]
  /\ result \in {"none", "true", "false"}
  /\ session \in 0..MaxSessions
  /\ up \in [Sessions -> Seq(Tokens)]
  /\ down \in [Sessions -> {"none", "ACK", "NAK"}]
  /\ link \in [Sessions -> {"none", "open", "fin", "reset"}]
  /\ serverUp \in BOOLEAN
  /\ \A s \in Sessions :
       /\ worker[s].pc \in {"none", "header", "offset", "open", "reopen",
                            "data", "closed"}
       /\ worker[s].i \in 0..Len(Tasks) /\ worker[s].append \in BOOLEAN
       /\ worker[s].received \in AnyOffset /\ worker[s].pos \in Nat
       /\ worker[s].buf \in Seq(Units)
  /\ \A i \in DOMAIN Tasks : stored[i] \in Seq(Units) \cup {NoFile, Dir}
  /\ cuts \in 0..MaxCuts /\ kills \in 0..MaxKills /\ errors \in 0..MaxErrors
  /\ quiet \in BOOLEAN /\ mixed \in BOOLEAN

Init ==
  /\ cpc = "idle" /\ ci = 0 /\ sent = 0 /\ resume = FALSE /\ result = "none"
  /\ cprog = [i \in Files |-> NoFile]
  /\ session = 0
  /\ up = [s \in Sessions |-> <<>>] /\ down = [s \in Sessions |-> "none"]
  /\ link = [s \in Sessions |-> "none"]
  /\ serverUp = TRUE /\ worker = [s \in Sessions |-> Handler("none", 0)]
  /\ stored = [i \in DOMAIN Tasks |-> NoFile]
  /\ cuts = 0 /\ kills = 0 /\ errors = 0 /\ quiet = TRUE /\ mixed = FALSE

-----------------------------------------------------------------------------
(* The client: syncRemote *)

Active(s) == worker[s].pc \notin {"none", "closed"}

\* connect(), the mode byte, the task count and the metadata of every task; the
\* accept thread submits handleClient to the pool
Connect(r) ==
  /\ cpc = "idle" /\ serverUp /\ session < MaxSessions
  /\ session' = session + 1
  /\ cpc' = "offset" /\ ci' = 1 /\ sent' = 0 /\ resume' = r /\ result' = "none"
  /\ link' = [link EXCEPT ![session'] = "open"]
  /\ up' = [up EXCEPT ![session'] = <<Header>>]
  /\ worker' = [worker EXCEPT ![session'].pc = "header"]
  /\ quiet' = \A s \in 1..session : ~Active(s)
  /\ mixed' = (mixed \/ ~quiet')
  /\ UNCHANGED <<cprog, down, serverUp, stored, budgetVars>>

ConnectFails ==
  /\ cpc = "idle" /\ ~serverUp /\ session < MaxSessions
  /\ result' = "false"
  /\ UNCHANGED <<cpc, ci, sent, resume, cprog, netVars, serverVars, budgetVars,
                 historyVars>>

\* the connection takes no more bytes to the server
Broken == link[session] = "reset" \/ ~Active(session)

\* send() puts the bytes into the kernel's buffer; on a broken connection they
\* go nowhere, and the error may come only with a later call
Transmit(t) ==
  up' = IF Broken THEN up ELSE [up EXCEPT ![session] = Append(@, t)]

\* the loop over the tasks, after task ci
NextTask ==
  IF ci = Len(Tasks) THEN cpc' = "ack" /\ UNCHANGED ci
                     ELSE cpc' = "offset" /\ ci' = ci + 1

\* loadProgress with the three conditions of syncRemote
ResumeOffset ==
  IF resume /\ cprog[ci] \in 1..FileSize(ci) - 1 THEN cprog[ci] ELSE 0

SendOffset ==
  /\ cpc = "offset"
  /\ IF Tasks[ci] = Dir
       THEN Transmit(Offset(0)) /\ NextTask /\ UNCHANGED sent
       ELSE /\ Transmit(Offset(ResumeOffset)) /\ sent' = ResumeOffset
            /\ cpc' = "data" /\ UNCHANGED ci
  /\ UNCHANGED <<resume, cprog, result, session, down, link, serverVars,
                 budgetVars, historyVars>>

\* sendFileSync: one block
SendBlock ==
  /\ cpc = "data" /\ sent < FileSize(ci)
  /\ Transmit(Data(Tasks[ci][sent + 1]))
  /\ sent' = sent + 1
  /\ cpc' = "save"
  /\ UNCHANGED <<ci, resume, cprog, result, session, down, link, serverVars,
                 budgetVars, historyVars>>

\* send() reports the broken connection
SendFails ==
  /\ cpc = "data" /\ sent < FileSize(ci) /\ Broken
  /\ cpc' = "failSave"
  /\ UNCHANGED <<ci, sent, resume, cprog, result, netVars, serverVars,
                 budgetVars, historyVars>>

\* saveProgress: the ofstream truncates the file if there is a directory for it
OpenProgress ==
  /\ \/ cpc = "save" /\ cpc' = "saveWrite"
     \/ cpc = "failSave" /\ cpc' = "failWrite"
  /\ cprog' = IF LocalDirExists THEN [cprog EXCEPT ![ci] = EmptyFile] ELSE cprog
  /\ UNCHANGED <<ci, sent, resume, result, netVars, serverVars, budgetVars,
                 historyVars>>

\* the client closes its socket, after true or false or at its end
Disconnect ==
  link' = [link EXCEPT ![session] = IF @ = "open" THEN "fin" ELSE @]

\* Variant of WriteProgress: records the end of the next block.
WriteProgressAhead ==
  /\ cprog' = IF LocalDirExists THEN [cprog EXCEPT ![ci] = sent + 1] ELSE cprog
  /\ \/ cpc = "saveWrite" /\ cpc' = "data" /\ UNCHANGED <<result, link>>
     \/ cpc = "failWrite" /\ cpc' = "idle" /\ result' = "false" /\ Disconnect
  /\ UNCHANGED <<ci, sent, resume, session, up, down, serverVars, budgetVars,
                 historyVars>>

WriteProgress ==
  /\ cprog' = IF LocalDirExists THEN [cprog EXCEPT ![ci] = sent] ELSE cprog
  /\ \/ cpc = "saveWrite" /\ cpc' = "data" /\ UNCHANGED <<result, link>>
     \/ cpc = "failWrite" /\ cpc' = "idle" /\ result' = "false" /\ Disconnect
  /\ UNCHANGED <<ci, sent, resume, session, up, down, serverVars, budgetVars,
                 historyVars>>

\* the end of sendFileSync removes the progress file
FileSent ==
  /\ cpc = "data" /\ sent = FileSize(ci)
  /\ cprog' = [cprog EXCEPT ![ci] = NoFile]
  /\ NextTask
  /\ UNCHANGED <<sent, resume, result, netVars, serverVars, budgetVars,
                 historyVars>>

\* Variant of ReceiveAck: a broken connection is not noticed.
ReceiveAckOnly ==
  /\ cpc = "ack"
  /\ down[session] # "none"
  /\ result' = IF down[session] = "ACK" THEN "true" ELSE "false"
  /\ cpc' = "idle"
  /\ Disconnect
  /\ UNCHANGED <<ci, sent, resume, cprog, session, up, down, serverVars,
                 budgetVars, historyVars>>

\* receive(ackBuffer, 3), disconnect() and the result
ReceiveAck ==
  /\ cpc = "ack"
  /\ \/ /\ down[session] # "none"
        /\ result' = IF down[session] = "ACK" THEN "true" ELSE "false"
     \/ Broken /\ result' = "false"
  /\ cpc' = "idle"
  /\ Disconnect
  /\ UNCHANGED <<ci, sent, resume, cprog, session, up, down, serverVars,
                 budgetVars, historyVars>>

\* the process ends without a result
ClientDies ==
  /\ cpc # "idle" /\ cpc' = "idle"
  /\ Disconnect
  /\ UNCHANGED <<ci, sent, resume, cprog, result, session, up, down,
                 serverVars, historyVars>>

\* SIGPIPE, which nobody handles, on a connection that the server has closed
ClientPiped ==
  /\ cpc \in {"offset", "data"} /\ Broken
  /\ ClientDies
  /\ UNCHANGED budgetVars

ClientStep ==
  \/ SendOffset \/ SendBlock \/ SendFails \/ OpenProgress \/ WriteProgress
  \/ FileSent \/ ReceiveAck \/ ClientPiped

-----------------------------------------------------------------------------
(* The server: handleClient in the worker of session s *)

At(s, where) == serverUp /\ worker[s].pc = where

\* the next token of the stream
Read(s) == up[s] # <<>> /\ up' = [up EXCEPT ![s] = Tail(@)]

Becomes(s, w) == worker' = [worker EXCEPT ![s] = w]

ReadHeader(s) ==
  /\ At(s, "header")
  /\ Read(s)
  /\ Becomes(s, [worker[s] EXCEPT !.pc = "offset", !.i = 1])
  /\ UNCHANGED <<clientVars, session, down, link, serverUp, stored, budgetVars,
                 historyVars>>

\* the loop over the tasks; after the last one sendAck(true) and closeClient
TaskDone(s) ==
  IF worker[s].i = Len(Tasks)
    THEN /\ down' = [down EXCEPT ![s] = IF link[s] = "reset" THEN @ ELSE "ACK"]
         /\ Becomes(s, Closed)
    ELSE /\ UNCHANGED down
         /\ Becomes(s, Handler("offset", worker[s].i + 1))

\* what receiveOffT makes of the next token
OffsetRead(s) ==
  LET t == Head(up[s]) IN IF t.kind = "offset" THEN {t.n} ELSE AnyOffset

ReadOffset(s) ==
  /\ At(s, "offset")
  /\ Read(s)
  /\ IF Tasks[worker[s].i] = Dir
       THEN stored' = [stored EXCEPT ![worker[s].i] = Dir] /\ TaskDone(s)
       ELSE /\ \E n \in OffsetRead(s) :
                 Becomes(s, [worker[s] EXCEPT !.pc = "open", !.received = n])
            /\ UNCHANGED <<stored, down>>
  /\ UNCHANGED <<clientVars, session, link, serverUp, budgetVars, historyVars>>

Stored(s) == stored[worker[s].i]
Store(s, f) == stored' = [stored EXCEPT ![worker[s].i] = f]

\* Variant of OpenFile: the size is not compared with the offset.
OpenUnchecked(s) ==
  /\ At(s, "open")
  /\ IF worker[s].received <= 0
       THEN /\ Store(s, <<>>)
            /\ Becomes(s, [worker[s] EXCEPT !.pc = "data"])
       ELSE /\ Store(s, IF Stored(s) = NoFile THEN <<>> ELSE Stored(s))
            /\ Becomes(s, [worker[s] EXCEPT !.pc = "data", !.append = TRUE])
  /\ UNCHANGED <<clientVars, netVars, serverUp, budgetVars, historyVars>>

\* receiveFileData: open with O_TRUNC, or with O_APPEND and compare the size
OpenFile(s) ==
  /\ At(s, "open")
  /\ IF worker[s].received <= 0
       THEN /\ Store(s, <<>>)
            /\ Becomes(s, [worker[s] EXCEPT !.pc = "data"])
       ELSE LET f == IF Stored(s) = NoFile THEN <<>> ELSE Stored(s) IN
            /\ Store(s, f)
            /\ Becomes(s, IF Len(f) = worker[s].received
                            THEN [worker[s] EXCEPT !.pc = "data", !.append = TRUE]
                            ELSE [worker[s] EXCEPT !.pc = "reopen"])
  /\ UNCHANGED <<clientVars, netVars, serverUp, budgetVars, historyVars>>

\* offset mismatch: start again from the beginning, without telling the client
Reopen(s) ==
  /\ At(s, "reopen")
  /\ Store(s, <<>>)
  /\ Becomes(s, [worker[s] EXCEPT !.pc = "data", !.received = 0])
  /\ mixed' = TRUE
  /\ UNCHANGED <<clientVars, netVars, serverUp, budgetVars, quiet>>

\* bytesToReceive
Wanted(s) == Min({ServerBuffer, FileSize(worker[s].i) - worker[s].received})

\* robustRead fills the buffer ...
ReadData(s) ==
  /\ At(s, "data") /\ Len(worker[s].buf) < Wanted(s)
  /\ Read(s)
  /\ Becomes(s, [worker[s] EXCEPT !.buf = Append(@, AsUnit(Head(up[s])))])
  /\ UNCHANGED <<clientVars, session, down, link, serverUp, stored, budgetVars,
                 historyVars>>

\* the file after write()s of us at position n; a gap reads as no file data
Written(f, n, us) ==
  [k \in 1..Max({Len(f), n + Len(us)}) |->
     IF k \in n + 1 .. n + Len(us) THEN us[k - n]
     ELSE IF k <= Len(f) THEN f[k] ELSE Garbage]

\* write() goes to the end of a file opened with O_APPEND, otherwise to the
\* position of the descriptor
Position(s) == IF worker[s].append THEN Len(Stored(s)) ELSE worker[s].pos

\* ... up to the wanted length or the end of the stream
BufferReady(s) ==
  /\ worker[s].buf # <<>>
  /\ \/ Len(worker[s].buf) = Wanted(s)
     \/ up[s] = <<>> /\ link[s] = "fin"

WriteData(s) ==
  /\ At(s, "data") /\ BufferReady(s)
  /\ Store(s, Written(Stored(s), Position(s), worker[s].buf))
  /\ Becomes(s, [worker[s] EXCEPT !.received = @ + Len(worker[s].buf),
                               !.pos = @ + Len(worker[s].buf), !.buf = <<>>])
  /\ UNCHANGED <<clientVars, netVars, serverUp, budgetVars, historyVars>>

FileReceived(s) ==
  /\ At(s, "data") /\ worker[s].received >= FileSize(worker[s].i)
  /\ TaskDone(s)
  /\ UNCHANGED <<clientVars, session, up, link, serverUp, stored, budgetVars,
                 historyVars>>

\* sendAck(false) and closeClient; what was not read is gone
Refuse(s) ==
  /\ down' = [down EXCEPT ![s] = "NAK"]
  /\ up' = [up EXCEPT ![s] = <<>>]
  /\ Becomes(s, Closed)

\* Variant of EndOfStream: read() = 0 inside file data is tried again.
EndOfStreamUnseen(s) ==
  /\ serverUp /\ worker[s].pc \in {"header", "offset"}
  /\ up[s] = <<>> /\ link[s] = "fin" /\ worker[s].buf = <<>>
  /\ Refuse(s)
  /\ UNCHANGED <<clientVars, session, link, serverUp, stored, budgetVars,
                 historyVars>>

\* a read meets the end of the stream
EndOfStream(s) ==
  /\ serverUp /\ worker[s].pc \in {"header", "offset", "data"}
  /\ up[s] = <<>> /\ link[s] = "fin" /\ worker[s].buf = <<>>
  /\ worker[s].pc = "data" => worker[s].received < FileSize(worker[s].i)
  /\ Refuse(s)
  /\ UNCHANGED <<clientVars, session, link, serverUp, stored, budgetVars,
                 historyVars>>

\* open, mkdir or write fails; a failing write may have stored some units
ServerError(s) ==
  /\ serverUp /\ errors < MaxErrors /\ errors' = errors + 1
  /\ \/ worker[s].pc \in {"open", "reopen"} /\ UNCHANGED stored
     \/ /\ worker[s].pc = "offset" /\ up[s] # <<>> /\ Tasks[worker[s].i] = Dir
        /\ UNCHANGED stored
     \/ /\ worker[s].pc = "data" /\ BufferReady(s)
        /\ \E n \in 0..Len(worker[s].buf) - 1 :
             Store(s, Written(Stored(s), Position(s), SubSeq(worker[s].buf, 1, n)))
  /\ Refuse(s)
  /\ UNCHANGED <<clientVars, session, link, serverUp, cuts, kills, historyVars>>

\* the end of the process takes every worker and connection with it
ServerDies ==
  /\ serverUp' = FALSE
  /\ worker' = [s \in Sessions |->
                  IF Active(s) THEN Closed ELSE worker[s]]
  /\ link' = [s \in Sessions |-> IF Active(s) THEN "reset" ELSE link[s]]
  /\ up' = [s \in Sessions |-> IF Active(s) THEN <<>> ELSE up[s]]

\* read() reports the broken connection. For the mode byte the worker just
\* closes; for everything else sendAck(false) writes to the dead socket and
\* raises SIGPIPE, which nobody handles.
ReadFails(s) ==
  /\ serverUp /\ worker[s].pc \in {"header", "offset", "data"}
  /\ up[s] = <<>> /\ link[s] = "reset"
  /\ worker[s].pc = "data" => Len(worker[s].buf) < Wanted(s)
  /\ \/ /\ worker[s].pc = "header"
        /\ Becomes(s, Closed)
        /\ UNCHANGED <<serverUp, link, up>>
     \/ ServerDies
  /\ UNCHANGED <<clientVars, session, down, stored, budgetVars, historyVars>>

\* sendAck(true) after the last file does the same if the connection is known to
\* be broken; FileReceived is the send() that just goes nowhere
AckPiped(s) ==
  /\ At(s, "data") /\ worker[s].received >= FileSize(worker[s].i)
  /\ worker[s].i = Len(Tasks) /\ link[s] = "reset"
  /\ ServerDies
  /\ UNCHANGED <<clientVars, session, down, stored, budgetVars, historyVars>>

ServerStep(s) ==
  \/ ReadHeader(s) \/ ReadOffset(s) \/ OpenFile(s) \/ Reopen(s) \/ ReadData(s)
  \/ WriteData(s) \/ FileReceived(s) \/ EndOfStream(s) \/ ReadFails(s)
  \/ AckPiped(s)

-----------------------------------------------------------------------------
(* The environment *)

\* the network fails: the server gets some first part of what was under way,
\* and the answer may be lost
CutLink(s) ==
  /\ link[s] \in {"open", "fin"} /\ cuts < MaxCuts
  /\ cuts' = cuts + 1
  /\ link' = [link EXCEPT ![s] = "reset"]
  /\ \E n \in 0..Len(up[s]) : up' = [up EXCEPT ![s] = SubSeq(@, 1, n)]
  /\ \E a \in {down[s], "none"} : down' = [down EXCEPT ![s] = a]
  /\ UNCHANGED <<clientVars, session, serverVars, kills, errors, historyVars>>

KillClient ==
  /\ kills < MaxKills /\ kills' = kills + 1
  /\ ClientDies
  /\ UNCHANGED <<cuts, errors>>

KillServer ==
  /\ serverUp /\ kills < MaxKills /\ kills' = kills + 1
  /\ ServerDies
  /\ UNCHANGED <<clientVars, session, down, stored, cuts, errors, historyVars>>

RestartServer ==
  /\ ~serverUp /\ serverUp' = TRUE
  /\ UNCHANGED <<clientVars, netVars, worker, stored, budgetVars, historyVars>>

Next ==
  \/ ConnectFails \/ \E r \in ResumeModes : Connect(r)
  \/ ClientStep \/ KillClient \/ KillServer \/ RestartServer
  \/ \E s \in Sessions : ServerStep(s) \/ ServerError(s) \/ CutLink(s)

Spec == Init /\ [][Next]_vars

\* Client and workers run on; connections break, disks fail and users start
\* the client as they like.
FairSpec ==
  /\ Spec
  /\ WF_vars(ClientStep)
  /\ \A s \in Sessions : WF_vars(ServerStep(s))

-----------------------------------------------------------------------------
(* Properties *)

\* syncRemote returns true only if the server has every file and directory,
\* after any history of cut connections, kills and server errors, if no worker
\* of an older session was active when the session began; with -r, if also no
\* earlier sessions have overlapped or disagreed on an offset.
AckSound ==
  result = "true" /\ quiet /\ (resume => ~mixed) => stored = Tasks

\* What cut connections, kills and server errors leave behind is a beginning of
\* every file, as long as no sessions have overlapped or disagreed on an offset:
\* it is what a resume relies on, which compares the sizes only.
StoredIsBeginning ==
  ~mixed => \A i \in Files : stored[i] = NoFile \/ IsPrefix(stored[i], Tasks[i])

\* A run of the client without -r ends, with the acknowledgement or without.
RunEnds == (cpc # "idle" /\ ~resume) ~> cpc = "idle"

\* A worker of the server's pool gets free again when the client has closed the
\* connection or the connection is broken, wherever in the protocol it is.
WorkersFreed ==
  \A s \in Sessions : (Active(s) /\ link[s] # "open") ~> ~Active(s)

\* RunEnds with -r: "the client negotiates the offset with the server,
\* and the server continues by appending" (README.md:182).
ResumeRunEnds == (cpc # "idle" /\ resume) ~> cpc = "idle"

=============================================================================
