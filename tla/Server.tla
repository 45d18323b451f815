-------------------------------- MODULE Server --------------------------------
(***************************************************************************)
(* The life of the server process (main.cpp --server, SyncServer,          *)
(* TcpServer): the main thread starts the server, waits for a signal and   *)
(* stops it; a detached thread accepts connections and submits them to the *)
(* pool, whose workers run handleClient.                                   *)
(*                                                                         *)
(* The pool is TaskPool with a number of threads and stop(); the task of a *)
(* connection is the session of its client. What is said in a session is   *)
(* the subject of RemoteSync and Rpc: here a session receives the mode     *)
(* byte, lasts as its mode says and ends when its client has finished or   *)
(* has gone.                                                               *)
(***************************************************************************)
EXTENDS Integers, FiniteSets, TaskPool

CONSTANTS Threads,    \* threads of the pool
          Backlog,    \* connections the kernel holds for the listening socket
          Patient,    \* clients that need never finish or close
          Modes,      \* the mode bytes each client may send, "none": none at all
          NoClient

ASSUME ServerAssumption ==
  /\ Threads \in Nat /\ Backlog \in Nat \ {0}
  /\ Patient \subseteq Tasks /\ NoClient \notin Tasks
  /\ Modes \in [Tasks -> SUBSET {"none", "sync", "rpc", "unknown"}]

Clients == Tasks

VARIABLES
  \* the main thread and SyncServer
  mpc,            \* where the main thread is; "exit", "killed": the process has ended
  serverRunning,  \* of main.cpp: no signal yet
  listening,      \* serverSock is open
  running,        \* SyncServer::running
  \* the accept thread
  apc,            \* where it is
  clientSock,     \* the connection it has accepted and not yet submitted
  backlog,        \* connections not yet accepted
  \* the pool: queue, taken and done are TaskPool's
  poolRunning,    \* ThreadPool::running
  exited,         \* threads of the pool that have ended
  deaf,           \* a thread went to sleep just after stop()'s notify_all()
  \* sessions and clients
  stage,          \* of each session
  mode,           \* the mode byte of each client, if not read yet
  client          \* whether it has connected, and whether either side has closed

mainVars == <<mpc, serverRunning, listening, running>>
acceptVars == <<apc, clientSock, backlog>>
poolVars == <<queue, taken, done, poolRunning, exited, deaf>>
sessionVars == <<stage, mode, client>>
vars == <<mainVars, acceptVars, poolVars, sessionVars>>

TypeOK ==
  /\ mpc \in {"start", "run", "clearRunning", "stopPool", "join",
              "destroy", "destroyed", "exit", "killed"}
  /\ serverRunning \in BOOLEAN /\ listening \in BOOLEAN /\ running \in BOOLEAN
  /\ apc \in {"none", "epoll", "poll", "accept", "submit", "exited"}
  /\ clientSock \in Clients \cup {NoClient} /\ (apc = "submit" <=> clientSock # NoClient)
  /\ backlog \in Seq(Clients) /\ Len(backlog) <= Backlog
  /\ queue \in Seq(Clients) /\ taken \subseteq Clients /\ done \subseteq Clients
  /\ poolRunning \in BOOLEAN /\ deaf \in BOOLEAN
  /\ exited + Cardinality(taken) \in 0..Threads
  /\ stage \in [Clients -> {"none", "mode", "sync", "rpc", "closed"}]
  /\ mode \in [Clients -> {"none", "sync", "rpc", "unknown"}]
  /\ client \in [Clients -> {"away", "connected", "gone"}]

ServerInit ==
  /\ Init
  /\ mpc = "start" /\ serverRunning = TRUE /\ listening = FALSE /\ running = FALSE
  /\ apc = "none" /\ clientSock = NoClient /\ backlog = <<>>
  /\ poolRunning = FALSE /\ exited = 0 /\ deaf = FALSE
  /\ stage = [c \in Clients |-> "none"]
  /\ mode = [c \in Clients |-> "none"]
  /\ client = [c \in Clients |-> "away"]

\* threads of the pool that have no task
IdleThreads == Threads - exited - Cardinality(taken)

Alive == mpc \notin {"exit", "killed"}

\* The end of the process: the kernel closes its sockets, and nothing is left.
Ends(how) ==
  /\ mpc' = how /\ serverRunning' = FALSE /\ listening' = FALSE /\ running' = FALSE
  /\ apc' = "exited" /\ clientSock' = NoClient /\ backlog' = <<>>
  /\ queue' = <<>> /\ taken' = {} /\ done' = {}
  /\ poolRunning' = FALSE /\ exited' = Threads /\ deaf' = FALSE
  /\ stage' = [c \in Clients |-> "closed"]
  /\ mode' = [c \in Clients |-> "none"]
  /\ client' = [c \in Clients |-> "gone"]

-----------------------------------------------------------------------------
(* The main thread *)

Main(from, to) == mpc = from /\ mpc' = to

\* SyncServer::start: socket, bind and listen; the pool and the accept thread
Start ==
  /\ Main("start", "run")
  /\ listening' = TRUE /\ running' = TRUE /\ poolRunning' = TRUE
  /\ apc' = "epoll"
  /\ UNCHANGED <<serverRunning, clientSock, backlog, queue, taken, done, exited,
                 deaf, sessionVars>>

\* ... one of which fails: the port is in use
StartFails == mpc = "start" /\ Ends("exit")

\* signalHandler; from then on until the next look at the flag a second may pass
Signal ==
  /\ serverRunning /\ mpc = "run"
  /\ serverRunning' = FALSE
  /\ UNCHANGED <<mpc, listening, running, acceptVars, poolVars, sessionVars>>

\* SyncServer::stop: TcpServer::stop closes the socket, which resets the
\* connections that nobody has accepted ...
StopListening ==
  /\ Main("run", "clearRunning") /\ ~serverRunning
  /\ listening' = FALSE /\ backlog' = <<>>
  /\ client' = [c \in Clients |-> IF c \in Range(backlog) THEN "gone" ELSE client[c]]
  /\ UNCHANGED <<serverRunning, running, apc, clientSock, poolVars, stage, mode>>

\* ... the flag for the accept thread ...
ClearRunning ==
  /\ Main("clearRunning", "stopPool")
  /\ running' = FALSE
  /\ UNCHANGED <<serverRunning, listening, acceptVars, poolVars, sessionVars>>

\* Variant of StopPool: notify_all() without running = false.
StopPoolOnlyNotifies ==
  /\ Main("stopPool", "join")
  /\ UNCHANGED <<serverRunning, listening, running, acceptVars, poolVars,
                 sessionVars>>

\* ... AsyncIOHandler::stop, which returns (AsyncIO), and ThreadPool::stop:
\* running = false and notify_all(), both without the mutex, so that the one thread
\* that has found the queue empty and is about to wait misses them ...
StopPool ==
  /\ Main("stopPool", "join")
  /\ poolRunning' = FALSE
  /\ deaf' \in {FALSE, queue = <<>> /\ IdleThreads > 0}
  /\ UNCHANGED <<serverRunning, listening, running, acceptVars, queue, taken, done,
                 exited, sessionVars>>

\* Variant of Join: the threads are not waited for.
JoinNobody ==
  /\ Main("join", "destroy")
  /\ UNCHANGED <<serverRunning, listening, running, acceptVars, poolVars,
                 sessionVars>>

\* ... which waits for its threads, but nobody for the accept thread
Join ==
  /\ Main("join", "destroy") /\ exited = Threads
  /\ UNCHANGED <<serverRunning, listening, running, acceptVars, poolVars,
                 sessionVars>>

\* ~SyncServer deletes the TcpServer, the pool and the RpcServer
Destroy ==
  /\ Main("destroy", "destroyed")
  /\ UNCHANGED <<serverRunning, listening, running, acceptVars, poolVars,
                 sessionVars>>

Exit == mpc = "destroyed" /\ Ends("exit")

-----------------------------------------------------------------------------
(* The accept thread, detached *)

\* epoll_create1 and epoll_ctl; if one fails the server runs on without accepting
SetUpEpoll ==
  /\ Alive /\ apc = "epoll" /\ apc' \in {"poll", "exited"}
  /\ UNCHANGED <<mainVars, clientSock, backlog, poolVars, sessionVars>>

\* epoll_wait reports the listening socket
Wake ==
  /\ Alive /\ apc = "poll" /\ running /\ listening /\ backlog # <<>>
  /\ apc' = "accept"
  /\ UNCHANGED <<mainVars, clientSock, backlog, poolVars, sessionVars>>

\* the timeout of epoll_wait and the loop's condition; that the socket has been
\* closed is not reported
Leave ==
  /\ Alive /\ apc = "poll" /\ ~running
  /\ apc' = "exited"
  /\ UNCHANGED <<mainVars, clientSock, backlog, poolVars, sessionVars>>

\* Variant of Accept: a failed accept() is not noticed.
AcceptUnchecked ==
  /\ Alive /\ apc = "accept"
  /\ apc' = "submit"
  /\ IF listening /\ backlog # <<>>
       THEN clientSock' = Head(backlog) /\ backlog' = Tail(backlog)
       ELSE UNCHANGED <<clientSock, backlog>>
  /\ UNCHANGED <<mainVars, poolVars, sessionVars>>

\* TcpServer::accept, -1 if the server has been stopped meanwhile
Accept ==
  /\ Alive /\ apc = "accept"
  /\ IF listening /\ backlog # <<>>
       THEN /\ clientSock' = Head(backlog) /\ backlog' = Tail(backlog)
            /\ apc' = "submit"
       ELSE apc' = "poll" /\ UNCHANGED <<clientSock, backlog>>
  /\ UNCHANGED <<mainVars, poolVars, sessionVars>>

\* Variant of SubmitClient: a pool that has stopped takes no task.
SubmitUnlessStopped ==
  /\ Alive /\ apc = "submit"
  /\ IF poolRunning THEN Submit(clientSock) ELSE UNCHANGED taskVars
  /\ apc' = "poll" /\ clientSock' = NoClient /\ deaf' = FALSE
  /\ UNCHANGED <<mainVars, backlog, poolRunning, exited, sessionVars>>

\* threadPool->submit, also to a pool that has stopped; notify_one() reaches a
\* thread that missed the other notification
SubmitClient ==
  /\ Alive /\ apc = "submit"
  /\ Submit(clientSock)
  /\ apc' = "poll" /\ clientSock' = NoClient /\ deaf' = FALSE
  /\ UNCHANGED <<mainVars, backlog, poolRunning, exited, sessionVars>>

\* the thread uses an object that has been deleted: anything, among it a crash
UseAfterDelete ==
  /\ mpc = "destroyed" /\ apc \in {"epoll", "poll", "accept", "submit"}
  /\ Ends("killed")

AcceptThread ==
  SetUpEpoll \/ Wake \/ Leave \/ Accept \/ SubmitClient

-----------------------------------------------------------------------------
(* The workers: handleClient *)

Awake == IdleThreads > IF deaf THEN 1 ELSE 0

TakeClient ==
  /\ Alive /\ IdleThreads > 0 /\ poolRunning
  /\ Take
  /\ stage' = [stage EXCEPT ![Head(queue)] = "mode"]
  /\ UNCHANGED <<mainVars, acceptVars, poolRunning, exited, deaf, mode, client>>

\* a thread that stop() finds waiting takes one more task, if there is one
TakeLate ==
  /\ mpc = "join" /\ Awake /\ ~poolRunning
  /\ Take
  /\ stage' = [stage EXCEPT ![Head(queue)] = "mode"]
  /\ UNCHANGED <<mainVars, acceptVars, poolRunning, exited, deaf, mode, client>>

WorkerExits ==
  /\ mpc = "join" /\ Awake /\ ~poolRunning
  /\ exited' = exited + 1
  /\ UNCHANGED <<mainVars, acceptVars, queue, taken, done, poolRunning, deaf,
                 sessionVars>>

Connected(c) == client[c] = "connected"

\* the session is closed; a thread of a pool that has stopped ends with its task
Close(c) ==
  /\ stage' = [stage EXCEPT ![c] = "closed"]
  /\ client' = [client EXCEPT ![c] = "gone"]
  /\ Finish(c)
  /\ exited' = IF poolRunning THEN exited ELSE exited + 1
  /\ UNCHANGED <<poolRunning, deaf>>

\* Variant of ReceiveMode: read() = 0 is tried again.
ReceiveModeRetries(c) ==
  /\ Alive /\ c \in taken /\ stage[c] = "mode"
  /\ \/ /\ mode[c] \in {"sync", "rpc"}
        /\ stage' = [stage EXCEPT ![c] = mode[c]]
        /\ UNCHANGED <<poolVars, client>>
     \/ mode[c] = "unknown" /\ Close(c)
  /\ mode' = [mode EXCEPT ![c] = "none"]
  /\ UNCHANGED <<mainVars, acceptVars>>

\* the mode byte: a session, or nothing if it is unknown or the client has gone
ReceiveMode(c) ==
  /\ Alive /\ c \in taken /\ stage[c] = "mode"
  /\ \/ /\ mode[c] \in {"sync", "rpc"}
        /\ stage' = [stage EXCEPT ![c] = mode[c]]
        /\ UNCHANGED <<poolVars, client>>
     \/ mode[c] = "unknown" /\ Close(c)
     \/ mode[c] = "none" /\ client[c] = "gone" /\ Close(c)
  /\ mode' = [mode EXCEPT ![c] = "none"]
  /\ UNCHANGED <<mainVars, acceptVars>>

\* sync mode: everything has been received and is acknowledged
SyncCompletes(c) ==
  /\ Alive /\ c \in taken /\ stage[c] = "sync" /\ Connected(c)
  /\ Close(c)
  /\ UNCHANGED <<mainVars, acceptVars, mode>>

\* either mode: the client has gone; in RPC mode this is the only end
ClientLost(c) ==
  /\ Alive /\ c \in taken /\ stage[c] \in {"sync", "rpc"} /\ ~Connected(c)
  /\ Close(c)
  /\ UNCHANGED <<mainVars, acceptVars, mode>>

\* sendAck or sendResponse on a connection that is closed: SIGPIPE, which the
\* program does not handle
BrokenPipe(c) ==
  /\ Alive /\ c \in taken /\ stage[c] \in {"sync", "rpc"} /\ ~Connected(c)
  /\ Ends("killed")

\* what a session does without its client
SessionStep(c) == ReceiveMode(c) \/ ClientLost(c)

-----------------------------------------------------------------------------
(* The clients *)

\* The client decides what it will send as its mode byte, if it will send one at
\* all: when the byte arrives is a matter of when ReceiveMode happens.
ClientConnects(c) ==
  /\ Alive /\ listening /\ Len(backlog) < Backlog
  /\ client[c] = "away" /\ client' = [client EXCEPT ![c] = "connected"]
  /\ \E m \in Modes[c] : mode' = [mode EXCEPT ![c] = m]
  /\ backlog' = Append(backlog, c)
  /\ UNCHANGED <<mainVars, apc, clientSock, poolVars, stage>>

\* the client closes, is killed, or its connection breaks
ClientGoes(c) ==
  /\ Alive /\ Connected(c)
  /\ client' = [client EXCEPT ![c] = "gone"]
  /\ UNCHANGED <<mainVars, acceptVars, poolVars, stage, mode>>

-----------------------------------------------------------------------------

MainStep == \/ Start \/ StopListening \/ ClearRunning \/ StopPool
            \/ Join \/ Destroy \/ Exit

ServerNext ==
  \/ MainStep \/ StartFails \/ Signal \/ AcceptThread \/ UseAfterDelete
  \/ TakeClient \/ TakeLate \/ WorkerExits
  \/ \E c \in Clients : \/ SessionStep(c) \/ SyncCompletes(c) \/ BrokenPipe(c)
                        \/ ClientConnects(c) \/ ClientGoes(c)

ServerSpec == ServerInit /\ [][ServerNext]_vars

\* All threads of the server run; a client that is not patient leaves sooner or
\* later. Nothing obliges a patient client to send or to close: the server has
\* no timeout.
Fairness ==
  /\ WF_vars(MainStep) /\ WF_vars(AcceptThread)
  /\ WF_vars(TakeClient) /\ WF_vars(WorkerExits)
  /\ \A c \in Clients : WF_vars(SessionStep(c))
  /\ \A c \in Clients \ Patient : WF_vars(ClientGoes(c))

ServerFairSpec == ServerSpec /\ Fairness

-----------------------------------------------------------------------------
(* Properties *)

\* As long as there are more threads than patient clients, every connection that
\* has been accepted is served and closed, whatever the others do: a client that
\* keeps silent costs one thread and no more. Unless a signal or SIGPIPE ends
\* the server.
AcceptedIsServed ==
  \A c \in Clients \ Patient :
    (clientSock = c /\ Cardinality(Patient) < Threads)
      ~> (c \in done \/ ~serverRunning \/ ~Alive)

\* SIGINT and SIGTERM end the server once the socket is closed, if no patient
\* client is connected: connections in the queue and sessions in progress do not
\* prevent it, nor does the accept thread. Only a thread that has missed the
\* notification of stop() does.
SignalEndsServer ==
  (~serverRunning /\ ~listening /\ \A c \in Patient : ~Connected(c))
    ~> (~Alive \/ deaf)

\* No session is in progress when the objects are deleted that it uses.
NoSessionAfterDelete == mpc = "destroyed" => taken = {}

\* A connection that has been accepted is in one place: in the accept thread's
\* hand, in the queue, in the hands of one worker, or closed. It is neither
\* closed twice nor forgotten, also when stop() comes in between.
OneHolder ==
  \A c \in Clients :
    LET holders == {h \in {"backlog", "accept", "queue", "worker", "done"} :
                      CASE h = "backlog" -> c \in Range(backlog)
                        [] h = "accept" -> clientSock = c
                        [] h = "queue" -> c \in Range(queue)
                        [] h = "worker" -> c \in taken
                        [] OTHER -> c \in done}
    IN /\ Cardinality(holders) <= 1
       /\ Connected(c) => holders # {}
=============================================================================
