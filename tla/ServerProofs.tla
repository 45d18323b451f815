----------------------------- MODULE ServerProofs -----------------------------
(***************************************************************************)
(* Proofs that the server keeps its safety properties for any number of    *)
(* clients and threads, any backlog and any mode bytes, wherever a signal  *)
(* or SIGPIPE meets the accept thread and the sessions.                    *)
(***************************************************************************)
EXTENDS Server, OperatorLemmas, FiniteSetTheorems, TLAPS

USE ServerAssumption DEF Clients

\* The threads: none accepts before start(), and when stop() has joined those of
\* the pool none has a task.
ThreadInv ==
  /\ mpc = "start" => apc = "none"
  /\ exited \in Nat /\ IsFiniteSet(taken)
  /\ exited + Cardinality(taken) <= Threads
  /\ mpc \in {"destroy", "destroyed"} => exited = Threads

\* The five places where a connection can be exclude one another; a client that
\* has not connected is in none of them, and one that is connected in some.
HolderInv ==
  /\ Distinct(backlog) /\ Distinct(queue)
  /\ \A c \in Clients :
       /\ c \in Range(backlog)
            => c # clientSock /\ c \notin Range(queue) /\ c \notin taken /\ c \notin done
       /\ c = clientSock => c \notin Range(queue) /\ c \notin taken /\ c \notin done
       /\ c \in Range(queue) => c \notin taken /\ c \notin done
       /\ c \in taken => c \notin done
       /\ client[c] = "away"
            => /\ c \notin Range(backlog) /\ c # clientSock /\ c \notin Range(queue)
               /\ c \notin taken /\ c \notin done
       /\ client[c] = "connected"
            => \/ c \in Range(backlog) \/ c = clientSock \/ c \in Range(queue)
               \/ c \in taken \/ c \in done

\* The inductive invariant.
ServerInv == TypeOK /\ ThreadInv /\ HolderInv

-----------------------------------------------------------------------------

\* The server before start().
LEMMA InitServerInv == ServerInit => ServerInv
<1> SUFFICES ASSUME ServerInit PROVE ServerInv
  OBVIOUS
<1>1. /\ queue = <<>> /\ taken = {} /\ done = {} /\ backlog = <<>>
      /\ exited = 0 /\ mpc = "start" /\ clientSock = NoClient /\ apc = "none"
  BY DEF ServerInit, Init
<1>2. Cardinality(taken) = 0 /\ IsFiniteSet(taken)
  BY <1>1, FS_EmptySet
<1>3. TypeOK
  <2>1. backlog \in Seq(Clients) /\ queue \in Seq(Clients) /\ Len(backlog) <= Backlog
    BY <1>1
  <2>2. exited + Cardinality(taken) \in 0..Threads
    BY <1>1, <1>2
  <2>3. QED
    BY <1>1, <2>1, <2>2 DEF ServerInit, TypeOK
<1>4. ThreadInv
  BY <1>1, <1>2 DEF ThreadInv
<1>5. HolderInv
  <2>1. Range(backlog) = {} /\ Range(queue) = {} /\ Distinct(backlog) /\ Distinct(queue)
    BY <1>1 DEF Range, Distinct
  <2>2. \A c \in Clients : client[c] = "away"
    BY DEF ServerInit
  <2>3. QED
    BY <1>1, <2>1, <2>2 DEF HolderInv
<1>6. QED
  BY <1>3, <1>4, <1>5 DEF ServerInv

\* Nothing is left to be held when the process has ended.
LEMMA EndsServerInv ==
  ASSUME ServerInv, NEW how \in {"exit", "killed"}, Ends(how)
  PROVE  ServerInv'
<1>1. /\ queue' = <<>> /\ taken' = {} /\ done' = {} /\ backlog' = <<>>
      /\ exited' = Threads /\ mpc' = how /\ clientSock' = NoClient /\ apc' = "exited"
  BY DEF Ends
<1>2. Cardinality(taken') = 0 /\ IsFiniteSet(taken')
  BY <1>1, FS_EmptySet
<1>3. TypeOK'
  <2>1. backlog' \in Seq(Clients) /\ queue' \in Seq(Clients) /\ Len(backlog') <= Backlog
    BY <1>1
  <2>2. exited' + Cardinality(taken') \in 0..Threads
    BY <1>1, <1>2
  <2>3. QED
    BY <1>1, <2>1, <2>2 DEF Ends, TypeOK
<1>4. ThreadInv'
  BY <1>1, <1>2 DEF ThreadInv
<1>5. HolderInv'
  <2>1. Range(backlog') = {} /\ Range(queue') = {} /\ Distinct(backlog') /\ Distinct(queue')
    BY <1>1 DEF Range, Distinct
  <2>2. \A c \in Clients : client'[c] = "gone"
    BY DEF Ends
  <2>3. QED
    BY <1>1, <2>1, <2>2 DEF HolderInv
<1>6. QED
  BY <1>3, <1>4, <1>5 DEF ServerInv

\* A step that moves no connection and no thread.
LEMMA NobodyMoves ==
  ASSUME ServerInv, UNCHANGED <<backlog, clientSock, queue, taken, done, client>>
  PROVE  HolderInv'
BY DEF ServerInv, HolderInv

\* The main thread moves no connection but those that nobody has accepted.
LEMMA MainServerInv ==
  ASSUME ServerInv, MainStep \/ StartFails \/ Signal
  PROVE  ServerInv'
<1> USE DEF mainVars, acceptVars, poolVars, sessionVars, Main
<1>t. TypeOK /\ ThreadInv /\ HolderInv
  BY DEF ServerInv
<1>1. CASE Start
  <2>1. TypeOK'
    <3>1. serverRunning' \in BOOLEAN /\ listening' \in BOOLEAN /\ running' \in BOOLEAN
      BY <1>t, <1>1 DEF Start, TypeOK
    <3>2. poolRunning' \in BOOLEAN /\ deaf' \in BOOLEAN
      BY <1>t, <1>1 DEF Start, TypeOK
    <3>3. apc' # "submit" /\ clientSock' = NoClient
      BY <1>t, <1>1 DEF Start, TypeOK, ThreadInv
    <3>4. QED
      BY <1>t, <1>1, <3>1, <3>2, <3>3 DEF Start, TypeOK
  <2>2. ThreadInv'
    BY <1>t, <1>1 DEF Start, ThreadInv
  <2>3. HolderInv'
    BY <1>1, NobodyMoves DEF Start
  <2>4. QED
    BY <2>1, <2>2, <2>3 DEF ServerInv
<1>6. CASE Signal
  <2>1. TypeOK'
    BY <1>t, <1>6 DEF Signal, TypeOK
  <2>2. ThreadInv'
    BY <1>t, <1>6 DEF Signal, ThreadInv
  <2>3. HolderInv'
    BY <1>6, NobodyMoves DEF Signal
  <2>4. QED
    BY <2>1, <2>2, <2>3 DEF ServerInv
<1>7. CASE ClearRunning
  <2>1. TypeOK'
    BY <1>t, <1>7 DEF ClearRunning, TypeOK
  <2>2. ThreadInv'
    BY <1>t, <1>7 DEF ClearRunning, ThreadInv
  <2>3. HolderInv'
    BY <1>7, NobodyMoves DEF ClearRunning
  <2>4. QED
    BY <2>1, <2>2, <2>3 DEF ServerInv
<1>8. CASE Destroy
  <2>1. TypeOK'
    BY <1>t, <1>8 DEF Destroy, TypeOK
  <2>2. ThreadInv'
    BY <1>t, <1>8 DEF Destroy, ThreadInv
  <2>3. HolderInv'
    BY <1>8, NobodyMoves DEF Destroy
  <2>4. QED
    BY <2>1, <2>2, <2>3 DEF ServerInv
<1>2. CASE StopPool
  <2>1. TypeOK'
    BY <1>t, <1>2 DEF StopPool, TypeOK
  <2>2. ThreadInv'
    BY <1>t, <1>2 DEF StopPool, ThreadInv
  <2>3. HolderInv'
    BY <1>2, NobodyMoves DEF StopPool
  <2>4. QED
    BY <2>1, <2>2, <2>3 DEF ServerInv
<1>3. CASE Join
  <2>1. TypeOK'
    BY <1>t, <1>3 DEF Join, TypeOK
  <2>2. ThreadInv'
    BY <1>t, <1>3 DEF Join, ThreadInv
  <2>3. HolderInv'
    BY <1>3, NobodyMoves DEF Join
  <2>4. QED
    BY <2>1, <2>2, <2>3 DEF ServerInv
<1>4. CASE StopListening
  <2> USE DEF StopListening
  <2>1. TypeOK'
    <3>1. backlog' \in Seq(Clients) /\ Len(backlog') <= Backlog
      BY <1>4
    <3>2. client' \in [Clients -> {"away", "connected", "gone"}]
      BY <1>t, <1>4 DEF TypeOK
    <3>3. QED
      BY <1>t, <1>4, <3>1, <3>2 DEF TypeOK
  <2>2. ThreadInv'
    BY <1>t, <1>4 DEF ThreadInv
  <2>3. HolderInv'
    <3>1. Range(backlog') = {} /\ Distinct(backlog')
      BY <1>4 DEF Range, Distinct
    <3>2. \A c \in Clients : client'[c] = IF c \in Range(backlog) THEN "gone" ELSE client[c]
      BY <1>4
    <3>3. UNCHANGED <<clientSock, queue, taken, done>>
      BY <1>4
    <3>4. QED
      BY <1>t, <3>1, <3>2, <3>3 DEF HolderInv
  <2>4. QED
    BY <2>1, <2>2, <2>3 DEF ServerInv
<1>5. CASE StartFails \/ Exit
  BY <1>5, EndsServerInv DEF StartFails, Exit
<1>9. QED
  BY <1>1, <1>2, <1>3, <1>4, <1>5, <1>6, <1>7, <1>8 DEF MainStep

\* The accept thread moves the first connection of the backlog to its hand, and
\* from there to the end of the pool's queue.
LEMMA AcceptServerInv ==
  ASSUME ServerInv, AcceptThread \/ UseAfterDelete
  PROVE  ServerInv'
<1> USE DEF mainVars, acceptVars, poolVars, sessionVars
<1>t. TypeOK /\ ThreadInv /\ HolderInv
  BY DEF ServerInv
<1>1. CASE SetUpEpoll
  <2>1. TypeOK'
    BY <1>t, <1>1 DEF SetUpEpoll, TypeOK
  <2>2. ThreadInv'
    BY <1>t, <1>1 DEF SetUpEpoll, ThreadInv
  <2>3. HolderInv'
    BY <1>1, NobodyMoves DEF SetUpEpoll
  <2>4. QED
    BY <2>1, <2>2, <2>3 DEF ServerInv
<1>2. CASE Wake
  <2>1. TypeOK'
    BY <1>t, <1>2 DEF Wake, TypeOK
  <2>2. ThreadInv'
    BY <1>t, <1>2 DEF Wake, ThreadInv
  <2>3. HolderInv'
    BY <1>2, NobodyMoves DEF Wake
  <2>4. QED
    BY <2>1, <2>2, <2>3 DEF ServerInv
<1>3. CASE Leave
  <2>1. TypeOK'
    BY <1>t, <1>3 DEF Leave, TypeOK
  <2>2. ThreadInv'
    BY <1>t, <1>3 DEF Leave, ThreadInv
  <2>3. HolderInv'
    BY <1>3, NobodyMoves DEF Leave
  <2>4. QED
    BY <2>1, <2>2, <2>3 DEF ServerInv
<1>4. CASE Accept
  <2>1. ThreadInv'
    BY <1>t, <1>4 DEF Accept, ThreadInv
  <2>2. CASE ~(listening /\ backlog # <<>>)
    <3>1. UNCHANGED <<backlog, clientSock, queue, taken, done, client>> /\ apc' = "poll"
      BY <1>4, <2>2 DEF Accept
    <3>2. TypeOK'
      BY <1>t, <1>4, <3>1 DEF Accept, TypeOK
    <3>3. QED
      BY <2>1, <3>1, <3>2, NobodyMoves DEF ServerInv
  <2>3. CASE listening /\ backlog # <<>>
    <3>1. /\ clientSock' = Head(backlog) /\ backlog' = Tail(backlog) /\ apc' = "submit"
          /\ UNCHANGED <<queue, taken, done, client>>
      BY <1>4, <2>3 DEF Accept
    <3>2. backlog \in Seq(Clients) /\ Len(backlog) <= Backlog /\ clientSock = NoClient
      BY <1>t, <1>4 DEF Accept, TypeOK
    <3>3. /\ Head(backlog) \in Clients /\ Tail(backlog) \in Seq(Clients)
          /\ Len(Tail(backlog)) <= Backlog
          /\ Range(backlog) = Range(Tail(backlog)) \cup {Head(backlog)}
      BY <2>3, <3>2, HeadTail
    <3>4. Distinct(Tail(backlog)) /\ Head(backlog) \notin Range(Tail(backlog))
      BY <1>t, <2>3, <3>2, DistinctTail DEF HolderInv
    <3>5. TypeOK'
      BY <1>t, <1>4, <3>1, <3>3 DEF Accept, TypeOK
    <3>6. HolderInv'
      BY <1>t, <3>1, <3>2, <3>3, <3>4 DEF HolderInv
    <3>7. QED
      BY <2>1, <3>5, <3>6 DEF ServerInv
  <2>4. QED
    BY <2>2, <2>3
<1>5. CASE SubmitClient
  <2>1. ThreadInv'
    BY <1>t, <1>5 DEF SubmitClient, Submit, ThreadInv
  <2>2. clientSock \in Clients /\ queue \in Seq(Clients)
    BY <1>t, <1>5 DEF SubmitClient, TypeOK
  <2>3. /\ queue' = Append(queue, clientSock) /\ clientSock' = NoClient /\ apc' = "poll"
        /\ clientSock \notin Range(queue) /\ deaf' = FALSE
        /\ UNCHANGED <<backlog, taken, done, client>>
    BY <1>5 DEF SubmitClient, Submit
  <2>4. queue' \in Seq(Clients) /\ Range(queue') = Range(queue) \cup {clientSock}
    BY <2>2, <2>3, AppendFacts
  <2>5. Distinct(queue')
    BY <1>t, <2>2, <2>3, DistinctAppend DEF HolderInv
  <2>6. TypeOK'
    BY <1>t, <1>5, <2>3, <2>4 DEF SubmitClient, TypeOK
  <2>7. HolderInv'
    BY <1>t, <2>2, <2>3, <2>4, <2>5 DEF HolderInv
  <2>8. QED
    BY <2>1, <2>6, <2>7 DEF ServerInv
<1>6. CASE UseAfterDelete
  BY <1>6, EndsServerInv DEF UseAfterDelete
<1>7. QED
  BY <1>1, <1>2, <1>3, <1>4, <1>5, <1>6 DEF AcceptThread

\* A worker that is idle moves the first connection of the queue into its hands.
LEMMA TakeServerInv ==
  ASSUME ServerInv, TakeClient \/ TakeLate
  PROVE  ServerInv'
<1> USE DEF mainVars, acceptVars
<1>t. TypeOK /\ ThreadInv /\ HolderInv
  BY DEF ServerInv
<1>c. exited \in Nat /\ IsFiniteSet(taken) /\ Cardinality(taken) \in Nat
  BY <1>t, FS_CardinalityType DEF ThreadInv
<1>1. /\ queue # <<>> /\ queue \in Seq(Clients) /\ queue' = Tail(queue)
      /\ taken' = taken \cup {Head(queue)}
      /\ stage' = [stage EXCEPT ![Head(queue)] = "mode"]
      /\ UNCHANGED <<mpc, serverRunning, listening, running, apc, clientSock, backlog,
                     done, poolRunning, exited, deaf, mode, client>>
  BY <1>t DEF TakeClient, TakeLate, Take, TypeOK
<1>2. IdleThreads > 0
  <2>1. IdleThreads \in Int
    BY <1>c DEF IdleThreads
  <2>2. QED
    BY <2>1 DEF TakeClient, TakeLate, Awake
<1>3. mpc \notin {"destroy", "destroyed"}
  <2>1. exited # Threads
    BY <1>c, <1>2 DEF IdleThreads
  <2>2. QED
    BY <1>t, <2>1 DEF ThreadInv
<1>4. /\ Head(queue) \in Clients /\ Tail(queue) \in Seq(Clients)
      /\ Range(queue) = Range(Tail(queue)) \cup {Head(queue)}
  BY <1>1, HeadTail
<1>5. Distinct(Tail(queue)) /\ Head(queue) \notin Range(Tail(queue))
  BY <1>t, <1>1, DistinctTail DEF HolderInv
<1>6. Head(queue) \notin taken
  BY <1>t, <1>4 DEF HolderInv
<1>7. IsFiniteSet(taken') /\ Cardinality(taken') = Cardinality(taken) + 1
  BY <1>c, <1>1, <1>6, FS_AddElement
<1>8. exited' + Cardinality(taken') \in 0..Threads
  BY <1>c, <1>1, <1>2, <1>7 DEF IdleThreads
<1>9. ThreadInv'
  BY <1>t, <1>1, <1>3, <1>7, <1>8 DEF ThreadInv
<1>10. TypeOK'
  <2>1. stage' \in [Clients -> {"none", "mode", "sync", "rpc", "closed"}]
    BY <1>t, <1>1 DEF TypeOK
  <2>2. queue' \in Seq(Clients) /\ taken' \subseteq Clients
    BY <1>t, <1>1, <1>4 DEF TypeOK
  <2>3. QED
    BY <1>t, <1>1, <1>8, <2>1, <2>2 DEF TypeOK
<1>11. HolderInv'
  BY <1>t, <1>1, <1>4, <1>5 DEF HolderInv
<1>12. QED
  BY <1>9, <1>10, <1>11 DEF ServerInv

\* The end of a session: the worker lets go of its connection, and ends if the
\* pool has stopped.
LEMMA CloseServerInv ==
  ASSUME ServerInv, NEW c \in Clients, c \in taken, Close(c), Alive,
         mode' \in [Clients -> {"none", "sync", "rpc", "unknown"}],
         UNCHANGED <<mainVars, acceptVars>>
  PROVE  ServerInv'
<1> USE DEF mainVars, acceptVars
<1>t. TypeOK /\ ThreadInv /\ HolderInv
  BY DEF ServerInv
<1>c. exited \in Nat /\ IsFiniteSet(taken) /\ Cardinality(taken) \in Nat
  BY <1>t, FS_CardinalityType DEF ThreadInv
<1>1. /\ stage' = [stage EXCEPT ![c] = "closed"]
      /\ client' = [client EXCEPT ![c] = "gone"]
      /\ taken' = taken \ {c} /\ done' = done \cup {c}
      /\ UNCHANGED <<mpc, serverRunning, listening, running, apc, clientSock, backlog,
                     queue, poolRunning, deaf>>
  BY DEF Close, Finish
<1>2. exited' = exited \/ exited' = exited + 1
  BY DEF Close
<1>3. IsFiniteSet(taken') /\ Cardinality(taken') = Cardinality(taken) - 1
  BY <1>c, <1>1, FS_RemoveElement
<1>4. Cardinality(taken') \in Nat
  BY <1>3, FS_CardinalityType
<1>5. exited' \in Nat /\ exited' + Cardinality(taken') \in 0..Threads
  BY <1>c, <1>t, <1>2, <1>3, <1>4 DEF ThreadInv
<1>6. mpc \notin {"destroy", "destroyed"}
  BY <1>c, <1>t, <1>3, <1>4 DEF ThreadInv
<1>7. ThreadInv'
  BY <1>t, <1>1, <1>3, <1>5, <1>6 DEF ThreadInv
<1>8. TypeOK'
  <2>1. stage' \in [Clients -> {"none", "mode", "sync", "rpc", "closed"}]
    BY <1>t, <1>1 DEF TypeOK
  <2>2. client' \in [Clients -> {"away", "connected", "gone"}]
    BY <1>t, <1>1 DEF TypeOK
  <2>3. taken' \subseteq Clients /\ done' \subseteq Clients
    BY <1>t, <1>1 DEF TypeOK
  <2>4. QED
    BY <1>t, <1>1, <1>5, <2>1, <2>2, <2>3 DEF TypeOK
<1>9. HolderInv'
  <2>1. \A d \in Clients : client'[d] = IF d = c THEN "gone" ELSE client[d]
    BY <1>t, <1>1 DEF TypeOK
  <2>2. QED
    BY <1>t, <1>1, <2>1 DEF HolderInv
<1>10. QED
  BY <1>7, <1>8, <1>9 DEF ServerInv

\* The steps of a worker.
LEMMA WorkerServerInv ==
  ASSUME ServerInv,
         \/ TakeClient \/ TakeLate \/ WorkerExits
         \/ \E c \in Clients : SessionStep(c) \/ SyncCompletes(c) \/ BrokenPipe(c)
  PROVE  ServerInv'
<1> USE DEF mainVars, acceptVars, poolVars, sessionVars
<1>t. TypeOK /\ ThreadInv /\ HolderInv
  BY DEF ServerInv
<1>c. exited \in Nat /\ IsFiniteSet(taken) /\ Cardinality(taken) \in Nat
  BY <1>t, FS_CardinalityType DEF ThreadInv
<1>1. CASE TakeClient \/ TakeLate
  BY <1>1, TakeServerInv
<1>2. CASE WorkerExits
  <2>1. IdleThreads > 0
    <3>1. IdleThreads \in Int
      BY <1>c DEF IdleThreads
    <3>2. QED
      BY <1>2, <3>1 DEF WorkerExits, Awake
  <2>2. exited' \in Nat /\ exited' + Cardinality(taken') \in 0..Threads
    BY <1>c, <1>2, <2>1 DEF WorkerExits, IdleThreads
  <2>3. TypeOK'
    BY <1>t, <1>2, <2>2 DEF WorkerExits, TypeOK
  <2>4. ThreadInv'
    BY <1>t, <1>2, <2>2 DEF WorkerExits, ThreadInv
  <2>5. QED
    BY <1>2, <2>3, <2>4, NobodyMoves DEF WorkerExits, ServerInv
<1>3. ASSUME NEW c \in Clients, ReceiveMode(c) PROVE ServerInv'
  <2>1. mode' \in [Clients -> {"none", "sync", "rpc", "unknown"}]
    BY <1>t, <1>3 DEF ReceiveMode, TypeOK
  <2>2. CASE Close(c)
    BY <1>3, <2>1, <2>2, CloseServerInv DEF ReceiveMode
  <2>3. CASE /\ mode[c] \in {"sync", "rpc"}
             /\ stage' = [stage EXCEPT ![c] = mode[c]]
             /\ UNCHANGED <<poolVars, client>>
    <3>1. stage' \in [Clients -> {"none", "mode", "sync", "rpc", "closed"}]
      BY <1>t, <2>3 DEF TypeOK
    <3>2. TypeOK'
      BY <1>t, <1>3, <2>1, <2>3, <3>1 DEF ReceiveMode, TypeOK
    <3>3. ThreadInv'
      BY <1>t, <1>3, <2>3 DEF ReceiveMode, ThreadInv
    <3>4. QED
      BY <1>3, <2>3, <3>2, <3>3, NobodyMoves DEF ReceiveMode, ServerInv
  <2>4. QED
    BY <1>3, <2>2, <2>3 DEF ReceiveMode
<1>4. ASSUME NEW c \in Clients, ClientLost(c) \/ SyncCompletes(c) PROVE ServerInv'
  <2>1. mode' \in [Clients -> {"none", "sync", "rpc", "unknown"}]
    BY <1>t, <1>4 DEF ClientLost, SyncCompletes, TypeOK
  <2>2. QED
    BY <1>4, <2>1, CloseServerInv DEF ClientLost, SyncCompletes
<1>5. ASSUME NEW c \in Clients, BrokenPipe(c) PROVE ServerInv'
  BY <1>5, EndsServerInv DEF BrokenPipe
<1>6. QED
  BY <1>1, <1>2, <1>3, <1>4, <1>5 DEF SessionStep

\* A client enters the backlog from nowhere, and leaves without being moved.
LEMMA ClientServerInv ==
  ASSUME ServerInv, NEW c \in Clients, ClientConnects(c) \/ ClientGoes(c)
  PROVE  ServerInv'
<1> USE DEF mainVars, acceptVars, poolVars, sessionVars
<1>t. TypeOK /\ ThreadInv /\ HolderInv
  BY DEF ServerInv
<1>1. CASE ClientConnects(c)
  <2>1. /\ client[c] = "away" /\ client' = [client EXCEPT ![c] = "connected"]
        /\ backlog' = Append(backlog, c) /\ Len(backlog) < Backlog
        /\ UNCHANGED <<mpc, serverRunning, listening, running, apc, clientSock, queue,
                       taken, done, poolRunning, exited, deaf, stage>>
    BY <1>1 DEF ClientConnects
  <2>2. backlog \in Seq(Clients) /\ c \notin Range(backlog)
    BY <1>t, <2>1 DEF TypeOK, HolderInv
  <2>3. /\ backlog' \in Seq(Clients) /\ Len(backlog') <= Backlog
        /\ Range(backlog') = Range(backlog) \cup {c}
    BY <2>1, <2>2, AppendFacts
  <2>4. Distinct(backlog')
    BY <1>t, <2>1, <2>2, DistinctAppend DEF HolderInv
  <2>5. TypeOK'
    <3>1. PICK m \in Modes[c] : mode' = [mode EXCEPT ![c] = m]
      BY <1>1 DEF ClientConnects
    <3>2. m \in {"none", "sync", "rpc", "unknown"}
      BY <3>1
    <3>3. mode' \in [Clients -> {"none", "sync", "rpc", "unknown"}]
      BY <1>t, <3>1, <3>2 DEF TypeOK
    <3>4. client' \in [Clients -> {"away", "connected", "gone"}]
      BY <1>t, <2>1 DEF TypeOK
    <3>5. QED
      BY <1>t, <2>1, <2>3, <3>3, <3>4 DEF TypeOK
  <2>6. ThreadInv'
    BY <1>t, <2>1 DEF ThreadInv
  <2>7. HolderInv'
    <3>1. \A d \in Clients : client'[d] = IF d = c THEN "connected" ELSE client[d]
      BY <1>t, <2>1 DEF TypeOK
    <3>2. QED
      BY <1>t, <2>1, <2>3, <2>4, <3>1 DEF HolderInv
  <2>8. QED
    BY <2>5, <2>6, <2>7 DEF ServerInv
<1>2. CASE ClientGoes(c)
  <2>1. /\ client' = [client EXCEPT ![c] = "gone"]
        /\ UNCHANGED <<mainVars, acceptVars, poolVars, stage, mode>>
    BY <1>2 DEF ClientGoes
  <2>2. TypeOK'
    <3>1. client' \in [Clients -> {"away", "connected", "gone"}]
      BY <1>t, <2>1 DEF TypeOK
    <3>2. QED
      BY <1>t, <2>1, <3>1 DEF TypeOK
  <2>3. ThreadInv'
    BY <1>t, <2>1 DEF ThreadInv
  <2>4. HolderInv'
    <3>1. \A d \in Clients : client'[d] = IF d = c THEN "gone" ELSE client[d]
      BY <1>t, <2>1 DEF TypeOK
    <3>2. QED
      BY <1>t, <2>1, <3>1 DEF HolderInv
  <2>5. QED
    BY <2>2, <2>3, <2>4 DEF ServerInv
<1>3. QED
  BY <1>1, <1>2

-----------------------------------------------------------------------------

\* Every reachable state of the server is typed, has its threads accounted for
\* and holds every connection in at most one place.
THEOREM ServerInvariant == ServerSpec => []ServerInv
<1>1. ServerInv /\ [ServerNext]_vars => ServerInv'
  <2> SUFFICES ASSUME ServerInv, [ServerNext]_vars PROVE ServerInv'
    OBVIOUS
  <2>1. CASE ServerNext
    BY <2>1, MainServerInv, AcceptServerInv, WorkerServerInv, ClientServerInv
    DEF ServerNext
  <2>2. CASE UNCHANGED vars
    <3> USE DEF vars, mainVars, acceptVars, poolVars, sessionVars
    <3>1. TypeOK'
      BY <2>2 DEF ServerInv, TypeOK
    <3>2. ThreadInv'
      BY <2>2 DEF ServerInv, ThreadInv
    <3>3. QED
      BY <2>2, <3>1, <3>2, NobodyMoves DEF ServerInv
  <2>3. QED
    BY <2>1, <2>2
<1>2. QED
  BY <1>1, InitServerInv, PTL DEF ServerSpec

\* The states of the main thread, the accept thread, the pool and the sessions
\* stay in their sets; in particular the backlog and the threads keep their bounds.
THEOREM TypeCorrect == ServerSpec => []TypeOK
<1>1. ServerInv => TypeOK
  BY DEF ServerInv
<1>2. QED
  BY <1>1, ServerInvariant, PTL

\* ~SyncServer deletes the pool, the RpcServer and the TcpServer when no worker
\* is in a session: ThreadPool::stop has joined them all.
THEOREM DeletedUnused == ServerSpec => []NoSessionAfterDelete
<1>1. ServerInv => NoSessionAfterDelete
  <2> SUFFICES ASSUME ServerInv, mpc = "destroyed" PROVE taken = {}
    BY DEF NoSessionAfterDelete
  <2>1. /\ exited = Threads /\ exited \in Nat /\ IsFiniteSet(taken)
        /\ exited + Cardinality(taken) <= Threads
    BY DEF ServerInv, ThreadInv
  <2>2. Cardinality(taken) \in Nat
    BY <2>1, FS_CardinalityType
  <2>3. Cardinality(taken) = 0
    BY <2>1, <2>2
  <2>4. QED
    BY <2>1, <2>3, FS_EmptySet
<1>2. QED
  BY <1>1, ServerInvariant, PTL

\* A connection that is accepted is neither forgotten nor in two hands, whenever
\* stop() comes.
THEOREM HeldOnce == ServerSpec => []OneHolder
<1>1. ServerInv => OneHolder
  <2> SUFFICES ASSUME ServerInv, NEW c \in Clients
               PROVE  LET holders == {h \in {"backlog", "accept", "queue", "worker", "done"} :
                                        CASE h = "backlog" -> c \in Range(backlog)
                                          [] h = "accept" -> clientSock = c
                                          [] h = "queue" -> c \in Range(queue)
                                          [] h = "worker" -> c \in taken
                                          [] OTHER -> c \in done}
                      IN /\ Cardinality(holders) <= 1
                         /\ Connected(c) => holders # {}
    BY DEF OneHolder
  <2> DEFINE holders == {h \in {"backlog", "accept", "queue", "worker", "done"} :
                           CASE h = "backlog" -> c \in Range(backlog)
                             [] h = "accept" -> clientSock = c
                             [] h = "queue" -> c \in Range(queue)
                             [] h = "worker" -> c \in taken
                             [] OTHER -> c \in done}
  <2>1. /\ "backlog" \in holders <=> c \in Range(backlog)
        /\ "accept" \in holders <=> clientSock = c
        /\ "queue" \in holders <=> c \in Range(queue)
        /\ "worker" \in holders <=> c \in taken
        /\ "done" \in holders <=> c \in done
        /\ holders \subseteq {"backlog", "accept", "queue", "worker", "done"}
    OBVIOUS
  <2> HIDE DEF holders
  <2>2. \A g, h \in holders : g = h
    BY <2>1 DEF ServerInv, HolderInv
  <2>3. Cardinality(holders) <= 1
    <3>1. CASE holders = {}
      BY <3>1, FS_EmptySet
    <3>2. CASE holders # {}
      <4>1. PICK h : holders = {h}
        BY <2>2, <3>2
      <4>2. QED
        BY <4>1, FS_Singleton
    <3>3. QED
      BY <3>1, <3>2
  <2>4. Connected(c) => holders # {}
    BY <2>1 DEF ServerInv, HolderInv, Connected
  <2>5. QED
    BY <2>3, <2>4 DEF holders
<1>2. QED
  BY <1>1, ServerInvariant, PTL
=============================================================================
