---------------------------- MODULE AsyncIOProofs ----------------------------
(***************************************************************************)
(* Proofs that the asynchronous transfer keeps its safety properties for   *)
(* every size of the file, of the buffers and of the socket's send buffer, *)
(* and every interleaving of the calling thread, the I/O thread and the    *)
(* peer.                                                                   *)
(***************************************************************************)
EXTENDS AsyncIO, OperatorLemmas, TLAPS

USE AsyncAssumption

\* Before the buffer is in the map nothing has been sent, and the I/O thread has
\* at most looked up an event in vain.
EarlyInv ==
  /\ mpc \in {"start", "false", "add", "setCallback", "setBuffer"}
       => /\ sent = <<>> /\ writeBuffer = NoBuffer /\ ~transferDone
          /\ iopc \in {"poll", "event"}
  /\ mpc \in {"start", "false", "add"} => ~registered /\ iopc = "poll"
  /\ mpc = "start" => gcount = 0 /\ live = {}
  /\ mpc \in {"add", "setCallback", "setBuffer"}
       => gcount > 0 /\ gcount <= bufferSize /\ live = {1}
  /\ mpc \in {"setCallback", "setBuffer"} => registered
  /\ mpc = "setBuffer" => writeCallback = "first"

\* The entry in the map is what is left of the first buffer, which follows what
\* has been sent; it is there for as long as the I/O thread works on it.
EntryInv ==
  /\ writeBuffer \in [id : {0, 1}, from : Nat, size : Nat]
  /\ writeBuffer # NoBuffer
       => /\ writeBuffer.id = 1 /\ writeBuffer.size > 0
          /\ writeCallback = "first" /\ registered
  /\ writeBuffer # NoBuffer /\ iopc \in {"poll", "event", "write", "callback"}
       => live = {1} /\ writeBuffer.from + writeBuffer.size = gcount
  /\ writeBuffer # NoBuffer /\ iopc \in {"poll", "event", "write"}
       => Len(sent) = writeBuffer.from
  /\ writeBuffer = NoBuffer => iopc \in {"poll", "event", "exited"}

\* The flag is set when the whole file has been sent, and from then on nothing
\* is written; the thread that has returned has seen the flag, or has never
\* registered anything.
DoneInv ==
  /\ eof => gcount = size
  /\ iopc = "callback" => Len(sent) = gcount
  /\ iopc \in {"store", "notify"} \/ transferDone \/ mpc = "true" => Len(sent) = size
  /\ transferDone => \/ iopc \in {"notify", "remove"}
                     \/ ~registered /\ iopc \in {"poll", "exited"}
  /\ mpc \in {"true", "join", "stopped"}
       => transferDone \/ (~registered /\ iopc \in {"poll", "exited"})
  /\ iopc = "exited" => mpc \in {"join", "stopped", "killed"}
  /\ ~running <=> mpc \in {"join", "stopped"}

\* The inductive invariant.
AsyncInv == TypeOK /\ SentIsPrefix /\ EarlyInv /\ EntryInv /\ DoneInv

-----------------------------------------------------------------------------
(* Facts about the operators of the model *)

\* read() never goes beyond the file, gets something unless it is at the end, and
\* sees the end of the file only when all of it has been read.
LEMMA ReadFacts ==
  ASSUME TypeOK, NEW id, NEW kept, Read(id, kept)
  PROVE  /\ gcount' \in 0..size /\ gcount' >= gcount /\ eof' \in BOOLEAN
         /\ gcount' = gcount => gcount = size
         /\ eof' => gcount' = size
         /\ gcount' <= gcount + bufferSize
<1>1. /\ size \in Nat /\ gcount \in Nat /\ gcount <= size
      /\ bufferSize \in Nat /\ bufferSize > 0
  BY DEF TypeOK
<1>2. gcount' = IF size <= gcount + bufferSize THEN size ELSE gcount + bufferSize
  BY <1>1, MinOfTwo DEF Read
<1>3. eof' = (gcount + bufferSize > size)
  BY DEF Read
<1>4. eof' \in BOOLEAN
  BY <1>3
<1>5. eof' => gcount + bufferSize > size
  BY <1>1, <1>3
<1>6. QED
  BY <1>1, <1>2, <1>4, <1>5

\* Writing the next n bytes of the file keeps what is on the socket a prefix.
LEMMA WriteExtends ==
  ASSUME NEW s \in Seq(1..size), size \in Nat, \A i \in DOMAIN s : s[i] = i,
         NEW n \in Nat, Len(s) + n <= size
  PROVE  LET t == s \o Positions(Len(s), n)
         IN /\ t \in Seq(1..size) /\ Len(t) = Len(s) + n
            /\ \A i \in DOMAIN t : t[i] = i
<1> DEFINE q == Positions(Len(s), n)
<1>1. Len(s) \in Nat
  OBVIOUS
<1>2. q \in Seq(1..size) /\ Len(q) = n /\ \A i \in 1..n : q[i] = Len(s) + i
  BY <1>1 DEF Positions
<1> HIDE DEF q
<1>3. /\ s \o q \in Seq(1..size) /\ Len(s \o q) = Len(s) + n
      /\ \A i \in 1..Len(s) : (s \o q)[i] = s[i]
      /\ \A i \in Len(s) + 1 .. Len(s) + n : (s \o q)[i] = q[i - Len(s)]
  BY <1>1, <1>2
<1>4. DOMAIN s = 1..Len(s) /\ DOMAIN (s \o q) = 1..(Len(s) + n)
  BY <1>1, <1>3
<1>5. ASSUME NEW i \in 1..(Len(s) + n) PROVE (s \o q)[i] = i
  <2>1. CASE i <= Len(s)
    <3>1. i \in 1..Len(s) /\ i \in DOMAIN s
      BY <1>1, <1>4, <2>1
    <3>2. QED
      BY <1>3, <3>1
  <2>2. CASE i > Len(s)
    <3>1. i - Len(s) \in 1..n /\ i \in Len(s) + 1 .. Len(s) + n
      BY <1>1, <2>2
    <3>2. (s \o q)[i] = q[i - Len(s)] /\ q[i - Len(s)] = Len(s) + (i - Len(s))
      BY <1>2, <1>3, <3>1
    <3>3. QED
      BY <1>1, <3>2
  <2>3. i <= Len(s) \/ i > Len(s)
    BY <1>1
  <2>4. QED
    BY <2>1, <2>2, <2>3
<1>6. QED
  BY <1>3, <1>4, <1>5 DEF q

-----------------------------------------------------------------------------
(* The invariant *)

\* The handler as start() leaves it, before anything is sent.
LEMMA InitAsyncInv == Init => AsyncInv
<1> SUFFICES ASSUME Init PROVE AsyncInv
  OBVIOUS
<1>1. TypeOK
  <2>1. /\ size \in Sizes /\ size \in Nat /\ gcount \in 0..size /\ space \in 0..Room
        /\ sent \in Seq(1..size) /\ live \subseteq {1, 2}
    BY DEF Init
  <2>2. writeBuffer.size \in 0..bufferSize /\ writeBuffer.from \in 0..size
    BY <2>1 DEF Init, NoBuffer
  <2>3. /\ running \in BOOLEAN /\ registered \in BOOLEAN /\ ready \in BOOLEAN
        /\ eof \in BOOLEAN /\ transferDone \in BOOLEAN
    BY DEF Init
  <2>4. iopc = "poll" /\ writeCallback = "none" /\ mpc = "start" /\ link = "open"
        /\ ~ready
    BY DEF Init
  <2>5. QED
    BY <2>1, <2>2, <2>3, <2>4 DEF TypeOK
<1>2. SentIsPrefix
  BY DEF Init, SentIsPrefix
<1>3. EarlyInv /\ EntryInv /\ DoneInv
  BY DEF Init, EarlyInv, EntryInv, DoneInv, NoBuffer
<1>4. QED
  BY <1>1, <1>2, <1>3 DEF AsyncInv

\* What the calling thread does keeps the invariant: only registerWrite and the
\* look at the flag concern the I/O thread, and none of it sends anything.
LEMMA SenderAsyncInv ==
  ASSUME AsyncInv, Sender \/ SpuriousWakeUp
  PROVE  AsyncInv'
<1> USE DEF handlerVars, senderVars, netVars
<1>t. TypeOK /\ SentIsPrefix /\ EarlyInv /\ EntryInv /\ DoneInv
  BY DEF AsyncInv
<1>s. SentIsPrefix'
  <2>1. UNCHANGED sent
    BY DEF Sender, SpuriousWakeUp, Start, Add, SetCallback, SetBuffer, TestDone,
           Sleep, Stop, Join
  <2>2. QED
    BY <1>t, <2>1 DEF SentIsPrefix
<1>1. CASE Start
  <2>1. CASE mpc' = "false" /\ UNCHANGED <<gcount, eof, live>>
    <3>1. TypeOK'
      BY <1>t, <1>1, <2>1 DEF Start, TypeOK
    <3>2. EarlyInv' /\ EntryInv' /\ DoneInv'
      BY <1>t, <1>1, <2>1 DEF Start, EarlyInv, EntryInv, DoneInv, TypeOK
    <3>3. QED
      BY <1>s, <3>1, <3>2 DEF AsyncInv
  <2>2. CASE Read(1, {}) /\ mpc' = IF gcount' > 0 THEN "add" ELSE "true"
    <3>1. /\ gcount' \in 0..size /\ eof' \in BOOLEAN /\ gcount = 0
          /\ gcount' <= gcount + bufferSize
          /\ gcount' = gcount => gcount = size
          /\ eof' => gcount' = size
      BY <1>t, <1>1, <2>2, ReadFacts DEF Start, EarlyInv
    <3>2. live' \subseteq {1, 2} /\ (gcount' > 0 => live' = {1})
      BY <2>2, <3>1 DEF Read
    <3>3. /\ mpc = "start" /\ mpc' \in {"add", "true"}
          /\ (gcount' > 0 <=> mpc' = "add") /\ (gcount' = 0 <=> mpc' = "true")
          /\ UNCHANGED <<size, handlerVars, transferDone, netVars>>
      BY <1>t, <1>1, <2>2, <3>1 DEF Start, TypeOK
    <3>4. TypeOK'
      BY <1>t, <3>1, <3>2, <3>3 DEF TypeOK
    <3>5. EarlyInv'
      <4>1. gcount' <= bufferSize
        <5>1. size \in Nat /\ bufferSize \in Nat
          BY <1>t DEF TypeOK
        <5>2. gcount = 0 /\ gcount' <= gcount + bufferSize /\ gcount' \in 0..size
          BY <3>1
        <5>3. QED
          BY <5>1, <5>2
      <4>2. QED
        BY <1>t, <3>2, <3>3, <4>1 DEF EarlyInv
    <3>6. EntryInv' /\ DoneInv'
      BY <1>t, <3>1, <3>3 DEF EarlyInv, EntryInv, DoneInv, TypeOK
    <3>7. QED
      BY <1>s, <3>4, <3>5, <3>6 DEF AsyncInv
  <2>3. QED
    BY <1>1, <2>1, <2>2 DEF Start
<1>2. CASE Add
  <2>1. TypeOK'
    BY <1>t, <1>2 DEF Add, TypeOK
  <2>2. EarlyInv' /\ EntryInv' /\ DoneInv'
    BY <1>t, <1>2 DEF Add, EarlyInv, EntryInv, DoneInv, TypeOK
  <2>3. QED
    BY <1>s, <2>1, <2>2 DEF AsyncInv
<1>3. CASE SetCallback
  <2>1. TypeOK'
    BY <1>t, <1>3 DEF SetCallback, TypeOK
  <2>2. EarlyInv' /\ EntryInv' /\ DoneInv'
    BY <1>t, <1>3 DEF SetCallback, EarlyInv, EntryInv, DoneInv, TypeOK
  <2>3. QED
    BY <1>s, <2>1, <2>2 DEF AsyncInv
<1>4. CASE SetBuffer
  <2>1. writeBuffer' = [id |-> 1, from |-> 0, size |-> gcount] /\ gcount \in Nat
        /\ gcount <= bufferSize /\ gcount > 0
    BY <1>t, <1>4 DEF SetBuffer, Buffer, EarlyInv, TypeOK
  <2>2. TypeOK'
    BY <1>t, <1>4, <2>1 DEF SetBuffer, TypeOK
  <2>3. EarlyInv' /\ EntryInv' /\ DoneInv'
    BY <1>t, <1>4, <2>1 DEF SetBuffer, EarlyInv, EntryInv, DoneInv, TypeOK, NoBuffer
  <2>4. QED
    BY <1>s, <2>2, <2>3 DEF AsyncInv
<1>5. CASE TestDone
  <2>1. TypeOK'
    BY <1>t, <1>5 DEF TestDone, TypeOK
  <2>2. EarlyInv' /\ EntryInv' /\ DoneInv'
    BY <1>t, <1>5 DEF TestDone, EarlyInv, EntryInv, DoneInv, TypeOK
  <2>3. QED
    BY <1>s, <2>1, <2>2 DEF AsyncInv
<1>6. CASE Sleep
  <2>1. TypeOK'
    BY <1>t, <1>6 DEF Sleep, TypeOK
  <2>2. EarlyInv' /\ EntryInv' /\ DoneInv'
    BY <1>t, <1>6 DEF Sleep, EarlyInv, EntryInv, DoneInv, TypeOK
  <2>3. QED
    BY <1>s, <2>1, <2>2 DEF AsyncInv
<1>7. CASE SpuriousWakeUp
  <2>1. TypeOK'
    BY <1>t, <1>7 DEF SpuriousWakeUp, TypeOK
  <2>2. EarlyInv' /\ EntryInv' /\ DoneInv'
    BY <1>t, <1>7 DEF SpuriousWakeUp, EarlyInv, EntryInv, DoneInv, TypeOK
  <2>3. QED
    BY <1>s, <2>1, <2>2 DEF AsyncInv
<1>8. CASE Stop
  <2>1. TypeOK'
    BY <1>t, <1>8 DEF Stop, TypeOK
  <2>2. EarlyInv' /\ EntryInv' /\ DoneInv'
    BY <1>t, <1>8 DEF Stop, EarlyInv, EntryInv, DoneInv, TypeOK
  <2>3. QED
    BY <1>s, <2>1, <2>2 DEF AsyncInv
<1>9. CASE Join
  <2>1. TypeOK'
    BY <1>t, <1>9 DEF Join, TypeOK
  <2>2. EarlyInv' /\ EntryInv' /\ DoneInv'
    BY <1>t, <1>9 DEF Join, EarlyInv, EntryInv, DoneInv, TypeOK
  <2>3. QED
    BY <1>s, <2>1, <2>2 DEF AsyncInv
<1>10. QED
  BY <1>1, <1>2, <1>3, <1>4, <1>5, <1>6, <1>7, <1>8, <1>9 DEF Sender

\* What the I/O thread does keeps the invariant: it is the one that sends.
LEMMA IoThreadAsyncInv ==
  ASSUME AsyncInv, IoThread
  PROVE  AsyncInv'
<1> USE DEF handlerVars, senderVars, netVars, At
<1>t. TypeOK /\ SentIsPrefix /\ EarlyInv /\ EntryInv /\ DoneInv
  BY DEF AsyncInv
<1>s. ASSUME UNCHANGED sent PROVE SentIsPrefix'
  BY <1>t, <1>s DEF SentIsPrefix
<1>1. CASE Poll
  <2>1. TypeOK' /\ UNCHANGED sent
    BY <1>t, <1>1 DEF Poll, TypeOK
  <2>2. EarlyInv' /\ EntryInv' /\ DoneInv'
    BY <1>t, <1>1 DEF Poll, EarlyInv, EntryInv, DoneInv, TypeOK
  <2>3. QED
    BY <1>s, <2>1, <2>2 DEF AsyncInv
<1>2. CASE Exit
  <2>1. TypeOK' /\ UNCHANGED sent
    BY <1>t, <1>2 DEF Exit, TypeOK
  <2>2. EarlyInv' /\ EntryInv' /\ DoneInv'
    BY <1>t, <1>2 DEF Exit, EarlyInv, EntryInv, DoneInv, TypeOK
  <2>3. QED
    BY <1>s, <2>1, <2>2 DEF AsyncInv
<1>3. CASE Lookup
  <2>1. TypeOK' /\ UNCHANGED sent
    BY <1>t, <1>3 DEF Lookup, TypeOK
  <2>2. EarlyInv' /\ EntryInv' /\ DoneInv'
    BY <1>t, <1>3 DEF Lookup, EarlyInv, EntryInv, DoneInv, TypeOK
  <2>3. QED
    BY <1>s, <2>1, <2>2 DEF AsyncInv
<1>4. CASE Write
  <2> DEFINE n == Min({space, writeBuffer.size})
  <2>1. /\ space \in Nat /\ size \in Nat /\ gcount \in Nat /\ gcount <= size
        /\ writeBuffer \in [id : {0, 1}, from : Nat, size : Nat]
        /\ writeBuffer # NoBuffer /\ writeBuffer.size > 0
        /\ writeBuffer.from + writeBuffer.size = gcount /\ Len(sent) = writeBuffer.from
        /\ writeBuffer.id = 1 /\ live = {1} /\ writeCallback = "first" /\ registered
    BY <1>t, <1>4 DEF Write, TypeOK, EntryInv
  <2>2. n \in Nat /\ n <= space /\ n <= writeBuffer.size
    BY <2>1, MinOfTwo
  <2>3. /\ iopc = "write" /\ sent' = sent \o Positions(writeBuffer.from, n)
        /\ space' = space - n
        /\ IF n = writeBuffer.size
             THEN iopc' = "callback" /\ UNCHANGED writeBuffer
             ELSE /\ iopc' = "poll"
                  /\ writeBuffer' = [writeBuffer EXCEPT !.from = @ + n, !.size = @ - n]
        /\ UNCHANGED <<size, running, writeCallback, registered, ready, senderVars,
                       link>>
    BY <1>4 DEF Write
  <2> HIDE DEF n
  <2>4. /\ sent' \in Seq(1..size) /\ Len(sent') = Len(sent) + n /\ SentIsPrefix'
    <3>1. sent \in Seq(1..size) /\ \A i \in DOMAIN sent : sent[i] = i
      BY <1>t DEF TypeOK, SentIsPrefix
    <3>2. Len(sent) + n <= size /\ sent' = sent \o Positions(Len(sent), n)
      BY <2>1, <2>2, <2>3
    <3>3. QED
      BY <2>1, <2>2, <3>1, <3>2, WriteExtends DEF SentIsPrefix
  <2>5. /\ writeBuffer' \in [id : {0, 1}, from : Nat, size : Nat]
        /\ writeBuffer'.id = 1 /\ writeBuffer'.size > 0
        /\ writeBuffer'.from + writeBuffer'.size = gcount
        /\ writeBuffer'.size <= writeBuffer.size
        /\ iopc' \in {"callback", "poll"}
        /\ iopc' = "poll" => Len(sent') = writeBuffer'.from
        /\ iopc' = "callback" => Len(sent') = gcount
    <3>1. CASE n = writeBuffer.size
      BY <2>1, <2>2, <2>3, <2>4, <3>1
    <3>2. CASE n # writeBuffer.size
      <4>1. writeBuffer' = [id |-> 1, from |-> writeBuffer.from + n,
                            size |-> writeBuffer.size - n]
        BY <2>1, <2>3, <3>2
      <4>2. iopc' = "poll"
        BY <2>3, <3>2
      <4>3. QED
        BY <2>1, <2>2, <2>4, <3>2, <4>1, <4>2
    <3>3. QED
      BY <3>1, <3>2
  <2>6. writeBuffer' # NoBuffer
    BY <2>5 DEF NoBuffer
  <2>7. TypeOK'
    <3>1. /\ space' \in 0..Room /\ writeBuffer'.from \in 0..size
          /\ writeBuffer'.size \in 0..bufferSize
      BY <1>t, <2>1, <2>2, <2>3, <2>5 DEF TypeOK
    <3>2. QED
      BY <1>t, <2>3, <2>4, <2>5, <3>1 DEF TypeOK
  <2>8. EntryInv'
    BY <2>1, <2>3, <2>4, <2>5, <2>6 DEF EntryInv
  <2>9. EarlyInv' /\ DoneInv'
    BY <1>t, <2>3, <2>4, <2>5 DEF EarlyInv, DoneInv
  <2>10. QED
    BY <2>4, <2>7, <2>8, <2>9 DEF AsyncInv
<1>5. CASE WriteFails
  <2>1. TypeOK' /\ UNCHANGED sent
    BY <1>t, <1>5 DEF WriteFails, TypeOK
  <2>2. EarlyInv' /\ EntryInv' /\ DoneInv'
    BY <1>t, <1>5 DEF WriteFails, EarlyInv, EntryInv, DoneInv, TypeOK
  <2>3. QED
    BY <1>s, <2>1, <2>2 DEF AsyncInv
<1>6. CASE FirstCallback
  <2>1. /\ iopc = "callback" /\ writeBuffer # NoBuffer /\ registered
        /\ writeCallback = "first" /\ live = {1} /\ Len(sent) = gcount
        /\ ~transferDone /\ mpc \notin {"true", "join", "stopped"}
        /\ mpc \notin {"start", "false", "add", "setCallback", "setBuffer"}
    BY <1>t, <1>6 DEF FirstCallback, EntryInv, EarlyInv, DoneInv
  <2>2. UNCHANGED <<size, running, mpc, transferDone, netVars, registered, ready,
                    writeCallback, writeBuffer>>
    BY <1>6, <2>1 DEF FirstCallback, RegisterNext
  <2>3. /\ gcount' \in 0..size /\ eof' \in BOOLEAN /\ live' \subseteq {1, 2}
        /\ eof' => gcount' = size
        /\ iopc' \in {"store", "remove"}
        /\ iopc' = "store" => gcount = size
    <3>1. CASE eof
      BY <1>t, <1>6, <2>1, <3>1 DEF FirstCallback, TypeOK, DoneInv
    <3>2. CASE ~eof
      <4>1. Read(2, live \ {1})
        BY <1>6, <3>2 DEF FirstCallback
      <4>2. /\ gcount' \in 0..size /\ eof' \in BOOLEAN /\ gcount' >= gcount
            /\ (gcount' = gcount => gcount = size)
            /\ (eof' => gcount' = size)
        BY <1>t, <4>1, ReadFacts
      <4>3. live' \subseteq {1, 2}
        BY <2>1, <4>1 DEF Read
      <4>4. iopc' = IF gcount' > gcount THEN "remove" ELSE "store"
        BY <1>6, <3>2 DEF FirstCallback
      <4>5. gcount \in Nat /\ size \in Nat
        BY <1>t DEF TypeOK
      <4>6. QED
        BY <4>2, <4>3, <4>4, <4>5
    <3>3. QED
      BY <1>t, <3>1, <3>2 DEF TypeOK
  <2>4. TypeOK' /\ SentIsPrefix'
    <3>1. TypeOK'
      BY <1>t, <2>2, <2>3 DEF TypeOK
    <3>2. QED
      BY <1>s, <2>2, <3>1
  <2>5. EarlyInv' /\ EntryInv' /\ DoneInv'
    BY <1>t, <2>1, <2>2, <2>3 DEF EarlyInv, EntryInv, DoneInv
  <2>6. QED
    BY <2>4, <2>5 DEF AsyncInv
<1>7. CASE StoreDone
  <2>1. TypeOK' /\ UNCHANGED sent
    BY <1>t, <1>7 DEF StoreDone, TypeOK
  <2>2. EarlyInv' /\ EntryInv' /\ DoneInv'
    BY <1>t, <1>7 DEF StoreDone, EarlyInv, EntryInv, DoneInv, TypeOK
  <2>3. QED
    BY <1>s, <2>1, <2>2 DEF AsyncInv
<1>8. CASE Notify
  <2>1. TypeOK' /\ UNCHANGED sent
    BY <1>t, <1>8 DEF Notify, TypeOK
  <2>2. EarlyInv' /\ EntryInv' /\ DoneInv'
    BY <1>t, <1>8 DEF Notify, EarlyInv, EntryInv, DoneInv, TypeOK
  <2>3. QED
    BY <1>s, <2>1, <2>2 DEF AsyncInv
<1>9. CASE Remove
  <2>a. /\ writeBuffer'.size = 0 /\ writeBuffer'.from = 0
        /\ size \in Nat /\ bufferSize \in Nat
    BY <1>t, <1>9 DEF Remove, TypeOK, NoBuffer
  <2>b. writeBuffer'.size \in 0..bufferSize /\ writeBuffer'.from \in 0..size
    BY <2>a
  <2>1. TypeOK' /\ UNCHANGED sent
    BY <1>t, <1>9, <2>b DEF Remove, TypeOK
  <2>2. EarlyInv' /\ DoneInv'
    BY <1>t, <1>9 DEF Remove, EarlyInv, DoneInv
  <2>3. EntryInv'
    BY <1>9 DEF Remove, EntryInv, NoBuffer
  <2>4. QED
    BY <1>s, <2>1, <2>2, <2>3 DEF AsyncInv
<1>10. QED
  BY <1>1, <1>2, <1>3, <1>4, <1>5, <1>6, <1>7, <1>8, <1>9 DEF IoThread

\* What the peer does keeps the invariant.
LEMMA PeerAsyncInv ==
  ASSUME AsyncInv, PeerReads \/ PeerCloses
  PROVE  AsyncInv'
<1> USE DEF handlerVars, senderVars
<1>t. TypeOK /\ SentIsPrefix /\ EarlyInv /\ EntryInv /\ DoneInv
  BY DEF AsyncInv
<1>1. TypeOK'
  <2>1. CASE PeerReads
    <3>1. space' \in 0..Room
      BY <2>1 DEF PeerReads
    <3>2. ready' \in BOOLEAN /\ (ready' => registered')
      BY <1>t, <2>1 DEF PeerReads, TypeOK
    <3>3. QED
      BY <1>t, <2>1, <3>1, <3>2 DEF PeerReads, TypeOK
  <2>2. CASE PeerCloses
    <3>1. space' \in 0..Room
      BY <2>2 DEF PeerCloses
    <3>2. QED
      BY <1>t, <2>2, <3>1 DEF PeerCloses, TypeOK
  <2>3. QED
    BY <2>1, <2>2
<1>2. SentIsPrefix' /\ EarlyInv' /\ EntryInv' /\ DoneInv'
  BY <1>t DEF PeerReads, PeerCloses, SentIsPrefix, EarlyInv, EntryInv, DoneInv
<1>3. QED
  BY <1>1, <1>2 DEF AsyncInv

-----------------------------------------------------------------------------
(* The theorems *)

\* The invariant holds in every state of every behaviour.
THEOREM AsyncInvariant == Spec => []AsyncInv
<1>1. AsyncInv /\ UNCHANGED vars => AsyncInv'
  BY DEF vars, handlerVars, senderVars, netVars, AsyncInv, TypeOK, SentIsPrefix,
         EarlyInv, EntryInv, DoneInv
<1>2. AsyncInv /\ [Next]_vars => AsyncInv'
  BY <1>1, SenderAsyncInv, IoThreadAsyncInv, PeerAsyncInv DEF Next
<1>3. QED
  BY <1>2, InitAsyncInv, PTL DEF Spec

\* Every variable of the handler and of sendFileViaAsyncIO keeps its type.
THEOREM TypeCorrect == Spec => []TypeOK
<1>1. AsyncInv => TypeOK
  BY DEF AsyncInv
<1>2. QED
  BY <1>1, AsyncInvariant, PTL

\* Whatever parts of the buffers the writes take, what is on the socket is a
\* beginning of the file.
THEOREM PrefixSent == Spec => []SentIsPrefix
<1>1. AsyncInv => SentIsPrefix
  BY DEF AsyncInv
<1>2. QED
  BY <1>1, AsyncInvariant, PTL

\* sendFileViaAsyncIO returns true only when the whole file is on the socket.
THEOREM TrueIsSent == Spec => []TrueMeansSent
<1>1. AsyncInv => TrueMeansSent
  BY DEF AsyncInv, DoneInv, TrueMeansSent
<1>2. QED
  BY <1>1, AsyncInvariant, PTL

\* The I/O thread never writes from a buffer that a callback has deleted.
THEOREM LiveBufferWritten == Spec => []WritesLiveBuffer
<1>1. AsyncInv => WritesLiveBuffer
  BY DEF AsyncInv, EntryInv, WritesLiveBuffer
<1>2. QED
  BY <1>1, AsyncInvariant, PTL
=============================================================================
