--------------------------- MODULE RemoteSyncProofs ---------------------------
(***************************************************************************)
(* Proofs that the acknowledgement of a remote synchronisation means what  *)
(* it should, for any task list, any size of the server's buffer and any   *)
(* number of sessions, cut connections, kills and errors.                  *)
(***************************************************************************)
EXTENDS RemoteSync, OperatorLemmas, TLAPS

USE RemoteSyncAssumption

SendingPC == {"data", "save", "saveWrite", "failSave", "failWrite"}

\* The client works on a task of the list, and has not sent more than there is.
ClientInv ==
  /\ cpc # "idle" => session \in Sessions /\ ci \in DOMAIN Tasks /\ result = "none"
  /\ cpc \in SendingPC => ci \in Files /\ sent <= FileSize(ci)
  /\ cpc = "ack" => ci = Len(Tasks)

Content == Seq(Units) \cup {NoFile, Dir}
HandlerPC == {"none", "header", "offset", "open", "reopen", "data", "closed"}
Handlers == [pc : HandlerPC, i : 0..Len(Tasks), append : BOOLEAN, received : AnyOffset,
             pos : Nat, buf : Seq(Units)]

\* A handler w works on a task of the list, on a file that is there (d is what the
\* server has), and has not read more than the rest of the file.
HandlerOK(w, d) ==
  /\ w.pc # "data" => w.append = FALSE /\ w.pos = 0 /\ w.buf = <<>>
  /\ w.pc \in {"none", "header"} => w.i = 0
  /\ w.pc = "offset" => w.i \in DOMAIN Tasks
  /\ w.pc \in {"open", "reopen", "data"} => w.i \in Files
  /\ w.pc = "data" => d[w.i] \in Seq(Units)
  /\ w.buf # <<>> => w.received + Len(w.buf) <= FileSize(w.i)

ServerInv ==
  /\ worker \in [Sessions -> Handlers] /\ stored \in [DOMAIN Tasks -> Content]
  /\ \A i \in Files : stored[i] \in Seq(Units) \cup {NoFile}
  /\ \A s \in Sessions : HandlerOK(worker[s], stored)
  /\ \A s \in Sessions : s > session => worker[s].pc = "none" /\ down[s] = "none"

\* What the two histories say of the sessions.
QuietInv ==
  /\ ~mixed => quiet
  /\ quiet => \A s \in Sessions : s # session => ~Active(s)

\* The part of the invariant that holds whatever the sessions do to one another.
BaseInv == TypeOK /\ ClientInv /\ ServerInv /\ QuietInv

-----------------------------------------------------------------------------
(* The operators *)

\* The task list and the sizes of its files.
LEMMA TaskFacts ==
  /\ DOMAIN Tasks = 1..Len(Tasks) /\ Len(Tasks) \in Nat /\ Len(Tasks) >= 1
  /\ Sizes \subseteq Nat /\ 0 \in Sizes /\ AnyOffset \subseteq Int
  /\ \A i \in Files : /\ i \in DOMAIN Tasks /\ Tasks[i] # Dir
                      /\ Tasks[i] \in Seq(Units) /\ FileSize(i) \in Nat
                      /\ \A n \in 0..FileSize(i) : n \in Sizes
  /\ \A i \in DOMAIN Tasks : Tasks[i] # Dir => i \in Files
<1>1. DOMAIN Tasks = 1..Len(Tasks) /\ Len(Tasks) \in Nat /\ Len(Tasks) >= 1
  OBVIOUS
<1>2. \A i \in Files : i \in DOMAIN Tasks /\ Tasks[i] # Dir /\ Tasks[i] \in Seq(Units)
  BY DEF Files
<1>3. \A i \in Files : FileSize(i) \in Nat
  BY <1>2 DEF FileSize
<1>4. Sizes \subseteq Nat /\ 0 \in Sizes
  BY <1>3 DEF Sizes
<1>5. \A i \in Files : \A n \in 0..FileSize(i) : n \in Sizes
  BY DEF Sizes
<1>6. AnyOffset \subseteq Int
  BY <1>4 DEF AnyOffset
<1>7. \A i \in DOMAIN Tasks : Tasks[i] # Dir => i \in Files
  BY DEF Files
<1>8. QED
  BY <1>1, <1>2, <1>3, <1>4, <1>5, <1>6, <1>7

\* The tokens that client and server exchange.
LEMMA TokenFacts ==
  /\ Header \in Tokens
  /\ \A n \in Sizes : Offset(n) \in Tokens
  /\ \A u \in Units : Data(u) \in Tokens
  /\ \A t \in Tokens : AsUnit(t) \in Units
<1>1. Garbage \in Units
  BY DEF Units
<1>2. /\ Header \in Tokens /\ \A n \in Sizes : Offset(n) \in Tokens
      /\ \A u \in Units : Data(u) \in Tokens
  BY DEF Tokens
<1>3. ASSUME NEW t \in Tokens PROVE AsUnit(t) \in Units
  <2>1. CASE t = Header
    BY <1>1, <2>1 DEF Header, AsUnit
  <2>2. CASE \E n \in Sizes : t = Offset(n)
    BY <1>1, <2>2 DEF Offset, AsUnit
  <2>3. CASE \E u \in Units : t = Data(u)
    BY <1>1, <2>3 DEF Data, AsUnit
  <2>4. QED
    BY <1>3, <2>1, <2>2, <2>3 DEF Tokens
<1>4. QED
  BY <1>2, <1>3

\* What write() leaves.
LEMMA WrittenFacts ==
  ASSUME NEW f \in Seq(Units), NEW n \in Nat, NEW us \in Seq(Units)
  PROVE  /\ Written(f, n, us) \in Seq(Units)
         /\ Len(Written(f, n, us)) = IF Len(f) >= n + Len(us) THEN Len(f) ELSE n + Len(us)
<1> DEFINE m == Max({Len(f), n + Len(us)})
<1>1. Len(f) \in Nat /\ Len(us) \in Nat
  OBVIOUS
<1>2. m = IF Len(f) >= n + Len(us) THEN Len(f) ELSE n + Len(us)
  BY <1>1, MaxOfTwo
<1>3. m \in Nat
  BY <1>1, <1>2
<1>4. Garbage \in Units
  BY DEF Units
<1> DEFINE g(k) == IF k \in n + 1 .. n + Len(us) THEN us[k - n]
                   ELSE IF k <= Len(f) THEN f[k] ELSE Garbage
<1>5. Written(f, n, us) = [k \in 1..m |-> g(k)]
  BY DEF Written
<1>6. \A k \in 1..m : g(k) \in Units
  <2> SUFFICES ASSUME NEW k \in 1..m PROVE g(k) \in Units
    OBVIOUS
  <2>1. CASE k \in n + 1 .. n + Len(us)
    <3>1. k - n \in 1..Len(us)
      BY <1>1, <2>1
    <3>2. QED
      BY <2>1, <3>1
  <2>2. CASE k \notin n + 1 .. n + Len(us)
    BY <1>1, <1>3, <1>4, <2>2
  <2>3. QED
    BY <2>1, <2>2
<1> HIDE DEF m, g
<1>7. Written(f, n, us) \in Seq(Units) /\ Len(Written(f, n, us)) = m
  BY <1>3, <1>5, <1>6
<1>8. QED
  BY <1>2, <1>7

\* At the end of the file, write() adds what is written.
LEMMA WrittenAtEnd ==
  ASSUME NEW f \in Seq(Units), NEW n \in Nat, NEW us \in Seq(Units), n = Len(f)
  PROVE  /\ Written(f, n, us) \in Seq(Units) /\ Len(Written(f, n, us)) = n + Len(us)
         /\ \A k \in 1..n : Written(f, n, us)[k] = f[k]
         /\ \A k \in 1..Len(us) : Written(f, n, us)[n + k] = us[k]
<1>1. Len(f) \in Nat /\ Len(us) \in Nat
  OBVIOUS
<1>2. Written(f, n, us) \in Seq(Units) /\ Len(Written(f, n, us)) = n + Len(us)
  BY <1>1, WrittenFacts
<1> DEFINE g(k) == IF k \in n + 1 .. n + Len(us) THEN us[k - n]
                   ELSE IF k <= Len(f) THEN f[k] ELSE Garbage
<1>3. \A k \in 1..n + Len(us) : Written(f, n, us)[k] = g(k)
  <2>1. DOMAIN Written(f, n, us) = 1..n + Len(us)
    BY <1>2
  <2>2. QED
    BY <2>1 DEF Written
<1>4. ASSUME NEW k \in 1..n PROVE Written(f, n, us)[k] = f[k]
  <2>1. k \in 1..n + Len(us) /\ k \notin n + 1 .. n + Len(us) /\ k <= Len(f)
    BY <1>1
  <2>2. QED
    BY <1>3, <2>1
<1>5. ASSUME NEW k \in 1..Len(us) PROVE Written(f, n, us)[n + k] = us[k]
  <2>1. n + k \in 1..n + Len(us) /\ n + k \in n + 1 .. n + Len(us) /\ (n + k) - n = k
    BY <1>1
  <2> HIDE DEF g
  <2>2. Written(f, n, us)[n + k] = g(n + k)
    BY <1>3, <2>1
  <2>3. QED
    BY <2>1, <2>2 DEF g
<1>6. QED
  BY <1>2, <1>4, <1>5

\* A handler that has received nothing yet of task i.
LEMMA NewHandler ==
  ASSUME NEW p \in HandlerPC, NEW i \in 0..Len(Tasks)
  PROVE  /\ Handler(p, i) \in Handlers /\ Handler(p, i).pc = p /\ Handler(p, i).i = i
         /\ Handler(p, i).append = FALSE /\ Handler(p, i).received = 0
         /\ Handler(p, i).pos = 0 /\ Handler(p, i).buf = <<>>
<1>1. 0 \in AnyOffset
  BY TaskFacts DEF AnyOffset
<1>2. Handler(p, i) \in Handlers
  BY <1>1 DEF Handler, Handlers
<1>3. QED
  BY <1>2 DEF Handler

\* A handler that has closed its connection, and one that begins with task i.
LEMMA FreshHandler ==
  /\ Closed \in Handlers /\ Closed.pc = "closed" /\ \A d : HandlerOK(Closed, d)
  /\ \A i \in DOMAIN Tasks :
       /\ Handler("offset", i) \in Handlers
       /\ Handler("offset", i).pc = "offset" /\ Handler("offset", i).i = i
       /\ \A d : HandlerOK(Handler("offset", i), d)
<1>1. 0 \in 0..Len(Tasks) /\ \A i \in DOMAIN Tasks : i \in 0..Len(Tasks)
  BY TaskFacts
<1>2. "closed" \in HandlerPC /\ "offset" \in HandlerPC
  BY DEF HandlerPC
<1>3. /\ Closed \in Handlers /\ Closed.pc = "closed" /\ \A d : HandlerOK(Closed, d)
  BY <1>1, <1>2, NewHandler DEF HandlerOK, Closed
<1>4. ASSUME NEW i \in DOMAIN Tasks
      PROVE  /\ Handler("offset", i) \in Handlers
             /\ Handler("offset", i).pc = "offset" /\ Handler("offset", i).i = i
             /\ \A d : HandlerOK(Handler("offset", i), d)
  <2> DEFINE w == Handler("offset", i)
  <2>1. i \in 0..Len(Tasks)
    BY <1>1
  <2>2. /\ w \in Handlers /\ w.pc = "offset" /\ w.i = i
        /\ w.append = FALSE /\ w.pos = 0 /\ w.buf = <<>>
    BY <1>2, <2>1, NewHandler, ZenonT(60)
  <2> HIDE DEF w
  <2>3. \A d : HandlerOK(w, d)
    BY <2>2 DEF HandlerOK
  <2>4. QED
    BY <2>2, <2>3 DEF w
<1>5. QED
  BY <1>3, <1>4

\* No handler.
LEMMA NoHandler ==
  /\ Handler("none", 0) \in Handlers /\ Handler("none", 0).pc = "none"
  /\ \A d : HandlerOK(Handler("none", 0), d)
<1> DEFINE w == Handler("none", 0)
<1>1. 0 \in 0..Len(Tasks)
  BY TaskFacts
<1>2. "none" \in HandlerPC
  BY DEF HandlerPC
<1>3. /\ w \in Handlers /\ w.pc = "none" /\ w.i = 0
      /\ w.append = FALSE /\ w.pos = 0 /\ w.buf = <<>>
  BY <1>1, <1>2, NewHandler, ZenonT(60)
<1> HIDE DEF w
<1>4. \A d : HandlerOK(w, d)
  BY <1>3 DEF HandlerOK
<1>5. QED
  BY <1>3, <1>4 DEF w

-----------------------------------------------------------------------------
(* The steps of the client keep the base of the invariant *)

\* Before the first session.
LEMMA InitBaseInv == Init => BaseInv
<1> SUFFICES ASSUME Init PROVE BaseInv
  OBVIOUS
<1>1. /\ cpc = "idle" /\ ci = 0 /\ sent = 0 /\ resume = FALSE /\ result = "none"
      /\ cprog = [i \in Files |-> NoFile] /\ session = 0
      /\ up = [s \in Sessions |-> <<>>] /\ down = [s \in Sessions |-> "none"]
      /\ link = [s \in Sessions |-> "none"] /\ serverUp = TRUE
      /\ worker = [s \in Sessions |-> Handler("none", 0)]
      /\ stored = [i \in DOMAIN Tasks |-> NoFile]
      /\ cuts = 0 /\ kills = 0 /\ errors = 0 /\ quiet = TRUE /\ mixed = FALSE
  BY DEF Init
<1> DEFINE w == Handler("none", 0)
<1>2. w \in Handlers /\ w.pc = "none" /\ HandlerOK(w, stored)
  BY NoHandler
<1>3. \A s \in Sessions : worker[s] = w
  BY <1>1
<1> HIDE DEF w
<1>4. TypeOK
  <2>1. /\ ci \in 0..Len(Tasks) /\ sent \in Sizes /\ session \in 0..MaxSessions
        /\ cuts \in 0..MaxCuts /\ kills \in 0..MaxKills /\ errors \in 0..MaxErrors
    BY <1>1, TaskFacts
  <2>2. /\ up \in [Sessions -> Seq(Tokens)] /\ down \in [Sessions -> {"none", "ACK", "NAK"}]
        /\ link \in [Sessions -> {"none", "open", "fin", "reset"}]
        /\ cprog \in [Files -> {NoFile, EmptyFile} \cup Sizes]
    BY <1>1
  <2>3. \A s \in Sessions :
          /\ worker[s].pc \in {"none", "header", "offset", "open", "reopen", "data", "closed"}
          /\ worker[s].i \in 0..Len(Tasks) /\ worker[s].append \in BOOLEAN
          /\ worker[s].received \in AnyOffset /\ worker[s].pos \in Nat
          /\ worker[s].buf \in Seq(Units)
    BY <1>2, <1>3 DEF Handlers, HandlerPC
  <2>4. \A i \in DOMAIN Tasks : stored[i] \in Seq(Units) \cup {NoFile, Dir}
    BY <1>1
  <2>5. QED
    BY <1>1, <2>1, <2>2, <2>3, <2>4 DEF TypeOK
<1>5. ServerInv
  <2>1. worker \in [Sessions -> Handlers] /\ stored \in [DOMAIN Tasks -> Content]
    BY <1>1, <1>2 DEF Content, w
  <2>2. \A i \in Files : stored[i] \in Seq(Units) \cup {NoFile}
    BY <1>1, TaskFacts
  <2>3. QED
    BY <1>1, <1>2, <1>3, <2>1, <2>2 DEF ServerInv
<1>6. ClientInv /\ QuietInv
  BY <1>1, <1>2, <1>3 DEF ClientInv, QuietInv, Active, SendingPC
<1>7. QED
  BY <1>4, <1>5, <1>6 DEF BaseInv

\* A step of the client leaves the server alone.
LEMMA ClientBaseInv ==
  ASSUME BaseInv,
         UNCHANGED <<resume, session, down, serverVars, cuts, errors, historyVars>>,
         cpc' \in {"idle", "offset", "data", "save", "saveWrite", "failSave", "failWrite", "ack"},
         ci' \in 0..Len(Tasks), sent' \in Sizes, result' \in {"none", "true", "false"},
         cprog' \in [Files -> {NoFile, EmptyFile} \cup Sizes], up' \in [Sessions -> Seq(Tokens)],
         link' \in [Sessions -> {"none", "open", "fin", "reset"}], kills' \in 0..MaxKills,
         ClientInv'
  PROVE  BaseInv'
<1> USE DEF serverVars, historyVars
<1>t. TypeOK /\ ServerInv /\ QuietInv
  BY DEF BaseInv
<1>1. TypeOK'
  BY <1>t DEF TypeOK
<1>2. ServerInv'
  BY <1>t DEF ServerInv
<1>3. QuietInv'
  BY <1>t DEF QuietInv, Active
<1>4. QED
  BY <1>1, <1>2, <1>3 DEF BaseInv

\* The stream after the client has sent a token.
LEMMA TransmitType ==
  ASSUME BaseInv, cpc # "idle", NEW t \in Tokens, Transmit(t)
  PROVE  up' \in [Sessions -> Seq(Tokens)]
<1>1. up \in [Sessions -> Seq(Tokens)] /\ session \in Sessions
  BY DEF BaseInv, TypeOK, ClientInv
<1>2. Append(up[session], t) \in Seq(Tokens)
  BY <1>1, AppendFacts
<1>3. QED
  BY <1>1, <1>2 DEF Transmit

\* The next task of the list, or the acknowledgement.
LEMMA NextTaskFacts ==
  ASSUME BaseInv, cpc # "idle", NextTask
  PROVE  /\ cpc' \in {"offset", "ack"} /\ ci' \in 0..Len(Tasks) /\ ci' \in DOMAIN Tasks
         /\ cpc' = "ack" => ci' = Len(Tasks)
<1>1. ci \in DOMAIN Tasks
  BY DEF BaseInv, ClientInv
<1>2. QED
  BY <1>1, TaskFacts DEF NextTask

\* The offset from which the client sends: that of the record, if there is more.
LEMMA ResumeOffsetFacts ==
  ASSUME BaseInv, ci \in Files
  PROVE  /\ ResumeOffset \in 0..FileSize(ci) /\ ResumeOffset \in Sizes
         /\ ~resume => ResumeOffset = 0
<1>1. FileSize(ci) \in Nat /\ \A n \in 0..FileSize(ci) : n \in Sizes
  BY TaskFacts
<1>2. ResumeOffset \in 0..FileSize(ci)
  BY <1>1 DEF ResumeOffset
<1>3. QED
  BY <1>1, <1>2 DEF ResumeOffset

\* Closing the connection.
LEMMA DisconnectType ==
  ASSUME BaseInv, Disconnect
  PROVE  link' \in [Sessions -> {"none", "open", "fin", "reset"}]
BY DEF BaseInv, TypeOK, Disconnect

\* The client's own steps.
LEMMA ClientStepBaseInv ==
  ASSUME BaseInv, ClientStep \/ KillClient
  PROVE  BaseInv'
<1> USE DEF netVars, budgetVars, clientVars
<1>t. TypeOK /\ ClientInv
  BY DEF BaseInv
<1>0. /\ cpc \in {"idle", "offset", "data", "save", "saveWrite", "failSave", "failWrite", "ack"}
      /\ ci \in 0..Len(Tasks) /\ sent \in Sizes /\ result \in {"none", "true", "false"}
      /\ cprog \in [Files -> {NoFile, EmptyFile} \cup Sizes] /\ up \in [Sessions -> Seq(Tokens)]
      /\ link \in [Sessions -> {"none", "open", "fin", "reset"}] /\ kills \in 0..MaxKills
  BY <1>t DEF TypeOK
<1>c. /\ cpc # "idle" => session \in Sessions /\ ci \in DOMAIN Tasks /\ result = "none"
      /\ cpc \in SendingPC => ci \in Files /\ sent <= FileSize(ci)
      /\ cpc = "ack" => ci = Len(Tasks)
  BY <1>t DEF ClientInv
<1>1. CASE SendOffset
  <2>1. /\ cpc = "offset"
        /\ UNCHANGED <<resume, cprog, result, session, down, link, serverVars, cuts, kills, errors,
                       historyVars>>
    BY <1>1 DEF SendOffset
  <2>2. CASE Tasks[ci] = Dir
    <3>1. Transmit(Offset(0)) /\ NextTask /\ UNCHANGED sent
      BY <1>1, <2>2 DEF SendOffset
    <3>2. up' \in [Sessions -> Seq(Tokens)]
      BY <2>1, <3>1, TransmitType, TokenFacts, TaskFacts
    <3>3. /\ cpc' \in {"offset", "ack"} /\ ci' \in 0..Len(Tasks) /\ ci' \in DOMAIN Tasks
          /\ cpc' = "ack" => ci' = Len(Tasks)
      BY <2>1, <3>1, NextTaskFacts
    <3>4. ClientInv'
      BY <1>c, <2>1, <3>3 DEF ClientInv, SendingPC
    <3>5. QED
      BY <1>0, <2>1, <3>1, <3>2, <3>3, <3>4, ClientBaseInv
  <2>3. CASE Tasks[ci] # Dir
    <3>1. Transmit(Offset(ResumeOffset)) /\ sent' = ResumeOffset /\ cpc' = "data" /\ UNCHANGED ci
      BY <1>1, <2>3 DEF SendOffset
    <3>2. ci \in Files
      BY <1>c, <2>1, <2>3, TaskFacts
    <3>3. ResumeOffset \in 0..FileSize(ci) /\ ResumeOffset \in Sizes /\ FileSize(ci) \in Nat
      BY <3>2, ResumeOffsetFacts, TaskFacts
    <3>4. up' \in [Sessions -> Seq(Tokens)]
      BY <2>1, <3>1, <3>3, TransmitType, TokenFacts
    <3>5. ClientInv'
      BY <1>c, <2>1, <3>1, <3>2, <3>3 DEF ClientInv, SendingPC
    <3>6. QED
      BY <1>0, <2>1, <3>1, <3>3, <3>4, <3>5, ClientBaseInv
  <2>4. QED
    BY <2>2, <2>3
<1>2. CASE SendBlock
  <2>1. /\ cpc = "data" /\ sent < FileSize(ci) /\ Transmit(Data(Tasks[ci][sent + 1]))
        /\ sent' = sent + 1 /\ cpc' = "save"
        /\ UNCHANGED <<ci, resume, cprog, result, session, down, link, serverVars, cuts, kills,
                       errors, historyVars>>
    BY <1>2 DEF SendBlock
  <2>2. /\ ci \in Files /\ FileSize(ci) \in Nat /\ sent \in Nat /\ Tasks[ci] \in Seq(Units)
        /\ \A n \in 0..FileSize(ci) : n \in Sizes
    BY <1>0, <1>c, <2>1, TaskFacts DEF SendingPC
  <2>3. sent + 1 \in 0..FileSize(ci) /\ sent + 1 \in 1..Len(Tasks[ci])
    BY <2>1, <2>2 DEF FileSize
  <2>4. Data(Tasks[ci][sent + 1]) \in Tokens
    BY <2>2, <2>3, TokenFacts
  <2>5. up' \in [Sessions -> Seq(Tokens)]
    BY <2>1, <2>4, TransmitType
  <2>6. ClientInv'
    BY <1>c, <2>1, <2>2, <2>3 DEF ClientInv, SendingPC
  <2>7. QED
    BY <1>0, <2>1, <2>2, <2>3, <2>5, <2>6, ClientBaseInv
<1>3. CASE SendFails
  <2>1. /\ cpc = "data" /\ cpc' = "failSave"
        /\ UNCHANGED <<ci, sent, resume, cprog, result, session, up, down, link, serverVars, cuts,
                       kills, errors, historyVars>>
    BY <1>3 DEF SendFails
  <2>2. ClientInv'
    BY <1>c, <2>1 DEF ClientInv, SendingPC
  <2>3. QED
    BY <1>0, <2>1, <2>2, ClientBaseInv
<1>4. CASE OpenProgress
  <2>1. /\ cpc \in {"save", "failSave"} /\ cpc' \in {"saveWrite", "failWrite"}
        /\ cprog' = IF LocalDirExists THEN [cprog EXCEPT ![ci] = EmptyFile] ELSE cprog
        /\ UNCHANGED <<ci, sent, resume, result, session, up, down, link, serverVars, cuts, kills,
                       errors, historyVars>>
    BY <1>4 DEF OpenProgress
  <2>2. cprog' \in [Files -> {NoFile, EmptyFile} \cup Sizes]
    BY <1>0, <2>1
  <2>3. ClientInv'
    BY <1>c, <2>1 DEF ClientInv, SendingPC
  <2>4. QED
    BY <1>0, <2>1, <2>2, <2>3, ClientBaseInv
<1>5. CASE WriteProgress
  <2>1. /\ cprog' = IF LocalDirExists THEN [cprog EXCEPT ![ci] = sent] ELSE cprog
        /\ UNCHANGED <<ci, sent, resume, session, up, down, serverVars, cuts, kills, errors,
                       historyVars>>
    BY <1>5 DEF WriteProgress
  <2>2. cprog' \in [Files -> {NoFile, EmptyFile} \cup Sizes]
    BY <1>0, <2>1
  <2>3. CASE cpc = "saveWrite" /\ cpc' = "data" /\ UNCHANGED <<result, link>>
    <3>1. ClientInv'
      BY <1>c, <2>1, <2>3 DEF ClientInv, SendingPC
    <3>2. QED
      BY <1>0, <2>1, <2>2, <2>3, <3>1, ClientBaseInv
  <2>4. CASE cpc = "failWrite" /\ cpc' = "idle" /\ result' = "false" /\ Disconnect
    <3>1. ClientInv'
      BY <2>4 DEF ClientInv, SendingPC
    <3>2. link' \in [Sessions -> {"none", "open", "fin", "reset"}]
      BY <2>4, DisconnectType
    <3>3. QED
      BY <1>0, <2>1, <2>2, <2>4, <3>1, <3>2, ClientBaseInv
  <2>5. QED
    BY <1>5, <2>3, <2>4 DEF WriteProgress
<1>6. CASE FileSent
  <2>1. /\ cpc = "data" /\ cprog' = [cprog EXCEPT ![ci] = NoFile] /\ NextTask
        /\ UNCHANGED <<sent, resume, result, session, up, down, link, serverVars, cuts, kills,
                       errors, historyVars>>
    BY <1>6 DEF FileSent
  <2>2. cprog' \in [Files -> {NoFile, EmptyFile} \cup Sizes]
    BY <1>0, <2>1
  <2>3. /\ cpc' \in {"offset", "ack"} /\ ci' \in 0..Len(Tasks) /\ ci' \in DOMAIN Tasks
        /\ cpc' = "ack" => ci' = Len(Tasks)
    BY <2>1, NextTaskFacts
  <2>4. ClientInv'
    BY <1>c, <2>1, <2>3 DEF ClientInv, SendingPC
  <2>5. QED
    BY <1>0, <2>1, <2>2, <2>3, <2>4, ClientBaseInv
<1>7. CASE ReceiveAck
  <2>1. /\ cpc' = "idle" /\ Disconnect /\ result' \in {"true", "false"}
        /\ UNCHANGED <<ci, sent, resume, cprog, session, up, down, serverVars, cuts, kills, errors,
                       historyVars>>
    BY <1>7 DEF ReceiveAck
  <2>2. ClientInv'
    BY <2>1 DEF ClientInv, SendingPC
  <2>3. link' \in [Sessions -> {"none", "open", "fin", "reset"}]
    BY <2>1, DisconnectType
  <2>4. QED
    BY <1>0, <2>1, <2>2, <2>3, ClientBaseInv
<1>8. CASE ClientPiped \/ KillClient
  <2>1. /\ cpc' = "idle" /\ Disconnect
        /\ UNCHANGED <<ci, sent, resume, cprog, result, session, up, down, serverVars, cuts, errors,
                       historyVars>>
    BY <1>8 DEF ClientPiped, KillClient, ClientDies
  <2>2. kills' \in 0..MaxKills
    BY <1>0, <1>8 DEF ClientPiped, KillClient
  <2>3. ClientInv'
    BY <2>1 DEF ClientInv, SendingPC
  <2>4. link' \in [Sessions -> {"none", "open", "fin", "reset"}]
    BY <2>1, DisconnectType
  <2>5. QED
    BY <1>0, <2>1, <2>2, <2>3, <2>4, ClientBaseInv
<1>9. QED
  BY <1>1, <1>2, <1>3, <1>4, <1>5, <1>6, <1>7, <1>8 DEF ClientStep

-----------------------------------------------------------------------------
(* The steps of the server and of the environment keep it, too *)

\* A new session gets a new handler.
LEMMA ConnectBaseInv ==
  ASSUME BaseInv, NEW r \in ResumeModes, Connect(r)
  PROVE  BaseInv'
<1> DEFINE n == session + 1
<1>t. TypeOK /\ ServerInv /\ QuietInv
  BY DEF BaseInv
<1>1. /\ cpc = "idle" /\ serverUp /\ session < MaxSessions /\ session' = n
      /\ cpc' = "offset" /\ ci' = 1 /\ sent' = 0 /\ resume' = r /\ result' = "none"
      /\ link' = [link EXCEPT ![n] = "open"] /\ up' = [up EXCEPT ![n] = <<Header>>]
      /\ worker' = [worker EXCEPT ![n].pc = "header"]
      /\ quiet' = (\A s \in 1..session : ~Active(s)) /\ mixed' = (mixed \/ ~quiet')
      /\ UNCHANGED <<cprog, down, serverUp, stored, cuts, kills, errors>>
  BY DEF Connect, budgetVars
<1>2. n \in Sessions /\ session \in Nat /\ n \in 0..MaxSessions
  BY <1>t, <1>1 DEF TypeOK, Sessions
<1>3. /\ worker \in [Sessions -> Handlers] /\ worker[n] \in Handlers
      /\ worker[n].pc = "none" /\ HandlerOK(worker[n], stored)
  BY <1>t, <1>2 DEF ServerInv
<1> DEFINE w == [worker[n] EXCEPT !.pc = "header"]
<1>4. w \in Handlers /\ w.pc = "header" /\ worker'[n] = w
  BY <1>1, <1>2, <1>3 DEF Handlers, HandlerPC
<1>5. /\ w.i = worker[n].i /\ w.append = worker[n].append /\ w.pos = worker[n].pos
      /\ w.buf = worker[n].buf
  BY <1>3 DEF Handlers
<1>6. \A s \in Sessions : s # n => worker'[s] = worker[s]
  BY <1>1, <1>3
<1>7. worker' \in [Sessions -> Handlers]
  BY <1>1, <1>2, <1>3, <1>4
<1> HIDE DEF w
<1>8. TypeOK'
  <2>1. ci' \in 0..Len(Tasks) /\ sent' \in Sizes /\ resume' \in BOOLEAN
    BY <1>1, TaskFacts
  <2>2. /\ up' \in [Sessions -> Seq(Tokens)]
        /\ link' \in [Sessions -> {"none", "open", "fin", "reset"}]
    <3>1. <<Header>> \in Seq(Tokens)
      BY TokenFacts
    <3>2. QED
      BY <1>t, <1>1, <1>2, <3>1 DEF TypeOK
  <2>3. \A s \in Sessions :
          /\ worker'[s].pc \in {"none", "header", "offset", "open", "reopen", "data", "closed"}
          /\ worker'[s].i \in 0..Len(Tasks) /\ worker'[s].append \in BOOLEAN
          /\ worker'[s].received \in AnyOffset /\ worker'[s].pos \in Nat
          /\ worker'[s].buf \in Seq(Units)
    BY <1>7 DEF Handlers, HandlerPC
  <2>4. quiet' \in BOOLEAN /\ mixed' \in BOOLEAN
    BY <1>1
  <2>5. QED
    BY <1>t, <1>1, <1>2, <2>1, <2>2, <2>3, <2>4 DEF TypeOK
<1>9. ClientInv'
  BY <1>1, <1>2, TaskFacts DEF ClientInv, SendingPC
<1>10. ServerInv'
  <2>1. HandlerOK(w, stored)
    BY <1>3, <1>4, <1>5 DEF HandlerOK
  <2>2. \A s \in Sessions : HandlerOK(worker'[s], stored)
    BY <1>t, <1>4, <1>6, <2>1 DEF ServerInv
  <2>3. \A s \in Sessions : s > n => worker'[s].pc = "none" /\ down[s] = "none"
    BY <1>t, <1>2, <1>6 DEF ServerInv, Sessions
  <2>4. QED
    BY <1>t, <1>1, <1>7, <2>2, <2>3 DEF ServerInv
<1>11. QuietInv'
  <2>1. ~mixed' => quiet'
    BY <1>1
  <2>2. ASSUME quiet', NEW s \in Sessions, s # n PROVE ~Active(s)'
    <3>1. CASE s \in 1..session
      BY <1>1, <1>6, <2>2, <3>1 DEF Active
    <3>2. CASE s \notin 1..session
      <4>1. s > session
        BY <1>2, <3>2 DEF Sessions
      <4>2. QED
        BY <1>t, <1>6, <2>2, <4>1 DEF ServerInv, Active
    <3>3. QED
      BY <3>1, <3>2
  <2>3. QED
    BY <1>1, <2>1, <2>2 DEF QuietInv
<1>12. QED
  BY <1>8, <1>9, <1>10, <1>11 DEF BaseInv

\* Errors, cuts, kills and restarts that leave the handlers alone.
LEMMA EnvironmentBaseInv ==
  ASSUME BaseInv,
         ConnectFails \/ RestartServer \/ (\E s \in Sessions : CutLink(s)) \/ UNCHANGED vars
  PROVE  BaseInv'
<1> USE DEF vars, clientVars, netVars, serverVars, budgetVars, historyVars
<1>t. TypeOK /\ ClientInv /\ ServerInv /\ QuietInv
  BY DEF BaseInv
<1>1. CASE ConnectFails
  <2>1. TypeOK'
    BY <1>t, <1>1 DEF ConnectFails, TypeOK
  <2>2. ClientInv'
    BY <1>t, <1>1 DEF ConnectFails, ClientInv, SendingPC
  <2>3. ServerInv' /\ QuietInv'
    BY <1>t, <1>1 DEF ConnectFails, ServerInv, QuietInv, Active
  <2>4. QED
    BY <2>1, <2>2, <2>3 DEF BaseInv
<1>2. CASE RestartServer
  <2>1. TypeOK'
    BY <1>t, <1>2 DEF RestartServer, TypeOK
  <2>2. ClientInv' /\ ServerInv' /\ QuietInv'
    BY <1>t, <1>2 DEF RestartServer, ClientInv, ServerInv, QuietInv, Active
  <2>3. QED
    BY <2>1, <2>2 DEF BaseInv
<1>3. ASSUME NEW s \in Sessions, CutLink(s) PROVE BaseInv'
  <2>1. /\ cuts < MaxCuts /\ cuts' = cuts + 1 /\ link' = [link EXCEPT ![s] = "reset"]
        /\ UNCHANGED <<cpc, ci, sent, resume, cprog, result, session, serverUp, worker, stored,
                       kills, errors, quiet, mixed>>
    BY <1>3 DEF CutLink
  <2>2. PICK n \in 0..Len(up[s]) : up' = [up EXCEPT ![s] = SubSeq(@, 1, n)]
    BY <1>3 DEF CutLink
  <2>3. PICK a \in {down[s], "none"} : down' = [down EXCEPT ![s] = a]
    BY <1>3 DEF CutLink
  <2>4. up' \in [Sessions -> Seq(Tokens)]
    BY <1>t, <2>2 DEF TypeOK
  <2>5. /\ down' \in [Sessions -> {"none", "ACK", "NAK"}]
        /\ link' \in [Sessions -> {"none", "open", "fin", "reset"}] /\ cuts' \in 0..MaxCuts
    BY <1>t, <2>1, <2>3 DEF TypeOK
  <2>6. TypeOK'
    BY <1>t, <2>1, <2>4, <2>5 DEF TypeOK
  <2>7. \A t \in Sessions : down'[t] \in {down[t], "none"}
    BY <1>t, <2>3 DEF TypeOK
  <2>8. ClientInv' /\ QuietInv'
    BY <1>t, <2>1 DEF ClientInv, QuietInv, Active
  <2>9. ServerInv'
    BY <1>t, <2>1, <2>7 DEF ServerInv
  <2>10. QED
    BY <2>6, <2>8, <2>9 DEF BaseInv
<1>4. CASE UNCHANGED vars
  BY <1>t, <1>4 DEF BaseInv, TypeOK, ClientInv, ServerInv, QuietInv, Active
<1>5. QED
  BY <1>1, <1>2, <1>3, <1>4

\* A step of the handler of session s, which becomes w.
LEMMA HandlerBaseInv ==
  ASSUME BaseInv, NEW s \in Sessions, Active(s), NEW w \in Handlers, w.pc # "none",
         worker' = [worker EXCEPT ![s] = w], HandlerOK(w, stored'),
         stored' \in [DOMAIN Tasks -> Content],
         \A i \in Files : stored'[i] = stored[i] \/ stored'[i] \in Seq(Units),
         up' \in [Sessions -> Seq(Tokens)], down' \in [Sessions -> {"none", "ACK", "NAK"}],
         \A t \in Sessions : t # s => down'[t] = down[t],
         errors' \in 0..MaxErrors, mixed' \in BOOLEAN, mixed => mixed',
         UNCHANGED <<clientVars, session, link, serverUp, cuts, kills, quiet>>
  PROVE  BaseInv'
<1> USE DEF clientVars
<1>t. TypeOK /\ ClientInv /\ ServerInv /\ QuietInv
  BY DEF BaseInv
<1>1. worker' \in [Sessions -> Handlers] /\ worker'[s] = w
  BY <1>t DEF ServerInv
<1>2. \A t \in Sessions : t # s => worker'[t] = worker[t]
  BY <1>t DEF ServerInv
<1>3. ~(s > session)
  BY <1>t DEF ServerInv, Active
<1>4. TypeOK'
  <2>1. \A t \in Sessions :
          /\ worker'[t].pc \in {"none", "header", "offset", "open", "reopen", "data", "closed"}
          /\ worker'[t].i \in 0..Len(Tasks) /\ worker'[t].append \in BOOLEAN
          /\ worker'[t].received \in AnyOffset /\ worker'[t].pos \in Nat
          /\ worker'[t].buf \in Seq(Units)
    BY <1>1 DEF Handlers, HandlerPC
  <2>2. \A i \in DOMAIN Tasks : stored'[i] \in Seq(Units) \cup {NoFile, Dir}
    BY DEF Content
  <2>3. QED
    BY <1>t, <2>1, <2>2 DEF TypeOK
<1>5. ClientInv'
  BY <1>t DEF ClientInv
<1>6. ServerInv'
  <2>1. \A i \in Files : stored'[i] \in Seq(Units) \cup {NoFile}
    BY <1>t DEF ServerInv
  <2>2. ASSUME NEW t \in Sessions PROVE HandlerOK(worker'[t], stored')
    <3>1. CASE t = s
      BY <1>1, <3>1
    <3>2. CASE t # s
      <4>1. HandlerOK(worker[t], stored)
        BY <1>t DEF ServerInv
      <4>2. HandlerOK(worker[t], stored')
        BY <4>1 DEF HandlerOK
      <4>3. QED
        BY <1>2, <3>2, <4>2
    <3>3. QED
      BY <3>1, <3>2
  <2>3. \A t \in Sessions : t > session => worker'[t].pc = "none" /\ down'[t] = "none"
    BY <1>t, <1>2, <1>3 DEF ServerInv
  <2>4. QED
    BY <1>1, <2>1, <2>2, <2>3 DEF ServerInv
<1>7. QuietInv'
  <2>1. ~mixed' => quiet
    BY <1>t DEF QuietInv
  <2>2. ASSUME quiet, NEW t \in Sessions, t # session PROVE ~Active(t)'
    <3>1. t # s
      BY <1>t, <2>2 DEF QuietInv
    <3>2. QED
      BY <1>t, <1>2, <2>2, <3>1 DEF QuietInv, Active
  <2>3. QED
    BY <2>1, <2>2 DEF QuietInv
<1>8. QED
  BY <1>4, <1>5, <1>6, <1>7 DEF BaseInv

\* What is known of a handler at work.
LEMMA HandlerFacts ==
  ASSUME BaseInv, NEW s \in Sessions
  PROVE  /\ worker[s] \in Handlers /\ HandlerOK(worker[s], stored)
         /\ worker[s].i \in 0..Len(Tasks) /\ worker[s].received \in AnyOffset
         /\ worker[s].received \in Int /\ worker[s].pos \in Nat
         /\ worker[s].buf \in Seq(Units) /\ Len(worker[s].buf) \in Nat
         /\ up[s] \in Seq(Tokens)
<1>1. worker[s] \in Handlers /\ HandlerOK(worker[s], stored)
  BY DEF BaseInv, ServerInv
<1>2. /\ worker[s].i \in 0..Len(Tasks) /\ worker[s].received \in AnyOffset
      /\ worker[s].pos \in Nat /\ worker[s].buf \in Seq(Units)
  BY <1>1 DEF Handlers
<1>3. worker[s].received \in Int /\ Len(worker[s].buf) \in Nat
  <2>1. AnyOffset \subseteq Int
    BY TaskFacts
  <2>2. worker[s].received \in Int
    BY <1>2, <2>1
  <2>3. Len(worker[s].buf) \in Nat
    BY <1>2
  <2>4. QED
    BY <2>2, <2>3
<1>4. up[s] \in Seq(Tokens)
  BY DEF BaseInv, TypeOK
<1>5. QED
  BY <1>1, <1>2, <1>3, <1>4

\* Reading a token from the stream.
LEMMA ReadType ==
  ASSUME BaseInv, NEW s \in Sessions, Read(s)
  PROVE  up' \in [Sessions -> Seq(Tokens)] /\ up[s] # <<>> /\ Head(up[s]) \in Tokens
<1>1. up \in [Sessions -> Seq(Tokens)] /\ up[s] # <<>> /\ up' = [up EXCEPT ![s] = Tail(@)]
  BY DEF BaseInv, TypeOK, Read
<1>2. Head(up[s]) \in Tokens /\ Tail(up[s]) \in Seq(Tokens)
  BY <1>1, HeadTail
<1>3. QED
  BY <1>1, <1>2

\* The end of a task: the next one, or the acknowledgement and the end.
LEMMA TaskDoneFacts ==
  ASSUME BaseInv, NEW s \in Sessions, worker[s].i \in DOMAIN Tasks, TaskDone(s)
  PROVE  \/ /\ worker[s].i = Len(Tasks)
            /\ worker' = [worker EXCEPT ![s] = Closed]
            /\ down' = [down EXCEPT ![s] = IF link[s] = "reset" THEN @ ELSE "ACK"]
         \/ /\ worker[s].i + 1 \in DOMAIN Tasks
            /\ worker' = [worker EXCEPT ![s] = Handler("offset", worker[s].i + 1)]
            /\ UNCHANGED down
BY TaskFacts DEF TaskDone, Becomes

\* Ending a task keeps the base of the invariant, if what the step has stored fits.
LEMMA TaskDoneBaseInv ==
  ASSUME BaseInv, NEW s \in Sessions, Active(s), worker[s].i \in DOMAIN Tasks, TaskDone(s),
         stored' \in [DOMAIN Tasks -> Content],
         \A i \in Files : stored'[i] = stored[i], up' \in [Sessions -> Seq(Tokens)],
         UNCHANGED <<clientVars, session, link, serverUp, budgetVars, historyVars>>
  PROVE  BaseInv'
<1> USE DEF budgetVars, historyVars
<1>t. /\ errors \in 0..MaxErrors /\ mixed \in BOOLEAN
      /\ down \in [Sessions -> {"none", "ACK", "NAK"}]
  BY DEF BaseInv, TypeOK
<1>1. PICK w \in Handlers : /\ w.pc # "none" /\ worker' = [worker EXCEPT ![s] = w]
                            /\ HandlerOK(w, stored')
  <2>1. CASE worker' = [worker EXCEPT ![s] = Closed]
    <3> DEFINE w == Closed
    <3>1. w \in Handlers /\ w.pc = "closed" /\ HandlerOK(w, stored')
      BY FreshHandler
    <3> HIDE DEF w
    <3>2. QED
      BY <2>1, <3>1 DEF w
  <2>2. CASE /\ worker[s].i + 1 \in DOMAIN Tasks
             /\ worker' = [worker EXCEPT ![s] = Handler("offset", worker[s].i + 1)]
    <3> DEFINE w == Handler("offset", worker[s].i + 1)
    <3>1. w \in Handlers /\ w.pc = "offset" /\ HandlerOK(w, stored')
      BY <2>2, FreshHandler
    <3>2. worker' = [worker EXCEPT ![s] = w]
      BY <2>2
    <3> HIDE DEF w
    <3>3. QED
      BY <3>1, <3>2
  <2>3. QED
    BY <2>1, <2>2, TaskDoneFacts
<1>2. /\ down' \in [Sessions -> {"none", "ACK", "NAK"}]
      /\ \A t \in Sessions : t # s => down'[t] = down[t]
  BY <1>t, TaskDoneFacts
<1>3. errors' \in 0..MaxErrors /\ mixed' \in BOOLEAN /\ (mixed => mixed')
  BY <1>t
<1>4. QED
  BY <1>1, <1>2, <1>3, HandlerBaseInv

\* Closing the connection with a negative acknowledgement keeps it.
LEMMA RefuseBaseInv ==
  ASSUME BaseInv, NEW s \in Sessions, Active(s), Refuse(s), errors' \in 0..MaxErrors,
         stored' \in [DOMAIN Tasks -> Content],
         \A i \in Files : stored'[i] = stored[i] \/ stored'[i] \in Seq(Units),
         UNCHANGED <<clientVars, session, link, serverUp, cuts, kills, historyVars>>
  PROVE  BaseInv'
<1> USE DEF historyVars
<1>t. /\ mixed \in BOOLEAN /\ up \in [Sessions -> Seq(Tokens)]
      /\ down \in [Sessions -> {"none", "ACK", "NAK"}]
  BY DEF BaseInv, TypeOK
<1>1. /\ down' = [down EXCEPT ![s] = "NAK"] /\ up' = [up EXCEPT ![s] = <<>>]
      /\ worker' = [worker EXCEPT ![s] = Closed]
  BY DEF Refuse, Becomes
<1>2. /\ down' \in [Sessions -> {"none", "ACK", "NAK"}] /\ up' \in [Sessions -> Seq(Tokens)]
      /\ \A t \in Sessions : t # s => down'[t] = down[t]
  BY <1>t, <1>1
<1>3. mixed' \in BOOLEAN /\ (mixed => mixed')
  BY <1>t
<1>4. QED
  BY <1>1, <1>2, <1>3, FreshHandler, HandlerBaseInv

\* The end of the server's process.
LEMMA ServerDiesBaseInv ==
  ASSUME BaseInv, ServerDies, kills' \in 0..MaxKills,
         UNCHANGED <<clientVars, session, down, stored, cuts, errors, historyVars>>
  PROVE  BaseInv'
<1> USE DEF clientVars, historyVars
<1> DEFINE c == Closed
<1>t. TypeOK /\ ClientInv /\ ServerInv /\ QuietInv
  BY DEF BaseInv
<1>c. c \in Handlers /\ c.pc = "closed" /\ HandlerOK(c, stored)
  BY FreshHandler
<1> HIDE DEF c
<1>1. /\ serverUp' = FALSE
      /\ worker' = [s \in Sessions |-> IF Active(s) THEN c ELSE worker[s]]
      /\ link' = [s \in Sessions |-> IF Active(s) THEN "reset" ELSE link[s]]
      /\ up' = [s \in Sessions |-> IF Active(s) THEN <<>> ELSE up[s]]
  BY DEF ServerDies, c
<1>2. \A s \in Sessions : worker'[s] = (IF Active(s) THEN c ELSE worker[s])
  BY <1>1
<1>3. worker' \in [Sessions -> Handlers]
  BY <1>t, <1>c, <1>1 DEF ServerInv
<1>4. TypeOK'
  <2>1. \A t \in Sessions :
          /\ worker'[t].pc \in {"none", "header", "offset", "open", "reopen", "data", "closed"}
          /\ worker'[t].i \in 0..Len(Tasks) /\ worker'[t].append \in BOOLEAN
          /\ worker'[t].received \in AnyOffset /\ worker'[t].pos \in Nat
          /\ worker'[t].buf \in Seq(Units)
    BY <1>3 DEF Handlers, HandlerPC
  <2>2. up' \in [Sessions -> Seq(Tokens)]
    BY <1>t, <1>1 DEF TypeOK
  <2>3. link' \in [Sessions -> {"none", "open", "fin", "reset"}]
    BY <1>t, <1>1 DEF TypeOK
  <2>4. QED
    BY <1>t, <1>1, <2>1, <2>2, <2>3 DEF TypeOK
<1>5. ClientInv'
  BY <1>t DEF ClientInv
<1>6. ServerInv'
  <2>1. \A s \in Sessions : HandlerOK(worker'[s], stored)
    BY <1>t, <1>c, <1>2 DEF ServerInv
  <2>2. \A s \in Sessions : s > session => worker'[s].pc = "none" /\ down[s] = "none"
    BY <1>t, <1>2 DEF ServerInv, Active
  <2>3. QED
    BY <1>t, <1>3, <2>1, <2>2 DEF ServerInv
<1>7. QuietInv'
  BY <1>t, <1>c, <1>2 DEF QuietInv, Active
<1>8. QED
  BY <1>4, <1>5, <1>6, <1>7 DEF BaseInv

\* The parts of bytesToReceive that matter: what is read stays within the file.
LEMMA WantedFacts ==
  ASSUME BaseInv, NEW s \in Sessions, worker[s].i \in Files
  PROVE  /\ Wanted(s) \in Int /\ Wanted(s) <= FileSize(worker[s].i) - worker[s].received
         /\ FileSize(worker[s].i) \in Nat
<1>1. FileSize(worker[s].i) \in Nat
  BY TaskFacts
<1>2. worker[s].received \in Int
  BY HandlerFacts
<1> DEFINE a == FileSize(worker[s].i) - worker[s].received
<1>3. a \in Int /\ ServerBuffer \in Int
  BY <1>1, <1>2
<1>4. Wanted(s) = Min({ServerBuffer, a})
  BY DEF Wanted
<1> HIDE DEF a
<1>5. Wanted(s) = IF ServerBuffer <= a THEN ServerBuffer ELSE a
  BY <1>3, <1>4, MinOfTwo
<1>6. Wanted(s) \in Int /\ Wanted(s) <= a
  BY <1>3, <1>5
<1>7. QED
  BY <1>1, <1>6 DEF a

\* Storing something at the path of a handler's file.
LEMMA StoreFacts ==
  ASSUME BaseInv, NEW s \in Sessions, worker[s].i \in Files, NEW f \in Seq(Units), Store(s, f)
  PROVE  /\ stored' \in [DOMAIN Tasks -> Content] /\ stored'[worker[s].i] = f
         /\ \A i \in Files : stored'[i] = stored[i] \/ stored'[i] \in Seq(Units)
         /\ \A i \in DOMAIN Tasks : i # worker[s].i => stored'[i] = stored[i]
<1>1. stored \in [DOMAIN Tasks -> Content] /\ worker[s].i \in DOMAIN Tasks
  BY TaskFacts DEF BaseInv, ServerInv
<1>2. stored' = [stored EXCEPT ![worker[s].i] = f] /\ f \in Content
  BY DEF Store, Content
<1>3. QED
  BY <1>1, <1>2, TaskFacts

\* The handler reads the metadata, or the offset of a file.
LEMMA ReadBaseInv ==
  ASSUME BaseInv, NEW s \in Sessions, ReadHeader(s) \/ ReadOffset(s)
  PROVE  BaseInv'
<1> USE DEF clientVars, budgetVars, historyVars, At
<1>t. /\ errors \in 0..MaxErrors /\ mixed \in BOOLEAN
      /\ down \in [Sessions -> {"none", "ACK", "NAK"}] /\ stored \in [DOMAIN Tasks -> Content]
  BY DEF BaseInv, TypeOK, ServerInv
<1>w. worker[s] \in Handlers /\ HandlerOK(worker[s], stored)
  BY HandlerFacts
<1>1. /\ Active(s) /\ Read(s)
      /\ UNCHANGED <<clientVars, session, link, serverUp, budgetVars, historyVars>>
  BY DEF ReadHeader, ReadOffset, Active
<1>2. up' \in [Sessions -> Seq(Tokens)] /\ Head(up[s]) \in Tokens
  BY <1>1, ReadType
<1>3. errors' \in 0..MaxErrors /\ mixed' \in BOOLEAN /\ (mixed => mixed')
  BY <1>t, <1>1
<1>4. CASE ReadHeader(s)
  <2> DEFINE w == [worker[s] EXCEPT !.pc = "offset", !.i = 1]
  <2>1. worker' = [worker EXCEPT ![s] = w] /\ UNCHANGED <<down, stored>> /\ worker[s].pc = "header"
    BY <1>4 DEF ReadHeader, Becomes
  <2>2. w \in Handlers /\ w.pc = "offset" /\ w.i = 1
    <3>1. 1 \in 0..Len(Tasks)
      BY TaskFacts
    <3>2. QED
      BY <1>w, <3>1 DEF Handlers, HandlerPC
  <2>3. w.append = worker[s].append /\ w.pos = worker[s].pos /\ w.buf = worker[s].buf
    BY <1>w DEF Handlers
  <2> HIDE DEF w
  <2>4. HandlerOK(w, stored')
    BY <1>w, <2>1, <2>2, <2>3, TaskFacts DEF HandlerOK
  <2>5. \A t \in Sessions : t # s => down'[t] = down[t]
    BY <2>1
  <2>6. QED
    BY <1>t, <1>1, <1>2, <1>3, <2>1, <2>2, <2>4, <2>5, HandlerBaseInv
<1>5. CASE ReadOffset(s)
  <2>1. worker[s].pc = "offset" /\ worker[s].i \in DOMAIN Tasks
    BY <1>5, <1>w DEF ReadOffset, HandlerOK
  <2>2. CASE Tasks[worker[s].i] = Dir
    <3>1. stored' = [stored EXCEPT ![worker[s].i] = Dir] /\ TaskDone(s)
      BY <1>5, <2>2 DEF ReadOffset
    <3>2. stored' \in [DOMAIN Tasks -> Content]
      BY <1>t, <3>1 DEF Content
    <3>3. \A i \in Files : stored'[i] = stored[i]
      BY <1>t, <2>2, <3>1, TaskFacts
    <3>4. QED
      BY <1>1, <1>2, <2>1, <3>1, <3>2, <3>3, TaskDoneBaseInv
  <2>3. CASE Tasks[worker[s].i] # Dir
    <3>1. PICK n \in OffsetRead(s) :
            worker' = [worker EXCEPT ![s] = [worker[s] EXCEPT !.pc = "open", !.received = n]]
      BY <1>5, <2>3 DEF ReadOffset, Becomes
    <3>2. UNCHANGED <<stored, down>>
      BY <1>5, <2>3 DEF ReadOffset
    <3>3. n \in AnyOffset
      <4>1. CASE Head(up[s]).kind = "offset"
        <5>1. n = Head(up[s]).n
          BY <3>1, <4>1 DEF OffsetRead
        <5>2. PICK m \in Sizes : Head(up[s]) = Offset(m)
          BY <1>2, <4>1 DEF Tokens, Header, Data
        <5>3. QED
          BY <5>1, <5>2 DEF Offset, AnyOffset
      <4>2. CASE Head(up[s]).kind # "offset"
        BY <3>1, <4>2 DEF OffsetRead
      <4>3. QED
        BY <4>1, <4>2
    <3> DEFINE w == [worker[s] EXCEPT !.pc = "open", !.received = n]
    <3>4. w \in Handlers /\ w.pc = "open" /\ w.i = worker[s].i
      BY <1>w, <3>3 DEF Handlers, HandlerPC
    <3>5. w.append = worker[s].append /\ w.pos = worker[s].pos /\ w.buf = worker[s].buf
      BY <1>w DEF Handlers
    <3>6. worker' = [worker EXCEPT ![s] = w]
      BY <3>1
    <3> HIDE DEF w
    <3>7. HandlerOK(w, stored')
      BY <1>w, <2>1, <2>3, <3>2, <3>4, <3>5, TaskFacts DEF HandlerOK
    <3>8. \A t \in Sessions : t # s => down'[t] = down[t]
      BY <3>2
    <3>9. QED
      BY <1>t, <1>1, <1>2, <1>3, <3>2, <3>4, <3>6, <3>7, <3>8, HandlerBaseInv
  <2>4. QED
    BY <2>2, <2>3
<1>6. QED
  BY <1>4, <1>5

\* The handler opens the file, with or without O_TRUNC, or again.
LEMMA OpenBaseInv ==
  ASSUME BaseInv, NEW s \in Sessions, OpenFile(s) \/ Reopen(s)
  PROVE  BaseInv'
<1> USE DEF clientVars, netVars, budgetVars, historyVars, At
<1>t. /\ errors \in 0..MaxErrors /\ mixed \in BOOLEAN /\ up \in [Sessions -> Seq(Tokens)]
      /\ down \in [Sessions -> {"none", "ACK", "NAK"}]
  BY DEF BaseInv, TypeOK
<1>w. worker[s] \in Handlers /\ HandlerOK(worker[s], stored)
  BY HandlerFacts
<1>1. /\ worker[s].pc \in {"open", "reopen"}
      /\ UNCHANGED <<clientVars, netVars, serverUp, budgetVars, quiet>>
  BY DEF OpenFile, Reopen
<1>2. /\ Active(s) /\ worker[s].i \in Files /\ worker[s].append = FALSE /\ worker[s].pos = 0
      /\ worker[s].buf = <<>>
  BY <1>w, <1>1 DEF Active, HandlerOK
<1>3. stored[worker[s].i] \in Seq(Units) \cup {NoFile} /\ <<>> \in Seq(Units)
  BY <1>2 DEF BaseInv, ServerInv
<1>4. \E f \in Seq(Units) : Store(s, f)
  <2>1. CASE Store(s, <<>>)
    BY <1>3, <2>1
  <2>2. CASE Store(s, IF Stored(s) = NoFile THEN <<>> ELSE Stored(s))
    BY <1>3, <2>2 DEF Stored
  <2>3. QED
    BY <2>1, <2>2 DEF OpenFile, Reopen
<1>5. /\ stored' \in [DOMAIN Tasks -> Content] /\ stored'[worker[s].i] \in Seq(Units)
      /\ \A i \in Files : stored'[i] = stored[i] \/ stored'[i] \in Seq(Units)
  BY <1>2, <1>4, StoreFacts
<1>6. mixed' \in BOOLEAN /\ (mixed => mixed')
  BY <1>t DEF OpenFile, Reopen
<1>7. 0 \in AnyOffset
  BY TaskFacts DEF AnyOffset
<1>8. PICK w \in Handlers : /\ worker' = [worker EXCEPT ![s] = w] /\ w.pc \in {"data", "reopen"}
                            /\ w.i = worker[s].i /\ w.buf = <<>> /\ w.pos = 0
                            /\ w.pc = "reopen" => w.append = FALSE
  <2>1. CASE Becomes(s, [worker[s] EXCEPT !.pc = "data"])
    <3> DEFINE w == [worker[s] EXCEPT !.pc = "data"]
    <3>1. w \in Handlers
      BY <1>w DEF Handlers, HandlerPC
    <3>2. w.pc = "data" /\ w.i = worker[s].i /\ w.buf = worker[s].buf /\ w.pos = worker[s].pos
      BY <1>w DEF Handlers
    <3>3. worker' = [worker EXCEPT ![s] = w]
      BY <2>1 DEF Becomes
    <3> HIDE DEF w
    <3>4. QED
      BY <1>2, <3>1, <3>2, <3>3
  <2>2. CASE Becomes(s, [worker[s] EXCEPT !.pc = "data", !.append = TRUE])
    <3> DEFINE w == [worker[s] EXCEPT !.pc = "data", !.append = TRUE]
    <3>1. w \in Handlers
      BY <1>w DEF Handlers, HandlerPC
    <3>2. w.pc = "data" /\ w.i = worker[s].i /\ w.buf = worker[s].buf /\ w.pos = worker[s].pos
      BY <1>w DEF Handlers
    <3>3. worker' = [worker EXCEPT ![s] = w]
      BY <2>2 DEF Becomes
    <3> HIDE DEF w
    <3>4. QED
      BY <1>2, <3>1, <3>2, <3>3
  <2>3. CASE Becomes(s, [worker[s] EXCEPT !.pc = "reopen"])
    <3> DEFINE w == [worker[s] EXCEPT !.pc = "reopen"]
    <3>1. w \in Handlers
      BY <1>w DEF Handlers, HandlerPC
    <3>2. w.pc = "reopen" /\ w.i = worker[s].i /\ w.buf = worker[s].buf /\ w.pos = worker[s].pos
      BY <1>w DEF Handlers
    <3>3. w.append = worker[s].append
      BY <1>w DEF Handlers
    <3>4. worker' = [worker EXCEPT ![s] = w]
      BY <2>3 DEF Becomes
    <3> HIDE DEF w
    <3>5. QED
      BY <1>2, <3>1, <3>2, <3>3, <3>4
  <2>4. CASE Becomes(s, [worker[s] EXCEPT !.pc = "data", !.received = 0])
    <3> DEFINE w == [worker[s] EXCEPT !.pc = "data", !.received = 0]
    <3>1. w \in Handlers
      BY <1>w, <1>7 DEF Handlers, HandlerPC
    <3>2. w.pc = "data" /\ w.i = worker[s].i /\ w.buf = worker[s].buf /\ w.pos = worker[s].pos
      BY <1>w DEF Handlers
    <3>3. worker' = [worker EXCEPT ![s] = w]
      BY <2>4 DEF Becomes
    <3> HIDE DEF w
    <3>4. QED
      BY <1>2, <3>1, <3>2, <3>3
  <2>5. QED
    BY <2>1, <2>2, <2>3, <2>4 DEF OpenFile, Reopen
<1>9. HandlerOK(w, stored')
  BY <1>2, <1>5, <1>8 DEF HandlerOK
<1>10. /\ up' \in [Sessions -> Seq(Tokens)] /\ down' \in [Sessions -> {"none", "ACK", "NAK"}]
       /\ errors' \in 0..MaxErrors /\ \A t \in Sessions : t # s => down'[t] = down[t]
  BY <1>t, <1>1
<1>11. QED
  BY <1>1, <1>2, <1>5, <1>6, <1>8, <1>9, <1>10, HandlerBaseInv

\* The file after the handler has written some first part of its buffer.
LEMMA WriteFacts ==
  ASSUME BaseInv, NEW s \in Sessions, worker[s].pc = "data", NEW us \in Seq(Units),
         Store(s, Written(Stored(s), Position(s), us))
  PROVE  /\ worker[s].i \in Files /\ Stored(s) \in Seq(Units) /\ Position(s) \in Nat
         /\ Written(Stored(s), Position(s), us) \in Seq(Units)
         /\ stored' \in [DOMAIN Tasks -> Content]
         /\ stored'[worker[s].i] = Written(Stored(s), Position(s), us)
         /\ \A i \in Files : stored'[i] = stored[i] \/ stored'[i] \in Seq(Units)
         /\ \A i \in DOMAIN Tasks : i # worker[s].i => stored'[i] = stored[i]
<1>1. worker[s].i \in Files /\ Stored(s) \in Seq(Units) /\ worker[s].pos \in Nat
  BY HandlerFacts DEF HandlerOK, Stored
<1>2. Position(s) \in Nat
  BY <1>1 DEF Position
<1>3. Written(Stored(s), Position(s), us) \in Seq(Units)
  BY <1>1, <1>2, WrittenFacts
<1>4. QED
  BY <1>1, <1>2, <1>3, StoreFacts

\* The handler reads into its buffer and writes the buffer.
LEMMA DataBaseInv ==
  ASSUME BaseInv, NEW s \in Sessions, ReadData(s) \/ WriteData(s)
  PROVE  BaseInv'
<1> USE DEF clientVars, netVars, budgetVars, historyVars, At
<1>t. /\ errors \in 0..MaxErrors /\ mixed \in BOOLEAN /\ up \in [Sessions -> Seq(Tokens)]
      /\ down \in [Sessions -> {"none", "ACK", "NAK"}] /\ stored \in [DOMAIN Tasks -> Content]
  BY DEF BaseInv, TypeOK, ServerInv
<1>w. /\ worker[s] \in Handlers /\ HandlerOK(worker[s], stored)
      /\ worker[s].received \in AnyOffset /\ worker[s].received \in Int /\ worker[s].pos \in Nat
      /\ worker[s].buf \in Seq(Units) /\ Len(worker[s].buf) \in Nat
  BY HandlerFacts
<1>1. /\ worker[s].pc = "data"
      /\ UNCHANGED <<clientVars, session, down, link, serverUp, budgetVars, historyVars>>
  BY DEF ReadData, WriteData
<1>2. Active(s) /\ worker[s].i \in Files /\ stored[worker[s].i] \in Seq(Units)
  BY <1>w, <1>1 DEF Active, HandlerOK
<1>3. /\ down' \in [Sessions -> {"none", "ACK", "NAK"}] /\ mixed' \in BOOLEAN /\ (mixed => mixed')
      /\ errors' \in 0..MaxErrors /\ \A t \in Sessions : t # s => down'[t] = down[t]
  BY <1>t, <1>1
<1>4. CASE ReadData(s)
  <2> DEFINE u == AsUnit(Head(up[s]))
             w == [worker[s] EXCEPT !.buf = Append(@, u)]
  <2>1. /\ Len(worker[s].buf) < Wanted(s) /\ Read(s) /\ worker' = [worker EXCEPT ![s] = w]
        /\ UNCHANGED stored
    BY <1>4 DEF ReadData, Becomes
  <2>2. up' \in [Sessions -> Seq(Tokens)] /\ Head(up[s]) \in Tokens
    BY <2>1, ReadType
  <2>3. u \in Units
    BY <2>2, TokenFacts
  <2>4. /\ Append(worker[s].buf, u) \in Seq(Units)
        /\ Len(Append(worker[s].buf, u)) = Len(worker[s].buf) + 1
    BY <1>w, <2>3, AppendFacts
  <2>5. w \in Handlers
    BY <1>w, <2>4 DEF Handlers
  <2>6. /\ w.pc = "data" /\ w.i = worker[s].i /\ w.received = worker[s].received
        /\ w.buf = Append(worker[s].buf, u)
    BY <1>w, <1>1 DEF Handlers
  <2> HIDE DEF w, u
  <2>7. worker[s].received + Len(w.buf) <= FileSize(worker[s].i)
    <3>1. /\ Wanted(s) \in Int /\ Wanted(s) <= FileSize(worker[s].i) - worker[s].received
          /\ FileSize(worker[s].i) \in Nat
      BY <1>2, WantedFacts
    <3>2. QED
      BY <1>w, <2>1, <2>4, <2>6, <3>1
  <2>8. HandlerOK(w, stored')
    BY <1>2, <2>1, <2>6, <2>7 DEF HandlerOK
  <2>9. QED
    BY <1>t, <1>1, <1>2, <1>3, <2>1, <2>2, <2>5, <2>6, <2>8, HandlerBaseInv
<1>5. CASE WriteData(s)
  <2> DEFINE l == Len(worker[s].buf)
             w == [worker[s] EXCEPT !.received = @ + l, !.pos = @ + l, !.buf = <<>>]
  <2>1. /\ Store(s, Written(Stored(s), Position(s), worker[s].buf))
        /\ worker' = [worker EXCEPT ![s] = w] /\ worker[s].buf # <<>> /\ UNCHANGED up
    BY <1>5 DEF WriteData, Becomes, BufferReady
  <2>2. /\ stored' \in [DOMAIN Tasks -> Content] /\ stored'[worker[s].i] \in Seq(Units)
        /\ \A i \in Files : stored'[i] = stored[i] \/ stored'[i] \in Seq(Units)
    BY <1>w, <1>1, <2>1, WriteFacts
  <2>3. worker[s].received + l \in AnyOffset
    <3>1. /\ worker[s].received + l <= FileSize(worker[s].i) /\ FileSize(worker[s].i) \in Nat
          /\ \A n \in 0..FileSize(worker[s].i) : n \in Sizes
      BY <1>w, <1>2, <2>1, TaskFacts DEF HandlerOK
    <3>2. worker[s].received >= -1
      BY <1>w, TaskFacts DEF AnyOffset
    <3>3. worker[s].received + l = -1 \/ worker[s].received + l \in 0..FileSize(worker[s].i)
      BY <1>w, <3>1, <3>2
    <3>4. QED
      BY <3>1, <3>3 DEF AnyOffset
  <2>4. w \in Handlers
    <3>1. worker[s].pos + l \in Nat /\ <<>> \in Seq(Units)
      BY <1>w
    <3> HIDE DEF l
    <3>2. QED
      BY <1>w, <2>3, <3>1 DEF Handlers
  <2>5. w.pc = "data" /\ w.i = worker[s].i /\ w.buf = <<>>
    BY <1>w, <1>1 DEF Handlers
  <2> HIDE DEF w
  <2>6. HandlerOK(w, stored')
    BY <1>2, <2>2, <2>5 DEF HandlerOK
  <2>7. up' \in [Sessions -> Seq(Tokens)]
    BY <1>t, <2>1
  <2>8. QED
    BY <1>1, <1>2, <1>3, <2>1, <2>2, <2>4, <2>5, <2>6, <2>7, HandlerBaseInv
<1>6. QED
  BY <1>4, <1>5

\* The handler has all of a file, meets the end of the stream, or fails.
LEMMA EndBaseInv ==
  ASSUME BaseInv, NEW s \in Sessions, FileReceived(s) \/ EndOfStream(s) \/ ServerError(s)
  PROVE  BaseInv'
<1> USE DEF clientVars, budgetVars, historyVars, At
<1>t. errors \in 0..MaxErrors /\ stored \in [DOMAIN Tasks -> Content]
      /\ up \in [Sessions -> Seq(Tokens)]
  BY DEF BaseInv, TypeOK, ServerInv
<1>w. HandlerOK(worker[s], stored) /\ worker[s].buf \in Seq(Units) /\ Len(worker[s].buf) \in Nat
  BY HandlerFacts
<1>1. Active(s)
  BY DEF FileReceived, EndOfStream, ServerError, Active
<1>2. CASE FileReceived(s)
  <2>1. /\ worker[s].pc = "data" /\ TaskDone(s)
        /\ UNCHANGED <<clientVars, session, up, link, serverUp, stored, budgetVars, historyVars>>
    BY <1>2 DEF FileReceived
  <2>2. worker[s].i \in DOMAIN Tasks
    BY <1>w, <2>1, TaskFacts DEF HandlerOK
  <2>3. QED
    BY <1>t, <1>1, <2>1, <2>2, TaskDoneBaseInv
<1>3. CASE EndOfStream(s)
  BY <1>t, <1>1, <1>3, RefuseBaseInv DEF EndOfStream
<1>4. CASE ServerError(s)
  <2>1. /\ Refuse(s) /\ errors < MaxErrors /\ errors' = errors + 1
        /\ UNCHANGED <<clientVars, session, link, serverUp, cuts, kills, historyVars>>
    BY <1>4 DEF ServerError
  <2>2. errors' \in 0..MaxErrors
    BY <1>t, <2>1
  <2>3. /\ stored' \in [DOMAIN Tasks -> Content]
        /\ \A i \in Files : stored'[i] = stored[i] \/ stored'[i] \in Seq(Units)
    <3>1. CASE UNCHANGED stored
      BY <1>t, <3>1
    <3>2. ASSUME worker[s].pc = "data", NEW n \in 0..Len(worker[s].buf) - 1,
                 Store(s, Written(Stored(s), Position(s), SubSeq(worker[s].buf, 1, n)))
          PROVE  /\ stored' \in [DOMAIN Tasks -> Content]
                 /\ \A i \in Files : stored'[i] = stored[i] \/ stored'[i] \in Seq(Units)
      <4> DEFINE us == SubSeq(worker[s].buf, 1, n)
      <4>1. us \in Seq(Units)
        BY <1>w
      <4> HIDE DEF us
      <4>2. QED
        BY <3>2, <4>1, WriteFacts DEF us
    <3>3. QED
      BY <1>4, <3>1, <3>2 DEF ServerError
  <2>4. QED
    BY <1>1, <2>1, <2>2, <2>3, RefuseBaseInv
<1>5. QED
  BY <1>2, <1>3, <1>4

\* A read on a broken connection, and the end of the server.
LEMMA BreakBaseInv ==
  ASSUME BaseInv, KillServer \/ \E s \in Sessions : ReadFails(s) \/ AckPiped(s)
  PROVE  BaseInv'
<1> USE DEF clientVars, budgetVars, historyVars
<1>t. /\ errors \in 0..MaxErrors /\ kills \in 0..MaxKills /\ up \in [Sessions -> Seq(Tokens)]
      /\ down \in [Sessions -> {"none", "ACK", "NAK"}] /\ stored \in [DOMAIN Tasks -> Content]
      /\ mixed \in BOOLEAN
  BY DEF BaseInv, TypeOK, ServerInv
<1>1. CASE KillServer
  <2>1. kills' \in 0..MaxKills
    BY <1>t, <1>1 DEF KillServer
  <2>2. QED
    BY <1>1, <2>1, ServerDiesBaseInv DEF KillServer
<1>2. ASSUME NEW s \in Sessions, ReadFails(s) \/ AckPiped(s) PROVE BaseInv'
  <2>1. Active(s) /\ UNCHANGED <<clientVars, session, down, stored, budgetVars, historyVars>>
    BY <1>2 DEF ReadFails, AckPiped, At, Active
  <2>2. CASE Becomes(s, Closed) /\ UNCHANGED <<serverUp, link, up>>
    <3>1. worker' = [worker EXCEPT ![s] = Closed]
      BY <2>2 DEF Becomes
    <3>2. /\ up' \in [Sessions -> Seq(Tokens)] /\ down' \in [Sessions -> {"none", "ACK", "NAK"}]
          /\ errors' \in 0..MaxErrors /\ \A t \in Sessions : t # s => down'[t] = down[t]
          /\ stored' \in [DOMAIN Tasks -> Content] /\ \A i \in Files : stored'[i] = stored[i]
      BY <1>t, <2>1, <2>2
    <3>3. mixed' \in BOOLEAN /\ (mixed => mixed')
      BY <1>t, <2>1
    <3>4. QED
      BY <2>1, <2>2, <3>1, <3>2, <3>3, FreshHandler, HandlerBaseInv
  <2>3. CASE ServerDies
    <3>1. kills' \in 0..MaxKills
      BY <1>t, <2>1
    <3>2. QED
      BY <2>1, <2>3, <3>1, ServerDiesBaseInv
  <2>4. QED
    BY <1>2, <2>2, <2>3 DEF ReadFails, AckPiped
<1>3. QED
  BY <1>1, <1>2

\* Every step keeps the base of the invariant.
LEMMA StepBaseInv ==
  ASSUME BaseInv, [Next]_vars
  PROVE  BaseInv'
<1>1. CASE ConnectFails \/ RestartServer \/ UNCHANGED vars
  BY <1>1, EnvironmentBaseInv
<1>2. CASE \E r \in ResumeModes : Connect(r)
  BY <1>2, ConnectBaseInv
<1>3. CASE ClientStep \/ KillClient
  BY <1>3, ClientStepBaseInv
<1>4. CASE KillServer
  BY <1>4, BreakBaseInv
<1>5. ASSUME NEW s \in Sessions, ServerStep(s) \/ ServerError(s) \/ CutLink(s) PROVE BaseInv'
  <2>1. CASE ReadHeader(s) \/ ReadOffset(s)
    BY <2>1, ReadBaseInv
  <2>2. CASE OpenFile(s) \/ Reopen(s)
    BY <2>2, OpenBaseInv
  <2>3. CASE ReadData(s) \/ WriteData(s)
    BY <2>3, DataBaseInv
  <2>4. CASE FileReceived(s) \/ EndOfStream(s) \/ ServerError(s)
    BY <2>4, EndBaseInv
  <2>5. CASE ReadFails(s) \/ AckPiped(s)
    BY <2>5, BreakBaseInv
  <2>6. CASE CutLink(s)
    BY <2>6, EnvironmentBaseInv
  <2>7. QED
    BY <1>5, <2>1, <2>2, <2>3, <2>4, <2>5, <2>6 DEF ServerStep
<1>6. QED
  BY <1>1, <1>2, <1>3, <1>4, <1>5 DEF Next

-----------------------------------------------------------------------------
(* The stream of a session *)

\* A place in what a client sends: before the offset of a task (unit -1; before the
\* metadata for task 0), or before the unit after the first n units of a file.
Place(i, n) == [task |-> i, unit |-> n]
Ahead(i, n) == IF n < FileSize(i) THEN Place(i, n) ELSE Place(i + 1, -1)

\* The token t takes the stream from the place p to the place q. The offsets that
\* the client may ask for are in N.
Fits(p, t, q, N) ==
  \/ p = Place(0, -1) /\ t = Header /\ q = Place(1, -1)
  \/ \E i \in DOMAIN Tasks \ Files : p = Place(i, -1) /\ t = Offset(0) /\ q = Place(i + 1, -1)
  \/ \E i \in Files : \E n \in 0..FileSize(i) :
       p = Place(i, -1) /\ n \in N /\ t = Offset(n) /\ q = Ahead(i, n)
  \/ \E i \in Files : \E n \in 0..FileSize(i) - 1 :
       p = Place(i, n) /\ t = Data(Tasks[i][n + 1]) /\ q = Ahead(i, n + 1)

\* The tokens of c lead from the place p to the place r.
Leads(c, p, r, N) ==
  \E at : /\ at[1] = p /\ at[Len(c) + 1] = r
          /\ \A k \in 1..Len(c) : Fits(at[k], c[k], at[k + 1], N)

\* An empty stream leads nowhere.
LEMMA LeadsEmpty ==
  ASSUME NEW p, NEW N
  PROVE  Leads(<<>>, p, p, N)
<1> DEFINE at == [k \in {1} |-> p]
<1>1. at[1] = p /\ Len(<<>>) = 0
  OBVIOUS
<1>2. \A k \in 1..Len(<<>>) : Fits(at[k], <<>>[k], at[k + 1], N)
  BY <1>1
<1> HIDE DEF at
<1>3. QED
  BY <1>1, <1>2 DEF Leads

\* Sending a token.
LEMMA LeadsAppend ==
  ASSUME NEW c \in Seq(Tokens), NEW t \in Tokens, NEW p, NEW q, NEW r, NEW N,
         Leads(c, p, q, N), Fits(q, t, r, N)
  PROVE  Leads(Append(c, t), p, r, N)
<1>1. PICK at : /\ at[1] = p /\ at[Len(c) + 1] = q
                /\ \A k \in 1..Len(c) : Fits(at[k], c[k], at[k + 1], N)
  BY DEF Leads
<1>2. /\ Len(c) \in Nat /\ Len(Append(c, t)) = Len(c) + 1
      /\ \A k \in 1..Len(c) : Append(c, t)[k] = c[k]
      /\ Append(c, t)[Len(c) + 1] = t
  BY AppendFacts
<1> DEFINE l == Len(c)
           bt == [k \in 1..l + 2 |-> IF k <= l + 1 THEN at[k] ELSE r]
<1>3. /\ bt[1] = p /\ bt[l + 1] = q /\ bt[l + 2] = r
      /\ \A k \in 1..l + 1 : bt[k] = at[k]
  BY <1>1, <1>2
<1> HIDE DEF bt
<1>4. ASSUME NEW k \in 1..l + 1 PROVE Fits(bt[k], Append(c, t)[k], bt[k + 1], N)
  <2>1. CASE k = l + 1
    <3>1. k + 1 = l + 2
      BY <1>2, <2>1
    <3>2. QED
      BY <1>2, <1>3, <2>1, <3>1
  <2>2. CASE k # l + 1
    <3>1. k \in 1..l /\ k + 1 \in 1..l + 1
      BY <1>2, <2>2
    <3>2. QED
      BY <1>1, <1>2, <1>3, <3>1
  <2>3. QED
    BY <2>1, <2>2
<1>5. Len(Append(c, t)) + 1 = l + 2
  BY <1>2
<1>6. QED
  BY <1>2, <1>3, <1>4, <1>5 DEF Leads

\* Reading a token.
LEMMA LeadsTail ==
  ASSUME NEW c \in Seq(Tokens), c # <<>>, NEW p, NEW r, NEW N, Leads(c, p, r, N)
  PROVE  \E q : Fits(p, Head(c), q, N) /\ Leads(Tail(c), q, r, N)
<1>1. PICK at : /\ at[1] = p /\ at[Len(c) + 1] = r
                /\ \A k \in 1..Len(c) : Fits(at[k], c[k], at[k + 1], N)
  BY DEF Leads
<1>2. /\ Head(c) = c[1] /\ Len(Tail(c)) = Len(c) - 1 /\ Len(c) \in Nat /\ Len(c) >= 1
      /\ \A k \in 1..Len(Tail(c)) : Tail(c)[k] = c[k + 1]
  BY HeadTail
<1> DEFINE l == Len(c)
           bt == [k \in 1..l |-> at[k + 1]]
<1>3. bt[1] = at[1 + 1] /\ bt[l] = r /\ \A k \in 1..l : bt[k] = at[k + 1]
  BY <1>1, <1>2
<1> HIDE DEF bt
<1>4. Fits(p, Head(c), bt[1], N)
  <2>1. 1 \in 1..l
    BY <1>2
  <2>2. QED
    BY <1>1, <1>2, <1>3, <2>1
<1>5. \A k \in 1..Len(Tail(c)) : Fits(bt[k], Tail(c)[k], bt[k + 1], N)
  <2> SUFFICES ASSUME NEW k \in 1..Len(Tail(c)) PROVE Fits(bt[k], Tail(c)[k], bt[k + 1], N)
    OBVIOUS
  <2>1. k \in 1..l /\ k + 1 \in 1..l
    BY <1>2
  <2>2. Fits(at[k + 1], c[k + 1], at[(k + 1) + 1], N)
    BY <1>1, <2>1
  <2>3. QED
    BY <1>2, <1>3, <2>1, <2>2
<1>6. Len(Tail(c)) + 1 = l
  BY <1>2
<1>7. Leads(Tail(c), bt[1], r, N)
  BY <1>3, <1>5, <1>6 DEF Leads
<1>8. QED
  BY <1>4, <1>7

\* Losing the end of a stream.
LEMMA LeadsCut ==
  ASSUME NEW c \in Seq(Tokens), NEW p, NEW r, NEW N, Leads(c, p, r, N), NEW n \in 0..Len(c)
  PROVE  \E q : Leads(SubSeq(c, 1, n), p, q, N)
<1>1. PICK at : /\ at[1] = p
                /\ \A k \in 1..Len(c) : Fits(at[k], c[k], at[k + 1], N)
  BY DEF Leads
<1>2. Len(c) \in Nat /\ Len(SubSeq(c, 1, n)) = n /\ \A k \in 1..n : SubSeq(c, 1, n)[k] = c[k]
  OBVIOUS
<1>3. \A k \in 1..Len(SubSeq(c, 1, n)) : Fits(at[k], SubSeq(c, 1, n)[k], at[k + 1], N)
  BY <1>1, <1>2
<1>4. QED
  BY <1>1, <1>3 DEF Leads

-----------------------------------------------------------------------------
(* The session *)

\* The sessions AckSound speaks of, which share the server's files with no other.
Good == session > 0 /\ quiet /\ (resume => ~mixed)

Offsets == IF resume THEN Nat ELSE {0}

\* f is the first n units of file i
Starts(f, n, i) ==
  /\ f \in Seq(Units) /\ Len(f) = n /\ n <= FileSize(i)
  /\ \A k \in 1..n : f[k] = Tasks[i][k]

\* Where the handler w reads, and where the client writes.
HandlerPlace(w) ==
  IF w.pc = "header" THEN Place(0, -1)
  ELSE IF w.pc = "offset" THEN Place(w.i, -1)
  ELSE Ahead(w.i, w.received + Len(w.buf))

ClientPlace ==
  IF cpc = "offset" THEN Place(ci, -1)
  ELSE IF cpc = "ack" THEN Place(ci + 1, -1)
  ELSE Ahead(ci, sent)

\* What the handler w of a good session has stored (d is what the server has) and read.
HandlerData(w, d, N) ==
  /\ \A j \in 1..w.i - 1 : d[j] = Tasks[j]
  /\ w.pc \in {"open", "reopen"} => w.received \in 0..FileSize(w.i) /\ w.received \in N
  /\ w.pc = "reopen" => w.received > 0
  /\ w.pc = "data" => /\ Starts(d[w.i], w.received, w.i)
                      /\ w.received + Len(w.buf) <= FileSize(w.i)
                      /\ \A k \in 1..Len(w.buf) : w.buf[k] = Tasks[w.i][w.received + k]
                      /\ w.append = FALSE => w.pos = w.received

\* What is on the way leads from where the handler is to where the client is, as
\* long as the connection takes what the client sends.
StreamOK(c, w, N, connected, end) ==
  \E r : Leads(c, HandlerPlace(w), r, N) /\ (connected => r = end)

StreamInv ==
  Good /\ Active(session) =>
    /\ HandlerData(worker[session], stored, Offsets)
    /\ StreamOK(up[session], worker[session], Offsets,
                cpc # "idle" /\ link[session] # "reset", ClientPlace)

\* As long as no sessions have mixed, the server has beginnings of the files.
PrefixInv ==
  ~mixed => \A i \in Files : stored[i] = NoFile \/ \E n \in Nat : Starts(stored[i], n, i)

\* The acknowledgement ends the session and says that everything is there.
AckInv ==
  /\ session > 0 /\ down[session] = "ACK" => ~Active(session)
  /\ result = "true" => session > 0 /\ cpc = "idle" /\ ~Active(session)
  /\ Good /\ (down[session] = "ACK" \/ result = "true") => stored = Tasks

SessionInv == StreamInv /\ PrefixInv /\ AckInv

\* The inductive invariant.
RemoteInv == BaseInv /\ SessionInv

\* A good session is the only one at work, and there is no other without mixing.
LEMMA GoodFacts ==
  ASSUME BaseInv, NEW s \in Sessions, Active(s)
  PROVE  /\ session > 0 /\ session \in Sessions
         /\ Good => s = session
         /\ ~mixed => Good
<1>1. session \in 0..MaxSessions /\ ~(s > session) /\ s \in 1..MaxSessions
  BY DEF BaseInv, TypeOK, ServerInv, Active, Sessions
<1>2. session > 0 /\ session \in Sessions
  BY <1>1 DEF Sessions
<1>3. Good => s = session
  BY DEF BaseInv, QuietInv, Good
<1>4. ~mixed => Good
  BY <1>2 DEF BaseInv, QuietInv, Good
<1>5. QED
  BY <1>2, <1>3, <1>4

\* A step of the handler of session s, which becomes w. Only in a good session does
\* it matter what the step does.
LEMMA HandlerSessionInv ==
  ASSUME RemoteInv, NEW s \in Sessions, Active(s), NEW w, worker' = [worker EXCEPT ![s] = w],
         UNCHANGED <<clientVars, session, link, historyVars>>,
         \A t \in Sessions : t # s => down'[t] = down[t],
         s = session /\ down'[s] = "ACK" => w.pc = "closed",
         Good => /\ w.pc # "closed" => /\ HandlerData(w, stored', Offsets)
                                       /\ StreamOK(up'[s], w, Offsets,
                                                   cpc # "idle" /\ link[s] # "reset", ClientPlace)
                 /\ down'[s] = "ACK" => stored' = Tasks
                 /\ PrefixInv'
  PROVE  SessionInv'
<1> USE DEF clientVars, historyVars
<1>t. BaseInv /\ AckInv /\ worker \in [Sessions -> Handlers]
  BY DEF RemoteInv, SessionInv, BaseInv, ServerInv
<1>g. /\ session > 0 /\ session \in Sessions /\ (Good => s = session) /\ (~mixed => Good)
  BY <1>t, GoodFacts
<1>1. (Good' <=> Good) /\ Offsets' = Offsets /\ ClientPlace' = ClientPlace
  BY DEF Good, Offsets, ClientPlace
<1>2. worker'[s] = w /\ \A t \in Sessions : t # s => worker'[t] = worker[t]
  BY <1>t
<1>3. StreamInv'
  <2> SUFFICES ASSUME Good, Active(session)'
               PROVE  /\ HandlerData(worker'[session], stored', Offsets)
                      /\ StreamOK(up'[session], worker'[session], Offsets,
                                  cpc # "idle" /\ link[session] # "reset", ClientPlace)
    BY <1>1 DEF StreamInv
  <2>1. s = session /\ worker'[session] = w /\ w.pc # "closed"
    BY <1>g, <1>2 DEF Active
  <2>2. QED
    BY <2>1
<1>4. PrefixInv'
  BY <1>g DEF PrefixInv
<1>5. AckInv'
  <2>1. session > 0 /\ down'[session] = "ACK" => ~Active(session)'
    <3>1. CASE s = session
      BY <1>2, <3>1 DEF Active
    <3>2. CASE s # session
      BY <1>t, <1>g, <1>2, <3>2 DEF AckInv, Active
    <3>3. QED
      BY <3>1, <3>2
  <2>2. ASSUME result = "true" PROVE cpc = "idle" /\ ~Active(session)' /\ ~Good
    <3>1. ~Active(session) /\ cpc = "idle" /\ s # session
      BY <1>t, <2>2 DEF AckInv
    <3>2. QED
      BY <1>g, <1>2, <3>1 DEF Active
  <2>3. ASSUME Good, down'[session] = "ACK" PROVE stored' = Tasks
    BY <1>g, <2>3
  <2>4. QED
    BY <1>g, <1>1, <2>1, <2>2, <2>3 DEF AckInv
<1>6. QED
  BY <1>3, <1>4, <1>5 DEF SessionInv

\* A step of the client.
LEMMA ClientSessionInv ==
  ASSUME RemoteInv, UNCHANGED <<resume, session, down, serverVars, historyVars>>,
         result' = "true" => session > 0 /\ cpc' = "idle"
                               /\ (result = "true" \/ down[session] = "ACK"),
         Good /\ Active(session)
           => StreamOK(up'[session], worker[session], Offsets,
                       cpc' # "idle" /\ link'[session] # "reset", ClientPlace')
  PROVE  SessionInv'
<1> USE DEF serverVars, historyVars
<1>t. StreamInv /\ PrefixInv /\ AckInv
  BY DEF RemoteInv, SessionInv
<1>1. (Good' <=> Good) /\ Offsets' = Offsets /\ (Active(session)' <=> Active(session))
  BY DEF Good, Offsets, Active
<1>2. StreamInv'
  BY <1>t, <1>1 DEF StreamInv
<1>3. PrefixInv'
  BY <1>t DEF PrefixInv
<1>4. AckInv'
  BY <1>t, <1>1 DEF AckInv
<1>5. QED
  BY <1>2, <1>3, <1>4 DEF SessionInv

\* The client has sent a token on a connection that takes it, or on a broken one.
LEMMA TransmitStream ==
  ASSUME RemoteInv, Good, Active(session), cpc # "idle", NEW t \in Tokens, Transmit(t),
         UNCHANGED link, Fits(ClientPlace, t, ClientPlace', Offsets)
  PROVE  StreamOK(up'[session], worker[session], Offsets,
                  cpc' # "idle" /\ link'[session] # "reset", ClientPlace')
<1>t. session \in Sessions /\ up \in [Sessions -> Seq(Tokens)]
  BY DEF RemoteInv, BaseInv, TypeOK, ClientInv
<1>1. PICK r : /\ Leads(up[session], HandlerPlace(worker[session]), r, Offsets)
               /\ link[session] # "reset" => r = ClientPlace
  BY DEF RemoteInv, SessionInv, StreamInv, StreamOK
<1>2. CASE link[session] = "reset"
  <2>1. up' = up
    BY <1>2 DEF Transmit, Broken
  <2>2. QED
    BY <1>1, <1>2, <2>1 DEF StreamOK
<1>3. CASE link[session] # "reset"
  <2>1. up'[session] = Append(up[session], t) /\ up[session] \in Seq(Tokens)
    BY <1>t, <1>3 DEF Transmit, Broken
  <2>2. Leads(up[session], HandlerPlace(worker[session]), ClientPlace, Offsets)
    BY <1>1, <1>3
  <2>3. Leads(up'[session], HandlerPlace(worker[session]), ClientPlace', Offsets)
    BY <2>1, <2>2, LeadsAppend
  <2>4. QED
    BY <2>3 DEF StreamOK
<1>4. QED
  BY <1>2, <1>3

\* The client has sent nothing.
LEMMA StillStream ==
  ASSUME RemoteInv, Good, Active(session), UNCHANGED up,
         cpc' # "idle" /\ link'[session] # "reset"
           => cpc # "idle" /\ link[session] # "reset" /\ ClientPlace' = ClientPlace
  PROVE  StreamOK(up'[session], worker[session], Offsets,
                  cpc' # "idle" /\ link'[session] # "reset", ClientPlace')
BY DEF RemoteInv, SessionInv, StreamInv, StreamOK

\* The client's own steps.
LEMMA ClientStepSessionInv ==
  ASSUME RemoteInv, ClientStep \/ KillClient
  PROVE  SessionInv'
<1> USE DEF netVars, budgetVars, clientVars
<1>t. BaseInv /\ sent \in Sizes
  BY DEF RemoteInv, BaseInv, TypeOK
<1>c. /\ cpc # "idle" => session \in Sessions /\ ci \in DOMAIN Tasks /\ result = "none"
      /\ cpc \in SendingPC => ci \in Files /\ sent <= FileSize(ci)
      /\ cpc = "ack" => ci = Len(Tasks)
      /\ result = "true" => session > 0 /\ cpc = "idle"
  BY DEF RemoteInv, BaseInv, ClientInv, SessionInv, AckInv
<1>1. CASE SendOffset
  <2>1. /\ cpc = "offset"
        /\ UNCHANGED <<resume, cprog, result, session, down, link, serverVars, historyVars>>
    BY <1>1 DEF SendOffset
  <2>2. ClientPlace = Place(ci, -1) /\ ci \in DOMAIN Tasks /\ result = "none"
    BY <1>c, <2>1 DEF ClientPlace
  <2>3. CASE Tasks[ci] = Dir
    <3>1. Transmit(Offset(0)) /\ NextTask
      BY <1>1, <2>3 DEF SendOffset
    <3>2. ClientPlace' = Place(ci + 1, -1)
      BY <3>1 DEF NextTask, ClientPlace
    <3>3. ci \in DOMAIN Tasks \ Files
      BY <2>2, <2>3, TaskFacts
    <3>4. Fits(ClientPlace, Offset(0), ClientPlace', Offsets)
      BY <2>2, <3>2, <3>3 DEF Fits
    <3>5. Offset(0) \in Tokens
      BY TaskFacts, TokenFacts
    <3>6. QED
      BY <2>1, <2>2, <3>1, <3>4, <3>5, TransmitStream, ClientSessionInv
  <2>4. CASE Tasks[ci] # Dir
    <3>1. Transmit(Offset(ResumeOffset)) /\ sent' = ResumeOffset /\ cpc' = "data" /\ UNCHANGED ci
      BY <1>1, <2>4 DEF SendOffset
    <3>2. ci \in Files
      BY <2>2, <2>4, TaskFacts
    <3>3. /\ ResumeOffset \in 0..FileSize(ci) /\ ResumeOffset \in Sizes
          /\ ~resume => ResumeOffset = 0
      BY <1>t, <3>2, ResumeOffsetFacts
    <3>4. ClientPlace' = Ahead(ci, ResumeOffset)
      BY <3>1 DEF ClientPlace
    <3>5. ResumeOffset \in Offsets
      BY <3>3, TaskFacts DEF Offsets
    <3>6. Fits(ClientPlace, Offset(ResumeOffset), ClientPlace', Offsets)
      BY <2>2, <3>2, <3>3, <3>4, <3>5 DEF Fits
    <3>7. Offset(ResumeOffset) \in Tokens
      BY <3>3, TokenFacts
    <3>8. QED
      BY <2>1, <2>2, <3>1, <3>6, <3>7, TransmitStream, ClientSessionInv
  <2>5. QED
    BY <2>3, <2>4
<1>2. CASE SendBlock
  <2>1. /\ cpc = "data" /\ sent < FileSize(ci) /\ Transmit(Data(Tasks[ci][sent + 1]))
        /\ sent' = sent + 1 /\ cpc' = "save"
        /\ UNCHANGED <<ci, resume, cprog, result, session, down, link, serverVars, historyVars>>
    BY <1>2 DEF SendBlock
  <2>2. ci \in Files /\ FileSize(ci) \in Nat /\ sent \in Nat /\ Tasks[ci] \in Seq(Units)
    BY <1>t, <1>c, <2>1, TaskFacts DEF SendingPC
  <2>3. sent \in 0..FileSize(ci) - 1 /\ sent + 1 \in 1..Len(Tasks[ci])
    BY <2>1, <2>2 DEF FileSize
  <2>4. ClientPlace = Place(ci, sent) /\ ClientPlace' = Ahead(ci, sent + 1)
    BY <2>1 DEF ClientPlace, Ahead
  <2>5. Fits(ClientPlace, Data(Tasks[ci][sent + 1]), ClientPlace', Offsets)
    BY <2>2, <2>3, <2>4 DEF Fits
  <2>6. Data(Tasks[ci][sent + 1]) \in Tokens
    BY <2>2, <2>3, TokenFacts
  <2>7. QED
    BY <1>c, <2>1, <2>5, <2>6, TransmitStream, ClientSessionInv
<1>3. CASE SendFails \/ OpenProgress \/ WriteProgress
  <2>1. /\ cpc \in SendingPC
        /\ UNCHANGED <<ci, sent, resume, session, up, down, serverVars, historyVars>>
        /\ \/ cpc' \in SendingPC /\ UNCHANGED <<result, link>>
           \/ cpc' = "idle" /\ result' = "false"
    BY <1>3 DEF SendFails, OpenProgress, WriteProgress, SendingPC
  <2>2. CASE cpc' \in SendingPC /\ UNCHANGED <<result, link>>
    <3>1. ClientPlace' = ClientPlace
      BY <2>1, <2>2 DEF ClientPlace, SendingPC
    <3>2. QED
      BY <1>c, <2>1, <2>2, <3>1, StillStream, ClientSessionInv DEF SendingPC
  <2>3. CASE cpc' = "idle" /\ result' = "false"
    BY <2>1, <2>3, StillStream, ClientSessionInv
  <2>4. QED
    BY <2>1, <2>2, <2>3
<1>4. CASE FileSent
  <2>1. /\ cpc = "data" /\ sent = FileSize(ci) /\ NextTask
        /\ UNCHANGED <<sent, resume, result, session, up, down, link, serverVars, historyVars>>
    BY <1>4 DEF FileSent
  <2>2. ci \in Files /\ FileSize(ci) \in Nat
    BY <1>c, <2>1, TaskFacts DEF SendingPC
  <2>3. ClientPlace = Place(ci + 1, -1)
    BY <2>1, <2>2 DEF ClientPlace, Ahead
  <2>4. ClientPlace' = Place(ci + 1, -1)
    BY <2>1 DEF NextTask, ClientPlace
  <2>5. QED
    BY <1>c, <2>1, <2>3, <2>4, StillStream, ClientSessionInv
<1>5. CASE ReceiveAck
  <2>1. /\ cpc = "ack" /\ cpc' = "idle"
        /\ result' = "true" => down[session] = "ACK"
        /\ UNCHANGED <<ci, sent, resume, cprog, session, up, down, serverVars, historyVars>>
    BY <1>5 DEF ReceiveAck
  <2>2. session > 0
    BY <1>c, <2>1 DEF Sessions
  <2>3. QED
    BY <2>1, <2>2, StillStream, ClientSessionInv
<1>6. CASE ClientPiped \/ KillClient
  <2>1. /\ cpc # "idle" /\ cpc' = "idle"
        /\ UNCHANGED <<ci, sent, resume, cprog, result, session, up, down, serverVars, historyVars>>
    BY <1>6 DEF ClientPiped, KillClient, ClientDies
  <2>2. QED
    BY <1>c, <2>1, StillStream, ClientSessionInv
<1>7. QED
  BY <1>1, <1>2, <1>3, <1>4, <1>5, <1>6 DEF ClientStep

\* A new session begins with the metadata on the way.
LEMMA ConnectSessionInv ==
  ASSUME RemoteInv, NEW r \in ResumeModes, Connect(r)
  PROVE  SessionInv'
<1> DEFINE n == session + 1
<1>t. TypeOK /\ ServerInv /\ PrefixInv
  BY DEF RemoteInv, BaseInv, SessionInv
<1>1. /\ session < MaxSessions /\ session' = n /\ cpc' = "offset" /\ ci' = 1 /\ result' = "none"
      /\ up' = [up EXCEPT ![n] = <<Header>>] /\ worker' = [worker EXCEPT ![n].pc = "header"]
      /\ mixed' = (mixed \/ ~quiet') /\ UNCHANGED <<down, stored>>
  BY DEF Connect
<1>2. n \in Sessions /\ session \in Nat /\ n > session
  BY <1>t, <1>1 DEF TypeOK, Sessions
<1>3. /\ worker \in [Sessions -> Handlers] /\ worker[n] \in Handlers
      /\ worker[n].pc = "none" /\ worker[n].i = 0 /\ down[n] = "none"
  BY <1>t, <1>2 DEF ServerInv, HandlerOK
<1>4. worker'[n].pc = "header" /\ worker'[n].i = 0
  BY <1>1, <1>2, <1>3 DEF Handlers
<1>5. up'[n] = <<Header>>
  BY <1>t, <1>1, <1>2 DEF TypeOK
<1>6. HandlerData(worker'[n], stored', Offsets')
  BY <1>4 DEF HandlerData
<1>7. Leads(<<Header>>, Place(0, -1), Place(1, -1), Offsets')
  <2>1. Fits(Place(0, -1), Header, Place(1, -1), Offsets')
    BY DEF Fits
  <2>2. <<>> \in Seq(Tokens) /\ Append(<<>>, Header) = <<Header>> /\ Header \in Tokens
    BY TokenFacts
  <2>3. Leads(<<>>, Place(0, -1), Place(0, -1), Offsets')
    BY LeadsEmpty
  <2>4. QED
    BY <2>1, <2>2, <2>3, LeadsAppend
<1>8. ClientPlace' = Place(1, -1) /\ HandlerPlace(worker'[n]) = Place(0, -1)
  BY <1>1, <1>4 DEF ClientPlace, HandlerPlace
<1>9. StreamInv'
  BY <1>1, <1>5, <1>6, <1>7, <1>8 DEF StreamInv, StreamOK
<1>10. PrefixInv'
  BY <1>t, <1>1 DEF PrefixInv
<1>11. AckInv'
  BY <1>1, <1>3 DEF AckInv
<1>12. QED
  BY <1>9, <1>10, <1>11 DEF SessionInv

\* Steps of the environment, and those after which no handler is at work.
LEMMA EnvironmentSessionInv ==
  ASSUME RemoteInv,
         \/ ConnectFails \/ RestartServer \/ KillServer \/ UNCHANGED vars
         \/ \E s \in Sessions : CutLink(s) \/ ReadFails(s) \/ AckPiped(s)
  PROVE  SessionInv'
<1> USE DEF vars, clientVars, netVars, serverVars, budgetVars, historyVars
<1>t. BaseInv /\ StreamInv /\ PrefixInv /\ AckInv
  BY DEF RemoteInv, SessionInv
<1>w. /\ worker \in [Sessions -> Handlers] /\ up \in [Sessions -> Seq(Tokens)]
      /\ down \in [Sessions -> {"none", "ACK", "NAK"}] /\ session \in 0..MaxSessions
  BY DEF RemoteInv, BaseInv, ServerInv, TypeOK
<1>d. ASSUME ServerDies, UNCHANGED <<clientVars, session, down, stored, historyVars>>
      PROVE  SessionInv'
  <2>1. \A s \in Sessions : ~Active(s)'
    <3> SUFFICES ASSUME NEW s \in Sessions PROVE worker'[s].pc \in {"none", "closed"}
      BY DEF Active
    <3>1. worker'[s] = IF Active(s) THEN Closed ELSE worker[s]
      BY <1>d DEF ServerDies
    <3>2. QED
      BY <3>1, FreshHandler DEF Active
  <2>2. session > 0 => session \in Sessions
    BY <1>w DEF Sessions
  <2>3. Good' <=> Good
    BY <1>d DEF Good
  <2>4. StreamInv'
    BY <1>d, <2>1, <2>2 DEF StreamInv, Good
  <2>5. PrefixInv'
    BY <1>t, <1>d DEF PrefixInv
  <2>6. AckInv'
    BY <1>t, <1>d, <2>1, <2>2, <2>3 DEF AckInv
  <2>7. QED
    BY <2>4, <2>5, <2>6 DEF SessionInv
<1>1. CASE ConnectFails
  <2>1. /\ result' = "false"
        /\ UNCHANGED <<cpc, ci, sent, resume, netVars, serverVars, historyVars>>
    BY <1>1 DEF ConnectFails
  <2>2. /\ (Good' <=> Good) /\ Offsets' = Offsets /\ ClientPlace' = ClientPlace
        /\ (Active(session)' <=> Active(session))
    BY <2>1 DEF Good, Offsets, ClientPlace, Active
  <2>3. StreamInv' /\ PrefixInv'
    BY <1>t, <2>1, <2>2 DEF StreamInv, PrefixInv
  <2>4. AckInv'
    BY <1>t, <2>1, <2>2 DEF AckInv
  <2>5. QED
    BY <2>3, <2>4 DEF SessionInv
<1>2. CASE RestartServer \/ UNCHANGED vars
  <2>1. UNCHANGED <<clientVars, netVars, worker, stored, historyVars>>
    BY <1>2 DEF RestartServer
  <2>2. /\ (Good' <=> Good) /\ Offsets' = Offsets /\ ClientPlace' = ClientPlace
        /\ (Active(session)' <=> Active(session))
    BY <2>1 DEF Good, Offsets, ClientPlace, Active
  <2>3. StreamInv' /\ PrefixInv' /\ AckInv'
    BY <1>t, <2>1, <2>2 DEF StreamInv, PrefixInv, AckInv
  <2>4. QED
    BY <2>3 DEF SessionInv
<1>3. CASE KillServer
  BY <1>3, <1>d DEF KillServer
<1>4. ASSUME NEW s \in Sessions, CutLink(s) PROVE SessionInv'
  <2>1. /\ link' = [link EXCEPT ![s] = "reset"]
        /\ UNCHANGED <<clientVars, session, serverVars, historyVars>>
    BY <1>4 DEF CutLink
  <2>2. PICK m \in 0..Len(up[s]) : up' = [up EXCEPT ![s] = SubSeq(@, 1, m)]
    BY <1>4 DEF CutLink
  <2>3. \A x \in Sessions : down'[x] \in {down[x], "none"}
    BY <1>w, <1>4 DEF CutLink
  <2>4. /\ (Good' <=> Good) /\ Offsets' = Offsets /\ ClientPlace' = ClientPlace
        /\ (Active(session)' <=> Active(session))
    BY <2>1 DEF Good, Offsets, ClientPlace, Active
  <2>5. session > 0 => session \in Sessions
    BY <1>w DEF Sessions
  <2>6. StreamInv'
    <3> SUFFICES ASSUME Good, Active(session)
                 PROVE  /\ HandlerData(worker[session], stored, Offsets)
                        /\ StreamOK(up'[session], worker[session], Offsets,
                                    cpc # "idle" /\ link'[session] # "reset", ClientPlace)
      BY <2>1, <2>4 DEF StreamInv
    <3>1. HandlerData(worker[session], stored, Offsets)
      BY <1>t DEF StreamInv
    <3>2. PICK r : /\ Leads(up[session], HandlerPlace(worker[session]), r, Offsets)
                   /\ cpc # "idle" /\ link[session] # "reset" => r = ClientPlace
      BY <1>t DEF StreamInv, StreamOK
    <3>3. session \in Sessions
      BY <2>5 DEF Good
    <3>4. CASE s = session
      <4>1. up'[session] = SubSeq(up[session], 1, m) /\ link'[session] = "reset"
        BY <1>w, <2>1, <2>2, <3>3, <3>4 DEF RemoteInv, BaseInv, TypeOK
      <4>2. PICK q : Leads(up'[session], HandlerPlace(worker[session]), q, Offsets)
        BY <1>w, <2>2, <3>2, <3>3, <3>4, <4>1, LeadsCut
      <4>3. QED
        BY <3>1, <4>1, <4>2 DEF StreamOK
    <3>5. CASE s # session
      <4>1. up'[session] = up[session] /\ link'[session] = link[session]
        BY <1>w, <2>1, <2>2, <3>3, <3>5 DEF RemoteInv, BaseInv, TypeOK
      <4>2. QED
        BY <3>1, <3>2, <4>1 DEF StreamOK
    <3>6. QED
      BY <3>4, <3>5
  <2>7. PrefixInv'
    BY <1>t, <2>1 DEF PrefixInv
  <2>8. AckInv'
    <3>1. session > 0 /\ down'[session] = "ACK" => down[session] = "ACK"
      BY <2>3, <2>5
    <3>2. QED
      BY <1>t, <2>1, <2>4, <3>1 DEF AckInv, Good
  <2>9. QED
    BY <2>6, <2>7, <2>8 DEF SessionInv
<1>5. ASSUME NEW s \in Sessions, ReadFails(s) \/ AckPiped(s) PROVE SessionInv'
  <2>1. UNCHANGED <<clientVars, session, down, stored, historyVars>> /\ Active(s)
    BY <1>5 DEF ReadFails, AckPiped, At, Active
  <2>2. CASE Becomes(s, Closed) /\ UNCHANGED <<serverUp, link, up>>
    <3>1. worker' = [worker EXCEPT ![s] = Closed] /\ Closed.pc = "closed"
      BY <2>2, FreshHandler DEF Becomes
    <3>2. down[s] # "ACK" \/ s # session
      BY <1>t, <2>1, GoodFacts DEF AckInv
    <3>3. Good => s = session /\ PrefixInv'
      BY <1>t, <2>1, GoodFacts DEF PrefixInv
    <3>4. \A x \in Sessions : x # s => down'[x] = down[x]
      BY <2>1
    <3>5. QED
      BY <2>1, <2>2, <3>1, <3>2, <3>3, <3>4, HandlerSessionInv
  <2>3. CASE ServerDies
    BY <1>d, <2>1, <2>3
  <2>4. QED
    BY <1>5, <2>2, <2>3 DEF ReadFails, AckPiped
<1>6. QED
  BY <1>1, <1>2, <1>3, <1>4, <1>5

\* What the invariant says of the session whose handler takes a step.
LEMMA SessionFacts ==
  ASSUME RemoteInv, NEW s \in Sessions, Active(s)
  PROVE  /\ session > 0 /\ session \in Sessions
         /\ s = session => down[s] # "ACK" /\ result # "true"
         /\ Good => /\ s = session /\ PrefixInv
                    /\ HandlerData(worker[s], stored, Offsets)
                    /\ StreamOK(up[s], worker[s], Offsets,
                                cpc # "idle" /\ link[s] # "reset", ClientPlace)
<1>1. session > 0 /\ session \in Sessions /\ (Good => s = session)
  BY GoodFacts DEF RemoteInv
<1>2. s = session => down[s] # "ACK" /\ result # "true"
  BY <1>1 DEF RemoteInv, SessionInv, AckInv
<1>3. Good => /\ s = session /\ PrefixInv
              /\ HandlerData(worker[s], stored, Offsets)
              /\ StreamOK(up[s], worker[s], Offsets,
                          cpc # "idle" /\ link[s] # "reset", ClientPlace)
  BY <1>1 DEF RemoteInv, SessionInv, StreamInv
<1>4. QED
  BY <1>1, <1>2, <1>3

\* Places are the same only if task and unit are.
LEMMA PlaceFacts ==
  ASSUME NEW i, NEW n, NEW j, NEW m, Place(i, n) = Place(j, m)
  PROVE  i = j /\ n = m
<1>1. Place(i, n).task = i /\ Place(i, n).unit = n /\ Place(j, m).task = j /\ Place(j, m).unit = m
  BY DEF Place
<1>2. QED
  BY <1>1

\* Where the place the handler is at determines the token that comes.
LEMMA FitsFacts ==
  ASSUME NEW t, NEW q, NEW N
  PROVE  /\ Fits(Place(0, -1), t, q, N) => q = Place(1, -1)
         /\ \A i \in DOMAIN Tasks \ Files :
              Fits(Place(i, -1), t, q, N) => q = Place(i + 1, -1)
         /\ \A i \in Files : Fits(Place(i, -1), t, q, N) =>
              \E n \in 0..FileSize(i) : n \in N /\ t = Offset(n) /\ q = Ahead(i, n)
<1>f. \A i \in Files : FileSize(i) \in Nat
  BY TaskFacts
<1>0. 0 \notin DOMAIN Tasks /\ 0 \notin Files
  BY TaskFacts
<1>1. ASSUME Fits(Place(0, -1), t, q, N) PROVE q = Place(1, -1)
  BY <1>0, <1>1, PlaceFacts DEF Fits
<1>2. ASSUME NEW i \in DOMAIN Tasks \ Files, Fits(Place(i, -1), t, q, N)
      PROVE  q = Place(i + 1, -1)
  BY <1>0, <1>2, PlaceFacts DEF Fits
<1>3. ASSUME NEW i \in Files, Fits(Place(i, -1), t, q, N)
      PROVE  \E n \in 0..FileSize(i) : n \in N /\ t = Offset(n) /\ q = Ahead(i, n)
  <2>1. ~ \E j \in Files : \E n \in 0..FileSize(j) - 1 : Place(i, -1) = Place(j, n)
    <3>1. \A j \in Files : -1 \notin 0..FileSize(j) - 1
      BY <1>f
    <3>2. QED
      BY <3>1, PlaceFacts
  <2>2. \E j \in Files : \E n \in 0..FileSize(j) :
          Place(i, -1) = Place(j, -1) /\ n \in N /\ t = Offset(n) /\ q = Ahead(j, n)
    BY <1>0, <1>3, <2>1, PlaceFacts DEF Fits
  <2>3. QED
    BY <2>2, PlaceFacts
<1>4. QED
  BY <1>1, <1>2, <1>3

\* The same, for a unit of a file.
LEMMA FitsData ==
  ASSUME NEW i \in Files, NEW n \in 0..FileSize(i) - 1, NEW t, NEW q, NEW N,
         Fits(Place(i, n), t, q, N)
  PROVE  t = Data(Tasks[i][n + 1]) /\ q = Ahead(i, n + 1)
<1>1. n # -1
  BY TaskFacts
<1>2. \E j \in Files : \E m \in 0..FileSize(j) - 1 :
        Place(i, n) = Place(j, m) /\ t = Data(Tasks[j][m + 1]) /\ q = Ahead(j, m + 1)
  BY <1>1, PlaceFacts DEF Fits
<1>3. QED
  BY <1>2, PlaceFacts

\* The handler of a good session reads a token: it is the one that belongs there.
LEMMA ReadStream ==
  ASSUME RemoteInv, NEW s \in Sessions, Active(s), Good, Read(s)
  PROVE  \E q : /\ Fits(HandlerPlace(worker[s]), Head(up[s]), q, Offsets)
                /\ \A w : HandlerPlace(w) = q =>
                     StreamOK(up'[s], w, Offsets, cpc # "idle" /\ link[s] # "reset", ClientPlace)
<1>1. up[s] \in Seq(Tokens) /\ up[s] # <<>> /\ up'[s] = Tail(up[s])
  BY DEF Read, RemoteInv, BaseInv, TypeOK
<1>2. PICK r : /\ Leads(up[s], HandlerPlace(worker[s]), r, Offsets)
               /\ cpc # "idle" /\ link[s] # "reset" => r = ClientPlace
  BY SessionFacts DEF StreamOK
<1>3. PICK q : /\ Fits(HandlerPlace(worker[s]), Head(up[s]), q, Offsets)
               /\ Leads(Tail(up[s]), q, r, Offsets)
  BY <1>1, <1>2, LeadsTail
<1>4. QED
  BY <1>1, <1>2, <1>3 DEF StreamOK

\* A file of which the server has stored some first part.
LEMMA StorePrefix ==
  ASSUME RemoteInv, NEW s \in Sessions, worker[s].i \in Files, PrefixInv,
         NEW f \in Seq(Units), NEW n \in Nat, Starts(f, n, worker[s].i), Store(s, f),
         UNCHANGED mixed
  PROVE  PrefixInv'
<1>1. /\ stored'[worker[s].i] = f
      /\ \A i \in DOMAIN Tasks : i # worker[s].i => stored'[i] = stored[i]
  BY StoreFacts DEF RemoteInv
<1>2. \A i \in Files : i \in DOMAIN Tasks
  BY TaskFacts
<1>3. QED
  BY <1>1, <1>2 DEF PrefixInv

\* The handler refuses: it is closed, without an acknowledgement.
LEMMA RefuseSessionInv ==
  ASSUME RemoteInv, NEW s \in Sessions, Active(s), Refuse(s),
         UNCHANGED <<clientVars, session, link, historyVars>>, Good => PrefixInv'
  PROVE  SessionInv'
<1>1. worker' = [worker EXCEPT ![s] = Closed] /\ Closed.pc = "closed"
  BY FreshHandler DEF Refuse, Becomes
<1>2. down \in [Sessions -> {"none", "ACK", "NAK"}]
  BY DEF RemoteInv, BaseInv, TypeOK
<1>3. down'[s] = "NAK" /\ \A t \in Sessions : t # s => down'[t] = down[t]
  BY <1>2 DEF Refuse
<1>4. QED
  BY <1>1, <1>3, HandlerSessionInv

\* The end of a task that a good session has stored.
LEMMA TaskDoneSessionInv ==
  ASSUME RemoteInv, NEW s \in Sessions, Active(s), TaskDone(s), worker[s].i \in DOMAIN Tasks,
         UNCHANGED <<clientVars, session, link, historyVars>>,
         stored' \in [DOMAIN Tasks -> Content],
         Good => /\ \A j \in 1..worker[s].i : stored'[j] = Tasks[j]
                 /\ PrefixInv'
                 /\ \A w : HandlerPlace(w) = Place(worker[s].i + 1, -1) =>
                      StreamOK(up'[s], w, Offsets, cpc # "idle" /\ link[s] # "reset", ClientPlace)
  PROVE  SessionInv'
<1>d. down \in [Sessions -> {"none", "ACK", "NAK"}]
  BY DEF RemoteInv, BaseInv, TypeOK
<1>1. CASE worker[s].i = Len(Tasks)
  <2>1. /\ worker' = [worker EXCEPT ![s] = Closed] /\ Closed.pc = "closed"
        /\ \A t \in Sessions : t # s => down'[t] = down[t]
    BY <1>d, <1>1, FreshHandler DEF TaskDone, Becomes
  <2>2. Good => stored' = Tasks
    <3> SUFFICES ASSUME Good PROVE stored' = Tasks
      OBVIOUS
    <3>1. \A j \in DOMAIN Tasks : stored'[j] = Tasks[j]
      BY <1>1, TaskFacts
    <3>2. Tasks = [j \in DOMAIN Tasks |-> Tasks[j]] /\ stored' = [j \in DOMAIN Tasks |-> stored'[j]]
      OBVIOUS
    <3>3. QED
      BY <3>1, <3>2
  <2>3. QED
    BY <2>1, <2>2, HandlerSessionInv
<1>2. CASE worker[s].i # Len(Tasks)
  <2> DEFINE i == worker[s].i
             w == Handler("offset", i + 1)
  <2>1. i + 1 \in DOMAIN Tasks /\ i + 1 - 1 = i /\ i \in Nat
    BY <1>2, TaskFacts
  <2>2. w.pc = "offset" /\ w.i = i + 1
    BY <2>1, FreshHandler
  <2>3. worker' = [worker EXCEPT ![s] = w] /\ UNCHANGED down
    BY <1>2 DEF TaskDone, Becomes
  <2> HIDE DEF w
  <2>4. HandlerPlace(w) = Place(i + 1, -1)
    BY <2>2 DEF HandlerPlace
  <2>5. ASSUME Good PROVE HandlerData(w, stored', Offsets)
    <3>1. \A j \in 1..w.i - 1 : stored'[j] = Tasks[j]
      BY <2>1, <2>2, <2>5
    <3>2. QED
      BY <2>2, <3>1 DEF HandlerData
  <2>6. s = session => down'[s] # "ACK"
    BY <2>3, SessionFacts
  <2>7. Good => s = session
    BY SessionFacts
  <2>8. QED
    BY <2>3, <2>4, <2>5, <2>6, <2>7, HandlerSessionInv
<1>3. QED
  BY <1>1, <1>2

\* The handler reads the metadata, or the offset of a task.
LEMMA ReadSessionInv ==
  ASSUME RemoteInv, NEW s \in Sessions, ReadHeader(s) \/ ReadOffset(s)
  PROVE  SessionInv'
<1> USE DEF At
<1>t. BaseInv /\ stored \in [DOMAIN Tasks -> Content]
  BY DEF RemoteInv, BaseInv, ServerInv
<1>w. worker[s] \in Handlers /\ HandlerOK(worker[s], stored) /\ worker[s].buf \in Seq(Units)
  BY <1>t, HandlerFacts
<1>1. Active(s) /\ Read(s) /\ UNCHANGED <<clientVars, session, link, historyVars>>
  BY DEF ReadHeader, ReadOffset, Active
<1>2. /\ s = session => down[s] # "ACK"
      /\ Good => s = session /\ PrefixInv /\ HandlerData(worker[s], stored, Offsets)
  BY <1>1, SessionFacts
<1>3. ASSUME Good
      PROVE  \E q : /\ Fits(HandlerPlace(worker[s]), Head(up[s]), q, Offsets)
                    /\ \A w : HandlerPlace(w) = q =>
                         StreamOK(up'[s], w, Offsets,
                                  cpc # "idle" /\ link[s] # "reset", ClientPlace)
  BY <1>1, <1>3, ReadStream
<1>4. CASE ReadHeader(s)
  <2> DEFINE w == [worker[s] EXCEPT !.pc = "offset", !.i = 1]
  <2>1. /\ worker' = [worker EXCEPT ![s] = w] /\ worker[s].pc = "header"
        /\ UNCHANGED <<down, stored>>
    BY <1>4 DEF ReadHeader, Becomes
  <2>2. w.pc = "offset" /\ w.i = 1
    BY <1>w DEF Handlers
  <2> HIDE DEF w
  <2>3. HandlerPlace(worker[s]) = Place(0, -1) /\ HandlerPlace(w) = Place(1, -1)
    BY <2>1, <2>2 DEF HandlerPlace
  <2>4. HandlerData(w, stored', Offsets)
    BY <2>2 DEF HandlerData
  <2>5. Good => StreamOK(up'[s], w, Offsets, cpc # "idle" /\ link[s] # "reset", ClientPlace)
    BY <1>3, <2>3, FitsFacts
  <2>6. Good => PrefixInv'
    BY <1>1, <1>2, <2>1 DEF PrefixInv, historyVars
  <2>7. QED
    BY <1>1, <1>2, <2>1, <2>2, <2>4, <2>5, <2>6, HandlerSessionInv
<1>5. CASE ReadOffset(s) /\ Tasks[worker[s].i] = Dir
  <2> DEFINE i == worker[s].i
  <2>1. worker[s].pc = "offset" /\ stored' = [stored EXCEPT ![i] = Dir] /\ TaskDone(s)
    BY <1>5 DEF ReadOffset
  <2>2. i \in DOMAIN Tasks /\ i \in DOMAIN Tasks \ Files /\ i \in Nat
    BY <1>w, <1>5, <2>1, TaskFacts DEF HandlerOK, Files
  <2>3. HandlerPlace(worker[s]) = Place(i, -1)
    BY <2>1 DEF HandlerPlace
  <2>4. /\ stored' \in [DOMAIN Tasks -> Content] /\ stored'[i] = Tasks[i]
        /\ \A j \in DOMAIN Tasks : j # i => stored'[j] = stored[j]
    BY <1>t, <1>5, <2>1, <2>2 DEF Content
  <2>5. ASSUME Good PROVE \A j \in 1..i : stored'[j] = Tasks[j]
    <3>1. \A j \in 1..i - 1 : stored[j] = Tasks[j]
      BY <1>2, <2>5 DEF HandlerData
    <3>2. \A j \in 1..i : j \in DOMAIN Tasks /\ (j = i \/ j \in 1..i - 1)
      BY <2>2, TaskFacts
    <3>3. QED
      BY <2>4, <3>1, <3>2
  <2>6. Good => PrefixInv'
    <3>1. \A j \in Files : stored'[j] = stored[j]
      BY <2>2, <2>4, TaskFacts
    <3>2. QED
      BY <1>1, <1>2, <3>1 DEF PrefixInv, historyVars
  <2>7. ASSUME Good, NEW w, HandlerPlace(w) = Place(i + 1, -1)
        PROVE  StreamOK(up'[s], w, Offsets, cpc # "idle" /\ link[s] # "reset", ClientPlace)
    <3>1. PICK q : /\ Fits(Place(i, -1), Head(up[s]), q, Offsets)
                   /\ \A x : HandlerPlace(x) = q =>
                        StreamOK(up'[s], x, Offsets, cpc # "idle" /\ link[s] # "reset", ClientPlace)
      BY <1>3, <2>3, <2>7
    <3>2. \A j \in DOMAIN Tasks \ Files :
            Fits(Place(j, -1), Head(up[s]), q, Offsets) => q = Place(j + 1, -1)
      BY FitsFacts
    <3>3. q = Place(i + 1, -1)
      BY <2>2, <3>1, <3>2
    <3>4. QED
      BY <2>7, <3>1, <3>3
  <2>8. QED
    BY <1>1, <2>1, <2>2, <2>4, <2>5, <2>6, <2>7, TaskDoneSessionInv
<1>6. CASE ReadOffset(s) /\ Tasks[worker[s].i] # Dir
  <2> DEFINE i == worker[s].i
  <2>1. PICK n \in OffsetRead(s) :
          worker' = [worker EXCEPT ![s] = [worker[s] EXCEPT !.pc = "open", !.received = n]]
    BY <1>6 DEF ReadOffset, Becomes
  <2>2. worker[s].pc = "offset" /\ UNCHANGED <<stored, down>>
    BY <1>6 DEF ReadOffset
  <2>3. i \in Files /\ worker[s].buf = <<>>
    BY <1>w, <1>6, <2>2, TaskFacts DEF HandlerOK
  <2> DEFINE w == [worker[s] EXCEPT !.pc = "open", !.received = n]
  <2>4. w.pc = "open" /\ w.i = i /\ w.received = n /\ w.buf = <<>>
    BY <1>w, <2>3 DEF Handlers
  <2>5. worker' = [worker EXCEPT ![s] = w]
    BY <2>1
  <2> HIDE DEF w
  <2>6. HandlerPlace(worker[s]) = Place(i, -1)
    BY <2>2 DEF HandlerPlace
  <2>7. ASSUME Good
        PROVE  /\ HandlerData(w, stored', Offsets)
               /\ StreamOK(up'[s], w, Offsets, cpc # "idle" /\ link[s] # "reset", ClientPlace)
    <3>1. PICK q : /\ Fits(Place(i, -1), Head(up[s]), q, Offsets)
                   /\ \A x : HandlerPlace(x) = q =>
                        StreamOK(up'[s], x, Offsets, cpc # "idle" /\ link[s] # "reset", ClientPlace)
      BY <1>3, <2>6, <2>7
    <3>2. PICK m \in 0..FileSize(i) : m \in Offsets /\ Head(up[s]) = Offset(m) /\ q = Ahead(i, m)
      <4>1. \A j \in Files : Fits(Place(j, -1), Head(up[s]), q, Offsets) =>
              \E m \in 0..FileSize(j) : m \in Offsets /\ Head(up[s]) = Offset(m) /\ q = Ahead(j, m)
        BY FitsFacts
      <4>2. QED
        BY <2>3, <3>1, <4>1
    <3>3. n = m
      <4>1. Offset(m).kind = "offset" /\ Offset(m).n = m
        BY DEF Offset
      <4>2. QED
        BY <2>1, <3>2, <4>1 DEF OffsetRead
    <3>4. HandlerPlace(w) = q
      <4>1. m + Len(<<>>) = m
        BY <2>3, TaskFacts
      <4>2. QED
        BY <2>4, <3>2, <3>3, <4>1 DEF HandlerPlace
    <3>5. \A j \in 1..i - 1 : stored'[j] = Tasks[j]
      BY <1>2, <2>2, <2>7 DEF HandlerData
    <3>6. HandlerData(w, stored', Offsets)
      BY <2>4, <3>2, <3>3, <3>5 DEF HandlerData
    <3>7. QED
      BY <3>1, <3>4, <3>6
  <2>8. Good => PrefixInv'
    BY <1>1, <1>2, <2>2 DEF PrefixInv, historyVars
  <2>9. QED
    BY <1>1, <1>2, <2>2, <2>4, <2>5, <2>7, <2>8, HandlerSessionInv
<1>7. QED
  BY <1>4, <1>5, <1>6

\* The handler of a good session opens the file: with the offset of the client it has
\* that much of it, or it is about to start again.
LEMMA OpenSessionInv ==
  ASSUME RemoteInv, NEW s \in Sessions, OpenFile(s)
  PROVE  SessionInv'
<1> USE DEF netVars, At
<1>t. BaseInv
  BY DEF RemoteInv
<1>w. /\ worker[s] \in Handlers /\ HandlerOK(worker[s], stored) /\ worker[s].received \in Int
  BY <1>t, HandlerFacts
<1>1. /\ Active(s) /\ worker[s].pc = "open"
      /\ UNCHANGED <<clientVars, session, link, up, down, historyVars>>
  BY DEF OpenFile, Active
<1> DEFINE i == worker[s].i
           n == worker[s].received
<1>2. /\ i \in Files /\ worker[s].append = FALSE /\ worker[s].pos = 0 /\ worker[s].buf = <<>>
  BY <1>w, <1>1 DEF HandlerOK
<1>f. FileSize(i) \in Nat /\ i \in DOMAIN Tasks
  BY <1>2, TaskFacts
<1>3. /\ s = session => down[s] # "ACK"
      /\ Good => /\ s = session /\ PrefixInv /\ HandlerData(worker[s], stored, Offsets)
                 /\ StreamOK(up[s], worker[s], Offsets,
                             cpc # "idle" /\ link[s] # "reset", ClientPlace)
  BY <1>1, SessionFacts
<1>4. ASSUME Good
      PROVE  /\ n \in 0..FileSize(i) /\ n \in Offsets /\ \A j \in 1..i - 1 : stored[j] = Tasks[j]
  BY <1>1, <1>3, <1>4 DEF HandlerData
<1>5. \A w : w.pc \in {"data", "reopen"} /\ w.i = i /\ w.received = n /\ w.buf = <<>>
               => HandlerPlace(w) = HandlerPlace(worker[s])
  BY <1>1, <1>2 DEF HandlerPlace
<1>6. ASSUME NEW w, NEW f \in Seq(Units), Store(s, f), worker' = [worker EXCEPT ![s] = w],
             w.pc \in {"data", "reopen"} /\ w.i = i /\ w.received = n /\ w.buf = <<>>,
             Good => /\ \E m \in Nat : Starts(f, m, i)
                     /\ w.pc = "reopen" => n > 0
                     /\ w.pc = "data" => Starts(f, n, i) /\ (w.append = FALSE => w.pos = n)
      PROVE  SessionInv'
  <2>1. stored'[i] = f /\ \A j \in DOMAIN Tasks : j # i => stored'[j] = stored[j]
    BY <1>t, <1>2, <1>6, StoreFacts
  <2>2. Good => PrefixInv'
    BY <1>1, <1>2, <1>3, <1>6, StorePrefix DEF historyVars
  <2>3. ASSUME Good PROVE HandlerData(w, stored', Offsets)
    <3>1. \A j \in 1..i - 1 : stored'[j] = Tasks[j]
      <4>1. \A j \in 1..i - 1 : j \in DOMAIN Tasks /\ j # i
        BY <1>f, TaskFacts
      <4>2. QED
        BY <1>4, <2>1, <2>3, <4>1
    <3>2. w.received + Len(w.buf) <= FileSize(w.i) /\ \A k \in 1..Len(w.buf) : FALSE
      BY <1>4, <1>6, <1>f, <2>3
    <3>3. QED
      BY <1>4, <1>6, <2>1, <2>3, <3>1, <3>2 DEF HandlerData
  <2>4. ASSUME Good
        PROVE  StreamOK(up'[s], w, Offsets, cpc # "idle" /\ link[s] # "reset", ClientPlace)
    BY <1>1, <1>3, <1>5, <1>6, <2>4 DEF StreamOK
  <2>5. w.pc # "closed" /\ (s = session => down'[s] # "ACK") /\ (Good => s = session)
    BY <1>1, <1>3, <1>6
  <2>6. \A t \in Sessions : t # s => down'[t] = down[t]
    BY <1>1
  <2>7. /\ Active(s) /\ worker' = [worker EXCEPT ![s] = w]
        /\ UNCHANGED <<clientVars, session, link, historyVars>>
    BY <1>1, <1>6
  <2>8. QED
    BY <2>2, <2>3, <2>4, <2>5, <2>6, <2>7, HandlerSessionInv
<1>e. <<>> \in Seq(Units) /\ Starts(<<>>, 0, i)
  BY <1>f DEF Starts
<1>7. CASE n <= 0
  <2> DEFINE w == [worker[s] EXCEPT !.pc = "data"]
  <2>1. Store(s, <<>>) /\ worker' = [worker EXCEPT ![s] = w]
    BY <1>7 DEF OpenFile, Becomes
  <2>2. w.pc = "data" /\ w.i = i /\ w.received = n /\ w.buf = <<>> /\ w.pos = 0
    BY <1>w, <1>2 DEF Handlers
  <2> HIDE DEF w
  <2>3. Good => n = 0
    BY <1>4, <1>7, <1>f
  <2>4. Good => /\ \E m \in Nat : Starts(<<>>, m, i)
                /\ Starts(<<>>, n, i) /\ w.pos = n
    BY <1>e, <2>2, <2>3
  <2> HIDE DEF i, n
  <2>5. QED
    BY <1>e, <1>6, <2>1, <2>2, <2>4
<1>8. CASE ~(n <= 0)
  <2> DEFINE f == IF Stored(s) = NoFile THEN <<>> ELSE Stored(s)
             w == [worker[s] EXCEPT !.pc = "data", !.append = TRUE]
             v == [worker[s] EXCEPT !.pc = "reopen"]
  <2>1. /\ Store(s, f)
        /\ worker' = [worker EXCEPT ![s] = IF Len(f) = n THEN w ELSE v]
    BY <1>8 DEF OpenFile, Becomes
  <2>2. f \in Seq(Units)
    BY <1>t, <1>2 DEF BaseInv, ServerInv, Stored
  <2>3. Good => \E m \in Nat : Starts(f, m, i)
    <3> SUFFICES ASSUME Good PROVE \E m \in Nat : Starts(f, m, i)
      OBVIOUS
    <3>1. n # 0 /\ n \in Offsets
      BY <1>4, <1>8, <1>f
    <3>2. resume
      BY <3>1 DEF Offsets
    <3>3. ~mixed
      BY <3>2 DEF Good
    <3>4. stored[i] = NoFile \/ \E m \in Nat : Starts(stored[i], m, i)
      BY <1>2, <1>3, <3>3 DEF PrefixInv
    <3>5. QED
      BY <1>e, <3>4 DEF Stored
  <2>4. /\ w.pc = "data" /\ w.i = i /\ w.received = n /\ w.buf = <<>> /\ w.append = TRUE
    BY <1>w, <1>2 DEF Handlers
  <2>5. v.pc = "reopen" /\ v.i = i /\ v.received = n /\ v.buf = <<>>
    BY <1>w, <1>2 DEF Handlers
  <2> HIDE DEF w, v, f
  <2>6. CASE Len(f) = n
    <3>1. Good => Starts(f, n, i)
      BY <2>3, <2>6 DEF Starts
    <3>2. worker' = [worker EXCEPT ![s] = w]
      BY <2>1, <2>6
    <3>3. ~(w.append = FALSE)
      BY <2>4
    <3>4. QED
      BY <1>6, <2>1, <2>2, <2>3, <2>4, <3>1, <3>2, <3>3
  <2>7. CASE Len(f) # n
    <3>1. worker' = [worker EXCEPT ![s] = v] /\ n > 0
      BY <1>w, <1>8, <2>1, <2>7
    <3>2. QED
      BY <1>6, <2>1, <2>2, <2>3, <2>5, <3>1
  <2>8. QED
    BY <2>6, <2>7
<1>9. QED
  BY <1>7, <1>8

\* The handler starts the file again. This happens only to a client that is resuming,
\* whose session is not good from then on.
LEMMA ReopenSessionInv ==
  ASSUME RemoteInv, NEW s \in Sessions, Reopen(s)
  PROVE  SessionInv'
<1> USE DEF At
<1>t. BaseInv /\ AckInv /\ worker \in [Sessions -> Handlers]
  BY DEF RemoteInv, SessionInv, BaseInv, ServerInv
<1> DEFINE w == [worker[s] EXCEPT !.pc = "data", !.received = 0]
<1>1. /\ Active(s) /\ worker[s].pc = "reopen" /\ worker' = [worker EXCEPT ![s] = w] /\ mixed' = TRUE
      /\ UNCHANGED <<cpc, resume, result, session, down, quiet>>
  BY DEF Reopen, Active, Becomes, clientVars, netVars
<1> HIDE DEF w
<1>2. /\ session > 0 /\ session \in Sessions
      /\ s = session => down[s] # "ACK" /\ result # "true"
      /\ Good => s = session /\ HandlerData(worker[s], stored, Offsets)
  BY <1>1, SessionFacts
<1>3. ~Good'
  <2> SUFFICES ASSUME session > 0, quiet, ~resume PROVE FALSE
    BY <1>1 DEF Good
  <2>1. Good
    BY DEF Good
  <2>2. worker[s].received > 0 /\ worker[s].received \in Offsets
    BY <1>1, <1>2, <2>1 DEF HandlerData
  <2>3. Offsets = {0}
    BY DEF Offsets
  <2>4. QED
    BY <2>2, <2>3
<1>4. s # session => (Active(session)' <=> Active(session))
  BY <1>t, <1>1, <1>2 DEF Active
<1>5. StreamInv' /\ PrefixInv'
  BY <1>1, <1>3 DEF StreamInv, PrefixInv
<1>6. AckInv'
  BY <1>t, <1>1, <1>2, <1>3, <1>4 DEF AckInv
<1>7. QED
  BY <1>5, <1>6 DEF SessionInv

\* The handler of a good session reads a unit of the file.
LEMMA ReadDataSessionInv ==
  ASSUME RemoteInv, NEW s \in Sessions, ReadData(s)
  PROVE  SessionInv'
<1> USE DEF At
<1>t. BaseInv
  BY DEF RemoteInv
<1>w. /\ worker[s] \in Handlers /\ HandlerOK(worker[s], stored) /\ worker[s].received \in Int
      /\ worker[s].buf \in Seq(Units) /\ Len(worker[s].buf) \in Nat
  BY <1>t, HandlerFacts
<1> DEFINE i == worker[s].i
           n == worker[s].received
           b == worker[s].buf
           u == AsUnit(Head(up[s]))
           w == [worker[s] EXCEPT !.buf = Append(@, u)]
<1>1. /\ Active(s) /\ worker[s].pc = "data" /\ Read(s) /\ Len(b) < Wanted(s)
      /\ worker' = [worker EXCEPT ![s] = w]
      /\ UNCHANGED <<clientVars, session, link, down, stored, historyVars>>
  BY DEF ReadData, Active, Becomes
<1>2. i \in Files /\ FileSize(i) \in Nat
  BY <1>w, <1>1, TaskFacts DEF HandlerOK
<1>3. u \in Units
  BY <1>t, <1>1, ReadType, TokenFacts
<1>4. /\ w.pc = "data" /\ w.i = i /\ w.received = n /\ w.buf = Append(b, u)
      /\ w.append = worker[s].append /\ w.pos = worker[s].pos
  BY <1>w, <1>1 DEF Handlers
<1>5. /\ Len(w.buf) = Len(b) + 1 /\ w.buf[Len(b) + 1] = u
      /\ \A k \in 1..Len(b) : w.buf[k] = b[k]
  BY <1>w, <1>3, <1>4, AppendFacts
<1>6. n + Len(b) < FileSize(i)
  <2>1. Wanted(s) \in Int /\ Wanted(s) <= FileSize(i) - n
    BY <1>t, <1>2, WantedFacts
  <2> DEFINE z == Wanted(s)
             l == Len(b)
  <2> HIDE DEF z, l, n
  <2>2. QED
    BY <1>w, <1>1, <1>2, <2>1 DEF z, l, n
<1> HIDE DEF w
<1>7. /\ s = session => down[s] # "ACK"
      /\ Good => s = session /\ PrefixInv /\ HandlerData(worker[s], stored, Offsets)
  BY <1>1, SessionFacts
<1>8. Good => PrefixInv'
  BY <1>1, <1>7 DEF PrefixInv, historyVars
<1>9. ASSUME Good
      PROVE  /\ HandlerData(w, stored', Offsets)
             /\ StreamOK(up'[s], w, Offsets, cpc # "idle" /\ link[s] # "reset", ClientPlace)
  <2>1. /\ \A j \in 1..i - 1 : stored[j] = Tasks[j]
        /\ Starts(stored[i], n, i) /\ (worker[s].append = FALSE => worker[s].pos = n)
        /\ \A k \in 1..Len(b) : b[k] = Tasks[i][n + k]
    BY <1>1, <1>7, <1>9 DEF HandlerData
  <2>2. n \in Nat
    BY <2>1 DEF Starts
  <2>3. n + Len(b) \in 0..FileSize(i) - 1
    BY <1>w, <1>2, <1>6, <2>2
  <2>4. HandlerPlace(worker[s]) = Place(i, n + Len(b))
    BY <1>1, <1>6 DEF HandlerPlace, Ahead
  <2>5. PICK q : /\ Fits(Place(i, n + Len(b)), Head(up[s]), q, Offsets)
                 /\ \A x : HandlerPlace(x) = q =>
                      StreamOK(up'[s], x, Offsets, cpc # "idle" /\ link[s] # "reset", ClientPlace)
    BY <1>1, <1>9, <2>4, ReadStream
  <2>6. Head(up[s]) = Data(Tasks[i][n + Len(b) + 1]) /\ q = Ahead(i, n + Len(b) + 1)
    BY <1>2, <2>3, <2>5, FitsData
  <2>7. u = Tasks[i][n + Len(b) + 1]
    BY <2>6 DEF Data, AsUnit
  <2>8. n + Len(w.buf) = n + Len(b) + 1 /\ n + (Len(b) + 1) = n + Len(b) + 1
    BY <1>w, <1>5
  <2>9. HandlerPlace(w) = q
    BY <1>4, <2>6, <2>8 DEF HandlerPlace
  <2>10. \A k \in 1..Len(w.buf) : w.buf[k] = Tasks[i][n + k]
    <3>1. \A k \in 1..Len(w.buf) : k \in 1..Len(b) \/ k = Len(b) + 1
      BY <1>w, <1>5
    <3>2. QED
      BY <1>5, <2>1, <2>7, <2>8, <3>1
  <2>11. n + Len(w.buf) <= FileSize(i)
    BY <1>w, <1>2, <1>6, <2>8
  <2>12. HandlerData(w, stored', Offsets)
    BY <1>1, <1>4, <2>1, <2>10, <2>11 DEF HandlerData
  <2>13. QED
    BY <2>5, <2>9, <2>12
<1>10. QED
  BY <1>1, <1>4, <1>7, <1>8, <1>9, HandlerSessionInv

\* What a good session writes to the file continues it.
LEMMA WriteStarts ==
  ASSUME RemoteInv, NEW s \in Sessions, worker[s].pc = "data", Good, NEW us \in Seq(Units),
         Len(us) <= Len(worker[s].buf), \A k \in 1..Len(us) : us[k] = worker[s].buf[k]
  PROVE  Starts(Written(Stored(s), Position(s), us), worker[s].received + Len(us), worker[s].i)
<1> DEFINE i == worker[s].i
           n == worker[s].received
           f == Written(Stored(s), Position(s), us)
<1>t. BaseInv /\ Active(s)
  BY DEF RemoteInv, Active
<1>w. /\ worker[s].buf \in Seq(Units) /\ Len(worker[s].buf) \in Nat /\ Len(us) \in Nat
      /\ worker[s].append \in BOOLEAN /\ HandlerOK(worker[s], stored)
  BY <1>t, HandlerFacts DEF Handlers
<1>1. /\ Starts(Stored(s), n, i) /\ n + Len(worker[s].buf) <= FileSize(i)
      /\ \A k \in 1..Len(worker[s].buf) : worker[s].buf[k] = Tasks[i][n + k]
      /\ worker[s].append = FALSE => worker[s].pos = n
  BY <1>t, SessionFacts DEF HandlerData, Stored
<1>2. Stored(s) \in Seq(Units) /\ Len(Stored(s)) = n /\ n \in Nat
      /\ \A k \in 1..n : Stored(s)[k] = Tasks[i][k]
  BY <1>1 DEF Starts
<1>3. Position(s) = n
  BY <1>w, <1>1, <1>2 DEF Position
<1>4. /\ f \in Seq(Units) /\ Len(f) = n + Len(us)
      /\ \A k \in 1..n : f[k] = Stored(s)[k]
      /\ \A k \in 1..Len(us) : f[n + k] = us[k]
  <2>1. /\ Written(Stored(s), n, us) \in Seq(Units) /\ Len(Written(Stored(s), n, us)) = n + Len(us)
        /\ \A k \in 1..n : Written(Stored(s), n, us)[k] = Stored(s)[k]
        /\ \A k \in 1..Len(us) : Written(Stored(s), n, us)[n + k] = us[k]
    BY <1>2, WrittenAtEnd
  <2>2. f = Written(Stored(s), n, us)
    BY <1>3
  <2>3. QED
    BY <2>1, <2>2
<1>f. FileSize(i) \in Nat
  BY <1>w, TaskFacts DEF HandlerOK
<1> HIDE DEF f, n, i
<1>5. \A k \in 1..n + Len(us) : f[k] = Tasks[i][k]
  <2> SUFFICES ASSUME NEW k \in 1..n + Len(us) PROVE f[k] = Tasks[i][k]
    OBVIOUS
  <2>1. CASE k \in 1..n
    BY <1>2, <1>4, <2>1
  <2>2. CASE k \notin 1..n
    <3> DEFINE j == k - n
    <3>1. j \in 1..Len(us) /\ j \in 1..Len(worker[s].buf) /\ n + j = k
      BY <1>w, <1>2, <2>2
    <3> HIDE DEF j
    <3>2. f[n + j] = us[j] /\ us[j] = worker[s].buf[j] /\ worker[s].buf[j] = Tasks[i][n + j]
      BY <1>1, <1>4, <3>1
    <3>3. QED
      BY <3>1, <3>2
  <2>3. QED
    BY <2>1, <2>2
<1>6. n + Len(us) <= FileSize(i)
  BY <1>w, <1>1, <1>2, <1>f
<1>7. Starts(f, n + Len(us), i)
  BY <1>4, <1>5, <1>6 DEF Starts
<1>8. QED
  BY <1>7 DEF f, n, i

\* The handler writes its buffer.
LEMMA WriteDataSessionInv ==
  ASSUME RemoteInv, NEW s \in Sessions, WriteData(s)
  PROVE  SessionInv'
<1> USE DEF At
<1>t. BaseInv
  BY DEF RemoteInv
<1>w. /\ worker[s] \in Handlers /\ HandlerOK(worker[s], stored) /\ worker[s].received \in Int
      /\ worker[s].buf \in Seq(Units) /\ Len(worker[s].buf) \in Nat /\ worker[s].pos \in Nat
  BY <1>t, HandlerFacts
<1> DEFINE i == worker[s].i
           n == worker[s].received
           l == Len(worker[s].buf)
           f == Written(Stored(s), Position(s), worker[s].buf)
           w == [worker[s] EXCEPT !.received = @ + l, !.pos = @ + l, !.buf = <<>>]
<1>1. /\ Active(s) /\ worker[s].pc = "data" /\ Store(s, f) /\ worker' = [worker EXCEPT ![s] = w]
      /\ UNCHANGED <<clientVars, session, link, up, down, historyVars>>
  BY DEF WriteData, Active, Becomes, netVars
<1>2. i \in Files /\ FileSize(i) \in Nat /\ i \in DOMAIN Tasks
  BY <1>w, <1>1, TaskFacts DEF HandlerOK
<1>3. /\ w.pc = "data" /\ w.i = i /\ w.received = n + l /\ w.buf = <<>>
      /\ w.append = worker[s].append /\ w.pos = worker[s].pos + l
  BY <1>w, <1>1 DEF Handlers
<1> HIDE DEF w
<1>4. /\ f \in Seq(Units) /\ stored'[i] = f
      /\ \A j \in DOMAIN Tasks : j # i => stored'[j] = stored[j]
  BY <1>t, <1>w, <1>1, WriteFacts
<1>5. /\ s = session => down[s] # "ACK"
      /\ Good => /\ s = session /\ PrefixInv /\ HandlerData(worker[s], stored, Offsets)
                 /\ StreamOK(up[s], worker[s], Offsets,
                             cpc # "idle" /\ link[s] # "reset", ClientPlace)
  BY <1>1, SessionFacts
<1>6. ASSUME Good
      PROVE  /\ HandlerData(w, stored', Offsets) /\ PrefixInv'
             /\ StreamOK(up'[s], w, Offsets, cpc # "idle" /\ link[s] # "reset", ClientPlace)
  <2>1. /\ \A j \in 1..i - 1 : stored[j] = Tasks[j]
        /\ Starts(stored[i], n, i) /\ (worker[s].append = FALSE => worker[s].pos = n)
    BY <1>1, <1>5, <1>6 DEF HandlerData
  <2>2. n \in Nat
    BY <2>1 DEF Starts
  <2>3. Starts(f, n + l, i)
    <3>1. l <= l /\ \A k \in 1..l : worker[s].buf[k] = worker[s].buf[k]
      BY <1>w
    <3>2. QED
      BY <1>w, <1>1, <1>6, <3>1, WriteStarts
  <2> HIDE DEF f
  <2>4. PrefixInv'
    <3>1. n + l \in Nat
      BY <1>w, <2>2
    <3>2. QED
      BY <1>1, <1>2, <1>4, <1>5, <1>6, <2>3, <3>1, StorePrefix DEF historyVars
  <2>5. HandlerPlace(w) = HandlerPlace(worker[s])
    <3>1. n + l + Len(<<>>) = n + l
      BY <1>w
    <3>2. QED
      BY <1>1, <1>3, <3>1 DEF HandlerPlace
  <2>6. StreamOK(up'[s], w, Offsets, cpc # "idle" /\ link[s] # "reset", ClientPlace)
    BY <1>1, <1>5, <1>6, <2>5 DEF StreamOK
  <2>7. \A j \in 1..w.i - 1 : stored'[j] = Tasks[j]
    <3>1. \A j \in 1..i - 1 : j \in DOMAIN Tasks /\ j # i
      BY <1>2, TaskFacts
    <3>2. QED
      BY <1>3, <1>4, <2>1, <3>1
  <2>8. w.append = FALSE => w.pos = w.received
    BY <1>3, <2>1
  <2>9. /\ w.received + Len(w.buf) <= FileSize(w.i)
        /\ \A k \in 1..Len(w.buf) : FALSE
    <3>1. n + l <= FileSize(i)
      BY <2>3 DEF Starts
    <3>2. QED
      BY <1>w, <1>3, <2>2, <3>1
  <2>10. Starts(stored'[w.i], w.received, w.i)
    BY <1>3, <1>4, <2>3
  <2>11. HandlerData(w, stored', Offsets)
    BY <1>3, <2>7, <2>8, <2>9, <2>10 DEF HandlerData
  <2>12. QED
    BY <2>4, <2>6, <2>11
<1>7. QED
  BY <1>1, <1>3, <1>5, <1>6, HandlerSessionInv

\* The handler of a good session has all of the file when it goes on to the next task.
LEMMA FileReceivedSessionInv ==
  ASSUME RemoteInv, NEW s \in Sessions, FileReceived(s)
  PROVE  SessionInv'
<1> USE DEF At
<1>t. BaseInv /\ stored \in [DOMAIN Tasks -> Content]
  BY DEF RemoteInv, BaseInv, ServerInv
<1>w. /\ HandlerOK(worker[s], stored) /\ worker[s].received \in Int /\ Len(worker[s].buf) \in Nat
  BY <1>t, HandlerFacts
<1> DEFINE i == worker[s].i
           n == worker[s].received
           l == Len(worker[s].buf)
<1>1. /\ Active(s) /\ worker[s].pc = "data" /\ TaskDone(s) /\ n >= FileSize(i)
      /\ UNCHANGED <<clientVars, session, link, up, stored, historyVars>>
  BY DEF FileReceived, Active
<1>2. i \in Files /\ FileSize(i) \in Nat /\ i \in DOMAIN Tasks /\ Tasks[i] \in Seq(Units)
  BY <1>w, <1>1, TaskFacts DEF HandlerOK
<1>3. Good => /\ PrefixInv /\ HandlerData(worker[s], stored, Offsets)
              /\ StreamOK(up[s], worker[s], Offsets,
                          cpc # "idle" /\ link[s] # "reset", ClientPlace)
  BY <1>1, SessionFacts
<1>4. Good => PrefixInv'
  BY <1>1, <1>3 DEF PrefixInv, historyVars
<1>5. ASSUME Good PROVE \A j \in 1..i : stored'[j] = Tasks[j]
  <2>1. Starts(stored[i], n, i) /\ \A j \in 1..i - 1 : stored[j] = Tasks[j]
    BY <1>1, <1>3, <1>5 DEF HandlerData
  <2>2. n = FileSize(i)
    BY <1>w, <1>1, <1>2, <2>1 DEF Starts
  <2>3. stored[i] \in Seq(Units) /\ Len(stored[i]) = Len(Tasks[i])
        /\ \A k \in 1..Len(Tasks[i]) : stored[i][k] = Tasks[i][k]
    BY <2>1, <2>2 DEF Starts, FileSize
  <2>4. stored[i] = Tasks[i]
    <3> DEFINE a == stored[i]
               b == Tasks[i]
    <3>1. /\ a \in Seq(Units) /\ b \in Seq(Units) /\ Len(a) = Len(b)
          /\ \A k \in 1..Len(b) : a[k] = b[k]
      BY <1>2, <2>3
    <3> HIDE DEF a, b
    <3>2. a = b
      BY <3>1
    <3>3. QED
      BY <3>2 DEF a, b
  <2>5. \A j \in 1..i : j = i \/ j \in 1..i - 1
    BY <1>2, TaskFacts
  <2>6. QED
    BY <1>1, <2>1, <2>4, <2>5
<1>6. ASSUME Good PROVE HandlerPlace(worker[s]) = Place(i + 1, -1)
  <2>1. HandlerPlace(worker[s]) = Ahead(i, n + l)
    BY <1>1 DEF HandlerPlace
  <2>2. ~(n + l < FileSize(i))
    BY <1>w, <1>1, <1>2
  <2>3. QED
    BY <2>1, <2>2 DEF Ahead
<1>7. ASSUME Good, NEW w, HandlerPlace(w) = Place(i + 1, -1)
      PROVE  StreamOK(up'[s], w, Offsets, cpc # "idle" /\ link[s] # "reset", ClientPlace)
  BY <1>1, <1>3, <1>6, <1>7 DEF StreamOK
<1>8. stored' \in [DOMAIN Tasks -> Content]
  BY <1>t, <1>1
<1>9. QED
  BY <1>1, <1>2, <1>4, <1>5, <1>7, <1>8, TaskDoneSessionInv

\* The handler meets the end of the stream, or fails: the file is still a beginning.
LEMMA RefusedSessionInv ==
  ASSUME RemoteInv, NEW s \in Sessions, EndOfStream(s) \/ ServerError(s)
  PROVE  SessionInv'
<1>t. BaseInv
  BY DEF RemoteInv
<1>w. /\ HandlerOK(worker[s], stored) /\ worker[s].received \in Int
      /\ worker[s].buf \in Seq(Units) /\ Len(worker[s].buf) \in Nat
  BY <1>t, HandlerFacts
<1>1. Active(s) /\ Refuse(s) /\ UNCHANGED <<clientVars, session, link, historyVars>>
  BY DEF EndOfStream, ServerError, Active
<1>2. Good => PrefixInv
  BY <1>1, SessionFacts
<1>3. Good => PrefixInv'
  <2>1. CASE UNCHANGED stored
    BY <1>1, <1>2, <2>1 DEF PrefixInv, historyVars
  <2>2. ASSUME worker[s].pc = "data", NEW m \in 0..Len(worker[s].buf) - 1, Good,
               Store(s, Written(Stored(s), Position(s), SubSeq(worker[s].buf, 1, m)))
        PROVE  PrefixInv'
    <3> DEFINE us == SubSeq(worker[s].buf, 1, m)
               f == Written(Stored(s), Position(s), us)
    <3>1. us \in Seq(Units) /\ Len(us) = m /\ \A k \in 1..m : us[k] = worker[s].buf[k]
      BY <1>w
    <3>2. m \in Nat /\ m <= Len(worker[s].buf)
      BY <1>w
    <3>3. Store(s, f)
      BY <2>2
    <3> HIDE DEF us
    <3>4. worker[s].i \in Files /\ f \in Seq(Units)
      BY <1>t, <2>2, <3>1, <3>3, WriteFacts
    <3>5. Starts(f, worker[s].received + Len(us), worker[s].i)
      BY <2>2, <3>1, <3>2, WriteStarts
    <3> HIDE DEF f
    <3>6. worker[s].received + Len(us) \in Nat
      BY <3>4, <3>5 DEF Starts
    <3>7. QED
      BY <1>1, <1>2, <2>2, <3>3, <3>4, <3>5, <3>6, StorePrefix DEF historyVars
  <2>3. QED
    BY <2>1, <2>2 DEF EndOfStream, ServerError
<1>4. QED
  BY <1>1, <1>3, RefuseSessionInv

-----------------------------------------------------------------------------
(* The theorems *)

\* At the start there is no session and nothing is stored.
LEMMA InitSessionInv ==
  ASSUME Init
  PROVE  SessionInv
<1>1. session = 0 /\ result = "none" /\ stored = [i \in DOMAIN Tasks |-> NoFile]
  BY DEF Init
<1>2. \A i \in Files : stored[i] = NoFile
  BY <1>1, TaskFacts
<1>3. ~Good
  BY <1>1 DEF Good
<1>4. StreamInv /\ PrefixInv /\ AckInv
  BY <1>1, <1>2, <1>3 DEF StreamInv, PrefixInv, AckInv
<1>5. QED
  BY <1>4 DEF SessionInv

\* Every step keeps what the invariant says of the session.
LEMMA StepSessionInv ==
  ASSUME RemoteInv, [Next]_vars
  PROVE  SessionInv'
<1>1. CASE ConnectFails \/ RestartServer \/ KillServer \/ UNCHANGED vars
  BY <1>1, EnvironmentSessionInv
<1>2. CASE \E r \in ResumeModes : Connect(r)
  BY <1>2, ConnectSessionInv
<1>3. CASE ClientStep \/ KillClient
  BY <1>3, ClientStepSessionInv
<1>4. ASSUME NEW s \in Sessions, ServerStep(s) \/ ServerError(s) \/ CutLink(s)
      PROVE  SessionInv'
  <2>1. CASE ReadHeader(s) \/ ReadOffset(s)
    BY <2>1, ReadSessionInv
  <2>2. CASE OpenFile(s)
    BY <2>2, OpenSessionInv
  <2>3. CASE Reopen(s)
    BY <2>3, ReopenSessionInv
  <2>4. CASE ReadData(s)
    BY <2>4, ReadDataSessionInv
  <2>5. CASE WriteData(s)
    BY <2>5, WriteDataSessionInv
  <2>6. CASE FileReceived(s)
    BY <2>6, FileReceivedSessionInv
  <2>7. CASE EndOfStream(s) \/ ServerError(s)
    BY <2>7, RefusedSessionInv
  <2>8. CASE CutLink(s) \/ ReadFails(s) \/ AckPiped(s)
    BY <2>8, EnvironmentSessionInv
  <2>9. QED
    BY <1>4, <2>1, <2>2, <2>3, <2>4, <2>5, <2>6, <2>7, <2>8 DEF ServerStep
<1>5. QED
  BY <1>1, <1>2, <1>3, <1>4 DEF Next

\* The invariant of the remote synchronisation holds in every reachable state, for any
\* task list, any buffer of the server and any number of sessions, cuts, kills and errors.
THEOREM RemoteInvariant == Spec => []RemoteInv
<1>1. Init => RemoteInv
  BY InitBaseInv, InitSessionInv DEF RemoteInv
<1>2. RemoteInv /\ [Next]_vars => RemoteInv'
  BY StepBaseInv, StepSessionInv DEF RemoteInv
<1>3. QED
  BY <1>1, <1>2, PTL DEF Spec

\* Type correctness of client, connections and server.
THEOREM TypeCorrect == Spec => []TypeOK
<1>1. RemoteInv => TypeOK
  BY DEF RemoteInv, BaseInv
<1>2. QED
  BY <1>1, RemoteInvariant, PTL

\* syncRemote returns true only if the server has every file and every directory of the
\* task list, whatever connections, processes and disks have done before, unless a
\* handler of an older session was at work when the session began, or, with -r, sessions
\* had overlapped or disagreed on an offset: the order of the stream makes the handler
\* store the files of its own client and nothing else.
THEOREM AckIsSound == Spec => []AckSound
<1>1. RemoteInv => AckSound
  <2> SUFFICES ASSUME RemoteInv, result = "true", quiet, resume => ~mixed
               PROVE  stored = Tasks
    BY DEF AckSound
  <2>1. AckInv /\ Good
    BY DEF RemoteInv, SessionInv, AckInv, Good
  <2>2. QED
    BY <2>1 DEF AckInv
<1>2. QED
  BY <1>1, RemoteInvariant, PTL

\* Whatever connections, processes and disks have done, the server has a beginning of
\* every file, unless sessions have overlapped or disagreed on an offset: a handler
\* writes the units that it has received behind those that it has stored, and restarts
\* a file from nothing.
THEOREM LeftoversAreBeginnings == Spec => []StoredIsBeginning
<1>1. RemoteInv => StoredIsBeginning
  <2> SUFFICES ASSUME RemoteInv, ~mixed, NEW i \in Files, stored[i] # NoFile
               PROVE  IsPrefix(stored[i], Tasks[i])
    BY DEF StoredIsBeginning
  <2>1. PICK n \in Nat : Starts(stored[i], n, i)
    BY DEF RemoteInv, SessionInv, PrefixInv
  <2> DEFINE f == stored[i]
             g == Tasks[i]
             a == SubSeq(f, 1, n)
             b == SubSeq(g, 1, n)
  <2>2. /\ f \in Seq(Units) /\ Len(f) = n /\ n <= Len(g)
        /\ \A k \in 1..n : f[k] = g[k]
    BY <2>1 DEF Starts, FileSize
  <2>3. g \in Seq(Units)
    BY RemoteSyncAssumption DEF Files
  <2> HIDE DEF f, g
  <2>4. /\ a \in Seq(Units) /\ Len(a) = n /\ \A k \in 1..n : a[k] = f[k]
        /\ b \in Seq(Units) /\ Len(b) = n /\ \A k \in 1..n : b[k] = g[k]
    BY <2>2, <2>3
  <2> HIDE DEF a, b
  <2>5. a = b
    BY <2>2, <2>4
  <2>6. IsPrefix(f, g)
    BY <2>2, <2>5 DEF IsPrefix, a, b
  <2>7. QED
    BY <2>6 DEF f, g
<1>2. QED
  BY <1>1, RemoteInvariant, PTL
=============================================================================
