--------------------------------- MODULE Rpc ---------------------------------
(***************************************************************************)
(* The query protocol: RpcClient (listFiles, getFileMeta, sendRequest) and *)
(* RpcServer (handleRpcClient, handleListFiles, listDirectory,             *)
(* handleGetFileMeta) over one connection, with the messages of Protobuf,  *)
(* while other sessions change the server's base directory.                *)
(*                                                                         *)
(* Every system call of the server on the file system is a step: the       *)
(* directory is not frozen while it is listed, and any of the calls may    *)
(* fail (EACCES, EMFILE, EIO) on a node that is there, which the server    *)
(* mostly passes over in silence. A call of the client sends the four      *)
(* bytes of the type, the four of the length and the payload, and reads    *)
(* the same three; a message of which a part is lost is never acted on, so *)
(* that a message is one element of the stream. A session only reads the   *)
(* file system: when the client connects again what is left of the old     *)
(* session has no effect and is dropped.                                   *)
(*                                                                         *)
(* How a message becomes bytes and is read again is a parameter, which     *)
(* Wire gives its value: what the calls need of it is CodecFaithful.       *)
(***************************************************************************)
EXTENDS Protobuf

CONSTANTS Paths,       \* the paths below the base directory that may exist
          InitialTrees,\* the trees to begin with: sets of paths
          Directories, \* the paths that are directories in them
          Requests,    \* the calls the client may make
          MaxCalls, MaxChanges, MaxFaults,  \* bounds of a behaviour
          Size(_, _), Serialize(_, _),    \* the bytes of a message, their number
          Parse(_, _, _, _)               \* the message that bytes are read into

ASSUME RpcAssumption ==
  /\ Paths \subseteq Seq(STRING) /\ <<>> \notin Paths
  /\ \A p \in Paths : \A k \in 1..Len(p) : SubSeq(p, 1, k) \in Paths
  /\ Directories \subseteq Paths
  /\ \A t \in InitialTrees :
       /\ t \subseteq Paths
       /\ \A p \in t, q \in Paths : IsStrictPrefix(q, p) => q \in t \cap Directories
  /\ Requests \subseteq [kind : {"list", "meta", "other"},
                        path : Paths \cup {<<>>}, recursive : BOOLEAN]
  /\ MaxCalls \in Nat /\ MaxChanges \in Nat /\ MaxFaults \in Nat

VARIABLES
  fs,          \* the node at each path of the base directory
  changes,     \* changes of the file system so far
  \* RpcClient and its caller
  cpc,         \* "idle", "recv": in sendRequest, "dead": the process has ended
  connected,   \* RpcClient::connected
  call,        \* the call under way, or the last one
  calls,       \* calls so far
  result,      \* what the last call has returned
  listing,     \* the caller's ListFilesResponse, used for every call
  meta,        \* the caller's GetFileMetaResponse, used for every call
  \* the connection
  link,        \* "open", "fin": closed by the client, "cut": broken
  up, down,    \* requests and responses under way
  faults,      \* cut connections, killed clients and failed system calls so far
  \* handleRpcClient
  spc,         \* where the server is, "closed" when it has left
  request,     \* the RpcRequest it works on
  stack,       \* the listDirectory() calls under way: directory and entries
  listResp,    \* its ListFilesResponse
  metaResp,    \* its GetFileMetaResponse
  handled,     \* what the handler has returned
  opened,      \* the node that calculateFileMD5 has opened
  seen         \* history: what may have been found at each path during the call,
               \* the nodes it has had, and None if a system call has failed there

fsVars == <<fs, changes>>
clientVars == <<cpc, connected, call, calls, result, listing, meta>>
netVars == <<link, up, down, faults>>
serverVars == <<spc, request, stack, listResp, metaResp, handled, opened>>
vars == <<fsVars, clientVars, netVars, serverVars, seen>>

\* sending with RPC_LIST_FILES = 1 and RPC_GET_FILE_META = 2
RPC_LIST_FILES == 1
RPC_GET_FILE_META == 2

Node(kind, version) == [kind |-> kind, version |-> version]
None == Node("none", 0)
AllPaths == Paths \cup {<<>>}
Stat(p) == IF p \in Paths THEN fs[p] ELSE Node("dir", 1)
IsDir(n) == n.kind = "dir"
Flag(b) == IF b THEN 1 ELSE 0
Mode(n) == IF IsDir(n) THEN 2 ELSE 1
MTime(n) == 10 + n.version
CTime(n) == 20 + n.version
Children(d) == {p \in Paths : Front(p) = d}
Below(d) == {p \in Paths : IsStrictPrefix(d, p)}
NameOf(p) == IF p = <<>> THEN <<>> ELSE <<Last(p)>>

\* MD5 of the content of a file; opening a directory succeeds and reads nothing
MD5(n) == <<IF n.kind = "file" THEN ToString(n.version) ELSE "md5 of nothing">>

Frame(d) == [dir |-> d, open |-> FALSE, todo |-> {}]
NoRequest == New("RpcRequest")

TypeOK ==
  /\ \A p \in Paths : fs[p].kind \in {"none", "file", "dir"}
  /\ cpc \in {"idle", "recv", "dead"} /\ connected \in BOOLEAN
  /\ calls \in 0..MaxCalls /\ changes \in 0..MaxChanges /\ faults \in 0..MaxFaults
  /\ result \in {"none", "true", "false"}
  /\ link \in {"open", "fin", "cut"}
  /\ Len(up) <= 1 /\ Len(down) <= 1
  /\ spc \in {"recv", "list", "walk", "meta", "md5", "md5End", "reply", "closed"}
  /\ handled \in BOOLEAN
  /\ \A i \in DOMAIN stack : stack[i].dir \in AllPaths
  /\ listing.total_count = Len(listing.files)

Init ==
  /\ \E tree \in InitialTrees :
       fs = [p \in Paths |-> IF p \notin tree THEN None
                             ELSE IF p \in Directories THEN Node("dir", 1)
                             ELSE Node("file", 1)]
  /\ changes = 0 /\ calls = 0 /\ faults = 0
  /\ cpc = "idle" /\ connected = FALSE /\ call = [kind |-> "none"]
  /\ result = "none"
  /\ listing = New("ListFilesResponse") /\ meta = New("GetFileMetaResponse")
  /\ link = "fin" /\ up = <<>> /\ down = <<>>
  /\ spc = "closed" /\ request = NoRequest /\ stack = <<>> /\ handled = FALSE
  /\ listResp = New("ListFilesResponse") /\ metaResp = New("GetFileMetaResponse")
  /\ opened = None
  /\ seen = [p \in AllPaths |-> {}]

-----------------------------------------------------------------------------
(* Other programs and sessions change the directory *)

Becomes(p, n) ==
  /\ changes < MaxChanges
  /\ changes' = changes + 1
  /\ fs' = [fs EXCEPT ![p] = n]
  /\ seen' = IF cpc = "recv" THEN [seen EXCEPT ![p] = @ \cup {n}] ELSE seen
  /\ UNCHANGED <<clientVars, netVars, serverVars>>

WriteFile(p) ==
  /\ IsDir(Stat(Front(p))) /\ ~IsDir(fs[p])
  /\ Becomes(p, Node("file", changes + 2))

MakeDirectory(p) ==
  /\ IsDir(Stat(Front(p))) /\ fs[p] = None
  /\ Becomes(p, Node("dir", changes + 2))

RemoveNode(p) ==
  /\ fs[p] # None /\ \A q \in Children(p) : fs[q] = None
  /\ Becomes(p, None)

-----------------------------------------------------------------------------
(* RpcClient *)

\* nothing more will be answered on the connection
Gone == link # "open" \/ spc = "closed"

\* the loop's variables are constructed anew in every round
FreshLocals ==
  /\ request' = NoRequest /\ handled' = FALSE /\ opened' = None
  /\ listResp' = New("ListFilesResponse") /\ metaResp' = New("GetFileMetaResponse")

\* connect() and the mode byte, which the server answers with handleRpcClient
Connect ==
  /\ cpc = "idle" /\ ~connected /\ calls < MaxCalls
  /\ connected' = TRUE /\ result' = "none"
  /\ link' = "open" /\ up' = <<>> /\ down' = <<>>
  /\ spc' = "recv" /\ stack' = <<>>
  /\ FreshLocals
  /\ UNCHANGED <<fsVars, cpc, call, calls, listing, meta, faults, seen>>

\* the RpcRequest that listFiles() and getFileMeta() build; a client of another
\* version may send a type that this server does not know
Built(c) ==
  CASE c.kind = "list" ->
         LET m == MutableOneof("RpcRequest",
                               [NoRequest EXCEPT !.type = RPC_LIST_FILES],
                               "list_files", "ListFilesRequest")
         IN [m EXCEPT !.list_files[1].directory = c.path,
                      !.list_files[1].recursive = Flag(c.recursive)]
    [] c.kind = "meta" ->
         LET m == MutableOneof("RpcRequest",
                               [NoRequest EXCEPT !.type = RPC_GET_FILE_META],
                               "get_file_meta", "GetFileMetaRequest")
         IN [m EXCEPT !.get_file_meta[1].file_path = c.path]
    [] OTHER -> [NoRequest EXCEPT !.type = 3]

Envelope(T, m) ==
  [type |-> m.type, len |-> Size(T, m), payload |-> Serialize(T, m)]

\* ParseFromString into a new message
Received(T, r) == Parse(T, New(T), r.payload, r.len)

Returns(r) == cpc' = "idle" /\ result' = r

\* sendRequest up to the last send()
Call(c) ==
  /\ cpc = "idle" /\ calls < MaxCalls
  /\ calls' = calls + 1 /\ call' = c
  /\ seen' = [p \in AllPaths |-> {Stat(p)}]
  /\ \/ ~connected /\ Returns("false") /\ UNCHANGED up
     \/ /\ connected /\ ~Gone
        /\ cpc' = "recv" /\ result' = "none"
        /\ up' = Append(up, Envelope("RpcRequest", Built(c)))
     \* the server has left: the bytes go nowhere, send() fails, or SIGPIPE
     \* ends the process
     \/ /\ connected /\ Gone
        /\ UNCHANGED up
        /\ \/ cpc' = "recv" /\ result' = "none"
           \/ Returns("false")
           \/ cpc' = "dead" /\ result' = "none"
  /\ UNCHANGED <<fsVars, connected, listing, meta, link, down, faults, serverVars>>

\* the response is read and parsed, and copied to the caller's object if it
\* says success and holds the payload of this call; its type is not looked at
ReceiveResponse ==
  /\ cpc = "recv" /\ down # <<>>
  /\ down' = Tail(down)
  /\ LET r == Head(down)
         p == Received("RpcResponse", r)
         ok == r.len # 0 /\ p.ok /\ p.msg.success = 1
         list == ok /\ call.kind = "list" /\ p.msg.list_files # <<>>
         got == ok /\ call.kind = "meta" /\ p.msg.get_file_meta # <<>>
     IN /\ listing' = IF list THEN CopyFrom("ListFilesResponse", listing,
                                            p.msg.list_files[1])
                      ELSE listing
        /\ meta' = IF got THEN CopyFrom("GetFileMetaResponse", meta,
                                        p.msg.get_file_meta[1])
                   ELSE meta
        /\ Returns(IF list \/ got THEN "true" ELSE "false")
  /\ UNCHANGED <<fsVars, connected, call, calls, link, up, faults, serverVars, seen>>

\* recv() returns 0 or an error; connected is not reset
ReceiveFails ==
  /\ cpc = "recv" /\ down = <<>> /\ Gone
  /\ Returns("false")
  /\ UNCHANGED <<fsVars, connected, call, calls, listing, meta, netVars,
                 serverVars, seen>>

\* the caller has done with the last call
NoCall ==
  /\ call' = [kind |-> "none"] /\ result' = "none"
  /\ seen' = [p \in AllPaths |-> {}]

Disconnect ==
  /\ cpc = "idle" /\ connected
  /\ connected' = FALSE
  /\ link' = IF link = "open" THEN "fin" ELSE link
  /\ NoCall
  /\ UNCHANGED <<fsVars, cpc, calls, listing, meta, up, down, faults, serverVars>>

\* the client is killed in the middle of a call
ClientDies ==
  /\ cpc = "recv" /\ faults < MaxFaults
  /\ cpc' = "dead"
  /\ link' = IF link = "open" THEN "fin" ELSE link
  /\ faults' = faults + 1
  /\ UNCHANGED <<fsVars, connected, call, calls, result, listing, meta, up, down,
                 serverVars, seen>>

\* the network breaks the connection; what is under way may be lost
Cut ==
  /\ link = "open" /\ faults < MaxFaults
  /\ link' = "cut" /\ faults' = faults + 1
  /\ up' \in {up, <<>>} /\ down' \in {down, <<>>}
  /\ UNCHANGED <<fsVars, clientVars, serverVars, seen>>

-----------------------------------------------------------------------------
(* RpcServer::handleRpcClient *)

At(from, to) == spc = from /\ spc' = to

\* Variant of ReceiveRequest: a request of an unknown type is skipped.
ReceiveRequestSkips ==
  /\ spc = "recv" /\ up # <<>>
  /\ up' = Tail(up)
  /\ LET r == Head(up)
         p == Received("RpcRequest", r)
     IN IF r.len = 0 \/ ~p.ok
          THEN spc' = "closed" /\ UNCHANGED request
          ELSE /\ request' = p.msg
               /\ spc' = CASE p.msg.type = RPC_LIST_FILES -> "list"
                           [] p.msg.type = RPC_GET_FILE_META -> "meta"
                           [] OTHER -> "recv"
  /\ UNCHANGED <<fsVars, clientVars, link, down, faults, stack, listResp, metaResp,
                 handled, opened, seen>>

\* receiveRequest and the switch on the type
ReceiveRequest ==
  /\ spc = "recv" /\ up # <<>>
  /\ up' = Tail(up)
  /\ LET r == Head(up)
         p == Received("RpcRequest", r)
     IN IF r.len = 0 \/ ~p.ok
          THEN spc' = "closed" /\ UNCHANGED request
          ELSE /\ request' = p.msg
               /\ spc' = CASE p.msg.type = RPC_LIST_FILES -> "list"
                           [] p.msg.type = RPC_GET_FILE_META -> "meta"
                           [] OTHER -> "reply"
  /\ UNCHANGED <<fsVars, clientVars, link, down, faults, stack, listResp, metaResp,
                 handled, opened, seen>>

\* recvAll fails: close and return
SessionEnds ==
  /\ At("recv", "closed")
  /\ up = <<>> /\ link # "open"
  /\ UNCHANGED <<fsVars, clientVars, netVars, request, stack, listResp, metaResp,
                 handled, opened, seen>>

\* A system call on each of these paths fails, or on the directory that names
\* them: what is below them is not found either.
Fails(paths) ==
  /\ faults < MaxFaults /\ faults' = faults + 1
  /\ seen' = IF cpc # "recv" THEN seen
             ELSE [q \in AllPaths |->
                     IF \E p \in paths : q = p \/ q \in Below(p)
                       THEN seen[q] \cup {None} ELSE seen[q]]
  /\ UNCHANGED <<fsVars, clientVars, link, up, down>>

ListRequest == Get(request, "list_files", "ListFilesRequest")
MetaRequest == Get(request, "get_file_meta", "GetFileMetaRequest")

\* handleListFiles: stat of the directory
HandleListFiles ==
  /\ spc = "list"
  /\ IF IsDir(Stat(ListRequest.directory))
       THEN /\ spc' = "walk"
            /\ stack' = <<Frame(ListRequest.directory)>>
            /\ listResp' = [listResp EXCEPT !.directory = ListRequest.directory]
       ELSE spc' = "reply" /\ UNCHANGED <<stack, listResp>>
  /\ UNCHANGED <<fsVars, clientVars, netVars, request, metaResp, handled, opened,
                 seen>>

\* the stat() fails, and with it the call
StatFails ==
  /\ At("list", "reply")
  /\ Fails({ListRequest.directory})
  /\ UNCHANGED <<request, stack, listResp, metaResp, handled, opened>>

\* the innermost listDirectory(); when the last one returns so does the handler
Top == Last(stack)
Return ==
  /\ stack' = Front(stack)
  /\ IF Len(stack) = 1 THEN spc' = "reply" /\ handled' = TRUE
                       ELSE UNCHANGED <<spc, handled>>

\* Variant of OpenDirectory: a directory that has gone fails the whole call.
OpenDirectoryGivesUp ==
  /\ spc = "walk" /\ ~Top.open
  /\ IF IsDir(Stat(Top.dir))
       THEN /\ stack' = [stack EXCEPT ![Len(stack)] =
                          [dir |-> Top.dir, open |-> TRUE,
                           todo |-> {p \in Children(Top.dir) : fs[p] # None}]]
            /\ UNCHANGED <<spc, handled>>
       ELSE stack' = <<>> /\ spc' = "reply" /\ UNCHANGED handled
  /\ UNCHANGED <<fsVars, clientVars, netVars, request, listResp, metaResp,
                 opened, seen>>

\* opendir and the first readdir, which reads the whole of a small directory
OpenDirectory ==
  /\ spc = "walk" /\ ~Top.open
  /\ IF IsDir(Stat(Top.dir))
       THEN /\ stack' = [stack EXCEPT ![Len(stack)] =
                          [dir |-> Top.dir, open |-> TRUE,
                           todo |-> {p \in Children(Top.dir) : fs[p] # None}]]
            /\ UNCHANGED <<spc, handled>>
       ELSE Return
  /\ UNCHANGED <<fsVars, clientVars, netVars, request, listResp, metaResp,
                 opened, seen>>

\* opendir() fails, or a later readdir(): the directory has no (more) entries
ReadDirFails ==
  /\ spc = "walk"
  /\ Return
  /\ Fails(IF Top.open THEN Top.todo ELSE Children(Top.dir))
  /\ UNCHANGED <<request, listResp, metaResp, opened>>

Entry(p, n) ==
  [New("FileEntry") EXCEPT !.name = NameOf(p), !.path = p,
     !.is_directory = Flag(IsDir(n)), !.size = n.version, !.mtime = MTime(n),
     !.mode = Mode(n)]

\* Variant of ReadEntry: an entry that has gone ends the directory.
ReadEntryBreaks(p) ==
  /\ spc = "walk" /\ Top.open /\ p \in Top.todo
  /\ LET n == Stat(p)
         rest == [stack EXCEPT ![Len(stack)].todo = @ \ {p}]
     IN IF n = None
          THEN /\ stack' = [stack EXCEPT ![Len(stack)].todo = {}]
               /\ UNCHANGED listResp
          ELSE /\ listResp' = [listResp EXCEPT !.files = Append(@, Entry(p, n)),
                                               !.total_count = @ + 1]
               /\ stack' = IF ListRequest.recursive = 1 /\ IsDir(n)
                             THEN Append(rest, Frame(p)) ELSE rest
  /\ UNCHANGED <<fsVars, clientVars, netVars, spc, request, metaResp, handled,
                 opened, seen>>

\* readdir and stat of an entry: one that has gone is left out, a directory is
\* listed on the spot
ReadEntry(p) ==
  /\ spc = "walk" /\ Top.open /\ p \in Top.todo
  /\ LET n == Stat(p)
         rest == [stack EXCEPT ![Len(stack)].todo = @ \ {p}]
     IN IF n = None
          THEN stack' = rest /\ UNCHANGED listResp
          ELSE /\ listResp' = [listResp EXCEPT !.files = Append(@, Entry(p, n)),
                                               !.total_count = @ + 1]
               /\ stack' = IF ListRequest.recursive = 1 /\ IsDir(n)
                             THEN Append(rest, Frame(p)) ELSE rest
  /\ UNCHANGED <<fsVars, clientVars, netVars, spc, request, metaResp, handled,
                 opened, seen>>

\* stat() of an entry fails: it is left out
EntryFails(p) ==
  /\ spc = "walk" /\ Top.open /\ p \in Top.todo
  /\ stack' = [stack EXCEPT ![Len(stack)].todo = @ \ {p}]
  /\ Fails({p})
  /\ UNCHANGED <<spc, request, listResp, metaResp, handled, opened>>

CloseDirectory ==
  /\ spc = "walk" /\ Top.open /\ Top.todo = {}
  /\ Return
  /\ UNCHANGED <<fsVars, clientVars, netVars, request, listResp, metaResp,
                 opened, seen>>

Described(p, n) ==
  [New("FileMeta") EXCEPT !.exists = 1, !.is_directory = Flag(IsDir(n)),
     !.size = n.version, !.mtime = MTime(n), !.ctime = CTime(n),
     !.mode = Mode(n), !.name = NameOf(p), !.path = p]

\* Variant of HandleGetFileMeta: the checksum is left out.
HandleGetFileMetaNoMD5 ==
  /\ spc = "meta"
  /\ LET p == MetaRequest.file_path
         n == Stat(p)
     IN metaResp' = [metaResp EXCEPT !.success = 1,
                       !.meta = <<IF n = None THEN New("FileMeta")
                                  ELSE Described(p, n)>>]
  /\ spc' = "reply" /\ handled' = TRUE
  /\ UNCHANGED <<fsVars, clientVars, netVars, request, stack, listResp, opened,
                 seen>>

\* handleGetFileMeta: stat and the fields made of it
HandleGetFileMeta ==
  /\ spc = "meta"
  /\ LET p == MetaRequest.file_path
         n == Stat(p)
     IN /\ metaResp' = [metaResp EXCEPT !.success = 1,
                          !.meta = <<IF n = None THEN New("FileMeta")
                                     ELSE Described(p, n)>>]
        /\ IF n.kind = "file" THEN spc' = "md5" /\ UNCHANGED handled
                              ELSE spc' = "reply" /\ handled' = TRUE
  /\ UNCHANGED <<fsVars, clientVars, netVars, request, stack, listResp, opened,
                 seen>>

\* the stat() fails: as if there were nothing
MetaFails ==
  /\ At("meta", "reply")
  /\ handled' = TRUE
  /\ metaResp' = [metaResp EXCEPT !.success = 1, !.meta = <<New("FileMeta")>>]
  /\ Fails({MetaRequest.file_path})
  /\ UNCHANGED <<request, stack, listResp, opened>>

\* calculateFileMD5 opens the file; "" if that fails
OpenForMD5 ==
  /\ spc = "md5"
  /\ opened' = Stat(MetaRequest.file_path)
  /\ IF opened' = None THEN spc' = "reply" /\ handled' = TRUE
                       ELSE spc' = "md5End" /\ UNCHANGED handled
  /\ UNCHANGED <<fsVars, clientVars, netVars, request, stack, listResp, metaResp,
                 seen>>

\* ... and has read it: of what it opened, or of a mixture if the file has been
\* written to meanwhile
FinishMD5 ==
  /\ At("md5End", "reply")
  /\ handled' = TRUE
  /\ \E sum \in {MD5(opened)} \cup
                (IF Stat(MetaRequest.file_path) = opened THEN {}
                 ELSE {<<"md5 of a mixture">>}) :
       metaResp' = [metaResp EXCEPT !.meta[1].md5 = sum]
  /\ opened' = None
  /\ UNCHANGED <<fsVars, clientVars, netVars, request, stack, listResp, seen>>

\* the file cannot be opened, "", or be read to its end, which is not noticed
MD5Fails ==
  /\ spc \in {"md5", "md5End"} /\ spc' = "reply"
  /\ handled' = TRUE
  /\ metaResp' = IF spc = "md5" THEN metaResp
                 ELSE [metaResp EXCEPT !.meta[1].md5 = <<"md5 of a part">>]
  /\ opened' = None
  /\ Fails({MetaRequest.file_path})
  /\ UNCHANGED <<request, stack, listResp>>

\* the response made of what the handler has left
Response ==
  LET r == [New("RpcResponse") EXCEPT !.type = request.type,
                                      !.success = Flag(handled)]
  IN IF ~handled
       THEN [r EXCEPT !.error =
               IF request.type \in {RPC_LIST_FILES, RPC_GET_FILE_META}
                 THEN <<"processing failed">> ELSE <<"unknown RPC type">>]
     ELSE IF request.type = RPC_LIST_FILES
       THEN LET m == MutableOneof("RpcResponse", r, "list_files",
                                  "ListFilesResponse")
            IN [m EXCEPT !.list_files =
                  <<CopyFrom("ListFilesResponse", @[1], listResp)>>]
       ELSE LET m == MutableOneof("RpcResponse", r, "get_file_meta",
                                  "GetFileMetaResponse")
            IN [m EXCEPT !.get_file_meta =
                  <<CopyFrom("GetFileMetaResponse", @[1], metaResp)>>]

\* sendResponse; on a connection that the client has left the bytes go nowhere,
\* or send() fails, or SIGPIPE ends the server
SendResponse ==
  /\ spc = "reply"
  /\ IF link = "open"
       THEN /\ down' = Append(down, Envelope("RpcResponse", Response))
            /\ spc' = "recv"
       ELSE spc' \in {"recv", "closed"} /\ UNCHANGED down
  /\ FreshLocals
  /\ UNCHANGED <<fsVars, clientVars, link, up, faults, stack, seen>>

WorkStep ==
  \/ SessionEnds \/ HandleListFiles \/ OpenDirectory
  \/ \E p \in Paths : ReadEntry(p)
  \/ CloseDirectory \/ HandleGetFileMeta \/ OpenForMD5 \/ FinishMD5

SystemCallFails ==
  \/ StatFails \/ ReadDirFails \/ \E p \in Paths : EntryFails(p)
  \/ MetaFails \/ MD5Fails

-----------------------------------------------------------------------------

Next ==
  \/ \E p \in Paths : WriteFile(p) \/ MakeDirectory(p) \/ RemoveNode(p)
  \/ Connect \/ \E c \in Requests : Call(c)
  \/ ReceiveResponse \/ ReceiveFails \/ Disconnect \/ ClientDies \/ Cut
  \/ WorkStep \/ SystemCallFails \/ ReceiveRequest \/ SendResponse

Spec == Init /\ [][Next]_vars

\* The server's worker and a client that waits for it keep running: the worker
\* leaves a stage in which it can, the client returns when there is something to
\* return. (The steps that read or write a message are named by the stage they
\* leave.) Nothing obliges a client to call, nothing breaks a connection and no
\* system call has to fail.
Fairness ==
  /\ WF_vars(WorkStep)
  /\ WF_spc(spc = "recv" /\ up # <<>> /\ spc' \in {"list", "meta", "reply", "closed"})
  /\ WF_spc(spc = "reply" /\ spc' \in {"recv", "closed"})
  /\ WF_cpc(cpc = "recv" /\ (down # <<>> \/ Gone) /\ cpc' = "idle")

FairSpec == Spec /\ Fairness

-----------------------------------------------------------------------------
(* Properties *)

\* what a call of listFiles() asks for
Wanted == IF call.recursive THEN Below(call.path) ELSE Children(call.path)

\* A listing that listFiles() returns with true has every path that was there
\* during the whole call and that no failing system call has hidden, itself or by
\* a directory above it; and nothing that was not there, as described, at some
\* moment of the call: although the directory changes between readdir, stat and
\* the recursion, and the caller passes the object of an earlier call.
ListingTrue ==
  result = "true" /\ call.kind = "list" =>
    /\ listing.directory = call.path
    /\ \A p \in Wanted : None \notin seen[p] =>
         \E i \in DOMAIN listing.files : listing.files[i].path = p
    /\ \A i \in DOMAIN listing.files :
         LET p == listing.files[i].path IN
         /\ p \in Wanted
         /\ \E n \in seen[p] \ {None} : listing.files[i] = Entry(p, n)
         /\ \A j \in DOMAIN listing.files : listing.files[j].path = p => i = j

\* The metadata that getFileMeta() returns with true are those of one moment of
\* the call, or say that there is nothing if stat() has failed; they include the
\* MD5 of the same content if nobody has changed the file during the call and no
\* system call on it has failed.
MetaTrue ==
  result = "true" /\ call.kind = "meta" =>
    LET p == call.path
        nodes == seen[p]
        m == Get(meta, "meta", "FileMeta")
        Full(n) == IF n = None THEN New("FileMeta")
                   ELSE [Described(p, n) EXCEPT
                           !.md5 = IF n.kind = "file" THEN MD5(n) ELSE <<>>]
    IN /\ meta.success = 1
       /\ \E n \in nodes : [m EXCEPT !.md5 = <<>>] = [Full(n) EXCEPT !.md5 = <<>>]
       /\ \A n \in nodes : nodes = {n} => m = Full(n)

\* A call on a sound connection fails only for a reason: the directory was not
\* there at some moment of it, or a system call on it has failed; the server does
\* not know the type; or a name that is not UTF-8 was in the answer (which the
\* parser refuses as a whole) or in the request. A failed call does not spoil the
\* next one.
FalseJustified ==
  result = "false" /\ connected /\ ~Gone =>
    \/ call.kind = "other"
    \/ call.kind = "list" /\ \E n \in seen[call.path] : ~IsDir(n)
    \/ \E p \in AllPaths : Range(p) \cap NotUtf8 # {} /\
         (p = call.path \/ (call.kind = "list" /\ p \in Wanted
                              /\ seen[p] # {None}))

\* the paths in the response that SendResponse sends
ResponseNames ==
  IF ~handled THEN {}
  ELSE IF request.type = RPC_LIST_FILES
    THEN {listResp.directory} \cup {e.path : e \in Range(listResp.files)}
    ELSE {metaResp.meta[1].path}

\* what is sent of a message m with these names is read as m, if they are UTF-8
Arrives(T, m, names) ==
  \A r \in {Envelope(T, m)} :
    /\ r.len # 0
    /\ IF \A s \in names : Range(s) \cap NotUtf8 = {}
         THEN Received(T, r) = [ok |-> TRUE, msg |-> m, rest |-> <<>>]
         ELSE ~Received(T, r).ok

RequestsArrive == \A c \in Requests : Arrives("RpcRequest", Built(c), {c.path})

\* the response that the server is about to send to a client that waits for it
Sending ==
  IF spc = "reply" /\ link = "open" /\ cpc = "recv" THEN {Response} ELSE {}

\* The generated functions of a message agree with one another: every request
\* and every response that is sent is read as what it was made of, all of its
\* bytes, for the size ByteSizeLong() gives it, unless a name in it is not UTF-8,
\* which _InternalParse() refuses.
CodecFaithful ==
  /\ RequestsArrive
  /\ \A m \in Sending : Arrives("RpcResponse", m, ResponseNames)

\* Every call returns, or the process of the caller ends.
CallReturns == cpc = "recv" ~> cpc # "recv"
=============================================================================
