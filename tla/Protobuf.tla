------------------------------- MODULE Protobuf -------------------------------
(***************************************************************************)
(* The messages of proto/sync_service.proto as the generated code of       *)
(* sync_service.pb.cc and sync_service.pb.h writes, measures, reads and    *)
(* copies them. For every message there is one table per generated         *)
(* function: what the constructor sets, what Clear() resets, which tag     *)
(* _InternalParse() accepts for which field, which field                   *)
(* _InternalSerialize() writes under which number, which fields            *)
(* ByteSizeLong() measures and which MergeImpl() takes over. The operators *)
(* at the end do with the tables what the code of every message does.      *)
(*                                                                         *)
(* A string is a sequence of names (a path, or one text), a name counting  *)
(* as one byte; a number or a bool is a number. A field of message type is *)
(* the sequence of the messages present. Wire has what depends on the      *)
(* bytes.                                                                  *)
(***************************************************************************)
EXTENDS Integers, Sequences, FiniteSets, SequencesExt

CONSTANT NotUtf8   \* the names that are not valid UTF-8

Str(f)    == [name |-> f, kind |-> "string", of |-> "none"]
Num(f)    == [name |-> f, kind |-> "varint", of |-> "none"]
Sub(f, T) == [name |-> f, kind |-> "message", of |-> T]
One(f, T) == [name |-> f, kind |-> "oneof", of |-> T]
Rep(f, T) == [name |-> f, kind |-> "repeated", of |-> T]

-----------------------------------------------------------------------------
(* ListFilesRequest *)

ListFilesRequest_SharedCtor == [directory |-> <<>>, recursive |-> 0]
ListFilesRequest_Clear == {"directory", "recursive"}
ListFilesRequest_InternalParse == 10 :> Str("directory") @@ 16 :> Num("recursive")
ListFilesRequest_InternalSerialize ==
  << <<1, Str("directory")>>, <<2, Num("recursive")>> >>
ListFilesRequest_ByteSizeLong == {Str("directory"), Num("recursive")}
ListFilesRequest_MergeImpl == {"directory", "recursive"}

-----------------------------------------------------------------------------
(* FileEntry *)

FileEntry_SharedCtor ==
  [name |-> <<>>, path |-> <<>>, size |-> 0, is_directory |-> 0, mode |-> 0,
   mtime |-> 0]
FileEntry_Clear == {"name", "path", "size", "is_directory", "mode", "mtime"}
FileEntry_InternalParse ==
  10 :> Str("name") @@ 18 :> Str("path") @@ 24 :> Num("is_directory") @@
  32 :> Num("size") @@ 40 :> Num("mtime") @@ 48 :> Num("mode")
FileEntry_InternalSerialize ==
  << <<1, Str("name")>>, <<2, Str("path")>>, <<3, Num("is_directory")>>,
     <<4, Num("size")>>, <<5, Num("mtime")>>, <<6, Num("mode")>> >>
FileEntry_ByteSizeLong ==
  {Str("name"), Str("path"), Num("size"), Num("is_directory"), Num("mode"),
   Num("mtime")}
FileEntry_MergeImpl == {"name", "path", "size", "is_directory", "mode", "mtime"}

-----------------------------------------------------------------------------
(* ListFilesResponse *)

ListFilesResponse_SharedCtor ==
  [files |-> <<>>, directory |-> <<>>, total_count |-> 0]

\* Variant of ListFilesResponse_Clear: the repeated field is not emptied.
ListFilesResponse_ClearKeepsFiles == {"directory", "total_count"}

ListFilesResponse_Clear == {"files", "directory", "total_count"}
ListFilesResponse_InternalParse ==
  10 :> Rep("files", "FileEntry") @@ 18 :> Str("directory") @@
  24 :> Num("total_count")
ListFilesResponse_InternalSerialize ==
  << <<1, Rep("files", "FileEntry")>>, <<2, Str("directory")>>,
     <<3, Num("total_count")>> >>
ListFilesResponse_ByteSizeLong ==
  {Rep("files", "FileEntry"), Str("directory"), Num("total_count")}
ListFilesResponse_MergeImpl == {"files", "directory", "total_count"}

-----------------------------------------------------------------------------
(* GetFileMetaRequest *)

GetFileMetaRequest_SharedCtor == [file_path |-> <<>>]
GetFileMetaRequest_Clear == {"file_path"}
GetFileMetaRequest_InternalParse == 10 :> Str("file_path")
GetFileMetaRequest_InternalSerialize == << <<1, Str("file_path")>> >>
GetFileMetaRequest_ByteSizeLong == {Str("file_path")}
GetFileMetaRequest_MergeImpl == {"file_path"}

-----------------------------------------------------------------------------
(* FileMeta *)

FileMeta_SharedCtor ==
  [name |-> <<>>, path |-> <<>>, md5 |-> <<>>, size |-> 0, mtime |-> 0,
   ctime |-> 0, mode |-> 0, is_directory |-> 0, exists |-> 0]
FileMeta_Clear ==
  {"name", "path", "md5", "size", "mtime", "ctime", "mode", "is_directory",
   "exists"}

\* Variant of FileMeta_InternalParse: the checksum is taken for an unknown field.
FileMeta_ParseNoMD5 ==
  10 :> Str("name") @@ 18 :> Str("path") @@ 24 :> Num("size") @@
  32 :> Num("mtime") @@ 40 :> Num("ctime") @@ 48 :> Num("mode") @@
  64 :> Num("is_directory") @@ 72 :> Num("exists")

FileMeta_InternalParse ==
  10 :> Str("name") @@ 18 :> Str("path") @@ 24 :> Num("size") @@
  32 :> Num("mtime") @@ 40 :> Num("ctime") @@ 48 :> Num("mode") @@
  58 :> Str("md5") @@ 64 :> Num("is_directory") @@ 72 :> Num("exists")
FileMeta_InternalSerialize ==
  << <<1, Str("name")>>, <<2, Str("path")>>, <<3, Num("size")>>,
     <<4, Num("mtime")>>, <<5, Num("ctime")>>, <<6, Num("mode")>>,
     <<7, Str("md5")>>, <<8, Num("is_directory")>>, <<9, Num("exists")>> >>
FileMeta_ByteSizeLong ==
  {Str("name"), Str("path"), Str("md5"), Num("size"), Num("mtime"),
   Num("ctime"), Num("mode"), Num("is_directory"), Num("exists")}
FileMeta_MergeImpl ==
  {"name", "path", "md5", "size", "mtime", "ctime", "mode", "is_directory",
   "exists"}

-----------------------------------------------------------------------------
(* GetFileMetaResponse *)

GetFileMetaResponse_SharedCtor == [error |-> <<>>, meta |-> <<>>, success |-> 0]
GetFileMetaResponse_Clear == {"error", "meta", "success"}
GetFileMetaResponse_InternalParse ==
  10 :> Sub("meta", "FileMeta") @@ 16 :> Num("success") @@ 26 :> Str("error")
GetFileMetaResponse_InternalSerialize ==
  << <<1, Sub("meta", "FileMeta")>>, <<2, Num("success")>>, <<3, Str("error")>> >>
GetFileMetaResponse_ByteSizeLong ==
  {Str("error"), Sub("meta", "FileMeta"), Num("success")}
GetFileMetaResponse_MergeImpl == {"error", "meta", "success"}

-----------------------------------------------------------------------------
(* RpcRequest; the members of the oneof payload are fields of their own *)

RpcRequest_SharedCtor == [type |-> 0, list_files |-> <<>>, get_file_meta |-> <<>>]
RpcRequest_clear_payload == {"list_files", "get_file_meta"}
RpcRequest_Clear == {"type"} \cup RpcRequest_clear_payload
RpcRequest_InternalParse ==
  8 :> Num("type") @@ 82 :> One("list_files", "ListFilesRequest") @@
  90 :> One("get_file_meta", "GetFileMetaRequest")
RpcRequest_InternalSerialize ==
  << <<1, Num("type")>>, <<10, One("list_files", "ListFilesRequest")>>,
     <<11, One("get_file_meta", "GetFileMetaRequest")>> >>
RpcRequest_ByteSizeLong ==
  {Num("type"), One("list_files", "ListFilesRequest"),
   One("get_file_meta", "GetFileMetaRequest")}
RpcRequest_MergeImpl == {"type", "list_files", "get_file_meta"}

-----------------------------------------------------------------------------
(* RpcResponse *)

RpcResponse_SharedCtor ==
  [error |-> <<>>, type |-> 0, success |-> 0, list_files |-> <<>>,
   get_file_meta |-> <<>>]
RpcResponse_clear_payload == {"list_files", "get_file_meta"}
RpcResponse_Clear == {"error", "type", "success"} \cup RpcResponse_clear_payload
RpcResponse_InternalParse ==
  8 :> Num("type") @@ 16 :> Num("success") @@ 26 :> Str("error") @@
  82 :> One("list_files", "ListFilesResponse") @@
  90 :> One("get_file_meta", "GetFileMetaResponse")
RpcResponse_InternalSerialize ==
  << <<1, Num("type")>>, <<2, Num("success")>>, <<3, Str("error")>>,
     <<10, One("list_files", "ListFilesResponse")>>,
     <<11, One("get_file_meta", "GetFileMetaResponse")>> >>

RpcResponse_ByteSizeLong ==
  {Str("error"), Num("type"), Num("success"),
   One("list_files", "ListFilesResponse"),
   One("get_file_meta", "GetFileMetaResponse")}
RpcResponse_MergeImpl ==
  {"error", "type", "success", "list_files", "get_file_meta"}

-----------------------------------------------------------------------------
(* The generated functions of a message type T *)

CtorOf(T) ==
  CASE T = "ListFilesRequest" -> ListFilesRequest_SharedCtor
    [] T = "FileEntry" -> FileEntry_SharedCtor
    [] T = "ListFilesResponse" -> ListFilesResponse_SharedCtor
    [] T = "GetFileMetaRequest" -> GetFileMetaRequest_SharedCtor
    [] T = "FileMeta" -> FileMeta_SharedCtor
    [] T = "GetFileMetaResponse" -> GetFileMetaResponse_SharedCtor
    [] T = "RpcRequest" -> RpcRequest_SharedCtor
    [] T = "RpcResponse" -> RpcResponse_SharedCtor

ClearOf(T) ==
  CASE T = "ListFilesRequest" -> ListFilesRequest_Clear
    [] T = "FileEntry" -> FileEntry_Clear
    [] T = "ListFilesResponse" -> ListFilesResponse_Clear
    [] T = "GetFileMetaRequest" -> GetFileMetaRequest_Clear
    [] T = "FileMeta" -> FileMeta_Clear
    [] T = "GetFileMetaResponse" -> GetFileMetaResponse_Clear
    [] T = "RpcRequest" -> RpcRequest_Clear
    [] T = "RpcResponse" -> RpcResponse_Clear

ParseOf(T) ==
  CASE T = "ListFilesRequest" -> ListFilesRequest_InternalParse
    [] T = "FileEntry" -> FileEntry_InternalParse
    [] T = "ListFilesResponse" -> ListFilesResponse_InternalParse
    [] T = "GetFileMetaRequest" -> GetFileMetaRequest_InternalParse
    [] T = "FileMeta" -> FileMeta_InternalParse
    [] T = "GetFileMetaResponse" -> GetFileMetaResponse_InternalParse
    [] T = "RpcRequest" -> RpcRequest_InternalParse
    [] T = "RpcResponse" -> RpcResponse_InternalParse

SerializeOf(T) ==
  CASE T = "ListFilesRequest" -> ListFilesRequest_InternalSerialize
    [] T = "FileEntry" -> FileEntry_InternalSerialize
    [] T = "ListFilesResponse" -> ListFilesResponse_InternalSerialize
    [] T = "GetFileMetaRequest" -> GetFileMetaRequest_InternalSerialize
    [] T = "FileMeta" -> FileMeta_InternalSerialize
    [] T = "GetFileMetaResponse" -> GetFileMetaResponse_InternalSerialize
    [] T = "RpcRequest" -> RpcRequest_InternalSerialize
    [] T = "RpcResponse" -> RpcResponse_InternalSerialize

SizeOf(T) ==
  CASE T = "ListFilesRequest" -> ListFilesRequest_ByteSizeLong
    [] T = "FileEntry" -> FileEntry_ByteSizeLong
    [] T = "ListFilesResponse" -> ListFilesResponse_ByteSizeLong
    [] T = "GetFileMetaRequest" -> GetFileMetaRequest_ByteSizeLong
    [] T = "FileMeta" -> FileMeta_ByteSizeLong
    [] T = "GetFileMetaResponse" -> GetFileMetaResponse_ByteSizeLong
    [] T = "RpcRequest" -> RpcRequest_ByteSizeLong
    [] T = "RpcResponse" -> RpcResponse_ByteSizeLong

MergeOf(T) ==
  CASE T = "ListFilesRequest" -> ListFilesRequest_MergeImpl
    [] T = "FileEntry" -> FileEntry_MergeImpl
    [] T = "ListFilesResponse" -> ListFilesResponse_MergeImpl
    [] T = "GetFileMetaRequest" -> GetFileMetaRequest_MergeImpl
    [] T = "FileMeta" -> FileMeta_MergeImpl
    [] T = "GetFileMetaResponse" -> GetFileMetaResponse_MergeImpl
    [] T = "RpcRequest" -> RpcRequest_MergeImpl
    [] T = "RpcResponse" -> RpcResponse_MergeImpl

\* a message as its constructor leaves it, and what a getter of an absent field
\* of message type returns (the default instance)
New(T) == CtorOf(T)

Clear(T, m) ==
  [f \in DOMAIN m |-> IF f \in ClearOf(T) THEN New(T)[f] ELSE m[f]]

\* the fields of T, and the members of its oneof
Fields(T) == {pair[2] : pair \in Range(SerializeOf(T))}
OneofOf(T) == {d.name : d \in {e \in Fields(T) : e.kind = "oneof"}}

\* mutable_<field>() of a oneof's member: unless it is the one that is set,
\* clear_payload() and a new message
MutableOneof(T, m, f, of) ==
  IF m[f] # <<>> THEN m
  ELSE [g \in DOMAIN m |-> IF g = f THEN <<New(of)>>
                           ELSE IF g \in OneofOf(T) THEN <<>> ELSE m[g]]

\* the getter of a field of message type
Get(m, f, of) == IF m[f] = <<>> THEN New(of) ELSE m[f][1]

\* the fields of message type that a message sets
SubFields(T, m) ==
  {d \in Fields(T) : d.kind \in {"message", "oneof"} /\ m[d.name] # <<>>}

\* MergeImpl: a oneof is merged into the member that is set in the other one;
\* merged has what becomes of the fields of message type that from sets
MergeFields(T, m, from, merged) ==
  LET d(f) == CHOOSE e \in Fields(T) : e.name = f
      Field(f) ==
        CASE f \notin MergeOf(T) -> m[f]
          [] d(f).kind = "varint" -> IF from[f] = 0 THEN m[f] ELSE from[f]
          [] d(f).kind = "string" -> IF from[f] = <<>> THEN m[f] ELSE from[f]
          [] d(f).kind = "repeated" -> m[f] \o from[f]
          [] OTHER ->
               IF from[f] # <<>> THEN <<merged[d(f)]>>
               ELSE IF d(f).kind = "oneof" /\ \E g \in OneofOf(T) : from[g] # <<>>
                 THEN <<>> ELSE m[f]
  IN [f \in DOMAIN m |-> Field(f)]

\* MergeFrom of the messages that the program copies, a ListFilesResponse and a
\* GetFileMetaResponse: the messages in their fields have no field of message type
MergeInner(T, m, from) == MergeFields(T, m, from, <<>>)
MergeFrom(T, m, from) ==
  MergeFields(T, m, from, [d \in SubFields(T, from) |->
                MergeInner(d.of, Get(m, d.name, d.of), from[d.name][1])])

\* operator= of a message
CopyFrom(T, m, from) == MergeFrom(T, Clear(T, m), from)
=============================================================================
