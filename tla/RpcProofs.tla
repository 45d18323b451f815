------------------------------ MODULE RpcProofs ------------------------------
(***************************************************************************)
(* Proofs about listFiles and getFileMeta: what the client's objects say   *)
(* after a call is what the server's directory was during the call.        *)
(*                                                                         *)
(* RpcInv is inductive: the directory is a tree at every time, the walk of *)
(* listDirectory is a path through what it has seen, what is on the way is *)
(* one message, and the objects hold only what the last answer said. Size, *)
(* Serialize and Parse are arbitrary; the theorems assume of them only     *)
(* that the messages on the way arrive as they were sent, []CodecFaithful. *)
(***************************************************************************)
EXTENDS Rpc, TLAPS

-----------------------------------------------------------------------------
(* Paths and their beginnings *)

\* the entry of directory d on the way to p
Branch(d, p) == SubSeq(p, 1, Len(d) + 1)

LEMMA SubSeqType ==
  ASSUME NEW s \in Seq(STRING), NEW k \in 0..Len(s)
  PROVE  /\ SubSeq(s, 1, k) \in Seq(STRING)
         /\ Len(SubSeq(s, 1, k)) = k
         /\ \A i \in 1..k : SubSeq(s, 1, k)[i] = s[i]
OBVIOUS

LEMMA SeqEqual ==
  ASSUME NEW s \in Seq(STRING), NEW t \in Seq(STRING),
         Len(s) = Len(t), \A i \in 1..Len(s) : s[i] = t[i]
  PROVE  s = t
OBVIOUS

LEMMA StrictPrefixIff ==
  ASSUME NEW s \in Seq(STRING), NEW t \in Seq(STRING)
  PROVE  IsStrictPrefix(s, t) <=>
           Len(s) < Len(t) /\ \A k \in 1..Len(s) : s[k] = t[k]
<1>1. ASSUME IsStrictPrefix(s, t)
      PROVE  Len(s) < Len(t) /\ \A k \in 1..Len(s) : s[k] = t[k]
  <2>1. Len(s) <= Len(t) /\ SubSeq(s, 1, Len(s)) = SubSeq(t, 1, Len(s)) /\ s # t
    BY <1>1 DEF IsStrictPrefix, IsPrefix
  <2>2. Len(s) \in 0..Len(s) /\ Len(s) \in 0..Len(t)
    BY <2>1
  <2>3. \A k \in 1..Len(s) : s[k] = t[k]
    BY <2>1, <2>2, SubSeqType
  <2>4. Len(s) # Len(t)
    BY <2>1, <2>3, SeqEqual
  <2> QED BY <2>1, <2>3, <2>4
<1>2. ASSUME Len(s) < Len(t), \A k \in 1..Len(s) : s[k] = t[k]
      PROVE  IsStrictPrefix(s, t)
  <2>1. Len(s) \in 0..Len(s) /\ Len(s) \in 0..Len(t)
    BY <1>2
  <2> DEFINE a == SubSeq(s, 1, Len(s))
             b == SubSeq(t, 1, Len(s))
  <2>2. /\ a \in Seq(STRING) /\ Len(a) = Len(s) /\ \A i \in 1..Len(s) : a[i] = s[i]
        /\ b \in Seq(STRING) /\ Len(b) = Len(s) /\ \A i \in 1..Len(s) : b[i] = t[i]
    BY <2>1, SubSeqType
  <2> HIDE DEF a, b
  <2>3. a = b
    <3>1. \A i \in 1..Len(a) : a[i] = b[i] BY <1>2, <2>2
    <3> QED BY <2>2, <3>1, SeqEqual
  <2>4. SubSeq(s, 1, Len(s)) = SubSeq(t, 1, Len(s)) BY <2>3 DEF a, b
  <2> QED BY <1>2, <2>4 DEF IsStrictPrefix, IsPrefix
<1> QED BY <1>1, <1>2

\* the entry of d on the way to p lies in d, and is p or above p
LEMMA BranchFacts ==
  ASSUME NEW d \in Seq(STRING), NEW p \in Seq(STRING), IsStrictPrefix(d, p)
  PROVE  /\ Branch(d, p) \in Seq(STRING)
         /\ Len(Branch(d, p)) = Len(d) + 1
         /\ Len(d) + 1 \in 1..Len(p)
         /\ Front(Branch(d, p)) = d
         /\ Branch(d, p) = p \/ IsStrictPrefix(Branch(d, p), p)
<1> DEFINE b == Branch(d, p)
           f == Front(b)
<1>1. Len(d) < Len(p) /\ \A k \in 1..Len(d) : d[k] = p[k]
  BY StrictPrefixIff
<1>2. Len(d) + 1 \in 0..Len(p) BY <1>1
<1>3. b \in Seq(STRING) /\ Len(b) = Len(d) + 1 /\ \A i \in 1..(Len(d) + 1) : b[i] = p[i]
  BY <1>2, SubSeqType DEF Branch
<1> HIDE DEF b
<1>4. Len(b) - 1 \in 0..Len(b) /\ Len(b) - 1 = Len(d) BY <1>3
<1>5. f \in Seq(STRING) /\ Len(f) = Len(d) /\ \A i \in 1..Len(d) : f[i] = b[i]
  BY <1>3, <1>4, SubSeqType DEF Front
<1> HIDE DEF f
<1>6. f = d
  <2>1. \A i \in 1..Len(f) : f[i] = d[i] BY <1>1, <1>3, <1>5
  <2> QED BY <1>5, <2>1, SeqEqual
<1>7. b = p \/ IsStrictPrefix(b, p)
  <2>1. CASE Len(b) = Len(p) BY <2>1, <1>3, SeqEqual
  <2>2. CASE Len(b) < Len(p) BY <2>2, <1>3, StrictPrefixIff
  <2> QED BY <1>1, <1>3, <2>1, <2>2
<1> QED BY <1>1, <1>3, <1>6, <1>7 DEF b, f

\* an entry of d lies below d and is its own branch
LEMMA ChildFacts ==
  ASSUME NEW p \in Seq(STRING), p # <<>>
  PROVE  /\ Front(p) \in Seq(STRING)
         /\ Len(Front(p)) = Len(p) - 1
         /\ IsStrictPrefix(Front(p), p)
         /\ Branch(Front(p), p) = p
<1> DEFINE f == Front(p)
           b == Branch(f, p)
<1>1. Len(p) \in Nat /\ Len(p) # 0 /\ Len(p) - 1 \in 0..Len(p) /\ Len(p) \in 0..Len(p)
  OBVIOUS
<1>2. f \in Seq(STRING) /\ Len(f) = Len(p) - 1 /\ \A i \in 1..Len(f) : f[i] = p[i]
  BY <1>1, SubSeqType DEF Front
<1> HIDE DEF f
<1>3. IsStrictPrefix(f, p)
  <2>1. Len(f) < Len(p) BY <1>1, <1>2
  <2> QED BY <1>2, <2>1, StrictPrefixIff
<1>4. b \in Seq(STRING) /\ Len(b) = Len(p) /\ \A i \in 1..Len(b) : b[i] = p[i]
  <2>1. Len(f) + 1 = Len(p) BY <1>1, <1>2
  <2> QED BY <1>1, <2>1, SubSeqType DEF Branch
<1> HIDE DEF b
<1>5. b = p BY <1>4, SeqEqual
<1> QED BY <1>2, <1>3, <1>5 DEF b, f

LEMMA PrefixChain ==
  ASSUME NEW d \in Seq(STRING), NEW e \in Seq(STRING), NEW p \in Seq(STRING),
         IsStrictPrefix(d, e), IsStrictPrefix(e, p)
  PROVE  /\ IsStrictPrefix(d, p)
         /\ Branch(d, p) = Branch(d, e)
<1>1. /\ Len(d) < Len(e) /\ \A k \in 1..Len(d) : d[k] = e[k]
      /\ Len(e) < Len(p) /\ \A k \in 1..Len(e) : e[k] = p[k]
  BY StrictPrefixIff
<1>2. IsStrictPrefix(d, p) BY <1>1, StrictPrefixIff
<1> DEFINE a == Branch(d, p)
           b == Branch(d, e)
<1>3. /\ a \in Seq(STRING) /\ Len(a) = Len(d) + 1 /\ \A i \in 1..(Len(d) + 1) : a[i] = p[i]
      /\ b \in Seq(STRING) /\ Len(b) = Len(d) + 1 /\ \A i \in 1..(Len(d) + 1) : b[i] = e[i]
  <2>1. Len(d) + 1 \in 0..Len(p) /\ Len(d) + 1 \in 0..Len(e) BY <1>1
  <2> QED BY <2>1, SubSeqType DEF Branch
<1> HIDE DEF a, b
<1>4. \A i \in 1..Len(a) : a[i] = b[i]
  <2>1. \A i \in 1..(Len(d) + 1) : i \in 1..Len(e) BY <1>1
  <2>2. \A i \in 1..(Len(d) + 1) : e[i] = p[i] BY <1>1, <2>1
  <2> QED BY <1>3, <2>2
<1>5. a = b BY <1>3, <1>4, SeqEqual
<1> QED BY <1>2, <1>5 DEF a, b

\* what lies above p is its directory or above its directory
LEMMA AboveFront ==
  ASSUME NEW q \in Seq(STRING), NEW p \in Seq(STRING), IsStrictPrefix(q, p)
  PROVE  p # <<>> /\ (q = Front(p) \/ IsStrictPrefix(q, Front(p)))
<1>1. Len(q) < Len(p) /\ \A k \in 1..Len(q) : q[k] = p[k] BY StrictPrefixIff
<1>2. p # <<>> BY <1>1
<1> DEFINE f == Front(p)
<1>3. f \in Seq(STRING) /\ Len(f) = Len(p) - 1 /\ \A i \in 1..Len(f) : f[i] = p[i]
  <2>1. Len(p) - 1 \in 0..Len(p) BY <1>1
  <2> QED BY <2>1, SubSeqType DEF Front
<1> HIDE DEF f
<1>4. \A i \in 1..Len(q) : q[i] = f[i] BY <1>1, <1>3
<1>5. CASE Len(q) = Len(f)
  <2>1. q = f BY <1>3, <1>4, <1>5, SeqEqual
  <2> QED BY <1>2, <2>1 DEF f
<1>6. CASE Len(q) < Len(f)
  <2>1. IsStrictPrefix(q, f) BY <1>3, <1>4, <1>6, StrictPrefixIff
  <2> QED BY <1>2, <2>1 DEF f
<1> QED BY <1>1, <1>3, <1>5, <1>6

LEMMA NotBelowItself ==
  ASSUME NEW p
  PROVE  ~IsStrictPrefix(p, p)
BY DEF IsStrictPrefix

-----------------------------------------------------------------------------
(* Messages *)

LEMMA Constructors ==
  /\ New("ListFilesRequest") = [directory |-> <<>>, recursive |-> 0]
  /\ New("FileEntry") = [name |-> <<>>, path |-> <<>>, size |-> 0,
                         is_directory |-> 0, mode |-> 0, mtime |-> 0]
  /\ New("ListFilesResponse") = [files |-> <<>>, directory |-> <<>>, total_count |-> 0]
  /\ New("GetFileMetaRequest") = [file_path |-> <<>>]
  /\ New("FileMeta") = [name |-> <<>>, path |-> <<>>, md5 |-> <<>>, size |-> 0,
                        mtime |-> 0, ctime |-> 0, mode |-> 0, is_directory |-> 0,
                        exists |-> 0]
  /\ New("GetFileMetaResponse") = [error |-> <<>>, meta |-> <<>>, success |-> 0]
  /\ New("RpcRequest") = [type |-> 0, list_files |-> <<>>, get_file_meta |-> <<>>]
  /\ New("RpcResponse") = [error |-> <<>>, type |-> 0, success |-> 0,
                           list_files |-> <<>>, get_file_meta |-> <<>>]
BY DEF New, CtorOf, ListFilesRequest_SharedCtor, FileEntry_SharedCtor,
  ListFilesResponse_SharedCtor, GetFileMetaRequest_SharedCtor, FileMeta_SharedCtor,
  GetFileMetaResponse_SharedCtor, RpcRequest_SharedCtor, RpcResponse_SharedCtor

LEMMA FieldsOfListFilesResponse ==
  /\ Fields("ListFilesResponse") =
       {Rep("files", "FileEntry"), Str("directory"), Num("total_count")}
  /\ MergeOf("ListFilesResponse") = {"files", "directory", "total_count"}
  /\ ClearOf("ListFilesResponse") = {"files", "directory", "total_count"}
<1>1. SerializeOf("ListFilesResponse") = ListFilesResponse_InternalSerialize
  BY DEF SerializeOf
<1> DEFINE S == Range(SerializeOf("ListFilesResponse"))
<1>2. S =
        {<<1, Rep("files", "FileEntry")>>, <<2, Str("directory")>>,
         <<3, Num("total_count")>>}
  BY <1>1 DEF ListFilesResponse_InternalSerialize, Range
<1> HIDE DEF S
<1>3. {pair[2] : pair \in S} =
       {Rep("files", "FileEntry"), Str("directory"), Num("total_count")}
  BY <1>2
<1>4. Fields("ListFilesResponse") =
       {Rep("files", "FileEntry"), Str("directory"), Num("total_count")}
  BY <1>3 DEF Fields, S
<1> QED
  BY <1>4 DEF MergeOf, ClearOf, ListFilesResponse_MergeImpl, ListFilesResponse_Clear

ListMsg(files, dir, count) == [files |-> files, directory |-> dir, total_count |-> count]

\* operator= of a ListFilesResponse leaves nothing of the old one
LEMMA CopyListFilesResponse ==
  ASSUME NEW a, NEW b, NEW c, NEW E, NEW files \in Seq(E), NEW dir, NEW count
  PROVE  CopyFrom("ListFilesResponse", ListMsg(a, b, c), ListMsg(files, dir, count))
           = ListMsg(files, dir, count)
<1> DEFINE T == "ListFilesResponse"
           from == ListMsg(files, dir, count)
           new == ListMsg(<<>>, <<>>, 0)
           r == MergeFrom(T, new, from)
<1>1. Clear(T, ListMsg(a, b, c)) = new
  BY Constructors, FieldsOfListFilesResponse DEF Clear, ListMsg
<1>2. /\ Rep("files", "FileEntry").name = "files"
      /\ Rep("files", "FileEntry").kind = "repeated"
      /\ Str("directory").name = "directory" /\ Str("directory").kind = "string"
      /\ Num("total_count").name = "total_count" /\ Num("total_count").kind = "varint"
  BY DEF Rep, Str, Num
<1>3. /\ (CHOOSE e \in Fields(T) : e.name = "files") = Rep("files", "FileEntry")
      /\ (CHOOSE e \in Fields(T) : e.name = "directory") = Str("directory")
      /\ (CHOOSE e \in Fields(T) : e.name = "total_count") = Num("total_count")
  BY <1>2, FieldsOfListFilesResponse
<1>4. /\ DOMAIN new = {"files", "directory", "total_count"}
      /\ new.files = <<>> /\ new.directory = <<>> /\ new.total_count = 0
      /\ from.files = files /\ from.directory = dir /\ from.total_count = count
  BY DEF ListMsg
<1> HIDE DEF new, from
<1>5. /\ DOMAIN r = {"files", "directory", "total_count"}
      /\ r = [f \in DOMAIN r |-> r[f]]
      /\ r["files"] = <<>> \o files
      /\ r["directory"] = dir
      /\ r["total_count"] = count
  BY <1>2, <1>3, <1>4, FieldsOfListFilesResponse DEF MergeFrom, MergeFields
<1>6. <<>> \o files = files
  OBVIOUS
<1> HIDE DEF r
<1>7. r = from
  BY <1>5, <1>6 DEF ListMsg, from
<1> QED
  BY <1>1, <1>7 DEF CopyFrom, r, from, new

FileMetaFields ==
  {"name", "path", "md5", "size", "mtime", "ctime", "mode", "is_directory",
      "exists"}

LEMMA FieldsOfFileMeta ==
  /\ Fields("FileMeta") =
       {Str("name"), Str("path"), Num("size"), Num("mtime"), Num("ctime"),
        Num("mode"), Str("md5"), Num("is_directory"), Num("exists")}
  /\ MergeOf("FileMeta") = FileMetaFields
<1>1. SerializeOf("FileMeta") = FileMeta_InternalSerialize
  BY DEF SerializeOf
<1> DEFINE S == Range(SerializeOf("FileMeta"))
<1>2. S =
        {<<1, Str("name")>>, <<2, Str("path")>>, <<3, Num("size")>>,
         <<4, Num("mtime")>>, <<5, Num("ctime")>>, <<6, Num("mode")>>,
         <<7, Str("md5")>>, <<8, Num("is_directory")>>, <<9, Num("exists")>>}
  BY <1>1 DEF FileMeta_InternalSerialize, Range
<1> HIDE DEF S
<1>3. {pair[2] : pair \in S} =
       {Str("name"), Str("path"), Num("size"), Num("mtime"), Num("ctime"),
        Num("mode"), Str("md5"), Num("is_directory"), Num("exists")}
  BY <1>2
<1>4. Fields("FileMeta") =
       {Str("name"), Str("path"), Num("size"), Num("mtime"), Num("ctime"),
        Num("mode"), Str("md5"), Num("is_directory"), Num("exists")}
  BY <1>3 DEF Fields, S
<1> QED
  BY <1>4 DEF MergeOf, FileMeta_MergeImpl, FileMetaFields

\* a FileMeta merged into a new one
LEMMA MergeFileMeta ==
  ASSUME NEW x, x = [f \in FileMetaFields |-> x[f]]
  PROVE  MergeInner("FileMeta", New("FileMeta"), x) = x
<1> DEFINE T == "FileMeta"
           D(f) == CHOOSE e \in Fields(T) : e.name = f
           new == New(T)
           r == MergeInner(T, new, x)
<1>1. /\ \A f \in {"name", "path", "md5"} : Str(f).name = f /\ Str(f).kind = "string"
      /\ \A f \in {"size", "mtime", "ctime", "mode", "is_directory", "exists"} :
           Num(f).name = f /\ Num(f).kind = "varint"
  BY DEF Str, Num
<1>2. \A f \in FileMetaFields : \E e \in Fields(T) : e.name = f
  BY <1>1, FieldsOfFileMeta DEF FileMetaFields
<1>3. \A f \in FileMetaFields : D(f) \in Fields(T) /\ D(f).name = f
  BY <1>2
<1>4. /\ \A f \in {"name", "path", "md5"} : D(f).kind = "string"
      /\ \A f \in {"size", "mtime", "ctime", "mode", "is_directory", "exists"} :
           D(f).kind = "varint"
  BY <1>1, <1>3, FieldsOfFileMeta DEF FileMetaFields
<1>5. /\ DOMAIN new = FileMetaFields
      /\ \A f \in {"name", "path", "md5"} : new[f] = <<>>
      /\ \A f \in {"size", "mtime", "ctime", "mode", "is_directory", "exists"} :
           new[f] = 0
  BY Constructors DEF FileMetaFields
<1> HIDE DEF new
<1>6. /\ DOMAIN r = FileMetaFields
      /\ r = [f \in DOMAIN r |-> r[f]]
  BY <1>5 DEF MergeInner, MergeFields
<1>7. \A f \in {"name", "path", "md5"} : r[f] = x[f]
  BY <1>4, <1>5, FieldsOfFileMeta DEF MergeInner, MergeFields, FileMetaFields
<1>8. \A f \in {"size", "mtime", "ctime", "mode", "is_directory", "exists"} :
        r[f] = x[f]
  BY <1>4, <1>5, FieldsOfFileMeta DEF MergeInner, MergeFields, FileMetaFields
<1>9. \A f \in FileMetaFields : r[f] = x[f]
  BY <1>7, <1>8 DEF FileMetaFields
<1> HIDE DEF r
<1>10. r = x
  BY <1>6, <1>9
<1> QED
  BY <1>10 DEF r, new

LEMMA FieldsOfGetFileMetaResponse ==
  /\ Fields("GetFileMetaResponse") =
       {Sub("meta", "FileMeta"), Num("success"), Str("error")}
  /\ MergeOf("GetFileMetaResponse") = {"error", "meta", "success"}
  /\ ClearOf("GetFileMetaResponse") = {"error", "meta", "success"}
<1>1. SerializeOf("GetFileMetaResponse") = GetFileMetaResponse_InternalSerialize
  BY DEF SerializeOf
<1> DEFINE S == Range(SerializeOf("GetFileMetaResponse"))
<1>2. S =
        {<<1, Sub("meta", "FileMeta")>>, <<2, Num("success")>>, <<3, Str("error")>>}
  BY <1>1 DEF GetFileMetaResponse_InternalSerialize, Range
<1> HIDE DEF S
<1>3. {pair[2] : pair \in S} =
       {Sub("meta", "FileMeta"), Num("success"), Str("error")}
  BY <1>2
<1>4. Fields("GetFileMetaResponse") =
       {Sub("meta", "FileMeta"), Num("success"), Str("error")}
  BY <1>3 DEF Fields, S
<1> QED
  BY <1>4 DEF MergeOf, ClearOf, GetFileMetaResponse_MergeImpl, GetFileMetaResponse_Clear

MetaMsg(error, info, success) == [error |-> error, meta |-> info, success |-> success]

\* operator= of a GetFileMetaResponse leaves nothing of the old one
LEMMA CopyGetFileMetaResponse ==
  ASSUME NEW a, NEW b, NEW c, NEW error, NEW success,
         NEW x, x = [f \in FileMetaFields |-> x[f]]
  PROVE  CopyFrom("GetFileMetaResponse", MetaMsg(a, b, c), MetaMsg(error, <<x>>, success))
           = MetaMsg(error, <<x>>, success)
<1> DEFINE T == "GetFileMetaResponse"
           from == MetaMsg(error, <<x>>, success)
           new == MetaMsg(<<>>, <<>>, 0)
           r == MergeFrom(T, new, from)
<1>1. Clear(T, MetaMsg(a, b, c)) = new
  BY Constructors, FieldsOfGetFileMetaResponse DEF Clear, MetaMsg
<1>2. /\ Sub("meta", "FileMeta").name = "meta"
      /\ Sub("meta", "FileMeta").kind = "message"
      /\ Sub("meta", "FileMeta").of = "FileMeta"
      /\ Str("error").name = "error" /\ Str("error").kind = "string"
      /\ Num("success").name = "success" /\ Num("success").kind = "varint"
  BY DEF Sub, Str, Num
<1>3. /\ (CHOOSE e \in Fields(T) : e.name = "meta") = Sub("meta", "FileMeta")
      /\ (CHOOSE e \in Fields(T) : e.name = "error") = Str("error")
      /\ (CHOOSE e \in Fields(T) : e.name = "success") = Num("success")
  BY <1>2, FieldsOfGetFileMetaResponse
<1>4. /\ DOMAIN new = {"error", "meta", "success"}
      /\ new.error = <<>> /\ new.meta = <<>> /\ new.success = 0
      /\ from.error = error /\ from.meta = <<x>> /\ from.success = success
      /\ <<x>> # <<>> /\ <<x>>[1] = x
  BY DEF MetaMsg
<1> HIDE DEF new, from
<1>5. Get(new, "meta", "FileMeta") = New("FileMeta")
  BY <1>4 DEF Get
<1>6. /\ DOMAIN r = {"error", "meta", "success"}
      /\ r = [f \in DOMAIN r |-> r[f]]
      /\ r["error"] = error
      /\ r["success"] = success
  BY <1>2, <1>3, <1>4, FieldsOfGetFileMetaResponse DEF MergeFrom, MergeFields
<1>7. r["meta"] = <<MergeInner("FileMeta", New("FileMeta"), x)>>
  <2>1. Sub("meta", "FileMeta") \in SubFields(T, from)
    BY <1>2, <1>4, FieldsOfGetFileMetaResponse DEF SubFields
  <2> DEFINE merged == [d \in SubFields(T, from) |->
                          MergeInner(d.of, Get(new, d.name, d.of), from[d.name][1])]
  <2>2. merged[Sub("meta", "FileMeta")] = MergeInner("FileMeta", New("FileMeta"), x)
    BY <1>2, <1>4, <1>5, <2>1
  <2>3. r = MergeFields(T, new, from, merged)
    BY DEF MergeFrom
  <2> HIDE DEF merged
  <2>4. QED
    BY <1>2, <1>3, <1>4, <2>2, <2>3, FieldsOfGetFileMetaResponse DEF MergeFields
<1> HIDE DEF r
<1>8. r = from
  BY <1>6, <1>7, MergeFileMeta DEF MetaMsg, from
<1> QED
  BY <1>1, <1>8 DEF CopyFrom, r, from, new

LEMMA OneofOfRequest ==
  OneofOf("RpcRequest") = {"list_files", "get_file_meta"}
<1> DEFINE s == {Num("type"), One("list_files", "ListFilesRequest"),
                 One("get_file_meta", "GetFileMetaRequest")}
<1>1. SerializeOf("RpcRequest") = RpcRequest_InternalSerialize
  BY DEF SerializeOf
<1> DEFINE S == Range(SerializeOf("RpcRequest"))
<1>2. S =
        {<<1, Num("type")>>, <<10, One("list_files", "ListFilesRequest")>>,
         <<11, One("get_file_meta", "GetFileMetaRequest")>>}
  BY <1>1 DEF RpcRequest_InternalSerialize, Range
<1> HIDE DEF S
<1>3. {pair[2] : pair \in S} = s
  BY <1>2
<1>4. Fields("RpcRequest") = s
  BY <1>3 DEF Fields, S
<1>5. {e \in s : e.kind = "oneof"} =
        {One("list_files", "ListFilesRequest"), One("get_file_meta", "GetFileMetaRequest")}
  BY DEF Num, One
<1>6. {e \in Fields("RpcRequest") : e.kind = "oneof"} =
        {One("list_files", "ListFilesRequest"), One("get_file_meta", "GetFileMetaRequest")}
  BY <1>4, <1>5
<1>7. \A f, T : One(f, T).name = f
  BY DEF One
<1> QED
  BY <1>6, <1>7 DEF OneofOf

LEMMA OneofOfResponse ==
  OneofOf("RpcResponse") = {"list_files", "get_file_meta"}
<1> DEFINE s == {Num("type"), Num("success"), Str("error"),
                 One("list_files", "ListFilesResponse"),
                 One("get_file_meta", "GetFileMetaResponse")}
<1>1. SerializeOf("RpcResponse") = RpcResponse_InternalSerialize
  BY DEF SerializeOf
<1> DEFINE S == Range(SerializeOf("RpcResponse"))
<1>2. S =
        {<<1, Num("type")>>, <<2, Num("success")>>, <<3, Str("error")>>,
         <<10, One("list_files", "ListFilesResponse")>>,
         <<11, One("get_file_meta", "GetFileMetaResponse")>>}
  BY <1>1 DEF RpcResponse_InternalSerialize, Range
<1> HIDE DEF S
<1>3. {pair[2] : pair \in S} = s
  BY <1>2
<1>4. Fields("RpcResponse") = s
  BY <1>3 DEF Fields, S
<1>5. {e \in s : e.kind = "oneof"} =
        {One("list_files", "ListFilesResponse"), One("get_file_meta", "GetFileMetaResponse")}
  BY DEF Num, Str, One
<1>6. {e \in Fields("RpcResponse") : e.kind = "oneof"} =
        {One("list_files", "ListFilesResponse"), One("get_file_meta", "GetFileMetaResponse")}
  BY <1>4, <1>5
<1>7. \A f, T : One(f, T).name = f
  BY DEF One
<1> QED
  BY <1>6, <1>7 DEF OneofOf

RequestMsg(type, list, info) == [type |-> type, list_files |-> list, get_file_meta |-> info]

\* the requests that listFiles() and getFileMeta() build
LEMMA BuiltRequest ==
  ASSUME NEW c
  PROVE  /\ c.kind = "list" =>
              Built(c) = RequestMsg(1, <<[directory |-> c.path,
                                         recursive |-> Flag(c.recursive)]>>, <<>>)
         /\ c.kind = "meta" => Built(c) = RequestMsg(2, <<>>, <<[file_path |-> c.path]>>)
         /\ c.kind = "other" => Built(c) = RequestMsg(3, <<>>, <<>>)
<1>1. CASE c.kind = "list"
  <2> DEFINE n == [NoRequest EXCEPT !.type = RPC_LIST_FILES]
             m == MutableOneof("RpcRequest", n, "list_files", "ListFilesRequest")
  <2>1. n = RequestMsg(1, <<>>, <<>>)
    BY Constructors DEF NoRequest, RPC_LIST_FILES, RequestMsg
  <2> HIDE DEF n
  <2>2. m = RequestMsg(1, <<[directory |-> <<>>, recursive |-> 0]>>, <<>>)
    BY <2>1, Constructors, OneofOfRequest DEF MutableOneof, RequestMsg
  <2>3. Built(c) = [m EXCEPT !.list_files[1].directory = c.path,
                             !.list_files[1].recursive = Flag(c.recursive)]
    BY <1>1 DEF Built, n, m
  <2> DEFINE k == [m EXCEPT !.list_files[1].directory = c.path]
  <2>4. Built(c) = [k EXCEPT !.list_files[1].recursive = Flag(c.recursive)]
    BY <2>3 DEF k
  <2> HIDE DEF m
  <2>5. k = RequestMsg(1, <<[directory |-> c.path, recursive |-> 0]>>, <<>>)
    BY <2>2 DEF RequestMsg
  <2> HIDE DEF k
  <2>6. Built(c) = RequestMsg(1, <<[directory |-> c.path,
                                   recursive |-> Flag(c.recursive)]>>, <<>>)
    BY <2>4, <2>5 DEF RequestMsg
  <2> QED
    BY <1>1, <2>6
<1>2. CASE c.kind = "meta"
  <2> DEFINE n == [NoRequest EXCEPT !.type = RPC_GET_FILE_META]
             m == MutableOneof("RpcRequest", n, "get_file_meta", "GetFileMetaRequest")
  <2>1. n = RequestMsg(2, <<>>, <<>>)
    BY Constructors DEF NoRequest, RPC_GET_FILE_META, RequestMsg
  <2> HIDE DEF n
  <2>2. m = RequestMsg(2, <<>>, <<[file_path |-> <<>>]>>)
    BY <2>1, Constructors, OneofOfRequest DEF MutableOneof, RequestMsg
  <2>3. Built(c) = [m EXCEPT !.get_file_meta[1].file_path = c.path]
    BY <1>2 DEF Built, n, m
  <2> HIDE DEF m
  <2> QED
    BY <1>2, <2>2, <2>3 DEF RequestMsg
<1>3. CASE c.kind = "other"
  BY <1>3, Constructors DEF Built, NoRequest, RequestMsg
<1> QED BY <1>1, <1>2, <1>3

ResponseMsg(error, type, success, list, info) ==
  [error |-> error, type |-> type, success |-> success, list_files |-> list,
   get_file_meta |-> info]

LEMMA StartOfResponse ==
  ASSUME NEW t, NEW v
  PROVE  [New("RpcResponse") EXCEPT !.type = t, !.success = v]
           = ResponseMsg(<<>>, t, v, <<>>, <<>>)
<1> DEFINE n == New("RpcResponse")
           k == [n EXCEPT !.type = t]
<1>1. n = ResponseMsg(<<>>, 0, 0, <<>>, <<>>) BY Constructors DEF ResponseMsg
<1> HIDE DEF n
<1>2. k = ResponseMsg(<<>>, t, 0, <<>>, <<>>) BY <1>1 DEF ResponseMsg
<1> HIDE DEF k
<1>3. [k EXCEPT !.success = v] = ResponseMsg(<<>>, t, v, <<>>, <<>>)
  BY <1>2 DEF ResponseMsg
<1> QED BY <1>3 DEF k, n

\* the response to a request that has failed or is not known
LEMMA FailedResponse ==
  ASSUME handled = FALSE
  PROVE  \E error : Response = ResponseMsg(error, request.type, 0, <<>>, <<>>)
<1> DEFINE r == [New("RpcResponse") EXCEPT !.type = request.type,
                                           !.success = Flag(handled)]
           error == IF request.type \in {RPC_LIST_FILES, RPC_GET_FILE_META}
                      THEN <<"processing failed">> ELSE <<"unknown RPC type">>
<1>1. r = ResponseMsg(<<>>, request.type, 0, <<>>, <<>>)
  <2>1. Flag(handled) = 0 BY DEF Flag
  <2> QED BY <2>1, StartOfResponse
<1>2. Response = [r EXCEPT !.error = error]
  BY DEF Response
<1> HIDE DEF r, error
<1>3. Response = ResponseMsg(error, request.type, 0, <<>>, <<>>)
  BY <1>1, <1>2 DEF ResponseMsg
<1> QED BY <1>3

\* the response with a listing
LEMMA ListResponse ==
  ASSUME handled = TRUE, request.type = 1, NEW E, NEW files \in Seq(E), NEW dir, NEW count,
         listResp = ListMsg(files, dir, count)
  PROVE  Response = ResponseMsg(<<>>, 1, 1, <<listResp>>, <<>>)
<1> DEFINE r == [New("RpcResponse") EXCEPT !.type = request.type,
                                           !.success = Flag(handled)]
           m == MutableOneof("RpcResponse", r, "list_files", "ListFilesResponse")
           v == CopyFrom("ListFilesResponse", m.list_files[1], listResp)
<1>1. r = ResponseMsg(<<>>, 1, 1, <<>>, <<>>)
  <2>1. Flag(handled) = 1 BY DEF Flag
  <2> QED BY <2>1, StartOfResponse
<1>2. Response = [m EXCEPT !.list_files = <<v>>]
  BY DEF Response, RPC_LIST_FILES
<1> HIDE DEF r
<1>3. m = ResponseMsg(<<>>, 1, 1, <<ListMsg(<<>>, <<>>, 0)>>, <<>>)
  BY <1>1, Constructors, OneofOfResponse DEF MutableOneof, ResponseMsg, ListMsg
<1> HIDE DEF m
<1>4. v = CopyFrom("ListFilesResponse", ListMsg(<<>>, <<>>, 0), listResp)
  BY <1>3 DEF ResponseMsg
<1>5. v = listResp
  BY <1>4, CopyListFilesResponse
<1> HIDE DEF v
<1> QED
  BY <1>2, <1>3, <1>5 DEF ResponseMsg

\* the response with metadata
LEMMA MetaResponse ==
  ASSUME handled = TRUE, request.type = 2, NEW error, NEW success,
         NEW x, x = [f \in FileMetaFields |-> x[f]],
         metaResp = MetaMsg(error, <<x>>, success)
  PROVE  Response = ResponseMsg(<<>>, 2, 1, <<>>, <<metaResp>>)
<1> DEFINE r == [New("RpcResponse") EXCEPT !.type = request.type,
                                           !.success = Flag(handled)]
           m == MutableOneof("RpcResponse", r, "get_file_meta", "GetFileMetaResponse")
           v == CopyFrom("GetFileMetaResponse", m.get_file_meta[1], metaResp)
<1>1. r = ResponseMsg(<<>>, 2, 1, <<>>, <<>>)
  <2>1. Flag(handled) = 1 BY DEF Flag
  <2> QED BY <2>1, StartOfResponse
<1>2. Response = [m EXCEPT !.get_file_meta = <<v>>]
  BY DEF Response, RPC_LIST_FILES
<1> HIDE DEF r
<1>3. m = ResponseMsg(<<>>, 2, 1, <<>>, <<MetaMsg(<<>>, <<>>, 0)>>)
  BY <1>1, Constructors, OneofOfResponse DEF MutableOneof, ResponseMsg, MetaMsg
<1> HIDE DEF m
<1>4. v = CopyFrom("GetFileMetaResponse", MetaMsg(<<>>, <<>>, 0), metaResp)
  BY <1>3 DEF ResponseMsg
<1>5. v = metaResp
  BY <1>4, CopyGetFileMetaResponse
<1> HIDE DEF v
<1> QED
  BY <1>2, <1>3, <1>5 DEF ResponseMsg

-----------------------------------------------------------------------------
(* The inductive invariant *)

NodeSet == {None} \cup [kind : {"file", "dir"}, version : 1..(MaxChanges + 1)]
EntrySet == {Entry(p, n) : p \in Paths, n \in NodeSet}
ListType ==
  {l \in [files : Seq(EntrySet), directory : AllPaths, total_count : Nat] :
     l.total_count = Len(l.files)}
FrameSet == [dir : AllPaths, open : BOOLEAN, todo : SUBSET Paths]

\* what has a name lies in a directory
TreeInv ==
  /\ fs \in [Paths -> NodeSet]
  /\ \A p, q \in Paths : IsStrictPrefix(q, p) /\ fs[p] # None => IsDir(fs[q])

\* What sn says has been found at every path and the present nodes f: what has been
\* there all the time has been in directories all the time.
Sees(f, sn) ==
  /\ \A p \in Paths : f[p] \in sn[p]
  /\ Node("dir", 1) \in sn[<<>>]
  /\ \A p, q \in Paths :
       IsStrictPrefix(q, p) /\ None \notin sn[p] => \A n \in sn[q] : IsDir(n)

SeenInv ==
  /\ seen \in [AllPaths -> SUBSET NodeSet]
  /\ cpc = "recv" => Sees(fs, seen)

\* the types of the variables, whichever session the server works for
TypeInv ==
  /\ cpc \in {"idle", "recv", "dead"} /\ connected \in BOOLEAN
  /\ calls \in 0..MaxCalls /\ changes \in 0..MaxChanges /\ faults \in 0..MaxFaults
  /\ result \in {"none", "true", "false"}
  /\ link \in {"open", "fin", "cut"}
  /\ spc \in {"recv", "list", "walk", "meta", "md5", "md5End", "reply", "closed"}
  /\ handled \in BOOLEAN
  /\ call = [kind |-> "none"] \/ call \in Requests
  /\ cpc = "recv" => call \in Requests /\ result = "none"
  /\ listing \in ListType /\ listResp \in ListType
  /\ meta = MetaMsg(meta.error, meta.meta, meta.success)
  /\ stack \in Seq(FrameSet)
  /\ spc = "walk" => stack # <<>>
  /\ request = NoRequest \/ \E c \in Requests : request = Built(c)
  /\ up = <<>> \/ \E c \in Requests : up = <<Envelope("RpcRequest", Built(c))>>
  /\ down = <<>> \/ \E m : down = <<m>>

\* the variables of a round of the server's loop are new when it waits
LocalsInv ==
  spc = "recv" => /\ handled = FALSE
                  /\ listResp = New("ListFilesResponse")
                  /\ metaResp = New("GetFileMetaResponse")

\* one request and one response at a time
RoundInv ==
  /\ cpc = "idle" => down = <<>>
  /\ link = "open" /\ cpc # "recv" =>
       up = <<>> /\ down = <<>> /\ spc \in {"recv", "closed"}
  /\ link = "open" /\ cpc = "recv" =>
       /\ up # <<>> => /\ spc = "recv" /\ down = <<>>
                       /\ up = <<Envelope("RpcRequest", Built(call))>>
       /\ down # <<>> => spc = "recv"

WantedBy(c) == IF c.recursive THEN Below(c.path) ELSE Children(c.path)

\* the entries of l are those of call c, as they have been seen
Sound(l, c, sn) ==
  /\ l.directory = c.path
  /\ \A i \in DOMAIN l.files :
       /\ l.files[i].path \in WantedBy(c)
       /\ \E n \in sn[l.files[i].path] \ {None} :
            l.files[i] = Entry(l.files[i].path, n)
Unique(l) ==
  \A i, j \in DOMAIN l.files : l.files[i].path = l.files[j].path => i = j
Lists(l, p) == \E i \in DOMAIN l.files : l.files[i].path = p

ListGood(l, c, sn) ==
  /\ Sound(l, c, sn)
  /\ Unique(l)
  /\ \A p \in WantedBy(c) : None \notin sn[p] => Lists(l, p)

\* the listDirectory() calls under way, the outermost first, are on one path
Shape(stk, c) ==
  /\ stk # <<>>
  /\ \A i \in DOMAIN stk : /\ stk[i].dir = c.path \/ IsStrictPrefix(c.path, stk[i].dir)
                           /\ stk[i].todo \subseteq Children(stk[i].dir)
  /\ c.recursive = FALSE => Len(stk) = 1 /\ stk[1].dir = c.path
  /\ \A i, j \in DOMAIN stk : i < j =>
       /\ stk[i].open = TRUE
       /\ IsStrictPrefix(stk[i].dir, stk[j].dir)
       /\ Branch(stk[i].dir, stk[j].dir) \notin stk[i].todo

\* no call under way has still to come to p
Passed(frame, p) ==
  IsStrictPrefix(frame.dir, p) =>
    frame.open = TRUE /\ Branch(frame.dir, p) \notin frame.todo
Visited(stk, p) == \A i \in DOMAIN stk : Passed(stk[i], p)

Walk(stk, l, c, sn) ==
  /\ Shape(stk, c)
  /\ Sound(l, c, sn)
  /\ Unique(l)
  /\ \A i \in DOMAIN l.files : Visited(stk, l.files[i].path)
  /\ \A p \in WantedBy(c) : None \notin sn[p] /\ Visited(stk, p) => Lists(l, p)

\* what has been found at the path of a call, and the metadata of one node
CallNodes(p, sn) == sn[p]
Plain(p, n) == IF n = None THEN New("FileMeta") ELSE Described(p, n)
WithMD5(p, n, s) == [Plain(p, n) EXCEPT !.md5 = s]
Full(p, n) ==
  IF n = None THEN New("FileMeta")
  ELSE [Described(p, n) EXCEPT !.md5 = IF n.kind = "file" THEN MD5(n) ELSE <<>>]

MetaGood(m, c, sn) ==
  \E x : /\ m = MetaMsg(<<>>, <<x>>, 1)
         /\ \E n \in CallNodes(c.path, sn) :
              \E s : x = WithMD5(c.path, n, s)
         /\ \A n \in CallNodes(c.path, sn) :
              CallNodes(c.path, sn) = {n} => x = Full(c.path, n)

\* stat() has found a file
HalfMeta(m, c, sn) ==
  \E n \in CallNodes(c.path, sn) :
    n.kind = "file" /\ m = MetaMsg(<<>>, <<Described(c.path, n)>>, 1)

\* why a call may fail on a sound connection
Refused(c, sn) ==
  \/ c.kind = "other"
  \/ c.kind = "list" /\ \E n \in sn[c.path] : ~IsDir(n)
Unreadable(c, sn) ==
  \E p \in AllPaths : Range(p) \cap NotUtf8 # {} /\
    (p = c.path \/ (c.kind = "list" /\ p \in WantedBy(c) /\ sn[p] # {None}))

\* the handler works on the request of the call under way
WorkInv ==
  link = "open" /\ cpc = "recv" =>
    /\ spc \notin {"recv", "closed"} => request = Built(call)
    /\ spc = "list" => /\ call.kind = "list" /\ handled = FALSE
                       /\ listResp = New("ListFilesResponse")
    /\ spc = "walk" => /\ call.kind = "list" /\ handled = FALSE
                       /\ Walk(stack, listResp, call, seen)
    /\ spc = "meta" => call.kind = "meta" /\ metaResp = New("GetFileMetaResponse")
    /\ spc = "md5" => call.kind = "meta" /\ HalfMeta(metaResp, call, seen)
    /\ spc = "md5End" => /\ call.kind = "meta" /\ HalfMeta(metaResp, call, seen)
                         /\ opened \in CallNodes(call.path, seen) \ {None}
    /\ spc = "reply" =>
         \/ handled = FALSE /\ Refused(call, seen)
         \/ handled = TRUE /\ call.kind = "list" /\ ListGood(listResp, call, seen)
         \/ handled = TRUE /\ call.kind = "meta" /\ MetaGood(metaResp, call, seen)

\* a response says what the call has asked for, or has a reason not to
Says(r, c, sn) ==
  LET p == Received("RpcResponse", r) IN
  \/ /\ r.len # 0 /\ p.ok = TRUE /\ p.msg.success = 1
     /\ \/ /\ c.kind = "list"
           /\ \E l \in ListType : p.msg.list_files = <<l>> /\ ListGood(l, c, sn)
        \/ /\ c.kind = "meta"
           /\ \E m : p.msg.get_file_meta = <<m>> /\ MetaGood(m, c, sn)
  \/ /\ p.ok = TRUE => p.msg.success = 0
     /\ Refused(c, sn) \/ Unreadable(c, sn)

AnswerInv == cpc = "recv" /\ down # <<>> => Says(Head(down), call, seen)

ResultInv ==
  /\ result = "true" =>
       \/ call.kind = "list" /\ ListGood(listing, call, seen)
       \/ call.kind = "meta" /\ MetaGood(meta, call, seen)
  /\ result = "false" =>
       connected = FALSE \/ Gone \/ Refused(call, seen) \/ Unreadable(call, seen)

RpcInv ==
  /\ TreeInv /\ SeenInv /\ TypeInv /\ LocalsInv /\ RoundInv /\ WorkInv
  /\ AnswerInv /\ ResultInv

-----------------------------------------------------------------------------
(* What the invariant says of a path *)

LEMMA PathTypes ==
  /\ Paths \subseteq Seq(STRING)
  /\ AllPaths \subseteq Seq(STRING)
  /\ \A p \in Paths : p # <<>> /\ Front(p) \in AllPaths
<1>1. \A p \in Paths : p \in Seq(STRING) /\ p # <<>>
  BY RpcAssumption
<1>2. AllPaths \subseteq Seq(STRING)
  <2>1. <<>> \in Seq(STRING) OBVIOUS
  <2>2. \A p \in Paths : p \in Seq(STRING) BY <1>1
  <2> QED BY <2>1, <2>2 DEF AllPaths
<1>3. ASSUME NEW p \in Paths
      PROVE  Front(p) \in AllPaths
  <2>1. p \in Seq(STRING) /\ p # <<>> /\ Len(p) \in Nat /\ Len(p) # 0
    BY <1>1
  <2>2. CASE Len(p) = 1
    <3>1. Front(p) \in Seq(STRING) /\ Len(Front(p)) = 0
      BY <2>1, <2>2, ChildFacts
    <3>2. \A s \in Seq(STRING) : Len(s) = 0 => s = <<>> OBVIOUS
    <3>3. Front(p) = <<>> BY <3>1, <3>2
    <3>4. <<>> \in AllPaths BY DEF AllPaths
    <3> QED BY <3>3, <3>4
  <2>3. CASE Len(p) - 1 \in 1..Len(p)
    <3>1. SubSeq(p, 1, Len(p) - 1) \in Paths BY <2>3, RpcAssumption
    <3> QED BY <3>1 DEF Front, AllPaths
  <2>4. \A n \in Nat : n # 0 => n = 1 \/ n - 1 \in 1..n OBVIOUS
  <2>5. Len(p) = 1 \/ Len(p) - 1 \in 1..Len(p) BY <2>1, <2>4
  <2> QED BY <2>2, <2>3, <2>5
<1> QED BY <1>1, <1>2, <1>3

\* the entry of d on the way to a path is a path
LEMMA BranchIsPath ==
  ASSUME NEW d \in AllPaths, NEW p \in Paths, IsStrictPrefix(d, p)
  PROVE  /\ Branch(d, p) \in Children(d)
         /\ Branch(d, p) = p \/ IsStrictPrefix(Branch(d, p), p)
<1>1. d \in Seq(STRING) /\ p \in Seq(STRING)
  BY PathTypes
<1>2. /\ Len(d) + 1 \in 1..Len(p)
      /\ Front(Branch(d, p)) = d
      /\ Branch(d, p) = p \/ IsStrictPrefix(Branch(d, p), p)
  BY <1>1, BranchFacts
<1>3. Branch(d, p) \in Paths
  BY <1>2, RpcAssumption DEF Branch
<1> QED BY <1>2, <1>3 DEF Children

\* an entry of a directory
LEMMA ChildIsBelow ==
  ASSUME NEW d \in AllPaths, NEW x \in Children(d)
  PROVE  /\ x \in Paths /\ IsStrictPrefix(d, x) /\ Branch(d, x) = x
         /\ \A p \in Paths : IsStrictPrefix(x, p) =>
              IsStrictPrefix(d, p) /\ Branch(d, p) = x
<1>1. x \in Paths /\ Front(x) = d /\ x \in Seq(STRING) /\ x # <<>> /\ d \in Seq(STRING)
  BY PathTypes DEF Children
<1>2. IsStrictPrefix(d, x) /\ Branch(d, x) = x
  BY <1>1, ChildFacts
<1>3. ASSUME NEW p \in Paths, IsStrictPrefix(x, p)
      PROVE  IsStrictPrefix(d, p) /\ Branch(d, p) = x
  <2>1. p \in Seq(STRING) BY PathTypes
  <2> QED BY <1>1, <1>2, <1>3, <2>1, PrefixChain
<1> QED BY <1>1, <1>2, <1>3

\* what has been there all the time is there, and so is what it lies in
LEMMA StillThere ==
  ASSUME NEW f, NEW sn, Sees(f, sn), NEW p \in Paths, None \notin sn[p]
  PROVE  /\ f[p] # None
         /\ \A q \in Paths : IsStrictPrefix(q, p) => IsDir(f[q]) /\ f[q] # None
<1>1. f[p] \in sn[p] /\ \A q \in Paths : f[q] \in sn[q]
  BY DEF Sees
<1>2. \A q \in Paths : IsStrictPrefix(q, p) => \A n \in sn[q] : IsDir(n)
  BY DEF Sees
<1>3. ~IsDir(None)
  BY DEF IsDir, None, Node
<1> QED BY <1>1, <1>2, <1>3

-----------------------------------------------------------------------------
(* The walk of listDirectory() *)

\* what an entry says of itself
LEMMA EntryPath ==
  ASSUME NEW p, NEW n
  PROVE  Entry(p, n).path = p
<1> DEFINE e == New("FileEntry")
<1>1. DOMAIN e = {"name", "path", "size", "is_directory", "mode", "mtime"}
  BY Constructors
<1> HIDE DEF e
<1>2. Entry(p, n) = [e EXCEPT !.name = NameOf(p), !.path = p,
                       !.is_directory = Flag(IsDir(n)), !.size = n.version,
                       !.mtime = MTime(n), !.mode = Mode(n)]
  BY DEF Entry, e
<1> QED BY <1>1, <1>2

\* A listing to which an entry is added.
WithEntry(l, e) == [l EXCEPT !.files = Append(@, e), !.total_count = @ + 1]

LEMMA WithEntryFacts ==
  ASSUME NEW l \in ListType, NEW e \in EntrySet
  PROVE  LET m == WithEntry(l, e) IN
         /\ m \in ListType
         /\ m.directory = l.directory
         /\ DOMAIN l.files = 1..Len(l.files)
         /\ DOMAIN m.files = 1..(Len(l.files) + 1)
         /\ \A i \in DOMAIN l.files : i \in DOMAIN m.files /\ m.files[i] = l.files[i]
         /\ m.files[Len(l.files) + 1] = e
<1> DEFINE fl == l.files
           k == [l EXCEPT !.files = Append(@, e)]
           m == WithEntry(l, e)
<1>1. /\ l \in [files : Seq(EntrySet), directory : AllPaths, total_count : Nat]
      /\ l.total_count = Len(l.files)
  BY DEF ListType
<1>2. fl \in Seq(EntrySet) /\ Append(fl, e) \in Seq(EntrySet)
  BY <1>1
<1>3. /\ Len(Append(fl, e)) = Len(fl) + 1
      /\ DOMAIN fl = 1..Len(fl)
      /\ DOMAIN Append(fl, e) = 1..(Len(fl) + 1)
      /\ \A i \in 1..Len(fl) : Append(fl, e)[i] = fl[i]
      /\ Append(fl, e)[Len(fl) + 1] = e
      /\ Len(fl) \in Nat
  BY <1>1
<1>4. /\ k \in [files : Seq(EntrySet), directory : AllPaths, total_count : Nat]
      /\ k.files = Append(fl, e) /\ k.directory = l.directory
      /\ k.total_count = Len(fl)
  BY <1>1, <1>2
<1>5. m = [k EXCEPT !.total_count = @ + 1]
  BY DEF WithEntry
<1> HIDE DEF k, m
<1>6. /\ m \in [files : Seq(EntrySet), directory : AllPaths, total_count : Nat]
      /\ m.files = Append(fl, e) /\ m.directory = l.directory
      /\ m.total_count = Len(fl) + 1
  BY <1>3, <1>4, <1>5
<1>7. m \in ListType
  BY <1>3, <1>6 DEF ListType
<1> QED BY <1>3, <1>6, <1>7 DEF m

LEMMA AddEntry ==
  ASSUME NEW l \in ListType, NEW c, NEW sn, NEW x \in Paths, x \in WantedBy(c),
         NEW n \in NodeSet, n \in sn[x], n # None,
         Sound(l, c, sn), Unique(l), ~Lists(l, x)
  PROVE  LET m == WithEntry(l, Entry(x, n)) IN
         /\ m \in ListType /\ Sound(m, c, sn) /\ Unique(m)
         /\ \A p : Lists(m, p) <=> Lists(l, p) \/ p = x
<1> DEFINE e == Entry(x, n)
           m == WithEntry(l, e)
           k == Len(l.files) + 1
<1>1. e \in EntrySet /\ e.path = x
  BY EntryPath DEF EntrySet
<1>2. e = Entry(e.path, n)
  BY <1>1
<1> HIDE DEF e
<1>3. /\ m \in ListType
      /\ m.directory = l.directory
      /\ DOMAIN l.files = 1..Len(l.files)
      /\ DOMAIN m.files = 1..k
      /\ \A i \in DOMAIN l.files : i \in DOMAIN m.files /\ m.files[i] = l.files[i]
      /\ m.files[k] = e
  BY <1>1, WithEntryFacts
<1>4. Len(l.files) \in Nat
  BY DEF ListType
<1> HIDE DEF m
<1>5. k \in DOMAIN m.files /\ \A i \in DOMAIN m.files : i # k => i \in DOMAIN l.files
  BY <1>3, <1>4
<1> HIDE DEF k
<1>6. \A i \in DOMAIN m.files :
        \/ i = k /\ m.files[i] = e
        \/ i \in DOMAIN l.files /\ m.files[i] = l.files[i]
  BY <1>3, <1>5
<1>7. Sound(m, c, sn)
  <2>1. m.directory = c.path BY <1>3 DEF Sound
  <2>2. \A i \in DOMAIN l.files :
          /\ l.files[i].path \in WantedBy(c)
          /\ \E y \in sn[l.files[i].path] \ {None} :
               l.files[i] = Entry(l.files[i].path, y)
    BY DEF Sound
  <2>3. /\ e.path \in WantedBy(c)
        /\ \E y \in sn[e.path] \ {None} : e = Entry(e.path, y)
    BY <1>1, <1>2
  <2>4. \A i \in DOMAIN m.files :
          /\ m.files[i].path \in WantedBy(c)
          /\ \E y \in sn[m.files[i].path] \ {None} :
               m.files[i] = Entry(m.files[i].path, y)
    BY <1>6, <2>2, <2>3
  <2> QED BY <2>1, <2>4 DEF Sound
<1>8. Unique(m)
  <2>1. \A i \in DOMAIN l.files : l.files[i].path # x BY DEF Lists
  <2> QED BY <1>1, <1>6, <2>1 DEF Unique
<1>9. \A p : Lists(m, p) <=> Lists(l, p) \/ p = x
  BY <1>1, <1>3, <1>5, <1>6 DEF Lists
<1> QED BY <1>3, <1>7, <1>8, <1>9 DEF m, e

\* only the innermost call changes
TopOnly(new, stk) ==
  /\ Len(new) = Len(stk)
  /\ \A i \in DOMAIN stk : new[i].dir = stk[i].dir /\ (i # Len(stk) => new[i] = stk[i])

LEMMA ShapeTop ==
  ASSUME NEW c, NEW stk \in Seq(FrameSet), NEW new \in Seq(FrameSet),
         Shape(stk, c), TopOnly(new, stk),
         new[Len(stk)].todo \subseteq Children(stk[Len(stk)].dir)
  PROVE  Shape(new, c)
<1>1. /\ Len(stk) \in Nat /\ DOMAIN stk = 1..Len(stk) /\ DOMAIN new = 1..Len(stk)
      /\ stk # <<>>
  BY DEF TopOnly, Shape
<1>2. new # <<>>
  BY <1>1 DEF TopOnly
<1>3. \A i \in DOMAIN new : /\ new[i].dir = c.path \/ IsStrictPrefix(c.path, new[i].dir)
                            /\ new[i].todo \subseteq Children(new[i].dir)
  BY <1>1 DEF TopOnly, Shape
<1>4. c.recursive = FALSE => Len(new) = 1 /\ new[1].dir = c.path
  BY <1>1 DEF TopOnly, Shape
<1>5. ASSUME NEW i \in DOMAIN new, NEW j \in DOMAIN new, i < j
      PROVE  /\ new[i].open = TRUE
             /\ IsStrictPrefix(new[i].dir, new[j].dir)
             /\ Branch(new[i].dir, new[j].dir) \notin new[i].todo
  <2>1. i \in DOMAIN stk /\ j \in DOMAIN stk /\ i # Len(stk)
    BY <1>1, <1>5
  <2>2. new[i] = stk[i] /\ new[j].dir = stk[j].dir
    BY <2>1 DEF TopOnly
  <2>3. /\ stk[i].open = TRUE
        /\ IsStrictPrefix(stk[i].dir, stk[j].dir)
        /\ Branch(stk[i].dir, stk[j].dir) \notin stk[i].todo
    BY <1>5, <2>1 DEF Shape
  <2> QED BY <2>2, <2>3
<1> QED BY <1>2, <1>3, <1>4, <1>5 DEF Shape

LEMMA VisitedTop ==
  ASSUME NEW c, NEW stk \in Seq(FrameSet), NEW new \in Seq(FrameSet),
         stk # <<>>, TopOnly(new, stk), NEW p
  PROVE  /\ Visited(stk, p) /\ Passed(new[Len(stk)], p) => Visited(new, p)
         /\ Visited(new, p) /\ Passed(stk[Len(stk)], p) => Visited(stk, p)
         /\ Visited(stk, p) => Passed(stk[Len(stk)], p)
         /\ Visited(new, p) => Passed(new[Len(stk)], p)
<1>1. /\ DOMAIN stk = 1..Len(stk) /\ DOMAIN new = 1..Len(stk)
      /\ Len(stk) \in DOMAIN stk
  BY DEF TopOnly
<1>2. \A i \in DOMAIN stk : i # Len(stk) => new[i] = stk[i]
  BY DEF TopOnly
<1> QED BY <1>1, <1>2 DEF Visited

LEMMA FrameFacts ==
  ASSUME NEW x \in AllPaths
  PROVE  /\ Frame(x) \in FrameSet
         /\ Frame(x).dir = x /\ Frame(x).open = FALSE /\ Frame(x).todo = {}
BY DEF Frame, FrameSet

LEMMA PushFacts ==
  ASSUME NEW stk \in Seq(FrameSet), NEW x \in AllPaths
  PROVE  LET new == Append(stk, Frame(x)) IN
         /\ new \in Seq(FrameSet)
         /\ Len(new) = Len(stk) + 1 /\ Len(stk) \in Nat
         /\ DOMAIN stk = 1..Len(stk) /\ DOMAIN new = 1..(Len(stk) + 1)
         /\ \A i \in DOMAIN stk : new[i] = stk[i]
         /\ new[Len(stk) + 1] = Frame(x)
<1> DEFINE fr == Frame(x)
<1>1. fr \in FrameSet BY FrameFacts
<1> HIDE DEF fr
<1>2. LET new == Append(stk, fr) IN
         /\ new \in Seq(FrameSet)
         /\ Len(new) = Len(stk) + 1 /\ Len(stk) \in Nat
         /\ DOMAIN stk = 1..Len(stk) /\ DOMAIN new = 1..(Len(stk) + 1)
         /\ \A i \in DOMAIN stk : new[i] = stk[i]
         /\ new[Len(stk) + 1] = fr
  BY <1>1
<1> QED BY <1>2 DEF fr

LEMMA ShapePush ==
  ASSUME NEW c, c.path \in AllPaths, c.recursive = TRUE,
         NEW stk \in Seq(FrameSet), Shape(stk, c),
         stk[Len(stk)].open = TRUE,
         NEW x \in Children(stk[Len(stk)].dir), x \notin stk[Len(stk)].todo
  PROVE  Shape(Append(stk, Frame(x)), c)
<1> DEFINE new == Append(stk, Frame(x))
           k == Len(stk)
           d == stk[k].dir
<1>1. k \in DOMAIN stk /\ k \in Nat /\ DOMAIN stk = 1..k
  BY DEF Shape
<1>2. d \in AllPaths /\ \A i \in DOMAIN stk : stk[i].dir \in AllPaths
  <2>1. \A i \in DOMAIN stk : stk[i] \in FrameSet OBVIOUS
  <2>2. \A w \in FrameSet : w.dir \in AllPaths BY DEF FrameSet
  <2> QED BY <1>1, <2>1, <2>2
<1>3. x \in AllPaths /\ IsStrictPrefix(d, x) /\ Branch(d, x) = x
  BY <1>2, ChildIsBelow DEF AllPaths
<1>4. /\ new \in Seq(FrameSet) /\ Len(new) = k + 1 /\ DOMAIN new = 1..(k + 1)
      /\ \A i \in DOMAIN stk : new[i] = stk[i]
      /\ new[k + 1] = Frame(x)
  BY <1>3, PushFacts
<1>5. /\ new[k + 1].dir = x /\ new[k + 1].todo = {}
  BY <1>3, <1>4, FrameFacts
<1>6. x \in Seq(STRING) /\ c.path \in Seq(STRING) /\ d \in Seq(STRING)
      /\ \A i \in DOMAIN stk : stk[i].dir \in Seq(STRING)
  BY <1>2, <1>3, PathTypes
<1> HIDE DEF new, k, d
<1>7. new # <<>>
  BY <1>1, <1>4
<1>8. \A i \in DOMAIN new : i \in DOMAIN stk \/ i = k + 1
  BY <1>1, <1>4
<1>9. \A i \in DOMAIN new : /\ new[i].dir = c.path \/ IsStrictPrefix(c.path, new[i].dir)
                            /\ new[i].todo \subseteq Children(new[i].dir)
  <2>1. \A i \in DOMAIN stk : /\ stk[i].dir = c.path \/ IsStrictPrefix(c.path, stk[i].dir)
                              /\ stk[i].todo \subseteq Children(stk[i].dir)
    BY DEF Shape
  <2>2. d = c.path \/ IsStrictPrefix(c.path, d)
    BY <1>1, <2>1 DEF d, k
  <2>3. IsStrictPrefix(c.path, x)
    BY <1>3, <1>6, <2>2, PrefixChain
  <2> QED BY <1>4, <1>5, <1>8, <2>1, <2>3
<1>10. ASSUME NEW i \in DOMAIN new, NEW j \in DOMAIN new, i < j
       PROVE  /\ new[i].open = TRUE
              /\ IsStrictPrefix(new[i].dir, new[j].dir)
              /\ Branch(new[i].dir, new[j].dir) \notin new[i].todo
  <2>1. i \in DOMAIN stk /\ new[i] = stk[i]
    BY <1>1, <1>4, <1>10
  <2>2. CASE j \in DOMAIN stk
    <3>1. new[j] = stk[j] BY <1>4, <2>2
    <3> QED BY <1>10, <2>1, <2>2, <3>1 DEF Shape
  <2>3. CASE j = k + 1 /\ i = k
    <3>1. /\ stk[k].open = TRUE /\ stk[k].dir = d
          /\ x \notin stk[k].todo
      BY DEF k, d
    <3> QED BY <1>3, <1>5, <2>1, <2>3, <3>1
  <2>4. CASE j = k + 1 /\ i < k
    <3>1. /\ stk[i].open = TRUE
          /\ IsStrictPrefix(stk[i].dir, d)
          /\ Branch(stk[i].dir, d) \notin stk[i].todo
      BY <1>1, <2>1, <2>4 DEF Shape, d
    <3>2. IsStrictPrefix(stk[i].dir, x) /\ Branch(stk[i].dir, x) = Branch(stk[i].dir, d)
      BY <1>3, <1>6, <2>1, <3>1, PrefixChain
    <3> QED BY <1>5, <2>1, <2>4, <3>1, <3>2
  <2>5. i = k \/ i < k
    BY <1>1, <2>1
  <2> QED BY <1>8, <2>2, <2>3, <2>4, <2>5
<1> QED BY <1>7, <1>9, <1>10 DEF Shape, new

LEMMA VisitedPush ==
  ASSUME NEW stk \in Seq(FrameSet), NEW x \in AllPaths, NEW p
  PROVE  Visited(Append(stk, Frame(x)), p) <=> Visited(stk, p) /\ ~IsStrictPrefix(x, p)
<1> DEFINE new == Append(stk, Frame(x))
           k == Len(stk)
<1>1. /\ k \in Nat /\ DOMAIN stk = 1..k /\ DOMAIN new = 1..(k + 1)
      /\ \A i \in DOMAIN stk : new[i] = stk[i]
      /\ new[k + 1] = Frame(x)
  BY PushFacts
<1>2. Passed(new[k + 1], p) <=> ~IsStrictPrefix(x, p)
  BY <1>1, FrameFacts DEF Passed
<1> HIDE DEF new, k
<1>3. \A i : i \in DOMAIN new <=> i \in DOMAIN stk \/ i = k + 1
  BY <1>1
<1>4. Visited(new, p) <=> Visited(stk, p) /\ Passed(new[k + 1], p)
  BY <1>1, <1>3 DEF Visited
<1> QED BY <1>2, <1>4 DEF new

LEMMA PopFacts ==
  ASSUME NEW stk \in Seq(FrameSet), stk # <<>>
  PROVE  LET new == Front(stk) IN
         /\ new \in Seq(FrameSet)
         /\ Len(new) = Len(stk) - 1 /\ Len(stk) \in Nat /\ Len(stk) # 0
         /\ DOMAIN stk = 1..Len(stk) /\ DOMAIN new = 1..(Len(stk) - 1)
         /\ \A i \in DOMAIN new : i \in DOMAIN stk /\ new[i] = stk[i]
         /\ Len(stk) = 1 => new = <<>>
<1> DEFINE new == Front(stk)
           k == Len(stk)
<1>1. k \in Nat /\ k # 0 /\ DOMAIN stk = 1..k
  OBVIOUS
<1>2. new \in Seq(FrameSet) /\ Len(new) = k - 1 /\ \A i \in 1..(k - 1) : new[i] = stk[i]
  BY <1>1 DEF Front
<1> HIDE DEF new
<1>3. DOMAIN new = 1..(k - 1)
  BY <1>2
<1>4. k = 1 => new = <<>>
  BY <1>2
<1>5. \A i \in DOMAIN new : i \in DOMAIN stk /\ new[i] = stk[i]
  BY <1>1, <1>2, <1>3
<1> QED BY <1>1, <1>2, <1>3, <1>4, <1>5 DEF new

LEMMA ShapePop ==
  ASSUME NEW c, NEW stk \in Seq(FrameSet), Shape(stk, c), Len(stk) # 1
  PROVE  Shape(Front(stk), c)
<1> DEFINE new == Front(stk)
           k == Len(stk)
<1>1. stk # <<>>
  BY DEF Shape
<1>2. /\ new \in Seq(FrameSet)
      /\ Len(new) = k - 1 /\ k \in Nat /\ k # 0
      /\ DOMAIN stk = 1..k /\ DOMAIN new = 1..(k - 1)
      /\ \A i \in DOMAIN new : i \in DOMAIN stk /\ new[i] = stk[i]
  BY <1>1, PopFacts
<1>3. k # 1 BY DEF k
<1> HIDE DEF new, k
<1>4. new # <<>>
  BY <1>2, <1>3
<1>5. \A i \in DOMAIN new : /\ new[i].dir = c.path \/ IsStrictPrefix(c.path, new[i].dir)
                            /\ new[i].todo \subseteq Children(new[i].dir)
  BY <1>2 DEF Shape
<1>6. c.recursive # FALSE
  BY DEF Shape
<1>7. \A i, j \in DOMAIN new : i < j =>
       /\ new[i].open = TRUE
       /\ IsStrictPrefix(new[i].dir, new[j].dir)
       /\ Branch(new[i].dir, new[j].dir) \notin new[i].todo
  BY <1>2 DEF Shape
<1> QED BY <1>4, <1>5, <1>6, <1>7 DEF Shape, new

LEMMA VisitedPop ==
  ASSUME NEW stk \in Seq(FrameSet), stk # <<>>, NEW p
  PROVE  /\ Visited(stk, p) => Visited(Front(stk), p)
         /\ Visited(Front(stk), p) /\ Passed(stk[Len(stk)], p) => Visited(stk, p)
<1> DEFINE new == Front(stk)
           k == Len(stk)
<1>1. /\ k \in Nat /\ k # 0
      /\ DOMAIN stk = 1..k /\ DOMAIN new = 1..(k - 1)
      /\ \A i \in DOMAIN new : i \in DOMAIN stk /\ new[i] = stk[i]
  BY PopFacts
<1> HIDE DEF new, k
<1>2. \A i \in DOMAIN stk : i \in DOMAIN new \/ i = k
  BY <1>1
<1>3. Visited(new, p) /\ Passed(stk[k], p) => Visited(stk, p)
  BY <1>1, <1>2 DEF Visited
<1>4. Visited(stk, p) => Visited(new, p)
  BY <1>1 DEF Visited
<1> QED BY <1>3, <1>4 DEF new, k

LEMMA WantedFacts ==
  ASSUME NEW c \in Requests
  PROVE  /\ c.path \in AllPaths /\ c.recursive \in BOOLEAN
         /\ WantedBy(c) \subseteq Paths
         /\ c.recursive = TRUE => WantedBy(c) = Below(c.path)
         /\ c.recursive = FALSE => WantedBy(c) = Children(c.path)
<1>1. c \in [kind : {"list", "meta", "other"}, path : AllPaths, recursive : BOOLEAN]
  BY RpcAssumption DEF AllPaths
<1>2. c.path \in AllPaths /\ c.recursive \in BOOLEAN
  BY <1>1
<1>3. /\ c.recursive = TRUE => WantedBy(c) = Below(c.path)
      /\ c.recursive = FALSE => WantedBy(c) = Children(c.path)
  BY DEF WantedBy
<1>4. Below(c.path) \subseteq Paths /\ Children(c.path) \subseteq Paths
  BY DEF Below, Children
<1> QED BY <1>2, <1>3, <1>4

LEMMA TopFacts ==
  ASSUME NEW c, NEW stk \in Seq(FrameSet), Shape(stk, c)
  PROVE  /\ stk # <<>> /\ Len(stk) \in DOMAIN stk
         /\ stk[Len(stk)] \in FrameSet
         /\ stk[Len(stk)].dir \in AllPaths
         /\ stk[Len(stk)].todo \subseteq Children(stk[Len(stk)].dir)
         /\ stk[Len(stk)].dir = c.path \/ IsStrictPrefix(c.path, stk[Len(stk)].dir)
<1>1. stk # <<>> BY DEF Shape
<1>2. Len(stk) \in DOMAIN stk /\ stk[Len(stk)] \in FrameSet BY <1>1
<1>3. \A w \in FrameSet : w.dir \in AllPaths BY DEF FrameSet
<1> QED BY <1>1, <1>2, <1>3 DEF Shape

\* an entry of the directory listed is wanted
LEMMA EntryIsWanted ==
  ASSUME NEW c \in Requests, NEW stk \in Seq(FrameSet), Shape(stk, c),
         NEW x \in stk[Len(stk)].todo
  PROVE  x \in WantedBy(c)
<1> DEFINE d == stk[Len(stk)].dir
<1>1. d \in AllPaths /\ x \in Children(d) /\ (d = c.path \/ IsStrictPrefix(c.path, d))
  BY TopFacts
<1>2. x \in Paths /\ IsStrictPrefix(d, x)
  BY <1>1, ChildIsBelow
<1>3. c.path \in Seq(STRING) /\ d \in Seq(STRING) /\ x \in Seq(STRING)
  BY <1>1, <1>2, WantedFacts, PathTypes
<1>4. CASE c.recursive = TRUE
  <2>1. IsStrictPrefix(c.path, x) BY <1>1, <1>2, <1>3, PrefixChain
  <2> QED BY <1>2, <1>4, <2>1, WantedFacts DEF Below
<1>5. CASE c.recursive = FALSE
  <2>1. d = c.path BY <1>5 DEF Shape
  <2> QED BY <1>1, <1>5, <2>1, WantedFacts
<1> QED BY <1>4, <1>5, WantedFacts

\* opendir() and readdir() of the innermost call
LEMMA WalkOpen ==
  ASSUME NEW f, NEW sn, Sees(f, sn), NEW c \in Requests, NEW l,
         NEW stk \in Seq(FrameSet), NEW new \in Seq(FrameSet),
         Walk(stk, l, c, sn), TopOnly(new, stk), stk[Len(stk)].open = FALSE,
         new[Len(stk)].open = TRUE,
         new[Len(stk)].todo = {p \in Children(stk[Len(stk)].dir) : f[p] # None}
  PROVE  Walk(new, l, c, sn)
<1> DEFINE k == Len(stk)
           d == stk[k].dir
<1>1. Shape(stk, c) BY DEF Walk
<1>2. stk # <<>> /\ k \in DOMAIN stk /\ d \in AllPaths
  BY <1>1, TopFacts
<1>3. Shape(new, c)
  BY <1>1, ShapeTop
<1>4. new[k].dir = d
  BY <1>2 DEF TopOnly
<1>5. ASSUME NEW i \in DOMAIN l.files
      PROVE  Visited(new, l.files[i].path)
  <2> DEFINE p == l.files[i].path
  <2>1. Visited(stk, p) BY DEF Walk
  <2>2. ~IsStrictPrefix(d, p)
    BY <1>2, <2>1 DEF Visited, Passed
  <2>3. Passed(new[k], p)
    BY <1>4, <2>2 DEF Passed
  <2> QED BY <1>2, <2>1, <2>3, VisitedTop
<1>6. ASSUME NEW p \in WantedBy(c), None \notin sn[p], Visited(new, p)
      PROVE  Lists(l, p)
  <2>1. p \in Paths BY WantedFacts
  <2>2. Passed(new[k], p)
    BY <1>2, <1>6, VisitedTop
  <2>3. ~IsStrictPrefix(d, p)
    <3> SUFFICES ASSUME IsStrictPrefix(d, p) PROVE FALSE OBVIOUS
    <3> DEFINE b == Branch(d, p)
    <3>1. b \notin new[k].todo
      BY <1>4, <2>2 DEF Passed
    <3>2. b \in Children(d) /\ (b = p \/ IsStrictPrefix(b, p))
      BY <1>2, <2>1, BranchIsPath
    <3>3. b \in Paths BY <3>2 DEF Children
    <3>4. f[b] # None
      BY <1>6, <2>1, <3>2, <3>3, StillThere
    <3> QED BY <3>1, <3>2, <3>4
  <2>4. Passed(stk[k], p)
    BY <2>3 DEF Passed
  <2>5. Visited(stk, p)
    BY <1>2, <1>6, <2>4, VisitedTop
  <2> QED BY <1>6, <2>5 DEF Walk
<1> QED BY <1>3, <1>5, <1>6 DEF Walk

\* the innermost call returns, with nothing left to come to
LEMMA WalkPop ==
  ASSUME NEW sn, NEW c \in Requests, NEW l, NEW stk \in Seq(FrameSet),
         Walk(stk, l, c, sn),
         \A p \in Paths : None \notin sn[p] => Passed(stk[Len(stk)], p)
  PROVE  /\ Len(stk) # 1 => Walk(Front(stk), l, c, sn)
         /\ Len(stk) = 1 => ListGood(l, c, sn)
<1> DEFINE new == Front(stk)
<1>1. Shape(stk, c) /\ stk # <<>> BY DEF Walk, Shape
<1>2. \A i \in DOMAIN l.files : Visited(new, l.files[i].path)
  BY <1>1, VisitedPop DEF Walk
<1>3. \A p \in WantedBy(c) : None \notin sn[p] /\ Visited(new, p) => Lists(l, p)
  <2>1. ASSUME NEW p \in WantedBy(c), None \notin sn[p], Visited(new, p)
        PROVE  Lists(l, p)
    <3>1. p \in Paths BY WantedFacts
    <3>2. Visited(stk, p) BY <1>1, <2>1, <3>1, VisitedPop
    <3> QED BY <2>1, <3>2 DEF Walk
  <2> QED BY <2>1
<1>4. ASSUME Len(stk) # 1 PROVE Walk(new, l, c, sn)
  <2>1. Shape(new, c) BY <1>1, <1>4, ShapePop
  <2> QED BY <1>2, <1>3, <2>1 DEF Walk
<1>5. ASSUME Len(stk) = 1 PROVE ListGood(l, c, sn)
  <2>1. new = <<>> BY <1>1, <1>5, PopFacts
  <2>2. \A p : Visited(<<>>, p) BY DEF Visited
  <2> QED BY <1>3, <2>1, <2>2 DEF ListGood, Walk
<1> QED BY <1>4, <1>5

\* an entry is taken from the innermost call's list
Takes(rest, stk, x) ==
  /\ TopOnly(rest, stk)
  /\ stk[Len(stk)].open = TRUE /\ rest[Len(stk)].open = TRUE
  /\ x \in stk[Len(stk)].todo
  /\ rest[Len(stk)].todo = stk[Len(stk)].todo \ {x}

LEMMA RestFacts ==
  ASSUME NEW c, NEW stk \in Seq(FrameSet), NEW rest \in Seq(FrameSet), NEW x,
         Shape(stk, c), Takes(rest, stk, x)
  PROVE  /\ Shape(rest, c)
         /\ x \in Children(stk[Len(stk)].dir)
         /\ \A p : Visited(stk, p) => Visited(rest, p)
         /\ \A p : Visited(rest, p) /\ ~Visited(stk, p) =>
              /\ IsStrictPrefix(stk[Len(stk)].dir, p)
              /\ Branch(stk[Len(stk)].dir, p) = x
<1> DEFINE k == Len(stk)
           d == stk[k].dir
<1>1. /\ stk # <<>> /\ k \in DOMAIN stk /\ stk[k].todo \subseteq Children(d)
  BY TopFacts
<1>2. /\ TopOnly(rest, stk) /\ stk[k].open = TRUE /\ rest[k].open = TRUE
      /\ x \in stk[k].todo /\ rest[k].todo = stk[k].todo \ {x} /\ rest[k].dir = d
  BY <1>1 DEF Takes, TopOnly
<1>3. Shape(rest, c)
  BY <1>1, <1>2, ShapeTop
<1>4. ASSUME NEW p, Visited(stk, p)
      PROVE  Visited(rest, p)
  <2>1. Passed(stk[k], p) BY <1>1, <1>2, <1>4, VisitedTop
  <2>2. Passed(rest[k], p) BY <1>2, <2>1 DEF Passed
  <2> QED BY <1>1, <1>2, <1>4, <2>2, VisitedTop
<1>5. ASSUME NEW p, Visited(rest, p), ~Visited(stk, p)
      PROVE  IsStrictPrefix(d, p) /\ Branch(d, p) = x
  <2>1. ~Passed(stk[k], p) BY <1>1, <1>2, <1>5, VisitedTop
  <2>2. Passed(rest[k], p) BY <1>1, <1>2, <1>5, VisitedTop
  <2> QED BY <1>2, <2>1, <2>2 DEF Passed
<1> QED BY <1>1, <1>2, <1>3, <1>4, <1>5

\* the entry has gone, or is hidden
LEMMA WalkSkip ==
  ASSUME NEW sn, NEW c \in Requests, NEW l, NEW x,
         NEW stk \in Seq(FrameSet), NEW rest \in Seq(FrameSet),
         Walk(stk, l, c, sn), Takes(rest, stk, x),
         \A p \in Paths : p = x \/ IsStrictPrefix(x, p) => None \in sn[p]
  PROVE  Walk(rest, l, c, sn)
<1> DEFINE d == stk[Len(stk)].dir
<1>1. Shape(stk, c) BY DEF Walk
<1>2. d \in AllPaths BY <1>1, TopFacts
<1>3. /\ Shape(rest, c) /\ x \in Children(d)
      /\ \A p : Visited(stk, p) => Visited(rest, p)
      /\ \A p : Visited(rest, p) /\ ~Visited(stk, p) =>
           IsStrictPrefix(d, p) /\ Branch(d, p) = x
  BY <1>1, RestFacts
<1> HIDE DEF d
<1>4. \A i \in DOMAIN l.files : Visited(rest, l.files[i].path)
  BY <1>3 DEF Walk
<1>5. ASSUME NEW p \in WantedBy(c), None \notin sn[p], Visited(rest, p)
      PROVE  Lists(l, p)
  <2>1. p \in Paths BY WantedFacts
  <2>2. Visited(stk, p)
    <3> SUFFICES ASSUME ~Visited(stk, p) PROVE FALSE OBVIOUS
    <3>1. IsStrictPrefix(d, p) /\ Branch(d, p) = x BY <1>3, <1>5
    <3>2. x = p \/ IsStrictPrefix(x, p) BY <1>2, <2>1, <3>1, BranchIsPath
    <3> QED BY <1>5, <2>1, <3>2
  <2> QED BY <1>5, <2>2 DEF Walk
<1> QED BY <1>3, <1>4, <1>5 DEF Walk

\* the entry is listed, and if it is a directory of a recursive listing it is
\* listed in turn
LEMMA WalkAdd ==
  ASSUME NEW f, NEW sn, Sees(f, sn), NEW c \in Requests, NEW l \in ListType, NEW x,
         NEW stk \in Seq(FrameSet), NEW rest \in Seq(FrameSet),
         Walk(stk, l, c, sn), Takes(rest, stk, x),
         f[x] # None, f[x] \in NodeSet
  PROVE  LET m == WithEntry(l, Entry(x, f[x])) IN
         /\ m \in ListType
         /\ c.recursive = FALSE \/ ~IsDir(f[x]) => Walk(rest, m, c, sn)
         /\ c.recursive = TRUE /\ IsDir(f[x]) =>
              Walk(Append(rest, Frame(x)), m, c, sn)
<1> DEFINE k == Len(stk)
           d == stk[k].dir
           m == WithEntry(l, Entry(x, f[x]))
<1>1. Shape(stk, c) BY DEF Walk
<1>2. d \in AllPaths /\ stk # <<>> /\ k \in DOMAIN stk BY <1>1, TopFacts
<1>3. /\ Shape(rest, c) /\ x \in Children(d)
      /\ \A p : Visited(stk, p) => Visited(rest, p)
      /\ \A p : Visited(rest, p) /\ ~Visited(stk, p) =>
           IsStrictPrefix(d, p) /\ Branch(d, p) = x
  BY <1>1, RestFacts
<1>4. /\ x \in Paths /\ IsStrictPrefix(d, x) /\ Branch(d, x) = x
      /\ \A p \in Paths : IsStrictPrefix(x, p) => IsStrictPrefix(d, p) /\ Branch(d, p) = x
  BY <1>2, <1>3, ChildIsBelow
<1>5. x \in stk[k].todo /\ x \in WantedBy(c)
  BY <1>1, EntryIsWanted DEF Takes
<1>6. \A p : IsStrictPrefix(d, p) /\ Branch(d, p) = x => ~Visited(stk, p)
  BY <1>2, <1>5 DEF Visited, Passed
<1>7. \A p : Lists(l, p) => Visited(stk, p) /\ p \in Paths
  BY WantedFacts DEF Walk, Sound, Lists
<1>8. ~Lists(l, x)
  BY <1>4, <1>6, <1>7
<1>9. f[x] \in sn[x]
  BY <1>4 DEF Sees
<1>10. /\ m \in ListType /\ Sound(m, c, sn) /\ Unique(m)
       /\ \A p : Lists(m, p) <=> Lists(l, p) \/ p = x
  BY <1>4, <1>5, <1>8, <1>9, AddEntry DEF Walk
<1> HIDE DEF m
<1>11. Visited(rest, x)
  <2>1. rest[k].todo = stk[k].todo \ {x} /\ rest[k].open = TRUE /\ rest[k].dir = d
    BY <1>2 DEF Takes, TopOnly
  <2>2. Passed(rest[k], x) BY <1>4, <2>1 DEF Passed
  <2>3. \A i \in DOMAIN rest : i = k \/ (i \in DOMAIN stk /\ i < k /\ rest[i] = stk[i])
    BY DEF Takes, TopOnly
  <2>4. ASSUME NEW i \in DOMAIN stk, i < k
        PROVE  Passed(stk[i], x)
    <3>1. /\ stk[i].open = TRUE /\ IsStrictPrefix(stk[i].dir, d)
          /\ Branch(stk[i].dir, d) \notin stk[i].todo
      BY <1>1, <1>2, <2>4 DEF Shape
    <3>2. stk[i].dir \in Seq(STRING) /\ d \in Seq(STRING) /\ x \in Seq(STRING)
      <4>1. stk[i] \in FrameSet OBVIOUS
      <4>2. stk[i].dir \in AllPaths BY <4>1 DEF FrameSet
      <4> QED BY <1>2, <1>4, <4>2, PathTypes
    <3>3. Branch(stk[i].dir, x) = Branch(stk[i].dir, d)
      BY <1>4, <3>1, <3>2, PrefixChain
    <3> QED BY <3>1, <3>3 DEF Passed
  <2> QED BY <2>2, <2>3, <2>4 DEF Visited
<1>12. \A p : Lists(m, p) => Visited(rest, p)
  BY <1>3, <1>7, <1>10, <1>11
<1>13. \A i \in DOMAIN m.files : Lists(m, m.files[i].path)
  BY DEF Lists
<1>14. ASSUME NEW p \in WantedBy(c), None \notin sn[p], Visited(rest, p), ~Lists(m, p)
       PROVE  IsStrictPrefix(x, p) /\ c.recursive = TRUE /\ IsDir(f[x])
  <2>1. p \in Paths BY WantedFacts
  <2>2. ~Visited(stk, p) BY <1>10, <1>14 DEF Walk
  <2>3. IsStrictPrefix(d, p) /\ Branch(d, p) = x BY <1>3, <1>14, <2>2
  <2>4. IsStrictPrefix(x, p)
    BY <1>2, <1>10, <1>14, <2>1, <2>3, BranchIsPath
  <2>5. IsDir(f[x])
    BY <1>4, <1>14, <2>1, <2>4, StillThere
  <2>6. c.recursive # FALSE
    <3> SUFFICES ASSUME c.recursive = FALSE PROVE FALSE OBVIOUS
    <3>1. d = c.path BY <1>1 DEF Shape
    <3>2. p \in Children(d) BY <1>14, <3>1, WantedFacts
    <3>3. Branch(d, p) = p BY <1>2, <3>2, ChildIsBelow
    <3> QED BY <2>3, <2>4, <3>3, NotBelowItself
  <2> QED BY <2>4, <2>5, <2>6, WantedFacts
<1>15. ASSUME c.recursive = FALSE \/ ~IsDir(f[x])
       PROVE  Walk(rest, m, c, sn)
  <2>1. \A p \in WantedBy(c) : None \notin sn[p] /\ Visited(rest, p) => Lists(m, p)
    BY <1>14, <1>15
  <2> QED BY <1>3, <1>10, <1>12, <1>13, <2>1 DEF Walk
<1>16. ASSUME c.recursive = TRUE, IsDir(f[x])
       PROVE  Walk(Append(rest, Frame(x)), m, c, sn)
  <2> DEFINE new == Append(rest, Frame(x))
  <2>1. x \in AllPaths BY <1>4 DEF AllPaths
  <2>2. \A p : Visited(new, p) <=> Visited(rest, p) /\ ~IsStrictPrefix(x, p)
    BY <2>1, VisitedPush
  <2>3. Shape(new, c)
    <3>1. Len(rest) = k /\ rest[k].dir = d /\ rest[k].open = TRUE /\ x \notin rest[k].todo
      BY <1>2 DEF Takes, TopOnly
    <3> QED BY <1>3, <1>16, <3>1, ShapePush, WantedFacts
  <2> HIDE DEF new
  <2>4. \A p : Lists(m, p) => Visited(new, p)
    <3>1. \A p : Lists(l, p) => ~IsStrictPrefix(x, p)
      BY <1>4, <1>6, <1>7
    <3> QED BY <1>10, <1>12, <2>2, <3>1, NotBelowItself
  <2>5. \A p \in WantedBy(c) : None \notin sn[p] /\ Visited(new, p) => Lists(m, p)
    BY <1>14, <2>2
  <2>6. Walk(new, m, c, sn)
    BY <1>10, <1>13, <2>3, <2>4, <2>5 DEF Walk
  <2> QED BY <2>6 DEF new
<1> QED BY <1>10, <1>15, <1>16 DEF m

-----------------------------------------------------------------------------
(* What is true of a call stays true when more is seen *)

MoreSeen(sn, sn2) == \A p \in AllPaths : sn[p] # {} /\ sn[p] \subseteq sn2[p]

LEMMA MoreListed ==
  ASSUME NEW sn, NEW sn2, MoreSeen(sn, sn2), NEW c \in Requests
  PROVE  /\ \A l : Sound(l, c, sn) => Sound(l, c, sn2)
         /\ \A l : ListGood(l, c, sn) => ListGood(l, c, sn2)
         /\ \A stk, l : Walk(stk, l, c, sn) => Walk(stk, l, c, sn2)
<1>1. \A p \in WantedBy(c) : sn[p] \subseteq sn2[p]
  BY WantedFacts DEF MoreSeen, AllPaths
<1>2. ASSUME NEW l, Sound(l, c, sn)
      PROVE  Sound(l, c, sn2)
  <2>1. l.directory = c.path BY <1>2 DEF Sound
  <2>2. \A i \in DOMAIN l.files :
       /\ l.files[i].path \in WantedBy(c)
       /\ \E n \in sn[l.files[i].path] \ {None} :
            l.files[i] = Entry(l.files[i].path, n)
    BY <1>2 DEF Sound
  <2> QED BY <1>1, <2>1, <2>2 DEF Sound
<1>3. \A l : ListGood(l, c, sn) => ListGood(l, c, sn2)
  BY <1>1, <1>2 DEF ListGood
<1>4. \A stk, l : Walk(stk, l, c, sn) => Walk(stk, l, c, sn2)
  BY <1>1, <1>2 DEF Walk
<1> QED BY <1>2, <1>3, <1>4

LEMMA MoreNodes ==
  ASSUME NEW sn, NEW sn2, MoreSeen(sn, sn2), NEW c \in Requests
  PROVE  /\ CallNodes(c.path, sn) # {}
         /\ CallNodes(c.path, sn) \subseteq CallNodes(c.path, sn2)
         /\ \A m : MetaGood(m, c, sn) => MetaGood(m, c, sn2)
         /\ \A m : HalfMeta(m, c, sn) => HalfMeta(m, c, sn2)
<1>1. /\ CallNodes(c.path, sn) # {}
      /\ CallNodes(c.path, sn) \subseteq CallNodes(c.path, sn2)
  BY WantedFacts DEF MoreSeen, CallNodes
<1>2. \A n : CallNodes(c.path, sn2) = {n} => CallNodes(c.path, sn) = {n}
  BY <1>1
<1>3. \A m : MetaGood(m, c, sn) => MetaGood(m, c, sn2)
  BY <1>1, <1>2 DEF MetaGood
<1>4. \A m : HalfMeta(m, c, sn) => HalfMeta(m, c, sn2)
  BY <1>1 DEF HalfMeta
<1> QED BY <1>1, <1>3, <1>4

LEMMA MoreReasons ==
  ASSUME NEW sn, NEW sn2, MoreSeen(sn, sn2), NEW c \in Requests
  PROVE  /\ Refused(c, sn) => Refused(c, sn2)
         /\ Unreadable(c, sn) => Unreadable(c, sn2)
         /\ \A r : Says(r, c, sn) => Says(r, c, sn2)
<1>1. Refused(c, sn) => Refused(c, sn2)
  BY WantedFacts DEF Refused, MoreSeen
<1>2. Unreadable(c, sn) => Unreadable(c, sn2)
  <2>1. \A p \in WantedBy(c) : sn[p] # {None} => sn2[p] # {None}
    <3>1. \A p \in WantedBy(c) : sn[p] # {} /\ sn[p] \subseteq sn2[p]
      BY WantedFacts DEF MoreSeen, AllPaths
    <3> QED BY <3>1
  <2> QED BY <2>1 DEF Unreadable
<1>3. \A r : Says(r, c, sn) => Says(r, c, sn2)
  BY <1>1, <1>2, MoreListed, MoreNodes DEF Says
<1> QED BY <1>1, <1>2, <1>3

-----------------------------------------------------------------------------
(* The initial states *)

LEMMA NodeFacts ==
  /\ None \in NodeSet /\ ~IsDir(None)
  /\ \A k \in {"file", "dir"}, v \in 1..(MaxChanges + 1) :
       /\ Node(k, v) \in NodeSet /\ Node(k, v) # None
       /\ Node(k, v).kind = k /\ (IsDir(Node(k, v)) <=> k = "dir")
  /\ \A m \in NodeSet : m # None => m.kind \in {"file", "dir"}
<1>1. None \in NodeSet /\ ~IsDir(None)
  BY DEF NodeSet, IsDir, None, Node
<1>2. ASSUME NEW k \in {"file", "dir"}, NEW v \in 1..(MaxChanges + 1)
      PROVE  /\ Node(k, v) \in NodeSet /\ Node(k, v) # None
             /\ Node(k, v).kind = k /\ (IsDir(Node(k, v)) <=> k = "dir")
  BY DEF NodeSet, IsDir, None, Node
<1>3. \A m \in NodeSet : m # None => m.kind \in {"file", "dir"}
  BY DEF NodeSet
<1> QED BY <1>1, <1>2, <1>3

LEMMA NewListing ==
  /\ New("ListFilesResponse") \in ListType
  /\ New("ListFilesResponse") = ListMsg(<<>>, <<>>, 0)
  /\ New("GetFileMetaResponse") = MetaMsg(<<>>, <<>>, 0)
<1>1. New("ListFilesResponse") = ListMsg(<<>>, <<>>, 0)
  BY Constructors DEF ListMsg
<1>2. New("GetFileMetaResponse") = MetaMsg(<<>>, <<>>, 0)
  BY Constructors DEF MetaMsg
<1>3. <<>> \in AllPaths /\ <<>> \in Seq(EntrySet) /\ Len(<<>>) = 0
  BY DEF AllPaths
<1>4. ListMsg(<<>>, <<>>, 0) \in ListType
  BY <1>3 DEF ListType, ListMsg
<1> QED BY <1>1, <1>2, <1>4

LEMMA RpcInit ==
  Init => RpcInv
<1> SUFFICES ASSUME Init PROVE RpcInv OBVIOUS
<1>1. TreeInv
  <2>1. PICK tree \in InitialTrees :
          fs = [p \in Paths |-> IF p \notin tree THEN None
                                ELSE IF p \in Directories THEN Node("dir", 1)
                                ELSE Node("file", 1)]
    BY DEF Init
  <2>2. /\ None \in NodeSet /\ Node("dir", 1) \in NodeSet /\ Node("file", 1) \in NodeSet
        /\ IsDir(Node("dir", 1))
    <3>1. 1 \in 1..(MaxChanges + 1) BY RpcAssumption
    <3> QED BY <3>1, NodeFacts
  <2>3. \A p \in tree, q \in Paths : IsStrictPrefix(q, p) => q \in tree /\ q \in Directories
    BY RpcAssumption
  <2> QED BY <2>1, <2>2, <2>3 DEF TreeInv
<1>2. SeenInv
  BY DEF Init, SeenInv
<1>3. TypeInv
  <2>1. /\ 0 \in 0..MaxCalls /\ 0 \in 0..MaxChanges /\ 0 \in 0..MaxFaults
    BY RpcAssumption
  <2>2. listing \in ListType /\ listResp \in ListType
    BY NewListing DEF Init
  <2>3. meta = MetaMsg(meta.error, meta.meta, meta.success)
    BY NewListing DEF Init, MetaMsg
  <2>4. handled \in BOOLEAN /\ connected \in BOOLEAN
    BY DEF Init
  <2>5. <<>> \in Seq(FrameSet)
    OBVIOUS
  <2> QED BY <2>1, <2>2, <2>3, <2>4, <2>5 DEF Init, TypeInv
<1>4. LocalsInv /\ RoundInv /\ WorkInv /\ AnswerInv /\ ResultInv
  BY DEF Init, LocalsInv, RoundInv, WorkInv, AnswerInv, ResultInv
<1> QED BY <1>1, <1>2, <1>3, <1>4 DEF RpcInv

-----------------------------------------------------------------------------
(* Other programs change the directory *)

IsTree(f) ==
  /\ f \in [Paths -> NodeSet]
  /\ \A p, q \in Paths : IsStrictPrefix(q, p) /\ f[p] # None => IsDir(f[q])

LEMMA BecomesKeepsInv ==
  ASSUME RpcInv, NEW p \in Paths, NEW n \in NodeSet, Becomes(p, n), IsTree(fs')
  PROVE  RpcInv'
<1> USE DEF RpcInv
<1>0. /\ UNCHANGED <<cpc, connected, call, calls, result, listing, meta>>
      /\ UNCHANGED <<link, up, down, faults>>
      /\ UNCHANGED <<spc, request, stack, listResp, metaResp, handled, opened>>
      /\ changes' = changes + 1 /\ changes < MaxChanges
      /\ fs' = [fs EXCEPT ![p] = n]
      /\ seen' = IF cpc = "recv" THEN [seen EXCEPT ![p] = @ \cup {n}] ELSE seen
  BY DEF Becomes, clientVars, netVars, serverVars
<1>1. TreeInv'
  BY DEF TreeInv, IsTree
<1>2. seen' \in [AllPaths -> SUBSET NodeSet]
  BY <1>0 DEF SeenInv
<1>3. fs \in [Paths -> NodeSet] /\ seen \in [AllPaths -> SUBSET NodeSet] /\ p \in AllPaths
  BY DEF TreeInv, SeenInv, AllPaths
<1>4. ASSUME cpc = "recv"
      PROVE  /\ Sees(fs, seen)
             /\ call \in Requests /\ result = "none"
             /\ \A q \in AllPaths : seen'[q] = IF q = p THEN seen[q] \cup {n} ELSE seen[q]
             /\ \A q \in Paths : q \in AllPaths
             /\ MoreSeen(seen, seen')
  <2>1. Sees(fs, seen) BY <1>4 DEF SeenInv
  <2>2. call \in Requests /\ result = "none" BY <1>4 DEF TypeInv
  <2>3. \A q \in AllPaths : seen'[q] = IF q = p THEN seen[q] \cup {n} ELSE seen[q]
    BY <1>0, <1>3, <1>4
  <2>4. \A q \in AllPaths : seen[q] # {} BY <2>1 DEF Sees, AllPaths
  <2>5. \A q \in Paths : q \in AllPaths BY DEF AllPaths
  <2> QED BY <2>1, <2>2, <2>3, <2>4, <2>5 DEF MoreSeen
<1>5. SeenInv'
  <2>1. ASSUME cpc = "recv" PROVE Sees(fs', seen')
    <3>1. \A q \in Paths : fs'[q] = IF q = p THEN n ELSE fs[q]
      BY <1>0, <1>3
    <3>2. \A q \in Paths : fs'[q] \in seen'[q]
      BY <1>4, <2>1, <3>1 DEF Sees
    <3>3. ASSUME NEW q \in Paths, NEW r \in Paths, IsStrictPrefix(r, q),
                 None \notin seen'[q], NEW m \in seen'[r]
          PROVE  IsDir(m)
      <4>1. None \notin seen[q] BY <1>4, <2>1, <3>3
      <4>2. CASE m \in seen[r] BY <1>4, <2>1, <3>3, <4>1, <4>2 DEF Sees
      <4>3. CASE r = p /\ m = n
        <5>1. fs'[q] # None BY <3>2, <3>3
        <5>2. IsDir(fs'[r]) BY <3>3, <5>1 DEF IsTree
        <5> QED BY <3>1, <4>3, <5>2
      <4> QED BY <1>4, <2>1, <3>3, <4>2, <4>3
    <3>4. Node("dir", 1) \in seen'[<<>>]
      <4>1. <<>> \in AllPaths /\ Node("dir", 1) \in seen[<<>>]
        BY <1>4, <2>1 DEF Sees, AllPaths
      <4> QED BY <1>4, <2>1, <4>1 DEF MoreSeen
    <3> QED BY <3>2, <3>3, <3>4 DEF Sees
  <2> QED BY <1>0, <1>2, <2>1 DEF SeenInv
<1>6. TypeInv'
  <2>1. changes' \in 0..MaxChanges BY <1>0, RpcAssumption DEF TypeInv
  <2> QED BY <1>0, <2>1 DEF TypeInv
<1>7. LocalsInv' /\ RoundInv'
  BY <1>0 DEF LocalsInv, RoundInv
<1>8. WorkInv'
  <2> SUFFICES ASSUME link = "open", cpc = "recv" PROVE WorkInv'
    BY <1>0 DEF WorkInv
  <2>1. call \in Requests /\ MoreSeen(seen, seen') BY <1>4
  <2>2. CallNodes(call.path, seen) \subseteq CallNodes(call.path, seen')
    BY <2>1, MoreNodes
  <2>3. /\ Walk(stack, listResp, call, seen) => Walk(stack, listResp, call, seen')
        /\ ListGood(listResp, call, seen) => ListGood(listResp, call, seen')
    BY <2>1, MoreListed
  <2>4. /\ HalfMeta(metaResp, call, seen) => HalfMeta(metaResp, call, seen')
        /\ MetaGood(metaResp, call, seen) => MetaGood(metaResp, call, seen')
    BY <2>1, MoreNodes
  <2>5. Refused(call, seen) => Refused(call, seen')
    BY <2>1, MoreReasons
  <2> QED BY <1>0, <2>2, <2>3, <2>4, <2>5 DEF WorkInv
<1>9. AnswerInv'
  BY <1>0, <1>4, MoreReasons DEF AnswerInv
<1>10. ResultInv'
  <2>1. CASE cpc = "recv" BY <1>0, <1>4, <2>1 DEF ResultInv
  <2>2. CASE cpc # "recv" BY <1>0, <2>2 DEF ResultInv, Gone
  <2> QED BY <2>1, <2>2
<1> QED BY <1>1, <1>5, <1>6, <1>7, <1>8, <1>9, <1>10

LEMMA TreeSteps ==
  ASSUME RpcInv, NEW p \in Paths,
         WriteFile(p) \/ MakeDirectory(p) \/ RemoveNode(p)
  PROVE  RpcInv'
<1>1. /\ fs \in [Paths -> NodeSet] /\ changes \in Nat
      /\ \A q, r \in Paths : IsStrictPrefix(r, q) /\ fs[q] # None => IsDir(fs[r])
  BY DEF RpcInv, TreeInv, TypeInv
<1>2. p \in Seq(STRING) /\ p # <<>> /\ Front(p) \in AllPaths
      /\ \A q \in Paths : q \in Seq(STRING)
  BY PathTypes
<1>3. ~IsDir(None) BY NodeFacts
<1>4. ASSUME NEW n \in NodeSet, Becomes(p, n), IsDir(Stat(Front(p))),
             ~IsDir(fs[p]), n # None
      PROVE  RpcInv'
  <2>1. fs' = [fs EXCEPT ![p] = n] BY <1>4 DEF Becomes
  <2>2. fs' \in [Paths -> NodeSet] BY <1>1, <2>1
  <2>3. ASSUME NEW q \in Paths, NEW r \in Paths, IsStrictPrefix(r, q), fs'[q] # None
        PROVE  IsDir(fs'[r])
    <3>1. CASE q = p
      <4>1. r # p BY <2>3, <3>1, NotBelowItself
      <4>2. r = Front(p) \/ IsStrictPrefix(r, Front(p))
        BY <1>2, <2>3, <3>1, AboveFront
      <4>3. CASE r = Front(p)
        <5>1. IsDir(fs[r]) BY <1>4, <4>3 DEF Stat
        <5> QED BY <1>1, <2>1, <4>1, <5>1
      <4>4. CASE IsStrictPrefix(r, Front(p))
        <5>1. Front(p) \in Paths
          <6>1. r \in Seq(STRING) /\ Len(r) \in Nat BY <1>2
          <6>2. Front(p) # <<>>
            <7>1. Front(p) \in Seq(STRING) BY <1>2, ChildFacts
            <7>2. Len(r) < Len(Front(p)) BY <4>4, <6>1, <7>1, StrictPrefixIff
            <7> QED BY <6>1, <7>1, <7>2
          <6> QED BY <1>2, <6>2 DEF AllPaths
        <5>2. fs[Front(p)] # None BY <1>3, <1>4, <5>1 DEF Stat
        <5>3. IsDir(fs[r]) BY <1>1, <4>4, <5>1, <5>2
        <5> QED BY <1>1, <2>1, <4>1, <5>3
      <4> QED BY <4>2, <4>3, <4>4
    <3>2. CASE q # p
      <4>1. fs[q] # None BY <1>1, <2>1, <2>3, <3>2
      <4>2. IsDir(fs[r]) BY <1>1, <2>3, <4>1
      <4>3. r # p BY <1>4, <4>2
      <4> QED BY <1>1, <2>1, <4>2, <4>3
    <3> QED BY <3>1, <3>2
  <2>4. IsTree(fs') BY <2>2, <2>3 DEF IsTree
  <2> QED BY <1>4, <2>4, BecomesKeepsInv
<1>5. CASE WriteFile(p)
  <2> DEFINE n == Node("file", changes + 2)
  <2>1. changes + 2 \in 1..(MaxChanges + 1)
    BY <1>1, <1>5, RpcAssumption DEF WriteFile, Becomes
  <2>2. n \in NodeSet /\ n # None BY <2>1, NodeFacts
  <2> QED BY <1>4, <1>5, <2>2 DEF WriteFile
<1>6. CASE MakeDirectory(p)
  <2> DEFINE n == Node("dir", changes + 2)
  <2>1. changes + 2 \in 1..(MaxChanges + 1)
    BY <1>1, <1>6, RpcAssumption DEF MakeDirectory, Becomes
  <2>2. n \in NodeSet /\ n # None BY <2>1, NodeFacts
  <2> QED BY <1>3, <1>4, <1>6, <2>2 DEF MakeDirectory
<1>7. CASE RemoveNode(p)
  <2>1. Becomes(p, None) /\ \A q \in Children(p) : fs[q] = None
    BY <1>7 DEF RemoveNode
  <2>2. fs' = [fs EXCEPT ![p] = None] BY <2>1 DEF Becomes
  <2>3. fs' \in [Paths -> NodeSet] BY <1>1, <2>2, NodeFacts
  <2>4. ASSUME NEW q \in Paths, NEW r \in Paths, IsStrictPrefix(r, q), fs'[q] # None
        PROVE  IsDir(fs'[r])
    <3>1. q # p /\ fs[q] # None BY <1>1, <2>2, <2>4
    <3>2. IsDir(fs[r]) BY <1>1, <2>4, <3>1
    <3>3. r # p
      <4> SUFFICES ASSUME r = p PROVE FALSE OBVIOUS
      <4> DEFINE b == Branch(p, q)
      <4>1. p \in AllPaths BY DEF AllPaths
      <4>2. b \in Children(p) /\ (b = q \/ IsStrictPrefix(b, q))
        BY <2>4, <4>1, BranchIsPath
      <4>3. b \in Paths BY <4>2 DEF Children
      <4>4. fs[b] # None BY <1>1, <1>3, <3>1, <4>2, <4>3
      <4> QED BY <2>1, <4>2, <4>4
    <3> QED BY <1>1, <2>2, <3>2, <3>3
  <2>5. IsTree(fs') BY <2>3, <2>4 DEF IsTree
  <2> QED BY <2>1, <2>5, NodeFacts, BecomesKeepsInv
<1> QED BY <1>5, <1>6, <1>7

-----------------------------------------------------------------------------
(* The client's steps *)

LEMMA ConnectStep ==
  ASSUME RpcInv, Connect
  PROVE  RpcInv'
<1> USE DEF RpcInv
<1>1. /\ UNCHANGED <<fs, changes, cpc, call, calls, listing, meta, faults, seen>>
      /\ cpc = "idle" /\ connected' = TRUE /\ result' = "none"
      /\ link' = "open" /\ up' = <<>> /\ down' = <<>>
      /\ spc' = "recv" /\ stack' = <<>>
      /\ request' = NoRequest /\ handled' = FALSE
      /\ listResp' = New("ListFilesResponse") /\ metaResp' = New("GetFileMetaResponse")
  BY DEF Connect, FreshLocals, fsVars
<1>2. TreeInv' /\ SeenInv'
  BY <1>1 DEF TreeInv, SeenInv
<1>3. TypeInv'
  <2>1. handled' \in BOOLEAN /\ connected' \in BOOLEAN BY <1>1
  <2>2. stack' \in Seq(FrameSet) BY <1>1
  <2>3. listResp' \in ListType BY <1>1, NewListing
  <2> QED BY <1>1, <2>1, <2>2, <2>3 DEF TypeInv
<1>4. LocalsInv' /\ RoundInv' /\ WorkInv' /\ AnswerInv' /\ ResultInv'
  BY <1>1 DEF LocalsInv, RoundInv, WorkInv, AnswerInv, ResultInv
<1> QED BY <1>2, <1>3, <1>4

LEMMA CallStep ==
  ASSUME RpcInv, NEW c \in Requests, Call(c)
  PROVE  RpcInv'
<1> USE DEF RpcInv
<1>1. /\ UNCHANGED <<fs, changes, connected, listing, meta, link, down, faults>>
      /\ UNCHANGED <<spc, request, stack, listResp, metaResp, handled, opened>>
      /\ cpc = "idle" /\ calls < MaxCalls /\ calls' = calls + 1 /\ call' = c
      /\ seen' = [p \in AllPaths |-> {Stat(p)}]
  BY DEF Call, fsVars, serverVars
<1>2. \/ connected = FALSE /\ cpc' = "idle" /\ result' = "false" /\ up' = up
      \/ /\ ~Gone /\ cpc' = "recv" /\ result' = "none"
         /\ up' = Append(up, Envelope("RpcRequest", Built(c)))
      \/ /\ Gone /\ up' = up
         /\ \/ cpc' = "recv" /\ result' = "none"
            \/ cpc' = "idle" /\ result' = "false"
            \/ cpc' = "dead" /\ result' = "none"
  <2>1. connected \in BOOLEAN BY DEF TypeInv
  <2> QED BY <2>1 DEF Call, Returns
<1>3. TreeInv' BY <1>1 DEF TreeInv
<1>4. SeenInv'
  <2>1. fs \in [Paths -> NodeSet] BY DEF TreeInv
  <2>2. Sees(fs, seen')
    <3>1. /\ \A p \in Paths : seen'[p] = {fs[p]}
          /\ seen'[<<>>] = {Node("dir", 1)}
      BY <1>1, RpcAssumption DEF Stat, AllPaths
    <3>2. \A p, q \in Paths : IsStrictPrefix(q, p) /\ fs[p] # None => IsDir(fs[q])
      BY DEF TreeInv
    <3> QED BY <3>1, <3>2 DEF Sees
  <2>3. seen' \in [AllPaths -> SUBSET NodeSet]
    <3>1. 1 \in 1..(MaxChanges + 1) BY RpcAssumption
    <3>2. Node("dir", 1) \in NodeSet BY <3>1, NodeFacts
    <3>3. \A p \in AllPaths : Stat(p) \in NodeSet BY <2>1, <3>2 DEF Stat
    <3> QED BY <1>1, <3>3
  <2> QED BY <1>1, <2>2, <2>3 DEF SeenInv
<1>5. ~Gone => up = <<>> /\ down = <<>> /\ spc = "recv" /\ link = "open"
  BY <1>1 DEF RoundInv, Gone
<1>6. ~Gone => up' = <<>> \/ up' = <<Envelope("RpcRequest", Built(c))>>
  BY <1>2, <1>5
<1>7. TypeInv'
  <2>1. calls' \in 0..MaxCalls BY <1>1, RpcAssumption DEF TypeInv
  <2>2. up' = <<>> \/ \E b \in Requests : up' = <<Envelope("RpcRequest", Built(b))>>
    <3>1. CASE up' = up BY <3>1 DEF TypeInv
    <3>2. CASE ~Gone BY <1>6, <3>2
    <3> QED BY <1>2, <3>1, <3>2
  <2> QED BY <1>1, <1>2, <2>1, <2>2 DEF TypeInv
<1>8. LocalsInv' BY <1>1 DEF LocalsInv
<1>9. down = <<>> BY <1>1 DEF RoundInv
<1>10. RoundInv'
  <2>1. CASE ~Gone BY <1>1, <1>2, <1>5, <1>6, <2>1 DEF RoundInv
  <2>2. CASE Gone /\ link # "open" BY <1>1, <1>2, <1>9, <2>2 DEF RoundInv
  <2>3. CASE Gone /\ link = "open"
    <3>1. spc = "closed" /\ up = <<>> /\ up' = up
      BY <1>1, <1>2, <2>3 DEF RoundInv, Gone
    <3> QED BY <1>1, <1>9, <3>1 DEF RoundInv
  <2> QED BY <2>1, <2>2, <2>3
<1>11. WorkInv'
  <2>1. link = "open" => spc \in {"recv", "closed"} BY <1>1 DEF RoundInv
  <2> QED BY <1>1, <2>1 DEF WorkInv
<1>12. AnswerInv' BY <1>1, <1>9 DEF AnswerInv
<1>13. ResultInv'
  <2>1. Gone' = Gone BY <1>1 DEF Gone
  <2> QED BY <1>1, <1>2, <2>1 DEF ResultInv
<1> QED BY <1>3, <1>4, <1>7, <1>8, <1>10, <1>11, <1>12, <1>13

\* what the caller's objects hold afterwards
LEMMA CopiedListing ==
  ASSUME NEW l \in ListType, NEW old \in ListType
  PROVE  CopyFrom("ListFilesResponse", old, l) = l
<1>1. /\ l = ListMsg(l.files, l.directory, l.total_count) /\ l.files \in Seq(EntrySet)
      /\ old = ListMsg(old.files, old.directory, old.total_count)
  BY DEF ListType, ListMsg
<1> QED BY <1>1, CopyListFilesResponse

LEMMA PlainFields ==
  ASSUME NEW p, NEW n, NEW s, NEW x, x = WithMD5(p, n, s)
  PROVE  x = [f \in FileMetaFields |-> x[f]]
<1> DEFINE e == New("FileMeta")
<1>1. DOMAIN e = FileMetaFields /\ e = [f \in FileMetaFields |-> e[f]]
  BY Constructors DEF FileMetaFields
<1> HIDE DEF e
<1>2. Described(p, n) = [f \in FileMetaFields |-> Described(p, n)[f]]
  BY <1>1 DEF Described, e
<1>3. Plain(p, n) = [f \in FileMetaFields |-> Plain(p, n)[f]]
  BY <1>1, <1>2 DEF Plain, e
<1> QED BY <1>3 DEF WithMD5

LEMMA CopiedMeta ==
  ASSUME NEW c, NEW sn, NEW m, MetaGood(m, c, sn),
         NEW old, old = MetaMsg(old.error, old.meta, old.success)
  PROVE  /\ CopyFrom("GetFileMetaResponse", old, m) = m
         /\ m = MetaMsg(m.error, m.meta, m.success)
<1>1. PICK x : /\ m = MetaMsg(<<>>, <<x>>, 1)
               /\ \E n \in CallNodes(c.path, sn) :
                    \E s : x = WithMD5(c.path, n, s)
  BY DEF MetaGood
<1>2. x = [f \in FileMetaFields |-> x[f]]
  <2>1. PICK n, s : x = WithMD5(c.path, n, s)
    BY <1>1
  <2> QED BY <2>1, PlainFields
<1>3. m = MetaMsg(m.error, m.meta, m.success)
  BY <1>1 DEF MetaMsg
<1> QED BY <1>1, <1>2, <1>3, CopyGetFileMetaResponse

LEMMA ReceiveResponseStep ==
  ASSUME RpcInv, ReceiveResponse
  PROVE  RpcInv'
<1> USE DEF RpcInv
<1> DEFINE r == Head(down)
           p == Received("RpcResponse", r)
           ok == r.len # 0 /\ p.ok /\ p.msg.success = 1
           list == ok /\ call.kind = "list" /\ p.msg.list_files # <<>>
           got == ok /\ call.kind = "meta" /\ p.msg.get_file_meta # <<>>
<1>0. /\ cpc = "recv" /\ cpc' = "idle" /\ down # <<>> /\ down' = Tail(down)
      /\ UNCHANGED <<fs, changes, connected, call, calls, link, up, faults, seen>>
      /\ UNCHANGED <<spc, request, stack, listResp, metaResp, handled, opened>>
      /\ result' = IF list \/ got THEN "true" ELSE "false"
      /\ listing' = IF list THEN CopyFrom("ListFilesResponse", listing, p.msg.list_files[1])
                    ELSE listing
      /\ meta' = IF got THEN CopyFrom("GetFileMetaResponse", meta, p.msg.get_file_meta[1])
                 ELSE meta
  BY DEF ReceiveResponse, Returns, fsVars, serverVars
<1>1. call \in Requests /\ result = "none" /\ listing \in ListType
      /\ meta = MetaMsg(meta.error, meta.meta, meta.success)
  BY <1>0 DEF TypeInv
<1>2. down' = <<>>
  <2>1. PICK m : down = <<m>> BY <1>0 DEF TypeInv
  <2> QED BY <1>0, <2>1
<1>3. Says(r, call, seen)
  BY <1>0 DEF AnswerInv
<1>4. link = "open" => up = <<>> /\ spc = "recv"
  BY <1>0 DEF RoundInv
<1> DEFINE Goal == /\ listing' \in ListType
                   /\ meta' = MetaMsg(meta'.error, meta'.meta, meta'.success)
                   /\ result' \in {"true", "false"}
                   /\ result' = "true" =>
                        \/ call.kind = "list" /\ ListGood(listing', call, seen)
                        \/ call.kind = "meta" /\ MetaGood(meta', call, seen)
                   /\ result' = "false" => Refused(call, seen) \/ Unreadable(call, seen)
<1>5. ASSUME r.len # 0, p.ok = TRUE, p.msg.success = 1, call.kind = "list",
             \E l \in ListType : p.msg.list_files = <<l>> /\ ListGood(l, call, seen)
      PROVE  Goal
  <2>1. PICK l \in ListType : p.msg.list_files = <<l>> /\ ListGood(l, call, seen)
    BY <1>5
  <2>2. list /\ ~got /\ p.msg.list_files[1] = l
    <3> HIDE DEF p, r
    <3>1. ok BY <1>5, Zenon
    <3>2. p.msg.list_files # <<>> /\ p.msg.list_files[1] = l BY <2>1
    <3>3. call.kind # "meta" BY <1>5
    <3> QED BY <1>5, <3>1, <3>2, <3>3, Zenon
  <2> HIDE DEF list, got, ok, p, r
  <2>3. result' = "true" /\ listing' = l /\ meta' = meta
    BY <1>0, <1>1, <2>1, <2>2, CopiedListing
  <2> QED BY <1>0, <1>1, <1>5, <2>1, <2>3
<1>6. ASSUME r.len # 0, p.ok = TRUE, p.msg.success = 1, call.kind = "meta",
             \E m : p.msg.get_file_meta = <<m>> /\ MetaGood(m, call, seen)
      PROVE  Goal
  <2>1. PICK m : p.msg.get_file_meta = <<m>> /\ MetaGood(m, call, seen)
    BY <1>6
  <2>2. ~list /\ got /\ p.msg.get_file_meta[1] = m
    <3> HIDE DEF p, r
    <3>1. ok BY <1>6, Zenon
    <3>2. p.msg.get_file_meta # <<>> /\ p.msg.get_file_meta[1] = m BY <2>1
    <3>3. call.kind # "list" BY <1>6
    <3> QED BY <1>6, <3>1, <3>2, <3>3, Zenon
  <2> HIDE DEF list, got, ok, p, r
  <2>3. result' = "true" /\ meta' = m /\ listing' = listing
        /\ m = MetaMsg(m.error, m.meta, m.success)
    BY <1>0, <1>1, <2>1, <2>2, CopiedMeta
  <2> QED BY <1>0, <1>1, <1>6, <2>1, <2>3
<1>7. ASSUME p.ok = TRUE => p.msg.success = 0,
             Refused(call, seen) \/ Unreadable(call, seen)
      PROVE  Goal
  <2>1. ~list /\ ~got
    BY <1>7
  <2> HIDE DEF list, got, ok, p, r
  <2> QED BY <1>0, <1>1, <1>7, <2>1
<1>8. Goal
  BY <1>3, <1>5, <1>6, <1>7 DEF Says
<1> HIDE DEF list, got, ok, p, r
<1>9. TreeInv' /\ SeenInv' /\ LocalsInv' /\ AnswerInv'
  BY <1>0, <1>2 DEF TreeInv, SeenInv, LocalsInv, AnswerInv
<1>10. TypeInv'
  <2>1. /\ listing' \in ListType
        /\ meta' = MetaMsg(meta'.error, meta'.meta, meta'.success)
        /\ result' \in {"none", "true", "false"}
    BY <1>8
  <2> HIDE DEF Goal
  <2> QED BY <1>0, <1>1, <1>2, <2>1 DEF TypeInv
<1>11. RoundInv' /\ WorkInv'
  BY <1>0, <1>2, <1>4 DEF RoundInv, WorkInv
<1>12. ResultInv'
  BY <1>0, <1>8 DEF ResultInv
<1> QED BY <1>9, <1>10, <1>11, <1>12

LEMMA ClientEnds ==
  ASSUME RpcInv, ReceiveFails \/ ClientDies \/ Cut
  PROVE  RpcInv'
<1> USE DEF RpcInv
<1>1. CASE ReceiveFails
  <2>0. /\ cpc = "recv" /\ down = <<>> /\ Gone /\ cpc' = "idle" /\ result' = "false"
        /\ UNCHANGED <<fs, changes, connected, call, calls, listing, meta, seen>>
        /\ UNCHANGED <<link, up, down, faults>>
        /\ UNCHANGED <<spc, request, stack, listResp, metaResp, handled, opened>>
    BY <1>1 DEF ReceiveFails, Returns, fsVars, netVars, serverVars
  <2>1. Gone' /\ (link = "open" => spc = "closed")
    BY <2>0 DEF Gone
  <2>2. TreeInv' /\ SeenInv' /\ LocalsInv' /\ AnswerInv' /\ TypeInv'
    BY <2>0 DEF TreeInv, SeenInv, LocalsInv, AnswerInv, TypeInv
  <2>3. RoundInv' /\ WorkInv' /\ ResultInv'
    BY <2>0, <2>1 DEF RoundInv, WorkInv, ResultInv
  <2> QED BY <2>2, <2>3
<1>2. CASE ClientDies
  <2>0. /\ cpc = "recv" /\ cpc' = "dead" /\ faults < MaxFaults /\ faults' = faults + 1
        /\ link' # "open" /\ link' \in {"fin", link}
        /\ UNCHANGED <<fs, changes, connected, call, calls, result, listing, meta, seen>>
        /\ UNCHANGED <<up, down>>
        /\ UNCHANGED <<spc, request, stack, listResp, metaResp, handled, opened>>
    BY <1>2 DEF ClientDies, fsVars, serverVars
  <2>1. faults' \in 0..MaxFaults
    BY <2>0, RpcAssumption DEF TypeInv
  <2>2. result' = "none"
    BY <2>0 DEF TypeInv
  <2>3. TreeInv' /\ SeenInv' /\ LocalsInv' /\ AnswerInv' /\ TypeInv'
    BY <2>0, <2>1 DEF TreeInv, SeenInv, LocalsInv, AnswerInv, TypeInv
  <2>4. RoundInv' /\ WorkInv' /\ ResultInv'
    BY <2>0, <2>2 DEF RoundInv, WorkInv, ResultInv
  <2> QED BY <2>3, <2>4
<1>3. CASE Cut
  <2>0. /\ link' = "cut" /\ faults < MaxFaults /\ faults' = faults + 1
        /\ up' \in {up, <<>>} /\ down' \in {down, <<>>}
        /\ UNCHANGED <<fs, changes, seen>>
        /\ UNCHANGED <<cpc, connected, call, calls, result, listing, meta>>
        /\ UNCHANGED <<spc, request, stack, listResp, metaResp, handled, opened>>
    BY <1>3 DEF Cut, fsVars, clientVars, serverVars
  <2>1. faults' \in 0..MaxFaults
    BY <2>0, RpcAssumption DEF TypeInv
  <2>2. TreeInv' /\ SeenInv' /\ LocalsInv' /\ AnswerInv'
    BY <2>0 DEF TreeInv, SeenInv, LocalsInv, AnswerInv
  <2>3. TypeInv'
    BY <2>0, <2>1 DEF TypeInv
  <2>4. RoundInv' /\ WorkInv' /\ ResultInv'
    BY <2>0 DEF RoundInv, WorkInv, ResultInv, Gone
  <2> QED BY <2>2, <2>3, <2>4
<1> QED BY <1>1, <1>2, <1>3

LEMMA DisconnectStep ==
  ASSUME RpcInv, Disconnect
  PROVE  RpcInv'
<1> USE DEF RpcInv
<1>0. /\ cpc = "idle" /\ connected' = FALSE /\ result' = "none"
      /\ link' # "open" /\ link' \in {"fin", link}
      /\ call' = [kind |-> "none"] /\ seen' = [p \in AllPaths |-> {}]
      /\ UNCHANGED <<fs, changes, cpc, calls, listing, meta, up, down, faults>>
      /\ UNCHANGED <<spc, request, stack, listResp, metaResp, handled, opened>>
  BY DEF Disconnect, NoCall, fsVars, serverVars
<1>1. TreeInv' /\ LocalsInv' /\ AnswerInv' /\ RoundInv' /\ WorkInv' /\ ResultInv'
  BY <1>0 DEF TreeInv, LocalsInv, AnswerInv, RoundInv, WorkInv, ResultInv
<1>2. SeenInv'
  BY <1>0 DEF SeenInv
<1>3. TypeInv'
  BY <1>0 DEF TypeInv
<1> QED BY <1>1, <1>2, <1>3

-----------------------------------------------------------------------------
(* The server *)

LEMMA SessionEndsStep ==
  ASSUME RpcInv, SessionEnds
  PROVE  RpcInv'
<1> USE DEF RpcInv
<1>0. /\ spc = "recv" /\ spc' = "closed" /\ up = <<>> /\ link # "open"
      /\ UNCHANGED <<fs, changes, seen>>
      /\ UNCHANGED <<cpc, connected, call, calls, result, listing, meta>>
      /\ UNCHANGED <<link, up, down, faults>>
      /\ UNCHANGED <<request, stack, listResp, metaResp, handled, opened>>
  BY DEF SessionEnds, At, fsVars, clientVars, netVars
<1>1. TreeInv' /\ SeenInv' /\ LocalsInv' /\ AnswerInv' /\ RoundInv' /\ WorkInv'
  BY <1>0 DEF TreeInv, SeenInv, LocalsInv, AnswerInv, RoundInv, WorkInv
<1>2. TypeInv' /\ ResultInv'
  BY <1>0 DEF TypeInv, ResultInv, Gone
<1> QED BY <1>1, <1>2

\* the request the server works on, whoever has sent it
LEMMA RequestFacts ==
  ASSUME NEW c \in Requests, request = Built(c)
  PROVE  /\ ListRequest.directory \in AllPaths /\ MetaRequest.file_path \in AllPaths
         /\ c.kind \in {"list", "meta", "other"}
         /\ c.kind = "list" => /\ request.type = 1
                               /\ ListRequest.directory = c.path
                               /\ ListRequest.recursive = 1 <=> c.recursive = TRUE
         /\ c.kind = "meta" => request.type = 2 /\ MetaRequest.file_path = c.path
         /\ c.kind = "other" => request.type = 3
<1>1. c.kind \in {"list", "meta", "other"} /\ c.path \in AllPaths /\ c.recursive \in BOOLEAN
  BY RpcAssumption DEF AllPaths
<1>2. <<>> \in AllPaths
  BY DEF AllPaths
<1>3. CASE c.kind = "list"
  <2>1. /\ request.type = 1 /\ request.get_file_meta = <<>>
        /\ request.list_files = <<[directory |-> c.path, recursive |-> Flag(c.recursive)]>>
    BY <1>3, BuiltRequest DEF RequestMsg
  <2>2. /\ ListRequest = [directory |-> c.path, recursive |-> Flag(c.recursive)]
        /\ MetaRequest = [file_path |-> <<>>]
    BY <2>1, Constructors DEF ListRequest, MetaRequest, Get
  <2>3. Flag(c.recursive) = 1 <=> c.recursive = TRUE
    BY <1>1 DEF Flag
  <2> QED BY <1>1, <1>2, <1>3, <2>1, <2>2, <2>3
<1>4. CASE c.kind = "meta"
  <2>1. /\ request.type = 2 /\ request.list_files = <<>>
        /\ request.get_file_meta = <<[file_path |-> c.path]>>
    BY <1>4, BuiltRequest DEF RequestMsg
  <2>2. /\ ListRequest = [directory |-> <<>>, recursive |-> 0]
        /\ MetaRequest = [file_path |-> c.path]
    BY <2>1, Constructors DEF ListRequest, MetaRequest, Get
  <2> QED BY <1>1, <1>2, <1>4, <2>1, <2>2
<1>5. CASE c.kind = "other"
  <2>1. request.type = 3 /\ request.list_files = <<>> /\ request.get_file_meta = <<>>
    BY <1>5, BuiltRequest DEF RequestMsg
  <2>2. /\ ListRequest = [directory |-> <<>>, recursive |-> 0]
        /\ MetaRequest = [file_path |-> <<>>]
    BY <2>1, Constructors DEF ListRequest, MetaRequest, Get
  <2> QED BY <1>1, <1>2, <1>5, <2>1, <2>2
<1> QED BY <1>1, <1>3, <1>4, <1>5

LEMMA RequestPaths ==
  ASSUME TypeInv
  PROVE  ListRequest.directory \in AllPaths /\ MetaRequest.file_path \in AllPaths
<1>1. CASE request = NoRequest
  <2>1. request.list_files = <<>> /\ request.get_file_meta = <<>>
    BY <1>1, Constructors DEF NoRequest
  <2>2. /\ ListRequest = [directory |-> <<>>, recursive |-> 0]
        /\ MetaRequest = [file_path |-> <<>>]
    BY <2>1, Constructors DEF ListRequest, MetaRequest, Get
  <2> QED BY <2>2 DEF AllPaths
<1>2. CASE request # NoRequest
  <2>1. PICK c \in Requests : request = Built(c)
    BY <1>2 DEF TypeInv
  <2> QED BY <2>1, RequestFacts
<1> QED BY <1>1, <1>2

\* what a request becomes at the server
LEMMA RequestRead ==
  ASSUME RequestsArrive, ReceiveRequest, NEW c \in Requests,
         up = <<Envelope("RpcRequest", Built(c))>>
  PROVE  \/ spc' = "closed" /\ request' = request
         \/ /\ request' = Built(c)
            /\ spc' = CASE c.kind = "list" -> "list"
                        [] c.kind = "meta" -> "meta"
                        [] OTHER -> "reply"
<1> DEFINE r == Head(up)
           p == Received("RpcRequest", r)
<1>1. r = Envelope("RpcRequest", Built(c))
  OBVIOUS
<1>2. r.len # 0 /\ (p.ok => p.msg = Built(c))
  BY <1>1 DEF RequestsArrive, Arrives
<1>3. IF r.len = 0 \/ ~p.ok
        THEN spc' = "closed" /\ UNCHANGED request
        ELSE /\ request' = p.msg
             /\ spc' = CASE p.msg.type = RPC_LIST_FILES -> "list"
                         [] p.msg.type = RPC_GET_FILE_META -> "meta"
                         [] OTHER -> "reply"
  BY DEF ReceiveRequest
<1> HIDE DEF p, r
<1>4. CASE p.ok
  <2>1. /\ request' = Built(c)
        /\ spc' = CASE Built(c).type = 1 -> "list"
                    [] Built(c).type = 2 -> "meta"
                    [] OTHER -> "reply"
    BY <1>2, <1>3, <1>4 DEF RPC_LIST_FILES, RPC_GET_FILE_META
  <2>2. c.kind \in {"list", "meta", "other"}
    BY RpcAssumption
  <2>3. /\ c.kind = "list" => Built(c).type = 1
        /\ c.kind = "meta" => Built(c).type = 2
        /\ c.kind = "other" => Built(c).type = 3
    BY BuiltRequest DEF RequestMsg
  <2> QED BY <2>1, <2>2, <2>3
<1>5. CASE ~p.ok
  BY <1>3, <1>5
<1> QED BY <1>4, <1>5

LEMMA ReceiveRequestStep ==
  ASSUME RpcInv, CodecFaithful, ReceiveRequest
  PROVE  RpcInv'
<1> USE DEF RpcInv
<1>0. /\ spc = "recv" /\ up # <<>> /\ up' = Tail(up)
      /\ UNCHANGED <<fs, changes, seen, link, down, faults>>
      /\ UNCHANGED <<cpc, connected, call, calls, result, listing, meta>>
      /\ UNCHANGED <<stack, listResp, metaResp, handled, opened>>
  BY DEF ReceiveRequest, fsVars, clientVars
<1>1. PICK c \in Requests : /\ up = <<Envelope("RpcRequest", Built(c))>>
                            /\ link = "open" => c = call
  <2>1. CASE link = "open"
    <3>1. cpc = "recv" /\ up = <<Envelope("RpcRequest", Built(call))>>
      BY <1>0, <2>1 DEF RoundInv
    <3>2. call \in Requests
      BY <3>1 DEF TypeInv
    <3> QED BY <3>1, <3>2
  <2>2. CASE link # "open"
    BY <1>0, <2>2 DEF TypeInv
  <2> QED BY <2>1, <2>2
<1>2. up' = <<>>
  BY <1>0, <1>1
<1>3. \/ spc' = "closed" /\ request' = request
      \/ /\ request' = Built(c)
         /\ spc' = CASE c.kind = "list" -> "list"
                     [] c.kind = "meta" -> "meta"
                     [] OTHER -> "reply"
  BY <1>1, RequestRead DEF CodecFaithful
<1>4. c.kind \in {"list", "meta", "other"}
  BY RpcAssumption
<1>5. link = "open" => cpc = "recv" /\ down = <<>> /\ result = "none"
  BY <1>0 DEF RoundInv, TypeInv
<1>6. TreeInv' /\ SeenInv' /\ AnswerInv'
  BY <1>0 DEF TreeInv, SeenInv, AnswerInv
<1>7. spc' \in {"list", "meta", "reply", "closed"}
  BY <1>3
<1>8. TypeInv'
  <2>1. request' = NoRequest \/ \E d \in Requests : request' = Built(d)
    BY <1>1, <1>3 DEF TypeInv
  <2> QED BY <1>0, <1>2, <1>7, <2>1 DEF TypeInv
<1>9. LocalsInv' /\ RoundInv' /\ ResultInv'
  BY <1>0, <1>2, <1>5, <1>7 DEF LocalsInv, RoundInv, ResultInv, Gone
<1>10. WorkInv'
  <2>1. CASE spc' = "closed"
    BY <2>1 DEF WorkInv
  <2>2. CASE link = "open" /\ spc' # "closed"
    <3>1. /\ request' = Built(call)
          /\ spc' = CASE call.kind = "list" -> "list"
                      [] call.kind = "meta" -> "meta"
                      [] OTHER -> "reply"
      BY <1>1, <1>3, <2>2
    <3>2. /\ handled = FALSE
          /\ listResp = New("ListFilesResponse") /\ metaResp = New("GetFileMetaResponse")
      BY <1>0 DEF LocalsInv
    <3>3. spc' = "reply" => call.kind = "other"
      BY <1>1, <1>4, <2>2, <3>1
    <3>4. /\ spc' = "list" => call.kind = "list"
          /\ spc' = "meta" => call.kind = "meta"
      BY <1>1, <1>4, <2>2, <3>1
    <3> QED BY <1>0, <1>7, <3>1, <3>2, <3>3, <3>4 DEF WorkInv, Refused
  <2>3. CASE link # "open"
    BY <1>0, <2>3 DEF WorkInv
  <2> QED BY <2>1, <2>2, <2>3
<1> QED BY <1>6, <1>8, <1>9, <1>10

\* the node at the path of the call is one of those seen
LEMMA PresentNode ==
  ASSUME NEW c \in Requests, Sees(fs, seen)
  PROVE  Stat(c.path) \in CallNodes(c.path, seen)
<1>1. c.path \in Paths \/ c.path = <<>>
  BY WantedFacts DEF AllPaths
<1>2. <<>> \notin Paths
  BY RpcAssumption
<1> QED BY <1>1, <1>2 DEF Sees, Stat, CallNodes

\* A step of the handler may add to what has been found.
Grows ==
  /\ faults' \in 0..MaxFaults
  /\ cpc = "recv" => /\ seen' \in [AllPaths -> SUBSET NodeSet]
                     /\ Sees(fs, seen') /\ MoreSeen(seen, seen')
  /\ cpc # "recv" => seen' = seen

\* a step without an error
LEMMA NothingAdded ==
  ASSUME RpcInv, UNCHANGED <<seen, faults>>
  PROVE  Grows
<1>1. faults' \in 0..MaxFaults BY DEF RpcInv, TypeInv
<1>2. ASSUME cpc = "recv"
      PROVE  /\ seen' \in [AllPaths -> SUBSET NodeSet]
             /\ Sees(fs, seen') /\ MoreSeen(seen, seen')
  <2>1. seen \in [AllPaths -> SUBSET NodeSet] /\ Sees(fs, seen)
    BY <1>2 DEF RpcInv, SeenInv
  <2>2. \A q \in AllPaths : seen[q] # {} BY <2>1 DEF Sees, AllPaths
  <2> QED BY <2>1, <2>2 DEF MoreSeen
<1> QED BY <1>1, <1>2 DEF Grows

\* a failing system call hides a path and what is below it
LEMMA FailsHides ==
  ASSUME RpcInv, NEW paths, Fails(paths), cpc = "recv"
  PROVE  /\ seen' \in [AllPaths -> SUBSET NodeSet]
         /\ \A q \in AllPaths : seen[q] \subseteq seen'[q]
         /\ \A q \in AllPaths : seen'[q] \subseteq seen[q] \cup {None}
         /\ \A q \in AllPaths :
              (\E p \in paths : q = p \/ q \in Below(p)) => None \in seen'[q]
         /\ \A q \in AllPaths :
              ~(\E p \in paths : q = p \/ q \in Below(p)) => seen'[q] = seen[q]
<1>1. seen \in [AllPaths -> SUBSET NodeSet] BY DEF RpcInv, SeenInv
<1>2. seen' = [q \in AllPaths |->
                 IF \E p \in paths : q = p \/ q \in Below(p)
                   THEN seen[q] \cup {None} ELSE seen[q]]
  BY DEF Fails
<1>3. None \in NodeSet BY NodeFacts
<1> QED BY <1>1, <1>2, <1>3

LEMMA FailsGrows ==
  ASSUME RpcInv, NEW paths, paths \subseteq AllPaths, Fails(paths)
  PROVE  Grows
<1>1. faults' \in 0..MaxFaults
  BY RpcAssumption DEF RpcInv, TypeInv, Fails
<1>2. cpc # "recv" => seen' = seen BY DEF Fails
<1>3. ASSUME cpc = "recv"
      PROVE  Sees(fs, seen') /\ MoreSeen(seen, seen')
  <2> DEFINE Hidden(q) == \E p \in paths : q = p \/ q \in Below(p)
  <2>1. /\ \A q \in AllPaths : seen[q] \subseteq seen'[q]
        /\ \A q \in AllPaths : seen'[q] \subseteq seen[q] \cup {None}
        /\ \A q \in AllPaths : Hidden(q) => None \in seen'[q]
        /\ \A q \in AllPaths : ~Hidden(q) => seen'[q] = seen[q]
    BY <1>3, FailsHides
  <2>2. Sees(fs, seen) BY <1>3 DEF RpcInv, SeenInv
  <2>3. <<>> \in AllPaths /\ \A q \in Paths : q \in AllPaths BY DEF AllPaths
  <2>4. \A q \in AllPaths : seen[q] # {} BY <2>2 DEF Sees, AllPaths
  <2>5. ASSUME NEW p \in Paths, NEW q \in Paths, IsStrictPrefix(q, p),
               None \notin seen'[p]
        PROVE  \A n \in seen'[q] : IsDir(n)
    <3>1. ~Hidden(q)
      <4> SUFFICES ASSUME Hidden(q) PROVE FALSE OBVIOUS
      <4>1. PICK x \in paths : q = x \/ q \in Below(x) OBVIOUS
      <4>2. p \in Below(x)
        <5>1. p \in Seq(STRING) /\ q \in Seq(STRING) /\ x \in Seq(STRING)
          BY PathTypes
        <5>2. CASE q = x BY <2>5, <5>2 DEF Below
        <5>3. CASE IsStrictPrefix(x, q)
          <6>1. IsStrictPrefix(x, p) BY <2>5, <5>1, <5>3, StrictPrefixIff
          <6> QED BY <6>1 DEF Below
        <5> QED BY <4>1, <5>2, <5>3 DEF Below
      <4>3. Hidden(p) BY <4>2
      <4> QED BY <2>1, <2>3, <2>5, <4>3
    <3> HIDE DEF Hidden
    <3>2. None \notin seen[p] BY <2>1, <2>3, <2>5
    <3>3. \A n \in seen[q] : IsDir(n) BY <2>2, <2>5, <3>2 DEF Sees
    <3> QED BY <2>1, <2>3, <3>1, <3>3
  <2> HIDE DEF Hidden
  <2>6. \A p \in Paths : fs[p] \in seen'[p] BY <2>1, <2>2, <2>3 DEF Sees
  <2>7. Node("dir", 1) \in seen'[<<>>] BY <2>1, <2>2, <2>3 DEF Sees
  <2>8. MoreSeen(seen, seen') BY <2>1, <2>4 DEF MoreSeen
  <2> QED BY <2>5, <2>6, <2>7, <2>8 DEF Sees
<1> QED BY <1>1, <1>2, <1>3, FailsHides DEF Grows

\* what a step of the handler leaves alone
LEMMA OthersStay ==
  ASSUME RpcInv, Grows, spc \notin {"recv", "closed"}, spc' \notin {"recv", "closed"},
         UNCHANGED <<fs, changes>>,
         UNCHANGED <<cpc, connected, call, calls, result, listing, meta>>,
         UNCHANGED <<link, up, down>>
  PROVE  TreeInv' /\ SeenInv' /\ LocalsInv' /\ AnswerInv' /\ ResultInv' /\ RoundInv'
<1> USE DEF RpcInv
<1>1. TreeInv' /\ LocalsInv' /\ RoundInv'
  BY DEF TreeInv, LocalsInv, RoundInv
<1>2. SeenInv'
  BY DEF SeenInv, Grows
<1>3. CASE cpc = "recv"
  <2>1. call \in Requests /\ result = "none" /\ MoreSeen(seen, seen')
    BY <1>3 DEF TypeInv, Grows
  <2>2. AnswerInv' BY <1>3, <2>1, MoreReasons DEF AnswerInv
  <2>3. ResultInv' BY <2>1 DEF ResultInv
  <2> QED BY <1>1, <1>2, <2>2, <2>3
<1>4. CASE cpc # "recv"
  <2>1. seen' = seen BY <1>4 DEF Grows
  <2>2. AnswerInv' /\ ResultInv' BY <1>4, <2>1 DEF AnswerInv, ResultInv, Gone
  <2> QED BY <1>1, <1>2, <2>2
<1> QED BY <1>3, <1>4

LEMMA HandleListFilesStep ==
  ASSUME RpcInv, HandleListFiles
  PROVE  RpcInv'
<1> USE DEF RpcInv
<1> DEFINE d == ListRequest.directory
<1>0. /\ spc = "list"
      /\ IF IsDir(Stat(d))
           THEN /\ spc' = "walk" /\ stack' = <<Frame(d)>>
                /\ listResp' = [listResp EXCEPT !.directory = d]
           ELSE spc' = "reply" /\ stack' = stack /\ listResp' = listResp
      /\ UNCHANGED <<fs, changes, seen>>
      /\ UNCHANGED <<cpc, connected, call, calls, result, listing, meta>>
      /\ UNCHANGED <<link, up, down, faults>>
      /\ UNCHANGED <<request, metaResp, handled, opened>>
  BY DEF HandleListFiles, fsVars, clientVars, netVars
<1>1. d \in AllPaths
  BY RequestPaths
<1>2. Frame(d) \in FrameSet
  BY <1>1, FrameFacts
<1> DEFINE l == [listResp EXCEPT !.directory = d]
<1>3. /\ l \in ListType /\ l.directory = d /\ l.files = listResp.files
  <2>1. listResp \in ListType BY DEF TypeInv
  <2>2. /\ listResp \in [files : Seq(EntrySet), directory : AllPaths, total_count : Nat]
        /\ listResp.total_count = Len(listResp.files)
    BY <2>1 DEF ListType
  <2>3. /\ l \in [files : Seq(EntrySet), directory : AllPaths, total_count : Nat]
        /\ l.total_count = Len(l.files) /\ l.directory = d /\ l.files = listResp.files
    BY <1>1, <2>2
  <2> QED BY <2>3 DEF ListType
<1>4. /\ <<Frame(d)>> \in Seq(FrameSet) /\ <<Frame(d)>> # <<>>
      /\ Len(<<Frame(d)>>) = 1 /\ <<Frame(d)>>[1] = Frame(d)
  BY <1>2
<1>5. TreeInv' /\ SeenInv' /\ LocalsInv' /\ AnswerInv' /\ ResultInv' /\ RoundInv'
  BY <1>0 DEF TreeInv, SeenInv, LocalsInv, AnswerInv, ResultInv, RoundInv, Gone
<1> DEFINE stk == <<Frame(d)>>
<1> HIDE DEF d, l, stk
<1>6. spc' \in {"walk", "reply"} /\ listResp' \in {l, listResp} /\ stack' \in {stk, stack}
      /\ (spc' = "walk" => stack' = stk)
  BY <1>0 DEF l, stk
<1>7. TypeInv'
  <2>1. listResp' \in ListType /\ stack' \in Seq(FrameSet) /\ (spc' = "walk" => stack' # <<>>)
    BY <1>3, <1>4, <1>6 DEF TypeInv, stk
  <2> QED BY <1>0, <1>6, <2>1 DEF TypeInv
<1>8. WorkInv'
  <2> SUFFICES ASSUME link = "open", cpc = "recv" PROVE WorkInv'
    BY <1>0 DEF WorkInv
  <2>1. /\ call.kind = "list" /\ handled = FALSE /\ request = Built(call)
        /\ listResp = New("ListFilesResponse") /\ call \in Requests
    BY <1>0 DEF WorkInv, TypeInv
  <2>2. d = call.path
    BY <2>1, RequestFacts DEF d
  <2>3. CASE IsDir(Stat(d))
    <3>1. spc' = "walk" /\ stack' = stk /\ listResp' = l
      BY <1>0, <2>3 DEF l, stk
    <3>2. l.files = <<>> /\ l.directory = call.path
      BY <1>3, <2>1, <2>2, NewListing DEF ListMsg
    <3>3. /\ Len(stk) = 1 /\ DOMAIN stk = {1} /\ stk # <<>>
          /\ stk[1].dir = call.path /\ stk[1].open = FALSE /\ stk[1].todo = {}
      <4>1. Frame(d).dir = call.path /\ Frame(d).open = FALSE /\ Frame(d).todo = {}
        BY <1>1, <2>2, FrameFacts
      <4> QED BY <1>4, <4>1 DEF stk
    <3>4. Shape(stk, call)
      BY <3>3 DEF Shape
    <3>5. Sound(l, call, seen) /\ Unique(l) /\ DOMAIN l.files = {}
      BY <3>2 DEF Sound, Unique
    <3>6. ASSUME NEW q \in WantedBy(call) PROVE ~Visited(stk, q)
      <4>1. IsStrictPrefix(call.path, q)
        <5>1. call.path \in AllPaths
          BY <2>1, WantedFacts
        <5>2. q \in Below(call.path) \/ q \in Children(call.path)
          BY <2>1, <3>6, WantedFacts
        <5> QED BY <5>1, <5>2, ChildIsBelow DEF Below
      <4>2. ~Passed(stk[1], q)
        BY <3>3, <4>1 DEF Passed
      <4> QED BY <3>3, <4>2 DEF Visited
    <3>7. Walk(stk, l, call, seen)
      BY <3>4, <3>5, <3>6 DEF Walk
    <3> QED BY <1>0, <2>1, <3>1, <3>7 DEF WorkInv
  <2>4. CASE ~IsDir(Stat(d))
    <3>1. spc' = "reply"
      BY <1>0, <2>4
    <3>2. ~IsDir(Stat(call.path))
      BY <2>2, <2>4
    <3>3. Stat(call.path) \in seen[call.path]
      BY <2>1, PresentNode DEF SeenInv, CallNodes
    <3>4. Refused(call, seen)
      BY <2>1, <3>2, <3>3 DEF Refused
    <3> QED BY <1>0, <2>1, <3>1, <3>4 DEF WorkInv
  <2> QED BY <2>3, <2>4
<1> QED BY <1>5, <1>7, <1>8

\* what every failing system call does to the other variables
LEMMA FailsFrame ==
  ASSUME RpcInv, NEW paths, paths \subseteq AllPaths, Fails(paths)
  PROVE  /\ Grows /\ UNCHANGED <<fs, changes>>
         /\ UNCHANGED <<cpc, connected, call, calls, result, listing, meta>>
         /\ UNCHANGED <<link, up, down>>
<1>1. Grows BY FailsGrows
<1>2. /\ UNCHANGED <<fs, changes>>
      /\ UNCHANGED <<cpc, connected, call, calls, result, listing, meta>>
      /\ UNCHANGED <<link, up, down>>
  BY DEF Fails, fsVars, clientVars
<1> QED BY <1>1, <1>2

LEMMA StatFailsStep ==
  ASSUME RpcInv, StatFails
  PROVE  RpcInv'
<1> DEFINE d == ListRequest.directory
<1>0. /\ spc = "list" /\ spc' = "reply" /\ Fails({d})
      /\ UNCHANGED <<request, stack, listResp, metaResp, handled, opened>>
  BY DEF StatFails, At
<1>1. d \in AllPaths
  BY RequestPaths DEF RpcInv
<1>2. /\ Grows /\ UNCHANGED <<fs, changes>>
      /\ UNCHANGED <<cpc, connected, call, calls, result, listing, meta>>
      /\ UNCHANGED <<link, up, down>>
  BY <1>0, <1>1, FailsFrame
<1>3. TreeInv' /\ SeenInv' /\ LocalsInv' /\ AnswerInv' /\ ResultInv' /\ RoundInv'
  BY <1>0, <1>2, OthersStay
<1>4. TypeInv'
  BY <1>0, <1>2 DEF RpcInv, TypeInv, Grows
<1>5. WorkInv'
  <2> SUFFICES ASSUME link = "open", cpc = "recv" PROVE WorkInv'
    BY <1>2 DEF WorkInv
  <2>1. /\ call.kind = "list" /\ handled = FALSE /\ request = Built(call)
        /\ call \in Requests
    BY <1>0 DEF RpcInv, WorkInv, TypeInv
  <2>2. d = call.path
    BY <2>1, RequestFacts
  <2> HIDE DEF d
  <2>3. None \in seen'[d]
    BY <1>0, <1>1, FailsHides
  <2>4. Refused(call, seen')
    BY <2>1, <2>2, <2>3, NodeFacts DEF Refused
  <2> QED BY <1>0, <1>2, <2>1, <2>4 DEF WorkInv
<1> QED BY <1>3, <1>4, <1>5 DEF RpcInv

-----------------------------------------------------------------------------
(* listDirectory *)

LEMMA SetTop ==
  ASSUME NEW stk \in Seq(FrameSet), stk # <<>>, NEW w \in FrameSet,
         w.dir = stk[Len(stk)].dir
  PROVE  LET new == [stk EXCEPT ![Len(stk)] = w] IN
         /\ new \in Seq(FrameSet) /\ new # <<>>
         /\ TopOnly(new, stk)
         /\ new[Len(stk)] = w
<1> DEFINE n == Len(stk)
           new == [stk EXCEPT ![n] = w]
<1>1. n \in Nat /\ n # 0 /\ DOMAIN stk = 1..n /\ n \in DOMAIN stk
  OBVIOUS
<1>2. /\ new \in Seq(FrameSet) /\ Len(new) = n
      /\ new[n] = w
      /\ \A i \in DOMAIN stk : i # n => new[i] = stk[i]
  BY <1>1
<1> HIDE DEF n, new
<1>3. new # <<>>
  BY <1>1, <1>2
<1>4. \A i \in DOMAIN stk : new[i].dir = stk[i].dir
  BY <1>2 DEF n
<1>5. TopOnly(new, stk)
  BY <1>2, <1>4 DEF TopOnly, n
<1> QED BY <1>2, <1>3, <1>5 DEF n, new

\* a step of the walk that leaves the walk in order, and the types
LEMMA WalkStep ==
  ASSUME RpcInv, spc = "walk", spc' = "walk", handled' = handled,
         stack' \in Seq(FrameSet), stack' # <<>>, listResp' \in ListType,
         Grows, UNCHANGED <<fs, changes>>,
         UNCHANGED <<cpc, connected, call, calls, result, listing, meta>>,
         UNCHANGED <<link, up, down>>,
         UNCHANGED <<request, metaResp, opened>>,
         link = "open" /\ cpc = "recv" => Walk(stack', listResp', call, seen')
  PROVE  RpcInv'
<1> USE DEF RpcInv
<1>1. TreeInv' /\ SeenInv' /\ LocalsInv' /\ AnswerInv' /\ ResultInv' /\ RoundInv'
  BY OthersStay
<1>2. TypeInv'
  BY DEF TypeInv, Grows
<1>3. WorkInv'
  BY DEF WorkInv
<1> QED BY <1>1, <1>2, <1>3

\* a listDirectory() that has nothing left to do returns
LEMMA ReturnStep ==
  ASSUME RpcInv, spc = "walk", Return,
         Grows, UNCHANGED <<fs, changes>>,
         UNCHANGED <<cpc, connected, call, calls, result, listing, meta>>,
         UNCHANGED <<link, up, down>>,
         UNCHANGED <<request, listResp, metaResp, opened>>,
         link = "open" /\ cpc = "recv" =>
           \A p \in Paths : None \notin seen'[p] => Passed(stack[Len(stack)], p)
  PROVE  RpcInv'
<1>1. stack \in Seq(FrameSet) /\ stack # <<>> /\ listResp \in ListType
  BY DEF RpcInv, TypeInv
<1>2. /\ Front(stack) \in Seq(FrameSet) /\ Len(Front(stack)) = Len(stack) - 1
      /\ Len(stack) \in Nat /\ Len(stack) # 0
  BY <1>1, PopFacts
<1>3. ASSUME link = "open", cpc = "recv"
      PROVE  /\ Len(stack) # 1 => Walk(Front(stack), listResp, call, seen')
             /\ Len(stack) = 1 => ListGood(listResp, call, seen')
             /\ call.kind = "list" /\ request = Built(call)
  <2>1. call \in Requests /\ MoreSeen(seen, seen')
    BY <1>3 DEF RpcInv, TypeInv, Grows
  <2>2. Walk(stack, listResp, call, seen) /\ call.kind = "list" /\ request = Built(call)
    BY <1>3 DEF RpcInv, WorkInv
  <2>3. Walk(stack, listResp, call, seen')
    BY <2>1, <2>2, MoreListed
  <2> QED BY <1>1, <1>3, <2>1, <2>2, <2>3, WalkPop
<1>4. CASE Len(stack) # 1
  <2>1. spc' = "walk" /\ handled' = handled /\ stack' = Front(stack)
    BY <1>4 DEF Return
  <2>2. stack' # <<>>
    <3>1. Len(stack') # 0 BY <1>2, <1>4, <2>1
    <3> QED BY <3>1
  <2> QED BY <1>1, <1>2, <1>3, <1>4, <2>1, <2>2, WalkStep
<1>5. CASE Len(stack) = 1
  <2> USE DEF RpcInv
  <2>1. spc' = "reply" /\ handled' = TRUE /\ stack' = Front(stack)
    BY <1>5 DEF Return
  <2>2. TreeInv' /\ SeenInv' /\ LocalsInv' /\ AnswerInv' /\ ResultInv' /\ RoundInv'
    BY <2>1, OthersStay
  <2>3. TypeInv'
    BY <1>2, <2>1 DEF TypeInv, Grows
  <2>4. WorkInv'
    BY <1>3, <1>5, <2>1 DEF WorkInv
  <2> QED BY <2>2, <2>3, <2>4
<1> QED BY <1>4, <1>5

LEMMA OpenDirectoryStep ==
  ASSUME RpcInv, OpenDirectory
  PROVE  RpcInv'
<1> DEFINE n == Len(stack)
           d == stack[n].dir
           w == [dir |-> d, open |-> TRUE, todo |-> {p \in Children(d) : fs[p] # None}]
<1>0. /\ spc = "walk" /\ ~stack[n].open
      /\ IF IsDir(Stat(d))
           THEN stack' = [stack EXCEPT ![n] = w] /\ UNCHANGED <<spc, handled>>
           ELSE Return
      /\ UNCHANGED <<fs, changes, seen>>
      /\ UNCHANGED <<cpc, connected, call, calls, result, listing, meta>>
      /\ UNCHANGED <<link, up, down, faults>>
      /\ UNCHANGED <<request, listResp, metaResp, opened>>
  BY DEF OpenDirectory, Top, Last, fsVars, clientVars, netVars
<1>1. stack \in Seq(FrameSet) /\ stack # <<>> /\ listResp \in ListType
  BY <1>0 DEF RpcInv, TypeInv
<1>2. stack[n] \in FrameSet
  BY <1>1
<1>3. d \in AllPaths /\ stack[n].open = FALSE
  BY <1>0, <1>2 DEF FrameSet
<1>4. w \in FrameSet /\ w.dir = d /\ w.open = TRUE
      /\ w.todo = {p \in Children(d) : fs[p] # None}
  BY <1>3 DEF FrameSet, Children
<1>5. ASSUME link = "open", cpc = "recv"
      PROVE  Walk(stack, listResp, call, seen) /\ call \in Requests /\ Sees(fs, seen)
  BY <1>0, <1>5 DEF RpcInv, WorkInv, TypeInv, SeenInv
<1>6. CASE IsDir(Stat(d))
  <2> HIDE DEF w
  <2> DEFINE new == [stack EXCEPT ![n] = w]
  <2>1. /\ new \in Seq(FrameSet) /\ new # <<>>
        /\ TopOnly(new, stack) /\ new[n] = w
    BY <1>1, <1>4, SetTop
  <2>2. stack' = new /\ spc' = spc /\ handled' = handled
    BY <1>0, <1>6
  <2> HIDE DEF new
  <2>3. ASSUME link = "open", cpc = "recv"
        PROVE  Walk(new, listResp, call, seen)
    <3>1. /\ new[n].open = TRUE
          /\ new[n].todo = {p \in Children(stack[n].dir) : fs[p] # None}
      BY <1>4, <2>1
    <3> QED BY <1>1, <1>3, <1>5, <2>1, <2>3, <3>1, WalkOpen
  <2> QED BY <1>0, <1>1, <2>1, <2>2, <2>3, NothingAdded, WalkStep
<1>7. CASE ~IsDir(Stat(d))
  <2>1. Return BY <1>0, <1>7
  <2>2. d \in Paths /\ ~IsDir(fs[d])
    BY <1>3, <1>7 DEF Stat, Node, IsDir, AllPaths
  <2>3. ASSUME link = "open", cpc = "recv", NEW p \in Paths, None \notin seen[p]
        PROVE  Passed(stack[n], p)
    <3>1. ~IsStrictPrefix(d, p)
      BY <1>5, <2>2, <2>3, StillThere
    <3> QED BY <3>1 DEF Passed
  <2> QED BY <1>0, <1>1, <2>1, <2>3, NothingAdded, ReturnStep
<1> QED BY <1>6, <1>7

LEMMA CloseDirectoryStep ==
  ASSUME RpcInv, CloseDirectory
  PROVE  RpcInv'
<1> DEFINE w == stack[Len(stack)]
<1>0. /\ spc = "walk" /\ w.open /\ w.todo = {} /\ Return
      /\ UNCHANGED <<fs, changes, seen>>
      /\ UNCHANGED <<cpc, connected, call, calls, result, listing, meta>>
      /\ UNCHANGED <<link, up, down, faults>>
      /\ UNCHANGED <<request, listResp, metaResp, opened>>
  BY DEF CloseDirectory, Top, Last, fsVars, clientVars, netVars
<1>1. stack \in Seq(FrameSet) /\ stack # <<>>
  BY <1>0 DEF RpcInv, TypeInv
<1>2. w \in FrameSet
  BY <1>1
<1>3. w.open = TRUE
  BY <1>0, <1>2 DEF FrameSet
<1>4. \A p : Passed(w, p)
  BY <1>0, <1>3 DEF Passed
<1> QED BY <1>0, <1>4, NothingAdded, ReturnStep

LEMMA ReadEntryStep ==
  ASSUME RpcInv, NEW x \in Paths, ReadEntry(x)
  PROVE  RpcInv'
<1> DEFINE n == Len(stack)
           w == [stack[n] EXCEPT !.todo = @ \ {x}]
           rest == [stack EXCEPT ![n] = w]
           more == WithEntry(listResp, Entry(x, fs[x]))
<1>0. /\ spc = "walk" /\ stack[n].open /\ x \in stack[n].todo
      /\ IF fs[x] = None
           THEN stack' = rest /\ listResp' = listResp
           ELSE /\ listResp' = more
                /\ stack' = IF ListRequest.recursive = 1 /\ IsDir(fs[x])
                              THEN Append(rest, Frame(x)) ELSE rest
      /\ UNCHANGED <<fs, changes, seen>>
      /\ UNCHANGED <<cpc, connected, call, calls, result, listing, meta>>
      /\ UNCHANGED <<link, up, down, faults>>
      /\ UNCHANGED <<spc, request, metaResp, handled, opened>>
  BY DEF ReadEntry, Top, Last, Stat, WithEntry, fsVars, clientVars, netVars
<1>1. stack \in Seq(FrameSet) /\ stack # <<>> /\ listResp \in ListType
      /\ fs \in [Paths -> NodeSet]
  BY <1>0 DEF RpcInv, TypeInv, TreeInv
<1>2. stack[n] \in FrameSet
  BY <1>1
<1>3. /\ w \in FrameSet /\ w.dir = stack[n].dir /\ w.open = stack[n].open
      /\ w.todo = stack[n].todo \ {x} /\ stack[n].open = TRUE
  BY <1>0, <1>2 DEF FrameSet
<1> HIDE DEF w
<1>4. /\ rest \in Seq(FrameSet) /\ rest # <<>> /\ TopOnly(rest, stack) /\ rest[n] = w
  BY <1>1, <1>3, SetTop
<1> HIDE DEF rest
<1>5. Takes(rest, stack, x)
  BY <1>0, <1>3, <1>4 DEF Takes
<1>6. fs[x] \in NodeSet /\ Entry(x, fs[x]) \in EntrySet
  BY <1>1 DEF EntrySet
<1>7. more \in ListType
  BY <1>1, <1>6, WithEntryFacts
<1>8. Append(rest, Frame(x)) \in Seq(FrameSet) /\ Append(rest, Frame(x)) # <<>>
  <2>1. x \in AllPaths BY DEF AllPaths
  <2>2. Frame(x) \in FrameSet BY <2>1, FrameFacts
  <2> QED BY <1>4, <2>2
<1> HIDE DEF more
<1>9. ASSUME link = "open", cpc = "recv"
      PROVE  /\ Walk(stack, listResp, call, seen) /\ call \in Requests /\ Sees(fs, seen)
             /\ ListRequest.recursive = 1 <=> call.recursive = TRUE
             /\ call.recursive \in BOOLEAN
  <2>1. /\ Walk(stack, listResp, call, seen) /\ call \in Requests /\ Sees(fs, seen)
        /\ request = Built(call) /\ call.kind = "list"
    BY <1>0, <1>9 DEF RpcInv, WorkInv, TypeInv, SeenInv
  <2> QED BY <2>1, RequestFacts, WantedFacts
<1>10. CASE fs[x] = None
  <2>1. stack' = rest /\ listResp' = listResp BY <1>0, <1>10
  <2>2. ASSUME link = "open", cpc = "recv" PROVE Walk(rest, listResp, call, seen)
    <3>1. \A p \in Paths : p = x \/ IsStrictPrefix(x, p) => None \in seen[p]
      BY <1>9, <1>10, <2>2, StillThere
    <3> QED BY <1>1, <1>4, <1>5, <1>9, <2>2, <3>1, WalkSkip
  <2> QED BY <1>0, <1>1, <1>4, <2>1, <2>2, NothingAdded, WalkStep
<1>11. CASE fs[x] # None
  <2>1. /\ listResp' = more
        /\ stack' = IF ListRequest.recursive = 1 /\ IsDir(fs[x])
                      THEN Append(rest, Frame(x)) ELSE rest
    BY <1>0, <1>11
  <2>2. stack' \in Seq(FrameSet) /\ stack' # <<>>
    BY <1>4, <1>8, <2>1
  <2>3. ASSUME link = "open", cpc = "recv"
        PROVE  Walk(stack', more, call, seen)
    <3>1. /\ call.recursive = FALSE \/ ~IsDir(fs[x]) => Walk(rest, more, call, seen)
          /\ call.recursive = TRUE /\ IsDir(fs[x]) =>
               Walk(Append(rest, Frame(x)), more, call, seen)
      BY <1>1, <1>4, <1>5, <1>6, <1>9, <1>11, <2>3, WalkAdd DEF more
    <3>2. \/ call.recursive = TRUE /\ IsDir(fs[x]) /\ stack' = Append(rest, Frame(x))
          \/ (call.recursive = FALSE \/ ~IsDir(fs[x])) /\ stack' = rest
      BY <1>9, <2>1, <2>3
    <3> QED BY <3>1, <3>2
  <2> QED BY <1>0, <1>1, <1>7, <2>1, <2>2, <2>3, NothingAdded, WalkStep
<1> QED BY <1>10, <1>11

\* a directory that cannot be opened, or be read to its end
LEMMA ReadDirFailsStep ==
  ASSUME RpcInv, ReadDirFails
  PROVE  RpcInv'
<1> DEFINE w == stack[Len(stack)]
           d == w.dir
           paths == IF w.open THEN w.todo ELSE Children(d)
<1>0. /\ spc = "walk" /\ Return /\ Fails(paths)
      /\ UNCHANGED <<request, listResp, metaResp, opened>>
  BY DEF ReadDirFails, Top, Last
<1>1. stack \in Seq(FrameSet) /\ stack # <<>>
  BY <1>0 DEF RpcInv, TypeInv
<1>2. w \in FrameSet
  BY <1>1
<1>3. /\ d \in AllPaths /\ w.open \in BOOLEAN /\ w.todo \subseteq Paths
      /\ paths \subseteq AllPaths
  BY <1>2 DEF FrameSet, Children, AllPaths
<1>4. /\ Grows /\ UNCHANGED <<fs, changes>>
      /\ UNCHANGED <<cpc, connected, call, calls, result, listing, meta>>
      /\ UNCHANGED <<link, up, down>>
  BY <1>0, <1>3, FailsFrame
<1>5. ASSUME link = "open", cpc = "recv", NEW p \in Paths, None \notin seen'[p]
      PROVE  Passed(w, p)
  <2> SUFFICES ASSUME IsStrictPrefix(d, p)
               PROVE  w.open = TRUE /\ Branch(d, p) \notin w.todo
    BY DEF Passed
  <2> DEFINE b == Branch(d, p)
  <2>1. b \in Children(d) /\ (b = p \/ IsStrictPrefix(b, p))
    BY <1>3, BranchIsPath
  <2>2. b \notin paths
    <3> SUFFICES ASSUME b \in paths PROVE FALSE OBVIOUS
    <3>1. p = b \/ p \in Below(b) BY <2>1 DEF Below
    <3>2. p \in AllPaths BY DEF AllPaths
    <3> HIDE DEF paths, b
    <3>3. None \in seen'[p] BY <1>0, <1>5, <3>1, <3>2, FailsHides
    <3> QED BY <1>5, <3>3
  <2> QED BY <1>3, <2>1, <2>2
<1> HIDE DEF w, paths
<1>6. link = "open" /\ cpc = "recv" =>
        \A p \in Paths : None \notin seen'[p] => Passed(w, p)
  BY <1>5
<1> QED BY <1>0, <1>4, <1>6, ReturnStep DEF w

\* an entry on which stat() fails
LEMMA EntryFailsStep ==
  ASSUME RpcInv, NEW x \in Paths, EntryFails(x)
  PROVE  RpcInv'
<1> DEFINE n == Len(stack)
           w == [stack[n] EXCEPT !.todo = @ \ {x}]
           rest == [stack EXCEPT ![n] = w]
<1>0. /\ spc = "walk" /\ stack[n].open /\ x \in stack[n].todo
      /\ stack' = rest /\ Fails({x})
      /\ UNCHANGED <<spc, request, listResp, metaResp, handled, opened>>
  BY DEF EntryFails, Top, Last
<1>1. stack \in Seq(FrameSet) /\ stack # <<>> /\ listResp \in ListType
      /\ x \in AllPaths
  BY <1>0 DEF RpcInv, TypeInv, AllPaths
<1>2. stack[n] \in FrameSet
  BY <1>1
<1>3. /\ w \in FrameSet /\ w.dir = stack[n].dir /\ w.open = stack[n].open
      /\ w.todo = stack[n].todo \ {x} /\ stack[n].open = TRUE
  BY <1>0, <1>2 DEF FrameSet
<1> HIDE DEF w
<1>4. /\ rest \in Seq(FrameSet) /\ rest # <<>> /\ TopOnly(rest, stack) /\ rest[n] = w
  BY <1>1, <1>3, SetTop
<1> HIDE DEF rest
<1>5. Takes(rest, stack, x)
  BY <1>0, <1>3, <1>4 DEF Takes
<1>6. /\ Grows /\ UNCHANGED <<fs, changes>>
      /\ UNCHANGED <<cpc, connected, call, calls, result, listing, meta>>
      /\ UNCHANGED <<link, up, down>>
  BY <1>0, <1>1, FailsFrame
<1>7. ASSUME link = "open", cpc = "recv"
      PROVE  Walk(rest, listResp, call, seen')
  <2>1. call \in Requests /\ MoreSeen(seen, seen') /\ Walk(stack, listResp, call, seen)
    BY <1>0, <1>6, <1>7 DEF RpcInv, TypeInv, WorkInv, Grows
  <2>2. Walk(stack, listResp, call, seen')
    BY <2>1, MoreListed
  <2>3. \A p \in AllPaths : p = x \/ p \in Below(x) => None \in seen'[p]
    BY <1>0, <1>7, FailsHides
  <2>4. \A p \in Paths : p = x \/ IsStrictPrefix(x, p) => None \in seen'[p]
    BY <2>3 DEF Below, AllPaths
  <2> QED BY <1>1, <1>4, <1>5, <2>1, <2>2, <2>4, WalkSkip
<1> QED BY <1>0, <1>1, <1>4, <1>6, <1>7, WalkStep

-----------------------------------------------------------------------------
(* handleGetFileMeta *)

LEMMA MetaFields ==
  ASSUME NEW p, NEW n
  PROVE  /\ New("FileMeta").md5 = <<>> /\ New("FileMeta").path = <<>>
         /\ [New("FileMeta") EXCEPT !.md5 = <<>>] = New("FileMeta")
         /\ Described(p, n).md5 = <<>> /\ Described(p, n).path = p
         /\ [Described(p, n) EXCEPT !.md5 = <<>>] = Described(p, n)
<1> DEFINE e == New("FileMeta")
<1>1. /\ e.md5 = <<>> /\ e.path = <<>> /\ [e EXCEPT !.md5 = <<>>] = e
      /\ e = [f \in FileMetaFields |-> e[f]] /\ DOMAIN e = FileMetaFields
  BY Constructors DEF FileMetaFields
<1> HIDE DEF e
<1>2. "md5" \in FileMetaFields /\ "path" \in FileMetaFields
  BY DEF FileMetaFields
<1> DEFINE y == Described(p, n)
<1>3. /\ y.md5 = <<>> /\ y.path = p
      /\ y = [f \in FileMetaFields |-> y[f]]
  BY <1>1, <1>2 DEF Described, e
<1> HIDE DEF y
<1>4. [y EXCEPT !.md5 = <<>>] = y
  BY <1>2, <1>3
<1> QED BY <1>1, <1>3, <1>4 DEF e, y

\* but for the checksum the metadata of a node are the same
LEMMA WithoutMD5 ==
  ASSUME NEW p, NEW n, NEW s
  PROVE  [WithMD5(p, n, s) EXCEPT !.md5 = <<>>] = [Full(p, n) EXCEPT !.md5 = <<>>]
<1> DEFINE t == IF n.kind = "file" THEN MD5(n) ELSE <<>>
           y == Plain(p, n)
<1>1. Full(p, n) = y \/ Full(p, n) = [y EXCEPT !.md5 = t]
  BY DEF Full, Plain
<1> HIDE DEF y, t
<1> QED BY <1>1 DEF WithMD5, y

\* metadata without a checksum, of what is not a file
LEMMA PlainIsGood ==
  ASSUME NEW c, NEW sn, NEW n \in CallNodes(c.path, sn), n.kind # "file"
  PROVE  MetaGood(MetaMsg(<<>>, <<Plain(c.path, n)>>, 1), c, sn)
<1> DEFINE x == Plain(c.path, n)
<1>1. x = WithMD5(c.path, n, <<>>)
  BY MetaFields DEF Plain, WithMD5
<1>2. x = Full(c.path, n)
  BY MetaFields DEF Plain, Full
<1> HIDE DEF x
<1>3. \A k \in CallNodes(c.path, sn) : CallNodes(c.path, sn) = {k} => x = Full(c.path, k)
  BY <1>2
<1> QED BY <1>1, <1>3 DEF MetaGood, x

\* metadata of a file that is changed during the call
LEMMA ChangedIsGood ==
  ASSUME NEW c, NEW sn, NEW n \in CallNodes(c.path, sn), n.kind = "file",
         NEW k \in CallNodes(c.path, sn), k # n, NEW s
  PROVE  MetaGood(MetaMsg(<<>>, <<WithMD5(c.path, n, s)>>, 1), c, sn)
<1> DEFINE x == WithMD5(c.path, n, s)
<1>1. \E m \in CallNodes(c.path, sn) : \E t : x = WithMD5(c.path, m, t)
  OBVIOUS
<1> HIDE DEF x
<1>2. \A m \in CallNodes(c.path, sn) :
        CallNodes(c.path, sn) = {m} => x = Full(c.path, m)
  OBVIOUS
<1>3. MetaGood(MetaMsg(<<>>, <<x>>, 1), c, sn)
  BY <1>1, <1>2 DEF MetaGood
<1> QED BY <1>3 DEF x

\* a step of the handler that leaves only metadata behind
LEMMA MetaStep ==
  ASSUME RpcInv, spc \in {"meta", "md5", "md5End"}, spc' \in {"md5", "md5End", "reply"},
         handled' \in BOOLEAN,
         Grows, UNCHANGED <<fs, changes>>,
         UNCHANGED <<cpc, connected, call, calls, result, listing, meta>>,
         UNCHANGED <<link, up, down>>,
         UNCHANGED <<request, stack, listResp>>,
         link = "open" /\ cpc = "recv" =>
           /\ spc' = "md5" => HalfMeta(metaResp', call, seen')
           /\ spc' = "md5End" => /\ HalfMeta(metaResp', call, seen')
                                 /\ opened' \in CallNodes(call.path, seen') \ {None}
           /\ spc' = "reply" => handled' = TRUE /\ MetaGood(metaResp', call, seen')
  PROVE  RpcInv'
<1> USE DEF RpcInv
<1>1. TreeInv' /\ SeenInv' /\ LocalsInv' /\ AnswerInv' /\ ResultInv' /\ RoundInv'
  BY OthersStay
<1>2. TypeInv'
  BY DEF TypeInv, Grows
<1>3. WorkInv'
  <2> SUFFICES ASSUME link = "open", cpc = "recv" PROVE WorkInv'
    BY DEF WorkInv
  <2>1. call.kind = "meta" /\ request = Built(call)
    BY DEF WorkInv
  <2> QED BY <2>1 DEF WorkInv
<1> QED BY <1>1, <1>2, <1>3

LEMMA HandleGetFileMetaStep ==
  ASSUME RpcInv, HandleGetFileMeta
  PROVE  RpcInv'
<1> DEFINE p == MetaRequest.file_path
           n == Stat(p)
<1>0. /\ spc = "meta"
      /\ metaResp' = [metaResp EXCEPT !.success = 1, !.meta = <<Plain(p, n)>>]
      /\ IF n.kind = "file" THEN spc' = "md5" /\ handled' = handled
                            ELSE spc' = "reply" /\ handled' = TRUE
      /\ UNCHANGED <<fs, changes, seen>>
      /\ UNCHANGED <<cpc, connected, call, calls, result, listing, meta>>
      /\ UNCHANGED <<link, up, down, faults>>
      /\ UNCHANGED <<request, stack, listResp>>
  BY DEF HandleGetFileMeta, Plain, fsVars, clientVars, netVars
<1>1. ASSUME link = "open", cpc = "recv"
      PROVE  /\ p = call.path /\ n \in CallNodes(call.path, seen)
             /\ metaResp' = MetaMsg(<<>>, <<Plain(p, n)>>, 1)
  <2>1. /\ call.kind = "meta" /\ metaResp = New("GetFileMetaResponse")
        /\ request = Built(call) /\ call \in Requests /\ Sees(fs, seen)
    BY <1>0, <1>1 DEF RpcInv, WorkInv, TypeInv, SeenInv
  <2>2. p = call.path
    BY <2>1, RequestFacts
  <2>3. n \in CallNodes(call.path, seen)
    BY <2>1, <2>2, PresentNode
  <2>4. metaResp = MetaMsg(<<>>, <<>>, 0)
    BY <2>1, NewListing
  <2> DEFINE x == Plain(p, n)
  <2> HIDE DEF x
  <2>5. metaResp' = MetaMsg(<<>>, <<x>>, 1)
    <3>1. metaResp' = [metaResp EXCEPT !.success = 1, !.meta = <<x>>]
      BY <1>0 DEF x
    <3> QED BY <2>4, <3>1 DEF MetaMsg
  <2> QED BY <2>2, <2>3, <2>5 DEF x
<1>2. CASE n.kind = "file"
  <2>1. spc' = "md5" /\ handled' = handled BY <1>0, <1>2
  <2>2. n # None BY <1>2 DEF None, Node
  <2>3. ASSUME link = "open", cpc = "recv" PROVE HalfMeta(metaResp', call, seen)
    BY <1>1, <1>2, <2>2, <2>3 DEF HalfMeta, Plain
  <2>4. handled' \in BOOLEAN BY <2>1 DEF RpcInv, TypeInv
  <2> QED BY <1>0, <2>1, <2>3, <2>4, NothingAdded, MetaStep
<1>3. CASE n.kind # "file"
  <2>1. spc' = "reply" /\ handled' = TRUE BY <1>0, <1>3
  <2>2. ASSUME link = "open", cpc = "recv" PROVE MetaGood(metaResp', call, seen)
    BY <1>1, <1>3, <2>2, PlainIsGood
  <2> QED BY <1>0, <2>1, <2>2, NothingAdded, MetaStep
<1> QED BY <1>2, <1>3

LEMMA OpenForMD5Step ==
  ASSUME RpcInv, OpenForMD5
  PROVE  RpcInv'
<1>0. /\ spc = "md5" /\ opened' = Stat(MetaRequest.file_path)
      /\ IF opened' = None THEN spc' = "reply" /\ handled' = TRUE
                           ELSE spc' = "md5End" /\ handled' = handled
      /\ UNCHANGED <<fs, changes, seen>>
      /\ UNCHANGED <<cpc, connected, call, calls, result, listing, meta>>
      /\ UNCHANGED <<link, up, down, faults>>
      /\ UNCHANGED <<request, stack, listResp, metaResp>>
  BY DEF OpenForMD5, fsVars, clientVars, netVars
<1>1. ASSUME link = "open", cpc = "recv"
      PROVE  /\ HalfMeta(metaResp, call, seen)
             /\ opened' \in CallNodes(call.path, seen)
  <2>1. /\ call.kind = "meta" /\ HalfMeta(metaResp, call, seen)
        /\ request = Built(call) /\ call \in Requests /\ Sees(fs, seen)
    BY <1>0, <1>1 DEF RpcInv, WorkInv, TypeInv, SeenInv
  <2>2. MetaRequest.file_path = call.path
    BY <2>1, RequestFacts
  <2> QED BY <1>0, <2>1, <2>2, PresentNode
<1>2. CASE opened' = None
  <2>1. spc' = "reply" /\ handled' = TRUE BY <1>0, <1>2
  <2>2. ASSUME link = "open", cpc = "recv" PROVE MetaGood(metaResp', call, seen)
    <3>1. PICK n \in CallNodes(call.path, seen) :
            n.kind = "file" /\ metaResp = MetaMsg(<<>>, <<Described(call.path, n)>>, 1)
      BY <1>1, <2>2 DEF HalfMeta
    <3>2. n # None /\ None \in CallNodes(call.path, seen)
      BY <1>1, <1>2, <2>2, <3>1 DEF None, Node
    <3>3. Described(call.path, n) = WithMD5(call.path, n, <<>>)
      BY <3>2, MetaFields DEF Plain, WithMD5
    <3> QED BY <1>0, <3>1, <3>2, <3>3, ChangedIsGood
  <2> QED BY <1>0, <2>1, <2>2, NothingAdded, MetaStep
<1>3. CASE opened' # None
  <2>1. spc' = "md5End" /\ handled' = handled BY <1>0, <1>3
  <2>2. handled' \in BOOLEAN BY <2>1 DEF RpcInv, TypeInv
  <2>3. ASSUME link = "open", cpc = "recv"
        PROVE  /\ HalfMeta(metaResp', call, seen)
               /\ opened' \in CallNodes(call.path, seen) \ {None}
    BY <1>0, <1>1, <1>3, <2>3
  <2> QED BY <1>0, <2>1, <2>2, <2>3, NothingAdded, MetaStep
<1> QED BY <1>2, <1>3

LEMMA FinishMD5Step ==
  ASSUME RpcInv, FinishMD5
  PROVE  RpcInv'
<1>0. /\ spc = "md5End" /\ spc' = "reply" /\ handled' = TRUE
      /\ UNCHANGED <<fs, changes, seen>>
      /\ UNCHANGED <<cpc, connected, call, calls, result, listing, meta>>
      /\ UNCHANGED <<link, up, down, faults>>
      /\ UNCHANGED <<request, stack, listResp>>
  BY DEF FinishMD5, At, fsVars, clientVars, netVars
<1>1. PICK sum : /\ sum = MD5(opened) \/ Stat(MetaRequest.file_path) # opened
                 /\ metaResp' = [metaResp EXCEPT !.meta[1].md5 = sum]
  BY DEF FinishMD5
<1>2. ASSUME link = "open", cpc = "recv"
      PROVE  MetaGood(metaResp', call, seen)
  <2>1. /\ call.kind = "meta" /\ HalfMeta(metaResp, call, seen)
        /\ opened \in CallNodes(call.path, seen) \ {None}
        /\ request = Built(call) /\ call \in Requests /\ Sees(fs, seen)
    BY <1>0, <1>2 DEF RpcInv, WorkInv, TypeInv, SeenInv
  <2>2. MetaRequest.file_path = call.path
    BY <2>1, RequestFacts
  <2>3. Stat(call.path) \in CallNodes(call.path, seen)
    BY <2>1, PresentNode
  <2>4. PICK n \in CallNodes(call.path, seen) :
          n.kind = "file" /\ metaResp = MetaMsg(<<>>, <<Described(call.path, n)>>, 1)
    BY <2>1 DEF HalfMeta
  <2>5. n # None
    BY <2>4 DEF None, Node
  <2>6. Described(call.path, n) = Plain(call.path, n)
    BY <2>5 DEF Plain
  <2> DEFINE x == WithMD5(call.path, n, sum)
             y == Described(call.path, n)
  <2>7. x = [y EXCEPT !.md5 = sum]
    BY <2>6 DEF WithMD5
  <2>8. metaResp' = MetaMsg(<<>>, <<x>>, 1)
    <3>1. metaResp = MetaMsg(<<>>, <<y>>, 1) BY <2>4
    <3> HIDE DEF y
    <3>2. metaResp' = MetaMsg(<<>>, <<[y EXCEPT !.md5 = sum]>>, 1)
      BY <1>1, <3>1 DEF MetaMsg
    <3> QED BY <2>7, <3>2
  <2>9. CASE opened # n \/ Stat(call.path) # n
    <3>1. PICK k \in CallNodes(call.path, seen) : k # n
      BY <2>1, <2>3, <2>9
    <3> QED BY <2>4, <2>8, <3>1, ChangedIsGood
  <2>10. CASE opened = n /\ Stat(call.path) = n
    <3>1. sum = MD5(n) BY <1>1, <2>2, <2>10
    <3>2. x = Full(call.path, n)
      BY <2>4, <2>5, <2>7, <3>1 DEF Full
    <3> HIDE DEF x
    <3>3. \A k \in CallNodes(call.path, seen) :
            CallNodes(call.path, seen) = {k} => x = Full(call.path, k)
      BY <3>2
    <3>4. \E k \in CallNodes(call.path, seen) : \E s : x = WithMD5(call.path, k, s)
      BY DEF x
    <3> QED BY <2>8, <3>3, <3>4 DEF MetaGood
  <2> QED BY <2>9, <2>10
<1> QED BY <1>0, <1>2, NothingAdded, MetaStep

\* stat() of the file fails: the answer is that there is nothing
LEMMA MetaFailsStep ==
  ASSUME RpcInv, MetaFails
  PROVE  RpcInv'
<1> DEFINE p == MetaRequest.file_path
<1>0. /\ spc = "meta" /\ spc' = "reply" /\ handled' = TRUE /\ Fails({p})
      /\ metaResp' = [metaResp EXCEPT !.success = 1, !.meta = <<New("FileMeta")>>]
      /\ UNCHANGED <<request, stack, listResp>>
  BY DEF MetaFails, At
<1>1. p \in AllPaths
  BY RequestPaths DEF RpcInv
<1>2. /\ Grows /\ UNCHANGED <<fs, changes>>
      /\ UNCHANGED <<cpc, connected, call, calls, result, listing, meta>>
      /\ UNCHANGED <<link, up, down>>
  BY <1>0, <1>1, FailsFrame
<1>3. ASSUME link = "open", cpc = "recv" PROVE MetaGood(metaResp', call, seen')
  <2>1. /\ call.kind = "meta" /\ metaResp = New("GetFileMetaResponse")
        /\ request = Built(call) /\ call \in Requests
    BY <1>0, <1>3 DEF RpcInv, WorkInv, TypeInv
  <2>2. p = call.path
    BY <2>1, RequestFacts
  <2> HIDE DEF p
  <2>3. None \in CallNodes(call.path, seen')
    BY <1>0, <1>1, <1>3, <2>2, FailsHides DEF CallNodes
  <2> DEFINE x == New("FileMeta")
  <2>4. x = Plain(call.path, None) /\ None.kind # "file"
    BY DEF Plain, None, Node
  <2> HIDE DEF x
  <2>5. metaResp' = MetaMsg(<<>>, <<x>>, 1)
    <3>1. metaResp = MetaMsg(<<>>, <<>>, 0) BY <2>1, NewListing
    <3>2. metaResp' = [metaResp EXCEPT !.success = 1, !.meta = <<x>>] BY <1>0 DEF x
    <3> QED BY <3>1, <3>2 DEF MetaMsg
  <2> QED BY <2>3, <2>4, <2>5, PlainIsGood
<1> QED BY <1>0, <1>2, <1>3, MetaStep

\* the file cannot be opened, or be read to its end
LEMMA MD5FailsStep ==
  ASSUME RpcInv, MD5Fails
  PROVE  RpcInv'
<1> DEFINE p == MetaRequest.file_path
<1>0. /\ spc \in {"md5", "md5End"} /\ spc' = "reply" /\ handled' = TRUE /\ Fails({p})
      /\ UNCHANGED <<request, stack, listResp>>
  BY DEF MD5Fails
<1>1. p \in AllPaths
  BY RequestPaths DEF RpcInv
<1>2. /\ Grows /\ UNCHANGED <<fs, changes>>
      /\ UNCHANGED <<cpc, connected, call, calls, result, listing, meta>>
      /\ UNCHANGED <<link, up, down>>
  BY <1>0, <1>1, FailsFrame
<1>3. \/ metaResp' = metaResp
      \/ metaResp' = [metaResp EXCEPT !.meta[1].md5 = <<"md5 of a part">>]
  BY DEF MD5Fails
<1>4. ASSUME link = "open", cpc = "recv" PROVE MetaGood(metaResp', call, seen')
  <2>1. /\ call.kind = "meta" /\ HalfMeta(metaResp, call, seen)
        /\ request = Built(call) /\ call \in Requests
    BY <1>0, <1>4 DEF RpcInv, WorkInv, TypeInv
  <2>2. p = call.path
    BY <2>1, RequestFacts
  <2> HIDE DEF p
  <2>3. None \in CallNodes(call.path, seen')
    BY <1>0, <1>1, <1>4, <2>2, FailsHides DEF CallNodes
  <2>4. HalfMeta(metaResp, call, seen')
    BY <1>2, <1>4, <2>1, MoreNodes DEF Grows
  <2>5. PICK n \in CallNodes(call.path, seen') :
          n.kind = "file" /\ metaResp = MetaMsg(<<>>, <<Described(call.path, n)>>, 1)
    BY <2>4 DEF HalfMeta
  <2>6. n # None BY <2>5 DEF None, Node
  <2> DEFINE y == Described(call.path, n)
  <2>7. y = WithMD5(call.path, n, <<>>)
        /\ \A s : [y EXCEPT !.md5 = s] = WithMD5(call.path, n, s)
    BY <2>6, MetaFields DEF Plain, WithMD5
  <2>8. metaResp = MetaMsg(<<>>, <<y>>, 1) BY <2>5
  <2> HIDE DEF y
  <2>9. \E s : metaResp' = MetaMsg(<<>>, <<WithMD5(call.path, n, s)>>, 1)
    <3>1. CASE metaResp' = metaResp BY <2>7, <2>8, <3>1
    <3>2. CASE metaResp' = [metaResp EXCEPT !.meta[1].md5 = <<"md5 of a part">>]
      <4> DEFINE sum == <<"md5 of a part">>
      <4>1. metaResp' = [metaResp EXCEPT !.meta[1].md5 = sum] BY <3>2
      <4> HIDE DEF sum
      <4>2. metaResp' = MetaMsg(<<>>, <<[y EXCEPT !.md5 = sum]>>, 1)
        BY <2>8, <4>1 DEF MetaMsg
      <4> QED BY <2>7, <4>2
    <3> QED BY <1>3, <3>1, <3>2
  <2> QED BY <2>3, <2>5, <2>6, <2>9, ChangedIsGood
<1> QED BY <1>0, <1>2, <1>4, MetaStep

-----------------------------------------------------------------------------
(* sendResponse *)

\* the response to the call under way says what it has to
LEMMA ResponseSays ==
  ASSUME RpcInv, CodecFaithful, spc = "reply", link = "open", cpc = "recv"
  PROVE  Says(Envelope("RpcResponse", Response), call, seen)
<1> DEFINE r == Envelope("RpcResponse", Response)
           p == Received("RpcResponse", r)
<1>1. /\ r.len # 0
      /\ p.ok <=> \A s \in ResponseNames : Range(s) \cap NotUtf8 = {}
      /\ p.ok => p.msg = Response
  BY DEF CodecFaithful, Sending, Arrives
<1>2. call \in Requests /\ request = Built(call)
  BY DEF RpcInv, TypeInv, WorkInv
<1>3. call.path \in AllPaths /\ WantedBy(call) \subseteq AllPaths
  BY <1>2, WantedFacts DEF AllPaths
<1> HIDE DEF r, p
<1>4. CASE handled = FALSE /\ Refused(call, seen)
  <2>1. PICK error : Response = ResponseMsg(error, request.type, 0, <<>>, <<>>)
    BY <1>4, FailedResponse
  <2>2. p.ok = TRUE => p.msg.success = 0
    BY <1>1, <2>1 DEF ResponseMsg
  <2>3. Says(r, call, seen)
    BY <1>4, <2>2 DEF Says, p
  <2> QED BY <2>3 DEF r
<1>5. CASE handled = TRUE /\ call.kind = "list" /\ ListGood(listResp, call, seen)
  <2>1. request.type = 1
    BY <1>2, <1>5, RequestFacts
  <2>2. listResp \in ListType
    BY DEF RpcInv, TypeInv
  <2>3. listResp = ListMsg(listResp.files, listResp.directory, listResp.total_count)
        /\ listResp.files \in Seq(EntrySet)
    BY <2>2 DEF ListType, ListMsg
  <2>4. Response = ResponseMsg(<<>>, 1, 1, <<listResp>>, <<>>)
    BY <1>5, <2>1, <2>3, ListResponse
  <2>5. CASE p.ok = TRUE
    <3>1. p.msg.success = 1 /\ p.msg.list_files = <<listResp>>
      BY <1>1, <2>4, <2>5 DEF ResponseMsg
    <3>2. Says(r, call, seen)
      BY <1>1, <1>5, <2>2, <2>5, <3>1 DEF Says, p
    <3> QED BY <3>2 DEF r
  <2>6. CASE p.ok # TRUE
    <3>1. PICK s \in ResponseNames : Range(s) \cap NotUtf8 # {}
      BY <1>1, <2>6
    <3>2. ResponseNames = {listResp.directory} \cup {e.path : e \in Range(listResp.files)}
      BY <1>5, <2>1 DEF ResponseNames, RPC_LIST_FILES
    <3>3. Sound(listResp, call, seen)
      BY <1>5 DEF ListGood
    <3>4. ASSUME s = listResp.directory PROVE Unreadable(call, seen)
      <4>1. s = call.path BY <3>3, <3>4 DEF Sound
      <4> QED BY <1>3, <3>1, <4>1 DEF Unreadable
    <3>5. ASSUME s # listResp.directory PROVE Unreadable(call, seen)
      <4>1. PICK i \in DOMAIN listResp.files : s = listResp.files[i].path
        BY <3>1, <3>2, <3>5 DEF Range
      <4>2. s \in WantedBy(call) /\ \E n \in seen[s] : n # None
        BY <3>3, <4>1 DEF Sound
      <4>3. seen[s] # {None} BY <4>2
      <4> QED BY <1>3, <1>5, <3>1, <4>2, <4>3 DEF Unreadable
    <3>6. Unreadable(call, seen) BY <3>4, <3>5
    <3>7. Says(r, call, seen)
      BY <2>6, <3>6 DEF Says, p
    <3> QED BY <3>7 DEF r
  <2> QED BY <2>5, <2>6
<1>6. CASE handled = TRUE /\ call.kind = "meta" /\ MetaGood(metaResp, call, seen)
  <2>1. request.type = 2
    BY <1>2, <1>6, RequestFacts
  <2>2. PICK x : /\ metaResp = MetaMsg(<<>>, <<x>>, 1)
                 /\ \E n \in CallNodes(call.path, seen) :
                      \E s : x = WithMD5(call.path, n, s)
    BY <1>6 DEF MetaGood
  <2>3. PICK n, s : x = WithMD5(call.path, n, s)
    BY <2>2
  <2>4. x = [f \in FileMetaFields |-> x[f]]
    BY <2>3, PlainFields
  <2>5. Response = ResponseMsg(<<>>, 2, 1, <<>>, <<metaResp>>)
    BY <1>6, <2>1, <2>2, <2>4, MetaResponse
  <2>6. CASE p.ok = TRUE
    <3>1. p.msg.success = 1 /\ p.msg.get_file_meta = <<metaResp>>
      BY <1>1, <2>5, <2>6 DEF ResponseMsg
    <3>2. Says(r, call, seen)
      BY <1>1, <1>6, <2>6, <3>1 DEF Says, p
    <3> QED BY <3>2 DEF r
  <2>7. CASE p.ok # TRUE
    <3>1. PICK name \in ResponseNames : Range(name) \cap NotUtf8 # {}
      BY <1>1, <2>7
    <3>2. name = metaResp.meta[1].path
      BY <1>6, <2>1, <3>1 DEF ResponseNames, RPC_LIST_FILES
    <3>3. name = x.path
      BY <2>2, <3>2 DEF MetaMsg
    <3>4. x.path = <<>> \/ x.path = call.path
      <4>1. Plain(call.path, n).path \in {<<>>, call.path}
        BY MetaFields DEF Plain
      <4>2. x.path = Plain(call.path, n).path
        BY <2>3 DEF WithMD5
      <4> QED BY <4>1, <4>2
    <3>5. Range(<<>>) = {}
      BY DEF Range
    <3>6. Unreadable(call, seen)
      BY <1>3, <3>1, <3>3, <3>4, <3>5 DEF Unreadable
    <3>7. Says(r, call, seen)
      BY <2>7, <3>6 DEF Says, p
    <3> QED BY <3>7 DEF r
  <2> QED BY <2>6, <2>7
<1> QED BY <1>4, <1>5, <1>6 DEF RpcInv, WorkInv

LEMMA SendResponseStep ==
  ASSUME RpcInv, CodecFaithful, SendResponse
  PROVE  RpcInv'
<1> USE DEF RpcInv
<1> DEFINE r == Envelope("RpcResponse", Response)
<1>0. /\ spc = "reply"
      /\ IF link = "open" THEN down' = Append(down, r) /\ spc' = "recv"
                          ELSE spc' \in {"recv", "closed"} /\ down' = down
      /\ request' = NoRequest /\ handled' = FALSE /\ opened' = None
      /\ listResp' = New("ListFilesResponse") /\ metaResp' = New("GetFileMetaResponse")
      /\ UNCHANGED <<fs, changes, seen, link, up, faults, stack>>
      /\ UNCHANGED <<cpc, connected, call, calls, result, listing, meta>>
  BY DEF SendResponse, FreshLocals, fsVars, clientVars
<1>1. link = "open" => /\ cpc = "recv" /\ up = <<>> /\ down = <<>>
                       /\ result = "none" /\ Says(r, call, seen)
  <2> SUFFICES ASSUME link = "open"
               PROVE  /\ cpc = "recv" /\ up = <<>> /\ down = <<>>
                      /\ result = "none" /\ Says(r, call, seen)
    OBVIOUS
  <2>1. cpc = "recv" BY <1>0 DEF RoundInv
  <2>2. up = <<>> /\ down = <<>> BY <1>0, <2>1 DEF RoundInv
  <2>3. result = "none" BY <2>1 DEF TypeInv
  <2> QED BY <1>0, <2>1, <2>2, <2>3, ResponseSays
<1> HIDE DEF r
<1>2. link = "open" => down' = <<r>> /\ spc' = "recv"
  BY <1>0, <1>1
<1>3. link # "open" => down' = down /\ spc' \in {"recv", "closed"}
  BY <1>0
<1>4. TreeInv' /\ SeenInv' /\ LocalsInv'
  BY <1>0 DEF TreeInv, SeenInv, LocalsInv
<1>5. TypeInv'
  <2>1. listResp' \in ListType BY <1>0, NewListing
  <2>2. down' = <<>> \/ \E m : down' = <<m>> BY <1>2, <1>3 DEF TypeInv
  <2>3. spc' \in {"recv", "closed"} BY <1>2, <1>3
  <2> QED BY <1>0, <2>1, <2>2, <2>3 DEF TypeInv
<1>6. RoundInv' /\ WorkInv'
  BY <1>0, <1>1, <1>2, <1>3 DEF RoundInv, WorkInv
<1>7. AnswerInv'
  <2>1. CASE link = "open"
    <3>1. Head(down') = r BY <1>2, <2>1
    <3> QED BY <1>0, <1>1, <2>1, <3>1 DEF AnswerInv
  <2>2. CASE link # "open" BY <1>0, <1>3, <2>2 DEF AnswerInv
  <2> QED BY <2>1, <2>2
<1>8. ResultInv'
  BY <1>0, <1>1, <1>2, <1>3 DEF ResultInv, Gone
<1> QED BY <1>4, <1>5, <1>6, <1>7, <1>8

-----------------------------------------------------------------------------
(* The theorems *)

LEMMA RpcStep ==
  ASSUME RpcInv, CodecFaithful, [Next]_vars
  PROVE  RpcInv'
<1>1. ASSUME NEW p \in Paths, WriteFile(p) \/ MakeDirectory(p) \/ RemoveNode(p)
      PROVE  RpcInv'
  BY <1>1, TreeSteps
<1>2. CASE Connect BY <1>2, ConnectStep
<1>3. ASSUME NEW c \in Requests, Call(c) PROVE RpcInv'
  BY <1>3, CallStep
<1>4. CASE ReceiveResponse BY <1>4, ReceiveResponseStep
<1>5. CASE ReceiveFails \/ ClientDies \/ Cut BY <1>5, ClientEnds
<1>6. CASE Disconnect BY <1>6, DisconnectStep
<1>7. CASE SessionEnds BY <1>7, SessionEndsStep
<1>8. CASE HandleListFiles BY <1>8, HandleListFilesStep
<1>9. CASE OpenDirectory BY <1>9, OpenDirectoryStep
<1>10. ASSUME NEW p \in Paths, ReadEntry(p) PROVE RpcInv'
  BY <1>10, ReadEntryStep
<1>11. CASE CloseDirectory BY <1>11, CloseDirectoryStep
<1>12. CASE HandleGetFileMeta BY <1>12, HandleGetFileMetaStep
<1>13. CASE OpenForMD5 BY <1>13, OpenForMD5Step
<1>14. CASE FinishMD5 BY <1>14, FinishMD5Step
<1>15. CASE ReceiveRequest BY <1>15, ReceiveRequestStep
<1>16. CASE SendResponse BY <1>16, SendResponseStep
<1>17. CASE StatFails BY <1>17, StatFailsStep
<1>18. CASE ReadDirFails BY <1>18, ReadDirFailsStep
<1>19. ASSUME NEW p \in Paths, EntryFails(p) PROVE RpcInv'
  BY <1>19, EntryFailsStep
<1>20. CASE MetaFails BY <1>20, MetaFailsStep
<1>21. CASE MD5Fails BY <1>21, MD5FailsStep
<1>22. CASE UNCHANGED vars
  <2>0. /\ UNCHANGED <<fs, changes, seen>>
        /\ UNCHANGED <<cpc, connected, call, calls, result, listing, meta>>
        /\ UNCHANGED <<link, up, down, faults>>
        /\ UNCHANGED <<spc, request, stack, listResp, metaResp, handled, opened>>
    BY <1>22 DEF vars, fsVars, clientVars, netVars, serverVars
  <2>1. TreeInv' /\ SeenInv' /\ LocalsInv' /\ AnswerInv' /\ RoundInv' /\ WorkInv'
    BY <2>0 DEF RpcInv, TreeInv, SeenInv, LocalsInv, AnswerInv, RoundInv, WorkInv
  <2>2. TypeInv' /\ ResultInv'
    BY <2>0 DEF RpcInv, TypeInv, ResultInv, Gone
  <2> QED BY <2>1, <2>2 DEF RpcInv
<1> QED
  BY <1>1, <1>2, <1>3, <1>4, <1>5, <1>6, <1>7, <1>8, <1>9, <1>10, <1>11, <1>12,
     <1>13, <1>14, <1>15, <1>16, <1>17, <1>18, <1>19, <1>20, <1>21, <1>22
  DEF Next, WorkStep, SystemCallFails

\* Whatever other programs do to the directory, wherever the connection breaks and
\* whichever system calls fail, the server works on the request of the call under
\* way, its listing is a correct one of what it has visited and could read, and a
\* response on the way says what the call has asked for, or has a reason to refuse
\* it: provided that the generated functions of the messages agree with one another.
THEOREM RpcInvariant ==
  Spec /\ []CodecFaithful => []RpcInv
<1>1. Init => RpcInv BY RpcInit
<1>2. RpcInv /\ CodecFaithful /\ [Next]_vars => RpcInv' BY RpcStep
<1> QED BY <1>1, <1>2, PTL DEF Spec

\* Client, connection and server stay within their types: handleRpcClient and
\* RpcClient have one request and one response under way at most, and the count
\* in a listing is the number of its entries.
THEOREM RpcTypeCorrect ==
  Spec /\ []CodecFaithful => []TypeOK
<1>1. RpcInv => TypeOK
  <2> SUFFICES ASSUME RpcInv PROVE TypeOK OBVIOUS
  <2>1. \A p \in Paths : fs[p].kind \in {"none", "file", "dir"}
    <3>1. \A p \in Paths : fs[p] \in NodeSet BY DEF RpcInv, TreeInv
    <3>2. \A n \in NodeSet : n.kind \in {"none", "file", "dir"}
      BY DEF NodeSet, None, Node
    <3> QED BY <3>1, <3>2
  <2>2. Len(up) <= 1 /\ Len(down) <= 1
    <3>1. up = <<>> \/ \E m : up = <<m>> BY DEF RpcInv, TypeInv
    <3>2. down = <<>> \/ \E m : down = <<m>> BY DEF RpcInv, TypeInv
    <3>3. ASSUME NEW s, s = <<>> \/ \E m : s = <<m>> PROVE Len(s) <= 1
      <4>1. CASE s = <<>> BY <4>1
      <4>2. CASE \E m : s = <<m>>
        <5>1. PICK m : s = <<m>> BY <4>2
        <5>2. Len(s) = 1 BY <5>1
        <5> QED BY <5>2
      <4> QED BY <3>3, <4>1, <4>2
    <3> QED BY <3>1, <3>2, <3>3
  <2>3. \A i \in DOMAIN stack : stack[i].dir \in AllPaths
    <3>1. \A i \in DOMAIN stack : stack[i] \in FrameSet BY DEF RpcInv, TypeInv
    <3>2. \A w \in FrameSet : w.dir \in AllPaths BY DEF FrameSet
    <3> QED BY <3>1, <3>2
  <2>4. listing.total_count = Len(listing.files)
    BY DEF RpcInv, TypeInv, ListType
  <2> QED BY <2>1, <2>2, <2>3, <2>4 DEF RpcInv, TypeInv, TypeOK
<1> QED BY <1>1, RpcInvariant, PTL

\* A listing that listFiles() returns with true has every path that was there
\* during the whole call and that no failing system call of listDirectory has
\* hidden, and nothing that was not there at some moment of it, however the
\* directory changes between readdir, stat and the recursion.
THEOREM RpcListingTrue ==
  Spec /\ []CodecFaithful => []ListingTrue
<1>1. RpcInv => ListingTrue
  <2> SUFFICES ASSUME RpcInv, result = "true", call.kind = "list" PROVE ListingTrue
    BY DEF ListingTrue
  <2>1. ListGood(listing, call, seen)
    BY DEF RpcInv, ResultInv
  <2>2. Wanted = WantedBy(call)
    BY DEF Wanted, WantedBy
  <2>3. Sound(listing, call, seen) /\ Unique(listing)
        /\ \A p \in Wanted : None \notin seen[p] => Lists(listing, p)
    BY <2>1, <2>2 DEF ListGood
  <2> QED BY <2>2, <2>3 DEF ListingTrue, Sound, Unique, Lists
<1> QED BY <1>1, RpcInvariant, PTL

\* The metadata that getFileMeta() returns with true are those of one moment of
\* the call, or nothing if stat() has failed, with the MD5 of the same content if
\* nobody has changed the file during the call and no system call on it has failed.
THEOREM RpcMetaTrue ==
  Spec /\ []CodecFaithful => []MetaTrue
<1>1. RpcInv => MetaTrue
  <2> SUFFICES ASSUME RpcInv, result = "true", call.kind = "meta" PROVE MetaTrue
    BY DEF MetaTrue
  <2> DEFINE q == call.path
             nodes == seen[q]
             m == Get(meta, "meta", "FileMeta")
  <2>1. MetaGood(meta, call, seen)
    BY DEF RpcInv, ResultInv
  <2>2. PICK x : /\ meta = MetaMsg(<<>>, <<x>>, 1)
                 /\ \E n \in CallNodes(q, seen) : \E s : x = WithMD5(q, n, s)
                 /\ \A n \in CallNodes(q, seen) :
                      CallNodes(q, seen) = {n} => x = Full(q, n)
    BY <2>1 DEF MetaGood
  <2>3. nodes = CallNodes(q, seen)
    BY DEF CallNodes
  <2>4. m = x /\ meta.success = 1
    BY <2>2 DEF Get, MetaMsg
  <2> HIDE DEF q, m, nodes
  <2>5. \E n \in nodes : [m EXCEPT !.md5 = <<>>] = [Full(q, n) EXCEPT !.md5 = <<>>]
    <3>1. PICK n \in nodes : \E s : x = WithMD5(q, n, s)
      BY <2>2, <2>3
    <3>2. \A s : [WithMD5(q, n, s) EXCEPT !.md5 = <<>>]
                 = [Full(q, n) EXCEPT !.md5 = <<>>]
      BY WithoutMD5
    <3> QED BY <2>4, <3>1, <3>2
  <2>6. \A n \in nodes : nodes = {n} => m = Full(q, n)
    BY <2>2, <2>3, <2>4
  <2> QED BY <2>4, <2>5, <2>6 DEF MetaTrue, Full, q, m, nodes
<1> QED BY <1>1, RpcInvariant, PTL

\* On a sound connection a call returns false only for a reason: the directory
\* was not there or its stat() has failed, the server does not know the type, or a
\* name is not UTF-8. A failed call does not spoil the next one.
THEOREM RpcFalseJustified ==
  Spec /\ []CodecFaithful => []FalseJustified
<1>1. RpcInv => FalseJustified
  <2> SUFFICES ASSUME RpcInv, result = "false", connected, ~Gone PROVE FalseJustified
    BY DEF FalseJustified
  <2>1. connected # FALSE
    BY DEF RpcInv, TypeInv
  <2>2. Refused(call, seen) \/ Unreadable(call, seen)
    BY <2>1 DEF RpcInv, ResultInv
  <2>3. WantedBy(call) = Wanted
    BY DEF Wanted, WantedBy
  <2> QED BY <2>2, <2>3 DEF FalseJustified, Refused, Unreadable
<1> QED BY <1>1, RpcInvariant, PTL
=============================================================================
