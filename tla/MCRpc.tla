-------------------------------- MODULE MCRpc --------------------------------
(* Instances of Rpc for TLC. *)
EXTENDS Rpc, Wire

\* A directory with a file to begin with; a file or directory beside it may
\* appear, and one whose name is not UTF-8.
D == <<"d">>
A == <<"d", "a">>
B == <<"b">>
X == <<"x">>

FourPaths == {D, A, B, X}
OneDirectory == {D}
Trees == {{D, A}}

\* Recursive and flat listings, metadata of a file and of a directory, a listing
\* of a path that may be a file, and a request of a type unknown to the server.
ManyRequests ==
  {[kind |-> "list", path |-> <<>>, recursive |-> TRUE],
   [kind |-> "list", path |-> D, recursive |-> FALSE],
   [kind |-> "meta", path |-> A, recursive |-> FALSE],
   [kind |-> "meta", path |-> X, recursive |-> FALSE],
   [kind |-> "other", path |-> <<>>, recursive |-> FALSE]}
=============================================================================
