----------------------------- MODULE MCRemoteSync -----------------------------
(* Instances of RemoteSync for TLC. *)
EXTENDS RemoteSync

DirAndFile == <<Dir, <<1, 2>>>>

FullOrResume == {TRUE, FALSE}
OnlyResume == {TRUE}
=============================================================================
