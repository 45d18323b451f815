------------------------------- MODULE MCServer -------------------------------
(* Instances of Server for TLC. *)
EXTENDS Server, TLC

CONSTANTS c1, c2, c3

ThreeClients == {c1, c2, c3}

\* One client that may stay connected for ever.
OnePatient == {c1}

\* Every mode byte, and a client that sends none.
SomeModes == c1 :> {"none", "sync"} @@ c2 :> {"none", "rpc", "unknown"} @@ c3 :> {"sync"}
=============================================================================
