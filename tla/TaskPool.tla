------------------------------- MODULE TaskPool -------------------------------
(***************************************************************************)
(* What a user of ThreadPool may rely on: submitted tasks wait in the      *)
(* order of their submission, each is taken once, by one worker, and is    *)
(* done when its function has returned. Nothing is said of threads, of the *)
(* mutex, of stopping and of resizing: none of them touches a task.        *)
(* ThreadPool implements this specification, and Server is built on it.    *)
(***************************************************************************)
EXTENDS Sequences, Functions

CONSTANT Tasks

VARIABLES queue,   \* tasks that wait, first come first
          taken,   \* tasks in the hands of a worker
          done     \* tasks whose function has returned

taskVars == <<queue, taken, done>>

Init == queue = <<>> /\ taken = {} /\ done = {}

Submit(t) ==
  /\ t \notin Range(queue) \cup taken \cup done
  /\ queue' = Append(queue, t)
  /\ UNCHANGED <<taken, done>>

Take ==
  /\ queue # <<>>
  /\ taken' = taken \cup {Head(queue)}
  /\ queue' = Tail(queue)
  /\ UNCHANGED done

Finish(t) ==
  /\ t \in taken
  /\ taken' = taken \ {t}
  /\ done' = done \cup {t}
  /\ UNCHANGED queue

Next == Take \/ \E t \in Tasks : Submit(t) \/ Finish(t)

Spec == Init /\ [][Next]_taskVars
=============================================================================
