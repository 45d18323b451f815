------------------------------ MODULE MCAsyncIO ------------------------------
(* Instances of AsyncIO for TLC. *)
EXTENDS AsyncIO

\* An empty file, less than a buffer, a buffer, between one and two, two, more.
AllSizes == 0..7

\* More than one buffer, as every file of LARGE_FILE_THRESHOLD bytes.
LargeSizes == {5}
=============================================================================
