---------------------------- MODULE LargeTransfer ----------------------------
(***************************************************************************)
(* FileSync::transferLargeFileAsync (src/core/FileSync.cpp): a file of at  *)
(* least LARGE_FILE_THRESHOLD bytes is preallocated at the destination and *)
(* copied by one std::async thread per chunk. The threads share the atomic *)
(* byte count, the atomic hasError and, without any lock, the one progress *)
(* file next to the destination.                                           *)
(*                                                                         *)
(* File contents are sequences of units; the only call site passes offset  *)
(* 0. A crash is a behaviour that stops, so that an invariant also says    *)
(* what a crash at any point leaves on the disk.                           *)
(***************************************************************************)
EXTENDS Integers, Sequences, FiniteSets, FiniteSetsExt

CONSTANTS Unit,        \* the units of which file contents are made
          Hole,        \* what a unit that was never written reads as
          ChunkSize,   \* ASYNC_CHUNK_SIZE, in units
          NoFile,      \* the file does not exist
          EmptyFile,   \* the progress file exists and has no content
          Sources,     \* contents the source file may have
          OldFiles,    \* what may be at the destination before
          MaxErrors    \* bound on I/O errors in a behaviour

\* what a progress file records
Progress == [offset : Nat, total : Nat]

ASSUME LargeTransferAssumption ==
  /\ Hole \in Unit
  /\ ChunkSize \in Nat \ {0}
  /\ NoFile \notin Seq(Unit)
  /\ Sources \subseteq Seq(Unit)
  /\ OldFiles \subseteq Seq(Unit) \cup {NoFile}
  /\ NoFile \notin Progress /\ EmptyFile \notin Progress /\ EmptyFile # NoFile
  /\ MaxErrors \in Nat

VARIABLES
  src,        \* content of the source file
  dest,       \* content of the destination file, or NoFile
  prog,       \* <dest>.sync_progress: NoFile, EmptyFile, or what it records
  pc,         \* where the calling thread is
  chunk,      \* where each chunk's thread is
  hasError,   \* std::atomic<bool> hasError
  moved,      \* std::atomic<off_t> transferred
  counted,    \* newTransferred of each chunk's thread
  errors      \* I/O errors so far

diskVars == <<src, dest, prog>>
largeVars == <<chunk, hasError, moved, counted>>
transferVars == <<src, dest, prog, pc, chunk, hasError, moved, counted, errors>>

ChunkPC == {"new", "copy", "error", "count", "saveOpen", "saveWrite", "done",
            "failed"}
LargePC == {"large", "alloc", "chunks", "largeRemove", "largeCleanDest",
            "largeCleanProg", "largeDone", "largeRefused", "largeFailed"}

\* Variant of Chunks: the division rounds down.
ChunksRoundedDown == 0..(Len(src) \div ChunkSize) - 1

\* numChunks, chunkOffset and currentChunkSize of chunk i
Chunks == 0..((Len(src) + ChunkSize - 1) \div ChunkSize) - 1
ChunkOffset(i) == i * ChunkSize
ChunkLen(i) == Min({ChunkSize, Len(src) - ChunkOffset(i)})

LargeTypeOK ==
  /\ src \in Sources
  /\ dest \in Seq(Unit) \cup {NoFile}
  /\ prog \in Progress \cup {NoFile, EmptyFile}
  /\ chunk \in [DOMAIN chunk -> ChunkPC] /\ DOMAIN chunk \subseteq Chunks
  /\ hasError \in BOOLEAN
  /\ moved \in Nat
  /\ counted \in [DOMAIN chunk -> Nat]
  /\ errors \in 0..MaxErrors

At(from, to) == pc = from /\ pc' = to
IOError == errors < MaxErrors /\ errors' = errors + 1

-----------------------------------------------------------------------------
(* Before the threads start *)

\* stat, free space and both open()s succeed; O_TRUNC empties the destination
LargeOpen ==
  /\ At("large", "alloc")
  /\ dest' = <<>>
  /\ UNCHANGED <<src, prog, largeVars, errors>>

\* one of them fails: return false, nothing touched
LargeRefused ==
  /\ At("large", "largeRefused")
  /\ IOError
  /\ UNCHANGED <<diskVars, largeVars>>

\* ftruncate to the full size, then one std::async per chunk
Preallocate ==
  /\ At("alloc", "chunks")
  /\ dest' = [u \in 1..Len(src) |-> Hole]
  /\ chunk' = [i \in Chunks |-> "new"]
  /\ counted' = [i \in Chunks |-> 0]
  /\ hasError' = FALSE
  /\ moved' = 0
  /\ UNCHANGED <<src, prog, errors>>

PreallocateFails ==
  /\ At("alloc", "largeCleanDest")
  /\ IOError
  /\ UNCHANGED <<diskVars, largeVars>>

-----------------------------------------------------------------------------
(* The thread of chunk i *)

Step(i, from, to) ==
  /\ pc = "chunks" /\ UNCHANGED pc
  /\ i \in DOMAIN chunk /\ chunk[i] = from
  /\ chunk' = [chunk EXCEPT ![i] = to]

\* if (hasError->load()) return false;
StartChunk(i) ==
  /\ Step(i, "new", IF hasError THEN "failed" ELSE "copy")
  /\ UNCHANGED <<diskVars, hasError, moved, counted, errors>>

\* the destination after pwrite has stored the first n units of chunk i
Overlay(i, n) ==
  [u \in DOMAIN dest |->
     IF u \in ChunkOffset(i) + 1 .. ChunkOffset(i) + n THEN src[u] ELSE dest[u]]

\* transferChunk: robustPread, robustPwrite
CopyChunk(i) ==
  /\ Step(i, "copy", "count")
  /\ dest' = Overlay(i, ChunkLen(i))
  /\ UNCHANGED <<src, prog, hasError, moved, counted, errors>>

\* transferChunk fails to read, or writes only a part
CopyFails(i) ==
  /\ Step(i, "copy", "error")
  /\ IOError
  /\ \E n \in 0..ChunkLen(i) - 1 : dest' = Overlay(i, n)
  /\ UNCHANGED <<src, prog, hasError, moved, counted>>

StoreError(i) ==
  /\ Step(i, "error", "failed")
  /\ hasError' = TRUE
  /\ UNCHANGED <<diskVars, moved, counted, errors>>

\* Variant of Count: the short last chunk is counted as a full one.
CountFull(i) ==
  /\ Step(i, "count", "saveOpen")
  /\ moved' = moved + ChunkSize
  /\ counted' = [counted EXCEPT ![i] = moved + ChunkSize]
  /\ UNCHANGED <<diskVars, hasError, errors>>

\* transferred->fetch_add
Count(i) ==
  /\ Step(i, "count", "saveOpen")
  /\ moved' = moved + ChunkLen(i)
  /\ counted' = [counted EXCEPT ![i] = moved + ChunkLen(i)]
  /\ UNCHANGED <<diskVars, hasError, errors>>

\* saveProgress: the ofstream truncates the progress file ...
SaveOpen(i) ==
  /\ Step(i, "saveOpen", "saveWrite")
  /\ prog' = EmptyFile
  /\ UNCHANGED <<src, dest, hasError, moved, counted, errors>>

\* ... and its destructor writes the record
SaveWrite(i) ==
  /\ Step(i, "saveWrite", "done")
  /\ prog' = [offset |-> counted[i], total |-> Len(src)]
  /\ UNCHANGED <<src, dest, hasError, moved, counted, errors>>

\* neither failure is reported
SaveFails(i) ==
  /\ Step(i, "saveOpen", "done") \/ Step(i, "saveWrite", "done")
  /\ IOError
  /\ UNCHANGED <<diskVars, hasError, moved, counted>>

ChunkStep(i) ==
  \/ StartChunk(i) \/ CopyChunk(i) \/ CopyFails(i) \/ StoreError(i)
  \/ Count(i) \/ SaveOpen(i) \/ SaveWrite(i) \/ SaveFails(i)

-----------------------------------------------------------------------------
(* After the threads *)

\* every future's get(), then close()
JoinChunks ==
  /\ \A i \in DOMAIN chunk : chunk[i] \in {"done", "failed"}
  /\ At("chunks", IF \E i \in DOMAIN chunk : chunk[i] = "failed"
                    THEN "largeCleanDest" ELSE "largeRemove")
  /\ UNCHANGED <<diskVars, largeVars, errors>>

\* std::remove of one of the two files
RemoveDest(from, to) ==
  /\ At(from, to)
  /\ dest' = NoFile
  /\ UNCHANGED <<src, prog, largeVars, errors>>

RemoveProg(from, to) ==
  /\ At(from, to)
  /\ prog' = NoFile
  /\ UNCHANGED <<src, dest, largeVars, errors>>

LargeSucceeds == RemoveProg("largeRemove", "largeDone")

\* Variant of LargeCleanup: the progress file is forgotten.
CleanupDestOnly ==
  RemoveDest("largeCleanDest", "largeFailed")

\* cleanupCorruptedFile: the destination first, then the progress file
LargeCleanup ==
  \/ RemoveDest("largeCleanDest", "largeCleanProg")
  \/ RemoveProg("largeCleanProg", "largeFailed")

LargeStep ==
  \/ LargeOpen \/ LargeRefused \/ Preallocate \/ PreallocateFails
  \/ \E i \in DOMAIN chunk : ChunkStep(i)
  \/ JoinChunks \/ LargeSucceeds \/ LargeCleanup

-----------------------------------------------------------------------------
(* Properties *)

Copied == {u \in 1..Len(src) : dest[u] = src[u]}

\* true is returned only for a complete copy and leaves no progress file, in
\* whatever order the threads finish and the progress file is rewritten.
LargeExact == pc = "largeDone" => dest = src /\ prog = NoFile

\* When a thread records its progress, the units it counts are at the
\* destination, although the counts of different threads are recorded in any
\* order and over one another.
ProgressNeverAhead ==
  [][pc = "chunks" /\ prog' # prog /\ prog' \in Progress
       => prog'.offset <= Cardinality(Copied)]_transferVars

\* Once the destination has been truncated, false is returned only after both
\* files are gone, whether ftruncate or a chunk has failed: no half-filled file of
\* full size is left for a later resume.
LargeFailureLeavesNothing ==
  pc = "largeFailed" => dest = NoFile /\ prog = NoFile

\* transferLargeFileAsync is all or nothing for its caller, whichever chunk fails and
\* in whatever order the threads end: an exact copy, or no file and no record.
LargeAllOrNothing == LargeExact /\ LargeFailureLeavesNothing

=============================================================================
