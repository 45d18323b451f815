---------------------------- MODULE FileSyncProofs ----------------------------
(***************************************************************************)
(* Proofs about syncFile, resumeSync and the chunked transfer they call.   *)
(*                                                                         *)
(* First what the chunk threads of transferLargeFileAsync keep invariant,  *)
(* for sources, chunks and holes of any size and any number of I/O errors: *)
(* these lemmas are about the steps of LargeTransfer alone. Then that the  *)
(* program keeps its safety properties over any number of runs, kills, I/O *)
(* errors and changes of the source, for files, buffers and chunks of any  *)
(* size.                                                                   *)
(***************************************************************************)
EXTENDS FileSync, OperatorLemmas, FiniteSetTheorems, TLAPS

USE LargeTransferAssumption

\* the units that the thread of chunk i copies
ChunkUnits(i) == ChunkOffset(i) + 1 .. ChunkOffset(i) + ChunkLen(i)

\* where a thread is once it has written its chunk, and once it has counted it
CopiedPC == {"count", "saveOpen", "saveWrite", "done"}
CountedPC == {"saveOpen", "saveWrite", "done"}

CountedUnits ==
  {u \in 1..Len(src) : \E i \in DOMAIN chunk : chunk[i] \in CountedPC /\ u \in ChunkUnits(i)}

\* There are threads only between ftruncate() and the return.
ThreadsInv ==
  /\ pc \notin {"chunks", "largeRemove", "largeCleanDest", "largeCleanProg",
                "largeDone", "largeFailed"}
       => chunk = <<>> /\ counted = <<>>
  /\ pc = "chunks" => DOMAIN chunk = Chunks

\* What a thread has copied stays copied, whatever the others write.
CopyInv ==
  pc = "chunks" =>
    /\ dest \in Seq(Unit) /\ Len(dest) = Len(src)
    /\ \A i \in DOMAIN chunk :
         chunk[i] \in CopiedPC => \A u \in ChunkUnits(i) : dest[u] = src[u]

\* The shared counter is the number of units in the chunks that are counted.
CountInv ==
  pc = "chunks" =>
    /\ moved = Cardinality(CountedUnits)
    /\ \A i \in DOMAIN chunk : chunk[i] \in CountedPC => counted[i] <= moved

\* What the caller finds after the threads have been joined.
EndInv ==
  /\ pc \in {"largeRemove", "largeDone"} => dest = src
  /\ pc = "largeDone" => prog = NoFile
  /\ pc = "largeCleanProg" => dest = NoFile
  /\ LargeFailureLeavesNothing

\* No thread fails unless there was an I/O error.
NoErrorInv ==
  errors = 0 =>
    /\ ~hasError
    /\ pc \notin {"largeCleanDest", "largeCleanProg", "largeRefused", "largeFailed"}
    /\ \A i \in DOMAIN chunk : chunk[i] \notin {"error", "failed"}

LargeInv ==
  LargeTypeOK /\ ThreadsInv /\ CopyInv /\ CountInv /\ EndInv /\ NoErrorInv

-----------------------------------------------------------------------------
(* The chunks of a file *)

\* Integer division.
LEMMA Division ==
  ASSUME NEW a \in Nat, NEW b \in Nat \ {0}
  PROVE  a \div b \in Nat /\ (a \div b) * b <= a /\ a < (a \div b) * b + b
<1>1. a \div b \in Int
  OBVIOUS
<1>2. a = b * (a \div b) + (a % b) /\ a % b \in 0..b-1
  OBVIOUS
<1>3. (a \div b) * b <= a /\ a < (a \div b) * b + b
  BY <1>1, <1>2
<1>4. QED
  BY <1>1, <1>3

\* Multiples of a number are that number apart.
LEMMA Multiples ==
  ASSUME NEW a \in Nat, NEW b \in Nat, NEW c \in Nat, a < b
  PROVE  a * c \in Nat /\ b * c \in Nat /\ a * c + c <= b * c
OBVIOUS

\* A chunk lies within the source.
LEMMA ChunkWithin ==
  ASSUME src \in Seq(Unit), NEW i \in Chunks
  PROVE  /\ i \in Nat /\ ChunkOffset(i) \in Nat
         /\ ChunkLen(i) \in Nat /\ ChunkLen(i) <= ChunkSize
         /\ ChunkOffset(i) + ChunkLen(i) <= Len(src)
         /\ ChunkUnits(i) \subseteq 1..Len(src)
<1> DEFINE n == (Len(src) + ChunkSize - 1) \div ChunkSize
<1>1. Len(src) \in Nat /\ Len(src) + ChunkSize - 1 \in Nat /\ ChunkSize \in Nat \ {0}
  OBVIOUS
<1>2. n \in Nat /\ n * ChunkSize <= Len(src) + ChunkSize - 1
  BY <1>1, Division
<1> HIDE DEF n
<1>3. i \in Nat /\ i < n
  BY <1>2 DEF Chunks, n
<1>4. ChunkOffset(i) \in Nat /\ ChunkOffset(i) < Len(src)
  <2>1. i * ChunkSize \in Nat /\ n * ChunkSize \in Nat /\ i * ChunkSize + ChunkSize <= n * ChunkSize
    BY <1>1, <1>2, <1>3, Multiples
  <2>2. QED
    BY <1>1, <1>2, <2>1 DEF ChunkOffset
<1>5. ChunkLen(i) = IF ChunkSize <= Len(src) - ChunkOffset(i)
                      THEN ChunkSize ELSE Len(src) - ChunkOffset(i)
  BY <1>1, <1>4, MinOfTwo DEF ChunkLen
<1>6. /\ ChunkLen(i) \in Nat /\ ChunkLen(i) <= ChunkSize
      /\ ChunkOffset(i) + ChunkLen(i) <= Len(src)
  BY <1>1, <1>4, <1>5
<1>7. QED
  BY <1>1, <1>3, <1>4, <1>6 DEF ChunkUnits

\* Every unit of the source is in a chunk: the division rounds up.
LEMMA ChunksCover ==
  ASSUME src \in Seq(Unit), NEW u \in 1..Len(src)
  PROVE  \E i \in Chunks : u \in ChunkUnits(i)
<1> DEFINE n == (Len(src) + ChunkSize - 1) \div ChunkSize
           i == (u - 1) \div ChunkSize
<1>1. /\ Len(src) \in Nat /\ Len(src) + ChunkSize - 1 \in Nat /\ ChunkSize \in Nat \ {0}
      /\ u \in Nat /\ u - 1 \in Nat /\ u <= Len(src)
  OBVIOUS
<1>2. n \in Nat /\ Len(src) + ChunkSize - 1 < n * ChunkSize + ChunkSize
  BY <1>1, Division
<1>3. i \in Nat /\ i * ChunkSize <= u - 1 /\ u - 1 < i * ChunkSize + ChunkSize
  BY <1>1, Division
<1> HIDE DEF n, i
<1>4. i < n
  <2> SUFFICES ASSUME ~(i < n) PROVE FALSE
    OBVIOUS
  <2>1. n <= i
    BY <1>2, <1>3
  <2>2. n * ChunkSize <= i * ChunkSize /\ n * ChunkSize \in Nat /\ i * ChunkSize \in Nat
    <3>1. CASE n = i
      BY <3>1, <1>1, <1>3
    <3>2. CASE n < i
      BY <3>2, <1>1, <1>2, <1>3, Multiples
    <3>3. QED
      BY <1>2, <1>3, <2>1, <3>1, <3>2
  <2>3. QED
    BY <1>1, <1>2, <1>3, <2>2
<1>5. i \in Chunks
  BY <1>2, <1>3, <1>4 DEF Chunks, n
<1>6. i * ChunkSize \in Nat
  BY <1>1, <1>3
<1>7. ChunkLen(i) = IF ChunkSize <= Len(src) - ChunkOffset(i)
                      THEN ChunkSize ELSE Len(src) - ChunkOffset(i)
  BY <1>1, <1>6, MinOfTwo DEF ChunkLen, ChunkOffset
<1>8. u \in ChunkUnits(i)
  <2>1. /\ ChunkOffset(i) \in Nat /\ ChunkOffset(i) <= u - 1
        /\ u - 1 < ChunkOffset(i) + ChunkSize
    BY <1>3, <1>6 DEF ChunkOffset
  <2>2. QED
    BY <1>1, <1>7, <2>1 DEF ChunkUnits
<1>9. QED
  BY <1>5, <1>8

\* No unit of the source is in two chunks.
LEMMA ChunksDisjoint ==
  ASSUME src \in Seq(Unit), NEW i \in Chunks, NEW j \in Chunks, i # j
  PROVE  ChunkUnits(i) \cap ChunkUnits(j) = {}
<1>1. ASSUME NEW a \in Chunks, NEW b \in Chunks, a < b
      PROVE  ChunkUnits(a) \cap ChunkUnits(b) = {}
  <2>1. /\ a \in Nat /\ ChunkOffset(a) \in Nat /\ ChunkLen(a) \in Nat
        /\ ChunkLen(a) <= ChunkSize
        /\ b \in Nat /\ ChunkOffset(b) \in Nat /\ ChunkLen(b) \in Nat
    BY ChunkWithin
  <2>2. ChunkOffset(a) + ChunkSize <= ChunkOffset(b)
    BY <1>1, <2>1, Multiples DEF ChunkOffset
  <2>3. QED
    BY <2>1, <2>2 DEF ChunkUnits
<1>2. i \in Nat /\ j \in Nat
  BY ChunkWithin
<1>3. i < j \/ j < i
  BY <1>2
<1>4. QED
  BY <1>1, <1>3

-----------------------------------------------------------------------------
(* The threads *)

\* The thread of chunk i goes from one place to another, and no other thread does.
LEMMA StepFacts ==
  ASSUME LargeInv, NEW i, NEW from, NEW to \in ChunkPC, Step(i, from, to), src' = src
  PROVE  /\ pc = "chunks" /\ pc' = "chunks" /\ src \in Seq(Unit)
         /\ i \in Chunks /\ chunk[i] = from /\ from \in ChunkPC
         /\ chunk \in [Chunks -> ChunkPC] /\ chunk' \in [Chunks -> ChunkPC]
         /\ DOMAIN chunk = Chunks /\ DOMAIN chunk' = Chunks /\ Chunks' = Chunks
         /\ chunk'[i] = to /\ \A j \in Chunks : j # i => chunk'[j] = chunk[j]
         /\ \A j : ChunkUnits(j)' = ChunkUnits(j)
         /\ counted \in [Chunks -> Nat]
<1>1. pc = "chunks" /\ pc' = "chunks" /\ i \in DOMAIN chunk /\ chunk[i] = from
  BY DEF Step
<1>2. DOMAIN chunk = Chunks
  BY <1>1 DEF LargeInv, ThreadsInv
<1>3. chunk \in [Chunks -> ChunkPC] /\ src \in Seq(Unit) /\ counted \in [Chunks -> Nat]
  BY <1>2 DEF LargeInv, LargeTypeOK
<1>4. chunk' = [chunk EXCEPT ![i] = to]
  BY DEF Step
<1>5. Chunks' = Chunks
  BY DEF Chunks
<1>6. \A j : ChunkUnits(j)' = ChunkUnits(j)
  BY DEF ChunkUnits, ChunkOffset, ChunkLen
<1>7. QED
  BY <1>1, <1>2, <1>3, <1>4, <1>5, <1>6

\* A step that neither counts nor uncounts a chunk.
LEMMA SameCount ==
  ASSUME LargeInv, NEW i, NEW from, NEW to \in ChunkPC, Step(i, from, to), src' = src,
         UNCHANGED <<moved, counted>>, to \in CountedPC <=> from \in CountedPC
  PROVE  CountInv'
<1>1. /\ pc = "chunks" /\ i \in Chunks /\ chunk[i] = from
      /\ DOMAIN chunk = Chunks /\ DOMAIN chunk' = Chunks
      /\ chunk'[i] = to /\ \A j \in Chunks : j # i => chunk'[j] = chunk[j]
      /\ \A j : ChunkUnits(j)' = ChunkUnits(j)
  BY StepFacts
<1>2. \A j \in Chunks : chunk'[j] \in CountedPC <=> chunk[j] \in CountedPC
  BY <1>1
<1>3. CountedUnits' = CountedUnits
  BY <1>1, <1>2 DEF CountedUnits
<1>4. QED
  BY <1>1, <1>2, <1>3 DEF LargeInv, CountInv

\* A step that leaves the destination alone.
LEMMA SameCopy ==
  ASSUME LargeInv, NEW i, NEW from, NEW to \in ChunkPC, Step(i, from, to), src' = src,
         dest' = dest, to \in CopiedPC => from \in CopiedPC
  PROVE  CopyInv'
<1>1. /\ pc = "chunks" /\ i \in Chunks /\ chunk[i] = from
      /\ DOMAIN chunk = Chunks /\ DOMAIN chunk' = Chunks
      /\ chunk'[i] = to /\ \A j \in Chunks : j # i => chunk'[j] = chunk[j]
      /\ \A j : ChunkUnits(j)' = ChunkUnits(j)
  BY StepFacts
<1>2. \A j \in Chunks : chunk'[j] \in CopiedPC => chunk[j] \in CopiedPC
  BY <1>1
<1>3. QED
  BY <1>1, <1>2 DEF LargeInv, CopyInv

\* A write of the chunk, or of a part of it, spoils nothing that another thread
\* has written, because what is stored is the source.
LEMMA OverlayCopy ==
  ASSUME LargeInv, NEW i, NEW from, NEW to \in ChunkPC, Step(i, from, to), src' = src,
         NEW n \in 0..ChunkLen(i), dest' = Overlay(i, n), from \notin CopiedPC,
         to \in CopiedPC => n = ChunkLen(i)
  PROVE  CopyInv' /\ dest' \in Seq(Unit)
<1>1. /\ pc = "chunks" /\ i \in Chunks /\ chunk[i] = from /\ src \in Seq(Unit)
      /\ DOMAIN chunk = Chunks /\ DOMAIN chunk' = Chunks
      /\ chunk'[i] = to /\ \A j \in Chunks : j # i => chunk'[j] = chunk[j]
      /\ \A j : ChunkUnits(j)' = ChunkUnits(j)
  BY StepFacts
<1>2. /\ dest \in Seq(Unit) /\ Len(dest) = Len(src)
      /\ \A j \in Chunks : chunk[j] \in CopiedPC => \A u \in ChunkUnits(j) : dest[u] = src[u]
  BY <1>1 DEF LargeInv, CopyInv
<1>3. DOMAIN dest = 1..Len(src) /\ Len(src) \in Nat
  BY <1>1, <1>2
<1>4. /\ dest' \in [1..Len(src) -> Unit]
      /\ \A u \in 1..Len(src) : 
           dest'[u] = IF u \in ChunkOffset(i) + 1 .. ChunkOffset(i) + n THEN src[u] ELSE dest[u]
  BY <1>1, <1>2, <1>3 DEF Overlay
<1>5. dest' \in Seq(Unit) /\ Len(dest') = Len(src)
  BY <1>3, <1>4
<1>6. ASSUME NEW j \in Chunks, chunk'[j] \in CopiedPC, NEW u \in ChunkUnits(j)
      PROVE  dest'[u] = src[u]
  <2>1. u \in 1..Len(src)
    BY <1>1, ChunkWithin
  <2>2. CASE j = i
    BY <1>1, <1>4, <1>6, <2>1, <2>2 DEF ChunkUnits
  <2>3. CASE j # i
    BY <1>1, <1>2, <1>4, <1>6, <2>1, <2>3
  <2>4. QED
    BY <2>2, <2>3
<1>7. QED
  BY <1>1, <1>5, <1>6 DEF CopyInv

\* fetch_add adds the units of a chunk that was not counted before.
LEMMA CountAdds ==
  ASSUME LargeInv, NEW i, Count(i)
  PROVE  CountInv' /\ moved' \in Nat /\ counted' \in [Chunks -> Nat]
<1>1. /\ pc = "chunks" /\ i \in Chunks /\ chunk[i] = "count" /\ src \in Seq(Unit)
      /\ DOMAIN chunk = Chunks /\ DOMAIN chunk' = Chunks
      /\ chunk'[i] = "saveOpen" /\ \A j \in Chunks : j # i => chunk'[j] = chunk[j]
      /\ \A j : ChunkUnits(j)' = ChunkUnits(j)
      /\ src' = src /\ counted \in [Chunks -> Nat]
  BY StepFacts DEF Count, diskVars, ChunkPC
<1>2. /\ ChunkOffset(i) \in Nat /\ ChunkLen(i) \in Nat /\ ChunkUnits(i) \subseteq 1..Len(src)
  BY <1>1, ChunkWithin
<1>3. /\ moved' = moved + ChunkLen(i) /\ moved \in Nat
      /\ counted' = [counted EXCEPT ![i] = moved + ChunkLen(i)]
  BY DEF Count, LargeInv, LargeTypeOK
<1>4. /\ moved = Cardinality(CountedUnits)
      /\ \A j \in Chunks : chunk[j] \in CountedPC => counted[j] <= moved
  BY <1>1 DEF LargeInv, CountInv
<1>5. CountedUnits' = CountedUnits \cup ChunkUnits(i)
  BY <1>1, <1>2 DEF CountedUnits, CountedPC
<1>6. CountedUnits \cap ChunkUnits(i) = {}
  BY <1>1, ChunksDisjoint DEF CountedUnits, CountedPC
<1>7. IsFiniteSet(CountedUnits)
  <2>1. IsFiniteSet(1..Len(src))
    BY <1>1, FS_Interval
  <2>2. QED
    BY <2>1, FS_Subset DEF CountedUnits
<1>8. IsFiniteSet(ChunkUnits(i)) /\ Cardinality(ChunkUnits(i)) = ChunkLen(i)
  <2>1. ASSUME NEW o \in Nat, NEW n \in Nat
        PROVE  IsFiniteSet(o + 1 .. o + n) /\ Cardinality(o + 1 .. o + n) = n
    <3>1. o + 1 \in Int /\ o + n \in Int
      OBVIOUS
    <3>2. /\ IsFiniteSet(o + 1 .. o + n)
          /\ Cardinality(o + 1 .. o + n) = IF o + 1 > o + n THEN 0 ELSE (o + n) - (o + 1) + 1
      BY <3>1, FS_Interval
    <3>3. QED
      BY <3>2
  <2>2. QED
    BY <1>2, <2>1 DEF ChunkUnits
<1>9. Cardinality(CountedUnits') = moved + ChunkLen(i)
  <2>1. Cardinality(CountedUnits \cap ChunkUnits(i)) = 0
    BY <1>6, FS_EmptySet
  <2>2. Cardinality(CountedUnits \cup ChunkUnits(i))
          = Cardinality(CountedUnits) + Cardinality(ChunkUnits(i))
              - Cardinality(CountedUnits \cap ChunkUnits(i))
    BY <1>7, <1>8, FS_Union
  <2>3. QED
    BY <1>2, <1>3, <1>4, <1>5, <1>8, <2>1, <2>2
<1>10. \A j \in Chunks : chunk'[j] \in CountedPC => counted'[j] <= moved'
  <2> SUFFICES ASSUME NEW j \in Chunks, chunk'[j] \in CountedPC PROVE counted'[j] <= moved'
    OBVIOUS
  <2>1. CASE j = i
    BY <1>1, <1>2, <1>3, <2>1
  <2>2. CASE j # i
    BY <1>1, <1>2, <1>3, <1>4, <2>2
  <2>3. QED
    BY <2>1, <2>2
<1>11. moved' \in Nat /\ counted' \in [Chunks -> Nat]
  BY <1>1, <1>2, <1>3
<1>12. QED
  BY <1>1, <1>3, <1>9, <1>10, <1>11 DEF CountInv

\* What a step of a thread has to keep so that the invariant holds after it.
LEMMA StepInv ==
  ASSUME LargeInv, NEW i, NEW from, NEW to \in ChunkPC, Step(i, from, to), src' = src,
         CopyInv', CountInv', dest' \in Seq(Unit) \cup {NoFile},
         prog' \in Progress \cup {NoFile, EmptyFile}, hasError' \in BOOLEAN,
         moved' \in Nat, counted' \in [Chunks -> Nat], errors' \in 0..MaxErrors,
         errors' = 0 => errors = 0 /\ ~hasError' /\ to \notin {"error", "failed"}
  PROVE  LargeInv'
<1>1. /\ pc' = "chunks" /\ i \in Chunks
      /\ chunk' \in [Chunks -> ChunkPC]
      /\ DOMAIN chunk = Chunks /\ DOMAIN chunk' = Chunks /\ Chunks' = Chunks
      /\ chunk'[i] = to /\ \A j \in Chunks : j # i => chunk'[j] = chunk[j]
  BY StepFacts
<1>2. LargeTypeOK'
  <2>1. src' \in Sources
    BY DEF LargeInv, LargeTypeOK
  <2>2. QED
    BY <1>1, <2>1 DEF LargeTypeOK
<1>3. ThreadsInv'
  BY <1>1 DEF ThreadsInv
<1>4. EndInv'
  BY <1>1 DEF EndInv, LargeFailureLeavesNothing
<1>5. NoErrorInv'
  <2> SUFFICES ASSUME errors' = 0 PROVE NoErrorInv'
    BY DEF NoErrorInv
  <2>1. \A j \in Chunks : chunk[j] \notin {"error", "failed"}
    BY <1>1 DEF LargeInv, NoErrorInv
  <2>2. \A j \in Chunks : chunk'[j] \notin {"error", "failed"}
    BY <1>1, <2>1
  <2>3. QED
    BY <1>1, <2>2 DEF NoErrorInv
<1>6. QED
  BY <1>2, <1>3, <1>4, <1>5 DEF LargeInv

\* The steps of the thread of chunk i.
LEMMA ChunkLargeInv ==
  ASSUME LargeInv, NEW i, ChunkStep(i)
  PROVE  LargeInv'
<1> USE DEF diskVars, ChunkPC, CopiedPC, CountedPC
<1>t. /\ dest \in Seq(Unit) \cup {NoFile} /\ prog \in Progress \cup {NoFile, EmptyFile}
      /\ hasError \in BOOLEAN /\ moved \in Nat /\ errors \in 0..MaxErrors
      /\ src \in Sources /\ errors \in Nat
  BY DEF LargeInv, LargeTypeOK
<1>n. errors = 0 => ~hasError
  BY DEF LargeInv, NoErrorInv
<1>c. pc = "chunks" => counted \in [Chunks -> Nat]
  BY DEF LargeInv, LargeTypeOK, ThreadsInv
<1>i. IOError => errors' \in 0..MaxErrors /\ errors' # 0
  BY <1>t DEF IOError
<1>1. CASE StartChunk(i)
  <2>1. PICK to \in {"failed", "copy"} :
          Step(i, "new", to) /\ (to = "failed" => hasError)
    BY <1>1 DEF StartChunk
  <2>2. UNCHANGED <<src, dest, prog, hasError, moved, counted, errors>>
    BY <1>1 DEF StartChunk
  <2>3. CopyInv'
    BY <2>1, <2>2, SameCopy
  <2>4. CountInv'
    BY <2>1, <2>2, SameCount
  <2>5. pc = "chunks"
    BY <2>1 DEF Step
  <2>6. QED
    BY <1>t, <1>n, <1>c, <2>1, <2>2, <2>3, <2>4, <2>5, StepInv
<1>2. CASE CopyChunk(i)
  <2>1. /\ Step(i, "copy", "count") /\ dest' = Overlay(i, ChunkLen(i))
        /\ UNCHANGED <<src, prog, hasError, moved, counted, errors>>
    BY <1>2 DEF CopyChunk
  <2>2. pc = "chunks" /\ i \in Chunks /\ src \in Seq(Unit)
    BY <2>1, StepFacts
  <2>3. ChunkLen(i) \in 0..ChunkLen(i)
    BY <2>2, ChunkWithin
  <2>4. CopyInv' /\ dest' \in Seq(Unit)
    BY <2>1, <2>3, OverlayCopy
  <2>5. CountInv'
    BY <2>1, SameCount
  <2>6. QED
    BY <1>t, <1>n, <1>c, <2>1, <2>2, <2>4, <2>5, StepInv
<1>3. CASE CopyFails(i)
  <2>1. /\ Step(i, "copy", "error") /\ IOError
        /\ UNCHANGED <<src, prog, hasError, moved, counted>>
    BY <1>3 DEF CopyFails
  <2>2. pc = "chunks" /\ i \in Chunks /\ src \in Seq(Unit)
    BY <2>1, StepFacts
  <2>3. PICK n \in 0..ChunkLen(i) - 1 : dest' = Overlay(i, n)
    BY <1>3 DEF CopyFails
  <2>4. n \in 0..ChunkLen(i)
    BY <2>2, ChunkWithin
  <2>5. CopyInv' /\ dest' \in Seq(Unit)
    BY <2>1, <2>3, <2>4, OverlayCopy
  <2>6. CountInv'
    BY <2>1, SameCount
  <2>7. QED
    BY <1>t, <1>c, <1>i, <2>1, <2>2, <2>5, <2>6, StepInv
<1>4. CASE StoreError(i)
  <2>1. /\ Step(i, "error", "failed") /\ hasError' = TRUE
        /\ UNCHANGED <<src, dest, prog, moved, counted, errors>>
    BY <1>4 DEF StoreError
  <2>2. pc = "chunks" /\ i \in Chunks /\ chunk[i] = "error" /\ DOMAIN chunk = Chunks
    BY <2>1, StepFacts
  <2>3. errors # 0
    BY <2>2 DEF LargeInv, NoErrorInv
  <2>4. CopyInv'
    BY <2>1, SameCopy
  <2>5. CountInv'
    BY <2>1, SameCount
  <2>6. QED
    BY <1>t, <1>c, <2>1, <2>2, <2>3, <2>4, <2>5, StepInv
<1>5. CASE Count(i)
  <2>1. /\ Step(i, "count", "saveOpen")
        /\ UNCHANGED <<src, dest, prog, hasError, errors>>
    BY <1>5 DEF Count
  <2>2. CopyInv'
    BY <2>1, SameCopy
  <2>3. CountInv' /\ moved' \in Nat /\ counted' \in [Chunks -> Nat]
    BY <1>5, CountAdds
  <2>4. QED
    BY <1>t, <1>n, <2>1, <2>2, <2>3, StepInv
<1>6. CASE SaveOpen(i)
  <2>1. /\ Step(i, "saveOpen", "saveWrite") /\ prog' = EmptyFile
        /\ UNCHANGED <<src, dest, hasError, moved, counted, errors>>
    BY <1>6 DEF SaveOpen
  <2>2. pc = "chunks"
    BY <2>1 DEF Step
  <2>3. CopyInv'
    BY <2>1, SameCopy
  <2>4. CountInv'
    BY <2>1, SameCount
  <2>5. QED
    BY <1>t, <1>n, <1>c, <2>1, <2>2, <2>3, <2>4, StepInv
<1>7. CASE SaveWrite(i)
  <2>1. /\ Step(i, "saveWrite", "done")
        /\ prog' = [offset |-> counted[i], total |-> Len(src)]
        /\ UNCHANGED <<src, dest, hasError, moved, counted, errors>>
    BY <1>7 DEF SaveWrite
  <2>2. pc = "chunks" /\ i \in Chunks /\ src \in Seq(Unit) /\ counted \in [Chunks -> Nat]
    BY <2>1, StepFacts
  <2>3. prog' \in Progress
    BY <2>1, <2>2 DEF Progress
  <2>4. CopyInv'
    BY <2>1, SameCopy
  <2>5. CountInv'
    BY <2>1, SameCount
  <2>6. QED
    BY <1>t, <1>n, <1>c, <2>1, <2>2, <2>3, <2>4, <2>5, StepInv
<1>8. CASE SaveFails(i)
  <2>1. PICK from \in {"saveOpen", "saveWrite"} : Step(i, from, "done")
    BY <1>8 DEF SaveFails
  <2>2. IOError /\ UNCHANGED <<src, dest, prog, hasError, moved, counted>>
    BY <1>8 DEF SaveFails
  <2>3. pc = "chunks"
    BY <2>1 DEF Step
  <2>4. CopyInv'
    BY <2>1, <2>2, SameCopy
  <2>5. CountInv'
    BY <2>1, <2>2, SameCount
  <2>6. QED
    BY <1>t, <1>c, <1>i, <2>1, <2>2, <2>3, <2>4, <2>5, StepInv
<1>9. QED
  BY <1>1, <1>2, <1>3, <1>4, <1>5, <1>6, <1>7, <1>8 DEF ChunkStep

-----------------------------------------------------------------------------
(* The calling thread *)

\* The steps before the threads start: the destination is emptied, then given its
\* full size.
LEMMA OpenLargeInv ==
  ASSUME LargeInv, LargeOpen \/ LargeRefused \/ Preallocate \/ PreallocateFails
  PROVE  LargeInv'
<1> USE DEF diskVars, largeVars, At
<1>t. LargeTypeOK /\ ThreadsInv /\ EndInv /\ NoErrorInv /\ errors \in Nat /\ src \in Seq(Unit)
  BY DEF LargeInv, LargeTypeOK
<1>i. IOError => errors' \in 0..MaxErrors /\ errors' # 0
  BY <1>t DEF IOError
<1>1. CASE LargeOpen
  <2>1. pc = "large" /\ pc' = "alloc" /\ dest' = <<>> /\ UNCHANGED <<src, prog, largeVars, errors>>
    BY <1>1 DEF LargeOpen
  <2>2. LargeTypeOK'
    BY <1>t, <2>1 DEF LargeTypeOK, Chunks
  <2>3. ThreadsInv' /\ CopyInv' /\ CountInv' /\ EndInv'
    BY <1>t, <2>1 DEF ThreadsInv, CopyInv, CountInv, EndInv, LargeFailureLeavesNothing
  <2>4. NoErrorInv'
    BY <1>t, <2>1 DEF NoErrorInv
  <2>5. QED
    BY <2>2, <2>3, <2>4 DEF LargeInv
<1>2. CASE LargeRefused
  <2>1. /\ pc = "large" /\ pc' = "largeRefused" /\ IOError
        /\ UNCHANGED <<src, dest, prog, largeVars>>
    BY <1>2 DEF LargeRefused
  <2>2. LargeTypeOK'
    BY <1>t, <1>i, <2>1 DEF LargeTypeOK, Chunks
  <2>3. chunk' = <<>>
    BY <1>t, <2>1 DEF ThreadsInv
  <2>4. ThreadsInv' /\ CopyInv' /\ CountInv' /\ EndInv'
    BY <1>t, <2>1, <2>3 DEF ThreadsInv, CopyInv, CountInv, EndInv, LargeFailureLeavesNothing
  <2>5. NoErrorInv'
    BY <1>i, <2>1 DEF NoErrorInv
  <2>6. QED
    BY <2>2, <2>4, <2>5 DEF LargeInv
<1>3. CASE Preallocate
  <2>1. /\ pc' = "chunks" /\ dest' = [u \in 1..Len(src) |-> Hole]
        /\ chunk' = [i \in Chunks |-> "new"] /\ counted' = [i \in Chunks |-> 0]
        /\ hasError' = FALSE /\ moved' = 0 /\ UNCHANGED <<src, prog, errors>>
    BY <1>3 DEF Preallocate
  <2>2. dest' \in Seq(Unit) /\ Len(dest') = Len(src) /\ Len(src) \in Nat
    BY <1>t, <2>1
  <2>3. Chunks' = Chunks
    BY <2>1 DEF Chunks
  <2>4. /\ chunk' \in [Chunks -> ChunkPC] /\ counted' \in [Chunks -> Nat]
        /\ DOMAIN chunk' = Chunks /\ \A i \in Chunks : chunk'[i] = "new"
    BY <2>1 DEF ChunkPC
  <2>5. LargeTypeOK'
    BY <1>t, <2>1, <2>2, <2>3, <2>4 DEF LargeTypeOK
  <2>6. CountInv'
    <3>1. CountedUnits' = {}
      BY <2>4 DEF CountedUnits, CountedPC
    <3>2. QED
      BY <2>1, <2>4, <3>1, FS_EmptySet DEF CountInv, CountedPC
  <2>7. CopyInv'
    BY <2>1, <2>2, <2>4 DEF CopyInv, CopiedPC
  <2>8. ThreadsInv' /\ EndInv'
    BY <2>1, <2>3, <2>4 DEF ThreadsInv, EndInv, LargeFailureLeavesNothing
  <2>9. NoErrorInv'
    BY <2>1, <2>4 DEF NoErrorInv
  <2>10. QED
    BY <2>5, <2>6, <2>7, <2>8, <2>9 DEF LargeInv
<1>4. CASE PreallocateFails
  <2>1. /\ pc = "alloc" /\ pc' = "largeCleanDest" /\ IOError
        /\ UNCHANGED <<src, dest, prog, largeVars>>
    BY <1>4 DEF PreallocateFails
  <2>2. LargeTypeOK'
    BY <1>t, <1>i, <2>1 DEF LargeTypeOK, Chunks
  <2>3. ThreadsInv' /\ CopyInv' /\ CountInv' /\ EndInv'
    BY <1>t, <2>1 DEF ThreadsInv, CopyInv, CountInv, EndInv, LargeFailureLeavesNothing
  <2>4. NoErrorInv'
    BY <1>i, <2>1 DEF NoErrorInv
  <2>5. QED
    BY <2>2, <2>3, <2>4 DEF LargeInv
<1>5. QED
  BY <1>1, <1>2, <1>3, <1>4

\* When every thread has done its chunk the destination is the source.
LEMMA AllDone ==
  ASSUME LargeInv, pc = "chunks", \A i \in DOMAIN chunk : chunk[i] = "done"
  PROVE  dest = src
<1>1. /\ dest \in Seq(Unit) /\ Len(dest) = Len(src) /\ src \in Seq(Unit)
      /\ DOMAIN chunk = Chunks
      /\ \A i \in Chunks : \A u \in ChunkUnits(i) : dest[u] = src[u]
  BY DEF LargeInv, LargeTypeOK, ThreadsInv, CopyInv, CopiedPC
<1>2. \A u \in 1..Len(src) : dest[u] = src[u]
  BY <1>1, ChunksCover
<1>3. QED
  BY <1>1, <1>2

\* The steps after the threads: get(), close() and the removal of files.
LEMMA EndLargeInv ==
  ASSUME LargeInv, JoinChunks \/ LargeSucceeds \/ LargeCleanup
  PROVE  LargeInv'
<1> USE DEF diskVars, largeVars, At
<1>t. LargeTypeOK /\ ThreadsInv /\ EndInv /\ NoErrorInv /\ src \in Seq(Unit)
  BY DEF LargeInv, LargeTypeOK
<1>1. /\ UNCHANGED <<src, chunk, hasError, moved, counted, errors>>
      /\ pc' \in {"largeRemove", "largeCleanDest", "largeDone", "largeCleanProg", "largeFailed"}
      /\ dest' \in {dest, NoFile} /\ prog' \in {prog, NoFile}
  BY DEF JoinChunks, LargeSucceeds, LargeCleanup, RemoveDest, RemoveProg
<1>2. LargeTypeOK'
  BY <1>t, <1>1 DEF LargeTypeOK, Chunks
<1>3. ThreadsInv' /\ CopyInv' /\ CountInv'
  BY <1>1 DEF ThreadsInv, CopyInv, CountInv
<1>4. CASE JoinChunks /\ \E i \in DOMAIN chunk : chunk[i] = "failed"
  <2>1. pc' = "largeCleanDest"
    BY <1>4 DEF JoinChunks
  <2>2. EndInv'
    BY <2>1 DEF EndInv, LargeFailureLeavesNothing
  <2>3. NoErrorInv'
    BY <1>t, <1>1, <1>4 DEF NoErrorInv
  <2>4. QED
    BY <1>2, <1>3, <2>2, <2>3 DEF LargeInv
<1>5. CASE JoinChunks /\ ~\E i \in DOMAIN chunk : chunk[i] = "failed"
  <2>1. pc = "chunks" /\ pc' = "largeRemove" /\ dest' = dest
    BY <1>5 DEF JoinChunks
  <2>2. dest = src
    BY <1>5, <2>1, AllDone DEF JoinChunks
  <2>3. EndInv'
    BY <1>1, <2>1, <2>2 DEF EndInv, LargeFailureLeavesNothing
  <2>4. NoErrorInv'
    BY <1>t, <1>1, <2>1 DEF NoErrorInv
  <2>5. QED
    BY <1>2, <1>3, <2>3, <2>4 DEF LargeInv
<1>6. CASE LargeSucceeds
  <2>1. pc = "largeRemove" /\ pc' = "largeDone" /\ dest' = dest /\ prog' = NoFile
    BY <1>6 DEF LargeSucceeds, RemoveProg
  <2>2. EndInv'
    BY <1>t, <1>1, <2>1 DEF EndInv, LargeFailureLeavesNothing
  <2>3. NoErrorInv'
    BY <1>t, <1>1, <2>1 DEF NoErrorInv
  <2>4. QED
    BY <1>2, <1>3, <2>2, <2>3 DEF LargeInv
<1>7. CASE RemoveDest("largeCleanDest", "largeCleanProg")
  <2>1. pc = "largeCleanDest" /\ pc' = "largeCleanProg" /\ dest' = NoFile
    BY <1>7 DEF RemoveDest
  <2>2. EndInv'
    BY <1>1, <2>1 DEF EndInv, LargeFailureLeavesNothing
  <2>3. NoErrorInv'
    BY <1>t, <1>1, <2>1 DEF NoErrorInv
  <2>4. QED
    BY <1>2, <1>3, <2>2, <2>3 DEF LargeInv
<1>8. CASE RemoveProg("largeCleanProg", "largeFailed")
  <2>1. pc = "largeCleanProg" /\ pc' = "largeFailed" /\ dest' = dest /\ prog' = NoFile
    BY <1>8 DEF RemoveProg
  <2>2. EndInv'
    BY <1>t, <1>1, <2>1 DEF EndInv, LargeFailureLeavesNothing
  <2>3. NoErrorInv'
    BY <1>t, <1>1, <2>1 DEF NoErrorInv
  <2>4. QED
    BY <1>2, <1>3, <2>2, <2>3 DEF LargeInv
<1>9. QED
  BY <1>4, <1>5, <1>6, <1>7, <1>8 DEF LargeCleanup

\* Every step of transferLargeFileAsync.
LEMMA LargeStepInv ==
  ASSUME LargeInv, LargeStep
  PROVE  LargeInv'
BY OpenLargeInv, ChunkLargeInv, EndLargeInv DEF LargeStep

\* What the record of a thread counts is at the destination: the counted units
\* are among the copied ones.
LEMMA RecordedIsCopied ==
  ASSUME LargeInv, NEW i, SaveWrite(i)
  PROVE  prog'.offset <= Cardinality(Copied) /\ prog'.offset <= Len(src)
<1>1. src' = src
  BY DEF SaveWrite
<1>2. /\ pc = "chunks" /\ i \in Chunks /\ chunk[i] = "saveWrite" /\ src \in Seq(Unit)
      /\ DOMAIN chunk = Chunks /\ counted \in [Chunks -> Nat]
  BY <1>1, StepFacts DEF SaveWrite, ChunkPC
<1>3. prog'.offset = counted[i] /\ counted[i] \in Nat
  BY <1>2 DEF SaveWrite
<1>4. counted[i] <= moved /\ moved = Cardinality(CountedUnits)
  BY <1>2 DEF LargeInv, CountInv, CountedPC
<1>5. IsFiniteSet(1..Len(src)) /\ Cardinality(1..Len(src)) = Len(src)
  <2>1. Len(src) \in Nat /\ Len(src) \in Int /\ 1 \in Int
    BY <1>2
  <2>2. /\ IsFiniteSet(1..Len(src))
        /\ Cardinality(1..Len(src)) = IF 1 > Len(src) THEN 0 ELSE Len(src) - 1 + 1
    BY <2>1, FS_Interval
  <2>3. QED
    BY <2>1, <2>2
<1>6. CountedUnits \subseteq Copied
  BY <1>2 DEF LargeInv, CopyInv, CountedUnits, CountedPC, CopiedPC, Copied
<1>7. IsFiniteSet(Copied) /\ Cardinality(Copied) <= Len(src)
  BY <1>5, FS_Subset DEF Copied
<1>8. IsFiniteSet(CountedUnits) /\ Cardinality(CountedUnits) <= Cardinality(Copied)
  BY <1>6, <1>7, FS_Subset
<1>9. Cardinality(CountedUnits) \in Nat /\ Cardinality(Copied) \in Nat /\ Len(src) \in Nat
  BY <1>2, <1>7, <1>8, FS_CardinalityType
<1>10. QED
  BY <1>3, <1>4, <1>7, <1>8, <1>9

-----------------------------------------------------------------------------
(* The runs of the program *)

USE FileSyncAssumption

\* A failed syncFile has removed the destination and its record.
FailureLeavesNothing ==
  Returned("false") /\ caller = "syncFile" /\ interrupted
    => dest = NoFile /\ prog = NoFile

\* Where the run is and what it holds: which caller, the parameter of
\* transferFile, the ofstream's buffer and the two files.
RunInv ==
  /\ pc \in {"conflict", "load", "choose", "cleanDest", "cleanProg", "retryCleanDest",
             "retryCleanProg"} \cup LargePC
       => caller = "syncFile"
  /\ pc = "resumeLoad" => caller = "resumeSync"
  /\ pc \in {"conflict", "load", "resumeLoad"} => ~interrupted
  /\ pc \in {"retryCleanDest", "retryCleanProg"} \cup LargePC => offset = 0 /\ transferred = 0
  /\ pc = "open" => transferred = offset
  /\ pc \notin {"remove", "close"} => unflushed = <<>>
  /\ pc \in {"copy", "saveOpen", "saveWrite", "failOpen", "failWrite", "remove", "close"}
       => dest \in Seq(Unit)
  /\ pc = "close" => prog = NoFile
  /\ pc = "cleanProg" => dest = NoFile
  /\ FailureLeavesNothing

\* As long as the run is sound, the destination holds what transferFile has read
\* of the source.
SoundInv ==
  /\ sound /\ pc = "open" /\ offset > 0 => HoldsPrefix(offset)
  /\ sound /\ pc \in {"copy", "saveOpen", "saveWrite"} => HoldsPrefix(transferred)
  /\ sound /\ pc \in {"remove", "close"} => dest \o unflushed = src
  /\ SuccessExact

\* Without I/O errors and renames no step behind a failure is reached, and the
\* position at which transferFile writes is not behind the end of the destination.
BackedInv ==
  errors = 0 /\ bak = NoFile =>
    /\ LoadProgress > 0 => dest # NoFile /\ LoadProgress <= Len(dest)
    /\ pc \notin {"failOpen", "failWrite", "cleanDest", "cleanProg", "retryCleanDest",
                  "retryCleanProg"}
    /\ pc \in {"choose", "large", "alloc"} => LoadProgress = 0
    /\ pc = "open" /\ offset = 0 => LoadProgress = 0
    /\ pc = "open" /\ offset > 0 => dest # NoFile /\ offset <= Len(dest)
    /\ pc \in {"copy", "saveOpen", "saveWrite"} => transferred <= Len(dest)

\* The inductive invariant.
FileInv == TypeOK /\ LargeInv /\ RunInv /\ SoundInv /\ BackedInv

-----------------------------------------------------------------------------

\* Before the first run.
LEMMA InitFileInv == Init => FileInv
<1> SUFFICES ASSUME Init PROVE FileInv
  OBVIOUS
<1> USE DEF Init
<1>1. chunk \in [DOMAIN chunk -> ChunkPC] /\ counted \in [DOMAIN chunk -> Nat] /\ DOMAIN chunk = {}
  OBVIOUS
<1>2. LargeTypeOK
  <2>1. /\ src \in Sources /\ dest \in Seq(Unit) \cup {NoFile}
        /\ prog \in Progress \cup {NoFile, EmptyFile} /\ moved \in Nat /\ errors \in 0..MaxErrors
    OBVIOUS
  <2>2. hasError \in BOOLEAN
    OBVIOUS
  <2> HIDE DEF Init
  <2>3. QED
    BY <1>1, <2>1, <2>2 DEF LargeTypeOK
<1>3. ThreadsInv /\ CopyInv /\ CountInv /\ EndInv
  BY DEF ThreadsInv, CopyInv, CountInv, EndInv, LargeFailureLeavesNothing
<1>4. NoErrorInv
  BY DEF NoErrorInv
<1>5. TypeOK
  <2>1. sound \in BOOLEAN /\ interrupted \in BOOLEAN
    OBVIOUS
  <2>2. /\ pc \in SyncPC /\ bak \in Seq(Unit) \cup {NoFile} /\ caller \in {"syncFile", "resumeSync"}
        /\ result \in {"true", "false", "none"}
    BY DEF SyncPC
  <2>3. /\ offset \in Nat /\ transferred \in Nat /\ unflushed \in Seq(Unit)
        /\ crashes \in 0..MaxCrashes /\ changes \in 0..MaxChanges
    OBVIOUS
  <2> HIDE DEF Init
  <2>4. QED
    BY <1>2, <2>1, <2>2, <2>3 DEF TypeOK
<1>6. RunInv
  BY DEF RunInv, FailureLeavesNothing
<1>7. SoundInv
  BY DEF SoundInv, SuccessExact, Returned
<1>8. BackedInv
  BY DEF BackedInv, LoadProgress
<1>9. QED
  BY <1>2, <1>3, <1>4, <1>5, <1>6, <1>7, <1>8 DEF FileInv, LargeInv

\* The types that the steps need most often.
LEMMA FileFacts ==
  ASSUME FileInv
  PROVE  /\ src \in Seq(Unit) /\ src \in Sources /\ Len(src) \in Nat
         /\ dest \in Seq(Unit) \cup {NoFile} /\ prog \in Progress \cup {NoFile, EmptyFile}
         /\ offset \in Nat /\ transferred \in Nat /\ unflushed \in Seq(Unit)
         /\ errors \in 0..MaxErrors /\ errors \in Nat
         /\ LoadProgress \in Nat
<1>1. /\ src \in Seq(Unit) /\ src \in Sources /\ dest \in Seq(Unit) \cup {NoFile}
      /\ prog \in Progress \cup {NoFile, EmptyFile}
      /\ offset \in Nat /\ transferred \in Nat /\ unflushed \in Seq(Unit)
      /\ errors \in 0..MaxErrors
  BY DEF FileInv, TypeOK, LargeTypeOK
<1>2. LoadProgress \in Nat
  BY DEF LoadProgress, Progress
<1>3. QED
  BY <1>1, <1>2

\* A step that fails does so with one more I/O error.
LEMMA OneMoreError ==
  ASSUME FileInv, IOError
  PROVE  errors' \in 0..MaxErrors /\ errors' # 0
BY FileFacts DEF IOError

\* A step after which there is no chunk thread.
LEMMA WithoutThreads ==
  ASSUME FileInv, pc' \in SyncPC \cup {"large"}, chunk' = <<>>, counted' = <<>>,
         hasError' \in BOOLEAN, moved' \in Nat,
         src' \in Sources, dest' \in Seq(Unit) \cup {NoFile},
         prog' \in Progress \cup {NoFile, EmptyFile}, errors' \in 0..MaxErrors,
         errors' = 0 => ~hasError'
  PROVE  LargeInv'
<1>1. /\ DOMAIN chunk' = {} /\ chunk' \in [DOMAIN chunk' -> ChunkPC]
      /\ counted' \in [DOMAIN chunk' -> Nat]
  OBVIOUS
<1>2. LargeTypeOK'
  BY DEF LargeTypeOK
<1>3. ThreadsInv' /\ CopyInv' /\ CountInv' /\ EndInv'
  BY DEF ThreadsInv, CopyInv, CountInv, EndInv, LargeFailureLeavesNothing, SyncPC
<1>4. NoErrorInv'
  BY DEF NoErrorInv, SyncPC
<1>5. QED
  BY <1>2, <1>3, <1>4 DEF LargeInv

\* A step of syncFile, resumeSync or transferFile, during which there is none.
LEMMA OutsideLarge ==
  ASSUME FileInv, pc \in SyncPC, pc' \in SyncPC \cup {"large"}, UNCHANGED largeVars,
         src' \in Sources, dest' \in Seq(Unit) \cup {NoFile},
         prog' \in Progress \cup {NoFile, EmptyFile}, errors' = errors \/ IOError
  PROVE  LargeInv'
<1>1. chunk = <<>> /\ counted = <<>>
  BY DEF FileInv, LargeInv, ThreadsInv, SyncPC
<1>2. hasError \in BOOLEAN /\ moved \in Nat
  BY DEF FileInv, TypeOK, LargeTypeOK
<1>3. errors' \in 0..MaxErrors /\ (errors' = 0 => errors = 0)
  BY FileFacts, OneMoreError
<1>4. errors = 0 => ~hasError
  BY DEF FileInv, LargeInv, NoErrorInv
<1>5. QED
  BY <1>1, <1>2, <1>3, <1>4, WithoutThreads DEF largeVars

\* The entry points, the conflict and the choice of a transfer.
LEMMA EntryFileInv ==
  ASSUME FileInv, SyncFile \/ ResumeSync \/ SyncRefused \/ Resume \/ NothingToResume \/ Choose
  PROVE  FileInv'
<1> USE DEF diskVars, largeVars, runVars, At, Return
<1>t. TypeOK /\ LargeInv /\ RunInv /\ SoundInv /\ BackedInv
  BY DEF FileInv
<1>f. /\ src \in Seq(Unit) /\ src \in Sources /\ Len(src) \in Nat
      /\ dest \in Seq(Unit) \cup {NoFile} /\ prog \in Progress \cup {NoFile, EmptyFile}
      /\ offset \in Nat /\ transferred \in Nat /\ unflushed \in Seq(Unit)
      /\ errors \in 0..MaxErrors /\ errors \in Nat /\ LoadProgress \in Nat
  BY FileFacts
<1>e. IOError => errors' \in 0..MaxErrors /\ errors' # 0
  BY OneMoreError
<1>1. CASE Begin("syncFile", "conflict")
  <2>1. LargeInv'
    BY <1>f, <1>1, OutsideLarge DEF Begin, SyncPC
  <2>2. TypeOK'
    <3>1. sound' \in BOOLEAN /\ interrupted' \in BOOLEAN
      BY <1>1 DEF Begin
    <3>2. /\ pc' \in SyncPC \cup LargePC /\ bak' \in Seq(Unit) \cup {NoFile}
          /\ caller' \in {"syncFile", "resumeSync"} /\ result' \in {"true", "false", "none"}
      BY <1>1, <1>t DEF Begin, TypeOK, SyncPC
    <3>3. /\ offset' \in Nat /\ transferred' \in Nat /\ unflushed' \in Seq(Unit)
          /\ crashes' \in 0..MaxCrashes /\ changes' \in 0..MaxChanges
      BY <1>1, <1>t DEF Begin, TypeOK
    <3>4. QED
      BY <2>1, <3>1, <3>2, <3>3 DEF TypeOK, LargeInv
  <2>3. RunInv'
    BY <1>1 DEF Begin, RunInv, FailureLeavesNothing
  <2>4. SoundInv'
    BY <1>1 DEF Begin, SoundInv, SuccessExact, Returned
  <2>5. BackedInv'
    BY <1>t, <1>1 DEF Begin, BackedInv, LoadProgress
  <2>6. QED
    BY <2>1, <2>2, <2>3, <2>4, <2>5 DEF FileInv
<1>2. CASE Begin("resumeSync", "resumeLoad")
  <2>1. LargeInv'
    BY <1>f, <1>2, OutsideLarge DEF Begin, SyncPC
  <2>2. TypeOK'
    <3>1. sound' \in BOOLEAN /\ interrupted' \in BOOLEAN
      BY <1>2 DEF Begin
    <3>2. /\ pc' \in SyncPC \cup LargePC /\ bak' \in Seq(Unit) \cup {NoFile}
          /\ caller' \in {"syncFile", "resumeSync"} /\ result' \in {"true", "false", "none"}
      BY <1>2, <1>t DEF Begin, TypeOK, SyncPC
    <3>3. /\ offset' \in Nat /\ transferred' \in Nat /\ unflushed' \in Seq(Unit)
          /\ crashes' \in 0..MaxCrashes /\ changes' \in 0..MaxChanges
      BY <1>2, <1>t DEF Begin, TypeOK
    <3>4. QED
      BY <2>1, <3>1, <3>2, <3>3 DEF TypeOK, LargeInv
  <2>3. RunInv'
    BY <1>2 DEF Begin, RunInv, LargePC, FailureLeavesNothing
  <2>4. SoundInv'
    BY <1>2 DEF Begin, SoundInv, SuccessExact, Returned
  <2>5. BackedInv'
    BY <1>t, <1>2 DEF Begin, BackedInv, LoadProgress
  <2>6. QED
    BY <2>1, <2>2, <2>3, <2>4, <2>5 DEF FileInv
<1>3. CASE SyncRefused
  <2>1. LargeInv'
    BY <1>f, <1>3, OutsideLarge DEF SyncRefused, SyncPC
  <2>2. TypeOK'
    BY <1>t, <1>3, <2>1 DEF SyncRefused, TypeOK, LargeInv, SyncPC
  <2>3. RunInv'
    BY <1>t, <1>3 DEF SyncRefused, RunInv, LargePC, FailureLeavesNothing
  <2>4. SoundInv'
    BY <1>3 DEF SyncRefused, SoundInv, SuccessExact, Returned
  <2>5. BackedInv'
    BY <1>e, <1>3 DEF SyncRefused, BackedInv
  <2>6. QED
    BY <2>1, <2>2, <2>3, <2>4, <2>5 DEF FileInv
<1>4. CASE Resume
  <2>1. LargeInv'
    BY <1>f, <1>4, OutsideLarge DEF Resume, SyncPC
  <2>2. TypeOK'
    <3>1. sound' \in BOOLEAN /\ interrupted' \in BOOLEAN
      <4>1. sound' = HoldsPrefix(LoadProgress) /\ interrupted' = interrupted
        BY <1>4 DEF Resume
      <4>2. HoldsPrefix(LoadProgress) \in BOOLEAN
        BY DEF HoldsPrefix
      <4>3. QED
        BY <1>t, <4>1, <4>2 DEF TypeOK
    <3>2. /\ pc' \in SyncPC \cup LargePC /\ bak' \in Seq(Unit) \cup {NoFile}
          /\ caller' \in {"syncFile", "resumeSync"} /\ result' \in {"true", "false", "none"}
      BY <1>4, <1>t DEF Resume, TypeOK, SyncPC
    <3>3. /\ offset' \in Nat /\ transferred' \in Nat /\ unflushed' \in Seq(Unit)
          /\ crashes' \in 0..MaxCrashes /\ changes' \in 0..MaxChanges
      BY <1>4, <1>t, <1>f DEF Resume, TypeOK
    <3>4. QED
      BY <2>1, <3>1, <3>2, <3>3 DEF TypeOK, LargeInv
  <2>3. RunInv'
    BY <1>t, <1>4 DEF Resume, RunInv, LargePC, FailureLeavesNothing
  <2>4. SoundInv'
    BY <1>4 DEF Resume, SoundInv, SuccessExact, Returned, HoldsPrefix
  <2>5. BackedInv'
    BY <1>t, <1>4 DEF Resume, BackedInv, LoadProgress
  <2>6. QED
    BY <2>1, <2>2, <2>3, <2>4, <2>5 DEF FileInv
<1>5. CASE NothingToResume
  <2>1. LargeInv'
    BY <1>f, <1>5, OutsideLarge DEF NothingToResume, SyncPC
  <2>2. TypeOK'
    BY <1>t, <1>5, <2>1 DEF NothingToResume, TypeOK, LargeInv, SyncPC
  <2>3. RunInv'
    BY <1>t, <1>5 DEF NothingToResume, RunInv, LargePC, FailureLeavesNothing
  <2>4. SoundInv'
    BY <1>5 DEF NothingToResume, SoundInv, SuccessExact, Returned
  <2>5. BackedInv'
    BY <1>5 DEF NothingToResume, BackedInv, LoadProgress
  <2>6. QED
    BY <2>1, <2>2, <2>3, <2>4, <2>5 DEF FileInv
<1>6. CASE Choose
  <2>1. LargeInv'
    BY <1>f, <1>6, OutsideLarge DEF Choose, SyncPC
  <2>2. TypeOK'
    BY <1>t, <1>6, <2>1 DEF Choose, TypeOK, LargeInv, SyncPC, LargePC
  <2>3. RunInv'
    BY <1>t, <1>6 DEF Choose, RunInv, FailureLeavesNothing, Returned
  <2>4. SoundInv'
    BY <1>6 DEF Choose, SoundInv, SuccessExact, Returned
  <2>5. BackedInv'
    BY <1>t, <1>e, <1>6 DEF Choose, BackedInv, LoadProgress
  <2>6. QED
    BY <2>1, <2>2, <2>3, <2>4, <2>5 DEF FileInv
<1>7. QED
  BY <1>1, <1>2, <1>3, <1>4, <1>5, <1>6 DEF SyncFile, ResumeSync

\* handleConflict keeps, keeps and refuses, or moves away what is at the destination.
LEMMA ConflictFileInv ==
  ASSUME FileInv, NEW strategy, HandleConflict(strategy)
  PROVE  FileInv'
<1> USE DEF diskVars, largeVars, runVars, At, Return
<1>t. TypeOK /\ LargeInv /\ RunInv /\ SoundInv /\ BackedInv
  BY DEF FileInv
<1>f. /\ src \in Seq(Unit) /\ src \in Sources /\ Len(src) \in Nat
      /\ dest \in Seq(Unit) \cup {NoFile} /\ prog \in Progress \cup {NoFile, EmptyFile}
      /\ offset \in Nat /\ transferred \in Nat /\ unflushed \in Seq(Unit)
      /\ errors \in 0..MaxErrors /\ errors \in Nat /\ LoadProgress \in Nat
  BY FileFacts
<1>e. IOError => errors' \in 0..MaxErrors /\ errors' # 0
  BY OneMoreError
<1>1. CASE HandleConflict(strategy)
  <2>1. LargeInv'
    BY <1>f, OutsideLarge DEF HandleConflict, SyncPC
  <2>2. TypeOK'
    BY <1>t, <1>f, <2>1 DEF HandleConflict, TypeOK, LargeInv, SyncPC
  <2>3. RunInv'
    BY <1>t DEF HandleConflict, RunInv, LargePC, FailureLeavesNothing
  <2>4. SoundInv'
    BY DEF HandleConflict, SoundInv, SuccessExact, Returned
  <2>5. BackedInv'
    BY <1>t DEF HandleConflict, BackedInv, LoadProgress
  <2>6. QED
    BY <2>1, <2>2, <2>3, <2>4, <2>5 DEF FileInv
<1>2. QED
  BY <1>1

\* transferFile, from the opening of the two files to its return.
LEMMA TransferFileInv ==
  ASSUME FileInv, 
         \/ Open \/ OpenFails \/ CopyBlock \/ WriteFails \/ SaveProgress
         \/ SaveProgressFails \/ SaveInterrupted \/ SaveInterruptedFails
         \/ CopyRest \/ RestLost \/ RemoveProgress \/ Close \/ FlushLost
  PROVE  FileInv'
<1> USE DEF diskVars, largeVars, runVars, At, Return
<1>t. TypeOK /\ LargeInv /\ RunInv /\ SoundInv /\ BackedInv
  BY DEF FileInv
<1>f. /\ src \in Seq(Unit) /\ src \in Sources /\ Len(src) \in Nat
      /\ dest \in Seq(Unit) \cup {NoFile} /\ prog \in Progress \cup {NoFile, EmptyFile}
      /\ offset \in Nat /\ transferred \in Nat /\ unflushed \in Seq(Unit)
      /\ errors \in 0..MaxErrors /\ errors \in Nat /\ LoadProgress \in Nat
  BY FileFacts
<1>e. IOError => errors' \in 0..MaxErrors /\ errors' # 0
  BY OneMoreError
<1>1. CASE Open
  <2>1. LargeInv'
    BY <1>f, <1>1, OutsideLarge DEF Open, Opened, SyncPC
  <2>2. TypeOK'
    BY <1>t, <1>1, <2>1 DEF Open, TypeOK, LargeInv, SyncPC
  <2>3. RunInv'
    BY <1>t, <1>f, <1>1 DEF Open, Opened, RunInv, LargePC, FailureLeavesNothing, Returned
  <2>4. SoundInv'
    <3>1. /\ pc = "open" /\ pc' = "copy" /\ dest' = Opened /\ transferred = offset
          /\ UNCHANGED <<src, transferred, sound>>
      BY <1>t, <1>1 DEF Open, RunInv
    <3>2. ASSUME sound PROVE dest' = SubSeq(src, 1, transferred) /\ transferred <= Len(src)
      <4>1. CASE offset > 0
        <5>1. offset <= Len(src) /\ dest = SubSeq(src, 1, offset)
          BY <1>t, <3>1, <3>2, <4>1 DEF SoundInv, HoldsPrefix
        <5>2. dest # NoFile
          BY <1>f, <5>1
        <5>3. QED
          BY <3>1, <4>1, <5>1, <5>2 DEF Opened
      <4>2. CASE offset = 0
        BY <3>1, <4>2 DEF Opened
      <4>3. QED
        BY <1>f, <4>1, <4>2
    <3>3. QED
      BY <3>1, <3>2 DEF SoundInv, SuccessExact, Returned, HoldsPrefix
  <2>5. BackedInv'
    <3>1. LoadProgress' = LoadProgress
      BY <1>1 DEF Open, LoadProgress
    <3>2. QED
      BY <1>t, <1>f, <1>1, <3>1 DEF Open, Opened, BackedInv, RunInv
  <2>6. QED
    BY <2>1, <2>2, <2>3, <2>4, <2>5 DEF FileInv
<1>2. CASE OpenFails
  <2>1. LargeInv'
    <3>1. pc \in SyncPC /\ pc' \in SyncPC /\ IOError /\ UNCHANGED <<src, prog, largeVars>>
      BY <1>2 DEF OpenFails, TransferFalse, SyncPC
    <3>2. dest' \in Seq(Unit) \cup {NoFile}
      <4>1. Opened \in Seq(Unit) \cup {NoFile}
        BY <1>f DEF Opened
      <4>2. QED
        BY <1>f, <1>2, <4>1 DEF OpenFails
    <3>3. QED
      BY <1>f, <3>1, <3>2, OutsideLarge
  <2>2. TypeOK'
    BY <1>t, <1>2, <2>1 DEF OpenFails, TransferFalse, TypeOK, LargeInv, SyncPC
  <2>3. RunInv'
    BY <1>t, <1>2 DEF OpenFails, TransferFalse, RunInv, LargePC, FailureLeavesNothing, Returned
  <2>4. SoundInv'
    BY <1>2 DEF OpenFails, TransferFalse, SoundInv, SuccessExact, Returned
  <2>5. BackedInv'
    BY <1>e, <1>2 DEF OpenFails, BackedInv
  <2>6. QED
    BY <2>1, <2>2, <2>3, <2>4, <2>5 DEF FileInv
<1>3. CASE CopyBlock
  <2>f. /\ dest \in Seq(Unit) /\ Block \in Seq(Unit) /\ Len(Block) = BufferSize
        /\ dest \o Block \in Seq(Unit) /\ Len(dest \o Block) = Len(dest) + BufferSize
        /\ Len(dest) \in Nat
    <3>1. dest \in Seq(Unit)
      BY <1>t, <1>3 DEF CopyBlock, RunInv
    <3>2. Block \in Seq(Unit) /\ Len(Block) = BufferSize
      BY <1>f, <1>3 DEF CopyBlock, Block, FullBlock
    <3>3. QED
      BY <3>1, <3>2
  <2>1. LargeInv'
    BY <1>f, <1>3, <2>f, OutsideLarge DEF CopyBlock, SyncPC
  <2>2. TypeOK'
    BY <1>t, <1>3, <2>1 DEF CopyBlock, TypeOK, LargeInv, SyncPC
  <2>3. RunInv'
    BY <1>t, <1>3, <2>f DEF CopyBlock, RunInv, LargePC, FailureLeavesNothing, Returned
  <2>4. SoundInv'
    <3>1. /\ pc = "copy" /\ pc' = "saveOpen" /\ dest' = dest \o Block
          /\ transferred' = transferred + BufferSize /\ transferred + BufferSize <= Len(src)
          /\ UNCHANGED <<src, sound>>
      BY <1>3 DEF CopyBlock, FullBlock
    <3>2. ASSUME sound PROVE dest \o Block = SubSeq(src, 1, transferred + BufferSize)
      <4>1. dest = SubSeq(src, 1, transferred)
        BY <1>t, <3>1, <3>2 DEF SoundInv, HoldsPrefix
      <4>2. QED
        BY <1>f, <4>1, PrefixGrows DEF Block
    <3>3. QED
      BY <3>1, <3>2 DEF SoundInv, SuccessExact, Returned, HoldsPrefix
  <2>5. BackedInv'
    <3>1. LoadProgress' = LoadProgress
      BY <1>3 DEF CopyBlock, LoadProgress
    <3>2. /\ pc = "copy" /\ pc' = "saveOpen" /\ dest' = dest \o Block
          /\ transferred' = transferred + BufferSize /\ UNCHANGED <<errors, bak>>
      BY <1>3 DEF CopyBlock
    <3>3. dest' # NoFile /\ Len(dest') = Len(dest) + BufferSize
      BY <2>f, <3>2
    <3>4. QED
      BY <1>t, <1>f, <2>f, <3>1, <3>2, <3>3 DEF BackedInv
  <2>6. QED
    BY <2>1, <2>2, <2>3, <2>4, <2>5 DEF FileInv
<1>4. CASE WriteFails
  <2>f. dest \in Seq(Unit) /\ dest' \in Seq(Unit)
    <3>1. dest \in Seq(Unit)
      BY <1>t, <1>4 DEF WriteFails, RunInv
    <3>2. Block \in Seq(Unit) /\ Len(Block) = BufferSize
      BY <1>f, <1>4 DEF WriteFails, Block, FullBlock
    <3>3. PICK n \in 0..BufferSize - 1 : dest' = dest \o SubSeq(Block, 1, n)
      BY <1>4 DEF WriteFails
    <3>4. SubSeq(Block, 1, n) \in Seq(Unit)
      BY <3>2
    <3>5. QED
      BY <3>1, <3>3, <3>4
  <2>1. LargeInv'
    BY <1>f, <1>4, <2>f, OutsideLarge DEF WriteFails, SyncPC
  <2>2. TypeOK'
    BY <1>t, <1>4, <2>1 DEF WriteFails, TypeOK, LargeInv, SyncPC
  <2>3. RunInv'
    BY <1>t, <1>4, <2>f DEF WriteFails, RunInv, LargePC, FailureLeavesNothing, Returned
  <2>4. SoundInv'
    BY <1>4 DEF WriteFails, SoundInv, SuccessExact, Returned
  <2>5. BackedInv'
    BY <1>e, <1>4 DEF WriteFails, BackedInv
  <2>6. QED
    BY <2>1, <2>2, <2>3, <2>4, <2>5 DEF FileInv
<1>5. CASE SaveProgress
  <2>1. LargeInv'
    BY <1>f, <1>5, OutsideLarge DEF SaveProgress, OpenProgress, Record, Progress, SyncPC
  <2>2. TypeOK'
    BY <1>t, <1>f, <1>5, <2>1 DEF SaveProgress, OpenProgress, Record, Progress, TypeOK,
                                  LargeInv, SyncPC, LargePC
  <2>3. RunInv'
    BY <1>t, <1>5 DEF SaveProgress, OpenProgress, RunInv, LargePC, FailureLeavesNothing,
                      Returned
  <2>4. SoundInv'
    BY <1>t, <1>5 DEF SaveProgress, OpenProgress, SoundInv, SuccessExact, Returned, HoldsPrefix
  <2>5. BackedInv'
    <3>1. LoadProgress' \in {0, transferred}
      <4>1. CASE prog' = EmptyFile
        BY <4>1 DEF LoadProgress
      <4>2. CASE prog' = Record
        BY <4>2 DEF LoadProgress, Record
      <4>3. QED
        BY <1>5, <4>1, <4>2 DEF SaveProgress, OpenProgress
    <3>2. /\ pc \in {"saveOpen", "saveWrite"} /\ pc' \in {"saveWrite", "copy"}
          /\ UNCHANGED <<dest, transferred, errors, bak>>
      BY <1>5 DEF SaveProgress, OpenProgress
    <3>3. dest # NoFile
      BY <1>t, <3>2 DEF RunInv
    <3>4. QED
      BY <1>t, <3>1, <3>2, <3>3 DEF BackedInv
  <2>6. QED
    BY <2>1, <2>2, <2>3, <2>4, <2>5 DEF FileInv
<1>6. CASE SaveProgressFails
  <2>1. LargeInv'
    BY <1>f, <1>6, OutsideLarge DEF SaveProgressFails, SyncPC
  <2>2. TypeOK'
    BY <1>t, <1>f, <1>6, <2>1 DEF SaveProgressFails, TypeOK, LargeInv, SyncPC
  <2>3. RunInv'
    BY <1>t, <1>6 DEF SaveProgressFails, RunInv, LargePC, FailureLeavesNothing, Returned
  <2>4. SoundInv'
    BY <1>t, <1>6 DEF SaveProgressFails, SoundInv, SuccessExact, Returned, HoldsPrefix
  <2>5. BackedInv'
    BY <1>e, <1>6 DEF SaveProgressFails, BackedInv
  <2>6. QED
    BY <2>1, <2>2, <2>3, <2>4, <2>5 DEF FileInv
<1>7. CASE SaveInterrupted
  <2>1. LargeInv'
    BY <1>f, <1>7, OutsideLarge DEF SaveInterrupted, OpenProgress, Record, Progress,
                                    TransferFalse, SyncPC
  <2>2. TypeOK'
    BY <1>t, <1>f, <1>7, <2>1 DEF SaveInterrupted, OpenProgress, Record, Progress,
                                  TransferFalse, TypeOK, LargeInv, SyncPC, LargePC
  <2>3. RunInv'
    BY <1>t, <1>7 DEF SaveInterrupted, OpenProgress, TransferFalse, RunInv, LargePC,
                      FailureLeavesNothing, Returned
  <2>4. SoundInv'
    BY <1>7 DEF SaveInterrupted, OpenProgress, TransferFalse, SoundInv, SuccessExact, Returned
  <2>5. BackedInv'
    BY <1>t, <1>7 DEF SaveInterrupted, OpenProgress, BackedInv
  <2>6. QED
    BY <2>1, <2>2, <2>3, <2>4, <2>5 DEF FileInv
<1>8. CASE SaveInterruptedFails
  <2>1. LargeInv'
    BY <1>f, <1>8, OutsideLarge DEF SaveInterruptedFails, TransferFalse, SyncPC
  <2>2. TypeOK'
    BY <1>t, <1>8, <2>1 DEF SaveInterruptedFails, TransferFalse, TypeOK, LargeInv, SyncPC
  <2>3. RunInv'
    BY <1>t, <1>8 DEF SaveInterruptedFails, TransferFalse, RunInv, LargePC,
                      FailureLeavesNothing, Returned
  <2>4. SoundInv'
    BY <1>8 DEF SaveInterruptedFails, TransferFalse, SoundInv, SuccessExact, Returned
  <2>5. BackedInv'
    BY <1>e, <1>8 DEF SaveInterruptedFails, BackedInv
  <2>6. QED
    BY <2>1, <2>2, <2>3, <2>4, <2>5 DEF FileInv
<1>9. CASE CopyRest
  <2>f. /\ dest \in Seq(Unit) /\ Rest \in Seq(Unit) /\ Len(Rest) \in Nat
        /\ dest \o Rest \in Seq(Unit) /\ Len(dest \o Rest) = Len(dest) + Len(Rest)
        /\ Len(dest) \in Nat
    <3>1. dest \in Seq(Unit)
      BY <1>t, <1>9 DEF CopyRest, RunInv
    <3>2. Rest \in Seq(Unit) /\ Len(Rest) \in Nat
      BY <1>f DEF Rest
    <3>3. QED
      BY <3>1, <3>2
  <2>1. LargeInv'
    BY <1>f, <1>9, <2>f, OutsideLarge DEF CopyRest, SyncPC
  <2>2. TypeOK'
    BY <1>t, <1>9, <2>f, <2>1 DEF CopyRest, TypeOK, LargeInv, SyncPC
  <2>3. RunInv'
    BY <1>9, <2>f DEF CopyRest, RunInv, LargePC, FailureLeavesNothing, Returned
  <2>4. SoundInv'
    <3>1. /\ pc = "copy" /\ pc' = "remove" /\ UNCHANGED <<src, sound>>
          /\ \/ dest' = dest \o Rest /\ unflushed' = unflushed
             \/ dest' = dest /\ unflushed' = Rest
      BY <1>9 DEF CopyRest
    <3>2. unflushed = <<>>
      BY <1>t, <3>1 DEF RunInv
    <3>3. ASSUME sound PROVE dest \o Rest = src
      <4>1. dest = SubSeq(src, 1, transferred) /\ transferred <= Len(src)
        BY <1>t, <3>1, <3>3 DEF SoundInv, HoldsPrefix
      <4>2. QED
        BY <1>f, <4>1, PrefixAndRest DEF Rest
    <3>4. dest' \o unflushed' = dest \o Rest
      BY <3>1, <3>2
    <3>5. QED
      BY <3>1, <3>3, <3>4 DEF SoundInv, SuccessExact, Returned
  <2>5. BackedInv'
    <3>1. LoadProgress' = LoadProgress
      BY <1>9 DEF CopyRest, LoadProgress
    <3>2. pc' = "remove" /\ dest' \in {dest, dest \o Rest} /\ UNCHANGED <<errors, bak>>
      BY <1>9 DEF CopyRest
    <3>3. dest' # NoFile /\ Len(dest') >= Len(dest) /\ Len(dest') \in Nat
      <4>1. CASE dest' = dest
        BY <2>f, <4>1
      <4>2. CASE dest' = dest \o Rest
        <5>1. dest' \in Seq(Unit) /\ Len(dest') = Len(dest) + Len(Rest)
          BY <2>f, <4>2
        <5>2. Len(dest') >= Len(dest) /\ Len(dest') \in Nat
          BY <5>1
        <5>3. QED
          BY <5>1
      <4>3. QED
        BY <3>2, <4>1, <4>2
    <3>4. QED
      BY <1>t, <1>f, <3>1, <3>2, <3>3 DEF BackedInv
  <2>6. QED
    BY <2>1, <2>2, <2>3, <2>4, <2>5 DEF FileInv
<1>10. CASE RestLost
  <2>f. /\ dest \in Seq(Unit) /\ Rest \in Seq(Unit) /\ Len(Rest) \in Nat
        /\ dest \o Rest \in Seq(Unit) /\ Len(dest \o Rest) = Len(dest) + Len(Rest)
        /\ Len(dest) \in Nat
    <3>1. dest \in Seq(Unit)
      BY <1>t, <1>10 DEF RestLost, RunInv
    <3>2. Rest \in Seq(Unit) /\ Len(Rest) \in Nat
      BY <1>f DEF Rest
    <3>3. QED
      BY <3>1, <3>2
  <2>1. LargeInv'
    BY <1>f, <1>10, OutsideLarge DEF RestLost, SyncPC
  <2>2. TypeOK'
    <3>1. sound' \in BOOLEAN /\ interrupted' \in BOOLEAN
      BY <1>10, <1>t DEF RestLost, TypeOK
    <3>2. /\ pc' \in SyncPC \cup LargePC /\ bak' \in Seq(Unit) \cup {NoFile}
          /\ caller' \in {"syncFile", "resumeSync"} /\ result' \in {"true", "false", "none"}
      BY <1>10, <1>t DEF RestLost, TypeOK, SyncPC
    <3>3. /\ offset' \in Nat /\ transferred' \in Nat /\ unflushed' \in Seq(Unit)
          /\ crashes' \in 0..MaxCrashes /\ changes' \in 0..MaxChanges
      BY <1>10, <1>t DEF RestLost, TypeOK
    <3>4. QED
      BY <2>1, <3>1, <3>2, <3>3 DEF TypeOK, LargeInv
  <2>3. RunInv'
    BY <1>10, <2>f DEF RestLost, RunInv, LargePC, FailureLeavesNothing, Returned
  <2>4. SoundInv'
    BY <1>10 DEF RestLost, SoundInv, SuccessExact, Returned
  <2>5. BackedInv'
    BY <1>e, <1>10 DEF RestLost, BackedInv
  <2>6. QED
    BY <2>1, <2>2, <2>3, <2>4, <2>5 DEF FileInv
<1>11. CASE RemoveProgress
  <2>1. LargeInv'
    BY <1>f, <1>11, OutsideLarge DEF RemoveProgress, RemoveProg, SyncPC
  <2>2. TypeOK'
    BY <1>t, <1>11, <2>1 DEF RemoveProgress, RemoveProg, TypeOK, LargeInv, SyncPC
  <2>3. RunInv'
    BY <1>t, <1>11 DEF RemoveProgress, RemoveProg, RunInv, LargePC, FailureLeavesNothing,
                       Returned
  <2>4. SoundInv'
    BY <1>t, <1>11 DEF RemoveProgress, RemoveProg, SoundInv, SuccessExact, Returned
  <2>5. BackedInv'
    BY <1>11 DEF RemoveProgress, RemoveProg, BackedInv, LoadProgress
  <2>6. QED
    BY <2>1, <2>2, <2>3, <2>4, <2>5 DEF FileInv
<1>12. CASE Close
  <2>f. /\ dest \in Seq(Unit) /\ dest \o unflushed \in Seq(Unit)
        /\ Len(dest) \in Nat /\ Len(unflushed) \in Nat
        /\ Len(dest \o unflushed) = Len(dest) + Len(unflushed)
    <3>1. dest \in Seq(Unit)
      BY <1>t, <1>12 DEF Close, RunInv
    <3>2. QED
      BY <1>f, <3>1
  <2>1. LargeInv'
    BY <1>f, <1>12, <2>f, OutsideLarge DEF Close, SyncPC
  <2>2. TypeOK'
    BY <1>t, <1>12, <2>1 DEF Close, TypeOK, LargeInv, SyncPC
  <2>3. RunInv'
    BY <1>12 DEF Close, RunInv, LargePC, FailureLeavesNothing, Returned
  <2>4. SoundInv'
    BY <1>t, <1>12 DEF Close, RunInv, SoundInv, SuccessExact
  <2>5. BackedInv'
    <3>1. LoadProgress' = 0
      BY <1>t, <1>12 DEF Close, RunInv, LoadProgress
    <3>2. QED
      BY <1>12, <3>1 DEF Close, BackedInv
  <2>6. QED
    BY <2>1, <2>2, <2>3, <2>4, <2>5 DEF FileInv
<1>13. CASE FlushLost
  <2>1. LargeInv'
    BY <1>f, <1>13, OutsideLarge DEF FlushLost, SyncPC
  <2>2. TypeOK'
    <3>1. sound' \in BOOLEAN /\ interrupted' \in BOOLEAN
      BY <1>13, <1>t DEF FlushLost, TypeOK
    <3>2. /\ pc' \in SyncPC \cup LargePC /\ bak' \in Seq(Unit) \cup {NoFile}
          /\ caller' \in {"syncFile", "resumeSync"} /\ result' \in {"true", "false", "none"}
      BY <1>13, <1>t DEF FlushLost, TypeOK, SyncPC
    <3>3. /\ offset' \in Nat /\ transferred' \in Nat /\ unflushed' \in Seq(Unit)
          /\ crashes' \in 0..MaxCrashes /\ changes' \in 0..MaxChanges
      BY <1>13, <1>t DEF FlushLost, TypeOK
    <3>4. QED
      BY <2>1, <3>1, <3>2, <3>3 DEF TypeOK, LargeInv
  <2>3. RunInv'
    BY <1>13 DEF FlushLost, RunInv, LargePC, FailureLeavesNothing, Returned
  <2>4. SoundInv'
    BY <1>t, <1>13 DEF FlushLost, RunInv, SoundInv, SuccessExact
  <2>5. BackedInv'
    BY <1>e, <1>13 DEF FlushLost, BackedInv
  <2>6. QED
    BY <2>1, <2>2, <2>3, <2>4, <2>5 DEF FileInv
<1>14. QED
  BY <1>1, <1>2, <1>3, <1>4, <1>5, <1>6, <1>7, <1>8, <1>9, <1>10, <1>11, <1>12, <1>13

\* The place of the caller before and after a step of the chunked copy.
LEMMA LargePlaces ==
  ASSUME LargeStep
  PROVE  /\ pc \in LargePC /\ pc' \in LargePC /\ src' = src
         /\ pc' # "large" /\ (pc' = "alloc" => LargeOpen)
<1> USE DEF LargePC, At, diskVars, largeVars
<1>1. CASE \E i \in DOMAIN chunk : ChunkStep(i)
  BY <1>1 DEF ChunkStep, StartChunk, CopyChunk, CopyFails, StoreError, Count, SaveOpen,
              SaveWrite, SaveFails, Step
<1>2. CASE LargeOpen \/ LargeRefused \/ Preallocate \/ PreallocateFails
  BY <1>2 DEF LargeOpen, LargeRefused, Preallocate, PreallocateFails
<1>3. CASE JoinChunks \/ LargeSucceeds \/ LargeCleanup
  BY <1>3 DEF JoinChunks, LargeSucceeds, LargeCleanup, RemoveDest, RemoveProg
<1>4. QED
  BY <1>1, <1>2, <1>3 DEF LargeStep

\* A step of the chunked copy leaves no record that the destination does not back.
LEMMA LargeBacked ==
  ASSUME FileInv, LargeStep, LargeInv', UNCHANGED bak
  PROVE  BackedInv'
<1> USE DEF diskVars, largeVars, At
<1>t. TypeOK /\ LargeInv /\ RunInv /\ BackedInv
  BY DEF FileInv
<1>f. /\ src \in Seq(Unit) /\ Len(src) \in Nat /\ LoadProgress \in Nat
      /\ dest \in Seq(Unit) \cup {NoFile}
  BY FileFacts
<1>p. pc \in LargePC /\ pc' \in LargePC /\ src' = src /\ pc' # "large"
  BY LargePlaces
<1> SUFFICES ASSUME errors' = 0, bak' = NoFile
             PROVE  /\ LoadProgress' > 0 => dest' # NoFile /\ LoadProgress' <= Len(dest')
                    /\ pc' = "alloc" => LoadProgress' = 0
  BY <1>p DEF BackedInv, LargePC
<1>1. CASE \E i \in DOMAIN chunk : ChunkStep(i)
  <2>1. PICK i \in DOMAIN chunk : ChunkStep(i)
    BY <1>1
  <2>2. pc = "chunks" /\ pc' = "chunks" /\ (errors' = errors \/ IOError)
    BY <2>1 DEF ChunkStep, StartChunk, CopyChunk, CopyFails, StoreError, Count, SaveOpen,
                SaveWrite, SaveFails, Step
  <2>3. errors = 0
    BY <2>2, OneMoreError
  <2>4. /\ dest' # NoFile /\ Len(dest') = Len(src) /\ Len(dest) = Len(src)
    BY <1>t, <1>p, <2>2 DEF LargeInv, CopyInv
  <2>5. CASE SaveWrite(i)
    <3>1. prog'.offset <= Len(src)
      BY <1>t, <2>5, RecordedIsCopied
    <3>2. LoadProgress' \in {0, prog'.offset}
      BY DEF LoadProgress
    <3>3. QED
      BY <2>2, <2>4, <3>1, <3>2
  <2>6. CASE ~SaveWrite(i)
    <3>1. prog' \in {prog, EmptyFile}
      BY <2>1, <2>6 DEF ChunkStep, StartChunk, CopyChunk, CopyFails, StoreError, Count,
                        SaveOpen,
                        SaveFails
    <3>2. LoadProgress' \in {0, LoadProgress}
      BY <3>1 DEF LoadProgress
    <3>3. LoadProgress <= Len(src)
      BY <1>t, <1>f, <2>3, <2>4 DEF BackedInv
    <3>4. QED
      BY <2>2, <2>4, <3>2, <3>3
  <2>7. QED
    BY <2>5, <2>6
<1>2. CASE LargeOpen \/ Preallocate
  <2>1. errors' = errors /\ prog' = prog /\ pc \in {"large", "alloc"}
    BY <1>2 DEF LargeOpen, Preallocate
  <2>2. LoadProgress = 0
    BY <1>t, <2>1 DEF BackedInv
  <2>3. LoadProgress' = LoadProgress
    BY <2>1 DEF LoadProgress
  <2>4. QED
    BY <2>2, <2>3
<1>3. CASE LargeRefused \/ PreallocateFails
  BY <1>3, OneMoreError DEF LargeRefused, PreallocateFails
<1>4. CASE JoinChunks
  <2>1. UNCHANGED <<dest, prog, errors>> /\ pc' # "alloc"
    BY <1>4 DEF JoinChunks
  <2>2. LoadProgress' = LoadProgress
    BY <2>1 DEF LoadProgress
  <2>3. QED
    BY <1>t, <2>1, <2>2 DEF BackedInv
<1>5. CASE LargeSucceeds
  <2>1. prog' = NoFile /\ pc' = "largeDone"
    BY <1>5 DEF LargeSucceeds, RemoveProg
  <2>2. LoadProgress' = 0
    BY <2>1 DEF LoadProgress
  <2>3. QED
    BY <2>2
<1>6. CASE LargeCleanup
  <2>1. errors' = errors /\ pc \in {"largeCleanDest", "largeCleanProg"}
    BY <1>6 DEF LargeCleanup, RemoveDest, RemoveProg
  <2>2. QED
    BY <1>t, <2>1 DEF LargeInv, NoErrorInv
<1>7. QED
  BY <1>1, <1>2, <1>3, <1>4, <1>5, <1>6 DEF LargeStep

\* The chunked copy within syncFile, and its return.
LEMMA LargeFileInv ==
  ASSUME FileInv, Large \/ LargeReturned
  PROVE  FileInv'
<1> USE DEF diskVars, largeVars, runVars, At, Return
<1>t. TypeOK /\ LargeInv /\ RunInv /\ SoundInv /\ BackedInv
  BY DEF FileInv
<1>f. /\ src \in Seq(Unit) /\ src \in Sources /\ Len(src) \in Nat
      /\ dest \in Seq(Unit) \cup {NoFile} /\ prog \in Progress \cup {NoFile, EmptyFile}
      /\ offset \in Nat /\ transferred \in Nat /\ unflushed \in Seq(Unit)
      /\ errors \in 0..MaxErrors /\ errors \in Nat /\ LoadProgress \in Nat
  BY FileFacts
<1>e. IOError => errors' \in 0..MaxErrors /\ errors' # 0
  BY OneMoreError
<1>1. CASE Large
  <2>1. /\ LargeInv' /\ pc \in LargePC /\ pc' \in LargePC /\ src' = src
        /\ UNCHANGED <<bak, caller, offset, transferred, unflushed, sound, interrupted,
                       result, crashes, changes>>
    BY <1>t, <1>1, LargeStepInv, LargePlaces DEF Large
  <2>2. TypeOK'
    BY <1>t, <2>1 DEF TypeOK, LargeInv
  <2>3. RunInv'
    BY <1>t, <2>1 DEF RunInv, LargePC, FailureLeavesNothing, Returned
  <2>4. SoundInv'
    BY <2>1 DEF SoundInv, LargePC, SuccessExact, Returned
  <2>5. BackedInv'
    BY <1>1, <2>1, LargeBacked DEF Large
  <2>6. QED
    BY <2>1, <2>2, <2>3, <2>4, <2>5 DEF FileInv
<1>2. CASE LargeReturned
  <2>f. /\ chunk' = <<>> /\ counted' = <<>> /\ hasError' = FALSE /\ moved' = 0
        /\ UNCHANGED <<src, dest, prog, errors, bak, caller, offset, transferred, unflushed,
                       sound, crashes, changes>>
        /\ \/ /\ pc = "largeDone" /\ pc' = "idle" /\ result' = "true"
              /\ interrupted' = interrupted
           \/ /\ pc \in {"largeRefused", "largeFailed"} /\ pc' = "retryCleanDest"
              /\ interrupted' = TRUE /\ result' = result
    BY <1>2 DEF LargeReturned, NoThreads
  <2>1. LargeInv'
    BY <1>f, <2>f, WithoutThreads DEF SyncPC
  <2>2. TypeOK'
    <3>1. sound' \in BOOLEAN /\ interrupted' \in BOOLEAN
      BY <1>t, <2>f DEF TypeOK
    <3>2. pc' \in SyncPC /\ result' \in {"true", "false", "none"}
      BY <1>t, <2>f DEF TypeOK, SyncPC
    <3>3. QED
      BY <1>t, <2>1, <2>f, <3>2 DEF TypeOK, LargeInv
  <2>3. RunInv'
    BY <1>t, <2>f DEF RunInv, LargePC, FailureLeavesNothing, Returned
  <2>4. SoundInv'
    BY <1>t, <2>f DEF SoundInv, SuccessExact, Returned, LargeInv, EndInv
  <2>5. BackedInv'
    <3>1. LoadProgress' = LoadProgress
      BY <2>f DEF LoadProgress
    <3>2. pc \in {"largeRefused", "largeFailed"} => errors # 0
      BY <1>t DEF LargeInv, NoErrorInv
    <3>3. QED
      BY <1>t, <2>f, <3>1, <3>2 DEF BackedInv
  <2>6. QED
    BY <2>1, <2>2, <2>3, <2>4, <2>5 DEF FileInv
<1>3. QED
  BY <1>1, <1>2

\* cleanupCorruptedFile removes the destination first, then the record.
LEMMA CleanupFileInv ==
  ASSUME FileInv, Cleanup
  PROVE  FileInv'
<1> USE DEF diskVars, largeVars, runVars, At, Return
<1>t. TypeOK /\ LargeInv /\ RunInv /\ SoundInv /\ BackedInv
  BY DEF FileInv
<1>f. /\ src \in Seq(Unit) /\ src \in Sources /\ Len(src) \in Nat
      /\ dest \in Seq(Unit) \cup {NoFile} /\ prog \in Progress \cup {NoFile, EmptyFile}
      /\ offset \in Nat /\ transferred \in Nat /\ unflushed \in Seq(Unit)
      /\ errors \in 0..MaxErrors /\ errors \in Nat /\ LoadProgress \in Nat
  BY FileFacts
<1>e. IOError => errors' \in 0..MaxErrors /\ errors' # 0
  BY OneMoreError
<1>1. CASE Cleanup
  <2>1. LargeInv'
    BY <1>f, OutsideLarge DEF Cleanup, RemoveDest, RemoveProg, SyncPC
  <2>2. TypeOK'
    BY <1>t, <2>1 DEF Cleanup, RemoveDest, RemoveProg, TypeOK, LargeInv, SyncPC
  <2>3. RunInv'
    BY <1>t DEF Cleanup, RemoveDest, RemoveProg, RunInv, LargePC, FailureLeavesNothing, Returned
  <2>4. SoundInv'
    BY <1>t DEF Cleanup, RemoveDest, RemoveProg, RunInv, SoundInv, SuccessExact, Returned
  <2>5. BackedInv'
    BY <1>t DEF Cleanup, RemoveDest, RemoveProg, BackedInv
  <2>6. QED
    BY <2>1, <2>2, <2>3, <2>4, <2>5 DEF FileInv
<1>2. QED
  BY <1>1

\* A kill, and a change of the source between two runs.
LEMMA OutsideFileInv ==
  ASSUME FileInv, Crash \/ ChangeSource
  PROVE  FileInv'
<1> USE DEF diskVars, largeVars, runVars, At, Return
<1>t. TypeOK /\ LargeInv /\ RunInv /\ SoundInv /\ BackedInv
  BY DEF FileInv
<1>f. /\ src \in Seq(Unit) /\ src \in Sources /\ Len(src) \in Nat
      /\ dest \in Seq(Unit) \cup {NoFile} /\ prog \in Progress \cup {NoFile, EmptyFile}
      /\ offset \in Nat /\ transferred \in Nat /\ unflushed \in Seq(Unit)
      /\ errors \in 0..MaxErrors /\ errors \in Nat /\ LoadProgress \in Nat
  BY FileFacts
<1>e. IOError => errors' \in 0..MaxErrors /\ errors' # 0
  BY OneMoreError
<1>1. CASE Crash
  <2>f. /\ chunk' = <<>> /\ counted' = <<>> /\ hasError' = FALSE /\ moved' = 0
        /\ pc' = "idle" /\ result' = "none" /\ unflushed' = <<>> /\ transferred' = 0
        /\ offset' = 0 /\ caller' = "syncFile" /\ sound' = TRUE /\ interrupted' = FALSE
        /\ crashes' = crashes + 1 /\ crashes < MaxCrashes
        /\ UNCHANGED <<src, dest, prog, errors, bak, changes>>
    BY <1>1 DEF Crash, NoThreads
  <2>1. LargeInv'
    BY <1>f, <2>f, WithoutThreads DEF SyncPC
  <2>2. TypeOK'
    <3>1. sound' \in BOOLEAN /\ interrupted' \in BOOLEAN
      BY <1>1 DEF Crash
    <3>2. /\ pc' \in SyncPC \cup LargePC /\ bak' \in Seq(Unit) \cup {NoFile}
          /\ caller' \in {"syncFile", "resumeSync"} /\ result' \in {"true", "false", "none"}
      BY <1>1, <1>t DEF Crash, TypeOK, SyncPC
    <3>3. /\ offset' \in Nat /\ transferred' \in Nat /\ unflushed' \in Seq(Unit)
          /\ crashes' \in 0..MaxCrashes /\ changes' \in 0..MaxChanges
      BY <1>1, <1>t DEF Crash, TypeOK
    <3>4. QED
      BY <2>1, <3>1, <3>2, <3>3 DEF TypeOK, LargeInv
  <2>3. RunInv'
    BY <2>f DEF RunInv, FailureLeavesNothing
  <2>4. SoundInv'
    BY <2>f DEF SoundInv, SuccessExact, Returned
  <2>5. BackedInv'
    <3>1. LoadProgress' = LoadProgress
      BY <2>f DEF LoadProgress
    <3>2. QED
      BY <1>t, <2>f, <3>1 DEF BackedInv
  <2>6. QED
    BY <2>1, <2>2, <2>3, <2>4, <2>5 DEF FileInv
<1>2. CASE ChangeSource
  <2>1. LargeInv'
    BY <1>f, <1>2, OutsideLarge DEF ChangeSource, SyncPC
  <2>2. TypeOK'
    BY <1>t, <1>2, <2>1 DEF ChangeSource, TypeOK, LargeInv
  <2>3. RunInv'
    BY <1>t, <1>2 DEF ChangeSource, RunInv, FailureLeavesNothing, Returned
  <2>4. SoundInv'
    BY <1>2 DEF ChangeSource, SoundInv, SuccessExact, Returned
  <2>5. BackedInv'
    BY <1>t, <1>2 DEF ChangeSource, BackedInv, LoadProgress
  <2>6. QED
    BY <2>1, <2>2, <2>3, <2>4, <2>5 DEF FileInv
<1>3. QED
  BY <1>1, <1>2

-----------------------------------------------------------------------------

\* Every step of any run keeps the invariant.
LEMMA NextFileInv ==
  ASSUME FileInv, [Next]_vars
  PROVE  FileInv'
<1>1. CASE Next
  BY <1>1, EntryFileInv, ConflictFileInv, TransferFileInv, LargeFileInv, CleanupFileInv,
     OutsideFileInv
  DEF Next, Run
<1>2. CASE UNCHANGED vars
  <2> USE DEF vars, transferVars, runVars
  <2>1. LargeTypeOK' /\ Chunks' = Chunks
    BY <1>2 DEF FileInv, TypeOK, LargeTypeOK, Chunks
  <2>2. ThreadsInv' /\ EndInv' /\ NoErrorInv'
    BY <1>2, <2>1 DEF FileInv, LargeInv, ThreadsInv, EndInv, NoErrorInv,
                      LargeFailureLeavesNothing
  <2>3. \A j : ChunkUnits(j)' = ChunkUnits(j)
    BY <1>2 DEF ChunkUnits, ChunkLen
  <2>4. CopyInv'
    BY <1>2, <2>3 DEF FileInv, LargeInv, CopyInv
  <2>5. CountInv'
    <3>1. CountedUnits' = CountedUnits
      BY <1>2, <2>3 DEF CountedUnits
    <3>2. QED
      BY <1>2, <3>1 DEF FileInv, LargeInv, CountInv
  <2>6. TypeOK'
    BY <1>2, <2>1 DEF FileInv, TypeOK
  <2>7. RunInv'
    BY <1>2 DEF FileInv, RunInv, FailureLeavesNothing, Returned
  <2>8. SoundInv'
    BY <1>2 DEF FileInv, SoundInv, SuccessExact, Returned, HoldsPrefix
  <2>9. BackedInv'
    BY <1>2 DEF FileInv, BackedInv, LoadProgress
  <2>10. QED
    BY <2>1, <2>2, <2>4, <2>5, <2>6, <2>7, <2>8, <2>9 DEF FileInv, LargeInv
<1>3. QED
  BY <1>1, <1>2

\* The invariant holds in every reachable state of every sequence of runs.
THEOREM FileInvariant == Spec => []FileInv
<1>1. FileInv /\ [Next]_vars => FileInv'
  BY NextFileInv
<1>2. QED
  BY <1>1, InitFileInv, PTL DEF Spec

\* The variables of a run, of the chunk threads and of the disk stay in their sets.
THEOREM TypeCorrect == Spec => []TypeOK
<1>1. FileInv => TypeOK
  BY DEF FileInv
<1>2. QED
  BY <1>1, FileInvariant, PTL

\* A call of syncFile or resumeSync that returns true has made an exact copy and
\* left no progress file, whatever happened before, if the run was sound.
THEOREM TrueIsExact == Spec => []SuccessExact
<1>1. FileInv => SuccessExact
  BY DEF FileInv, SoundInv
<1>2. QED
  BY <1>1, FileInvariant, PTL

\* A syncFile whose transfers have failed leaves no record that a later run would
\* wrongly resume from.
THEOREM FalseIsHarmless == Spec => []FailureHarmless
<1>1. FileInv => FailureHarmless
  <2> SUFFICES ASSUME FileInv, Returned("false"), caller = "syncFile", interrupted
               PROVE  LoadProgress = 0
    BY DEF FailureHarmless
  <2>1. prog = NoFile
    BY DEF FileInv, RunInv, FailureLeavesNothing
  <2>2. QED
    BY <2>1 DEF LoadProgress
<1>2. QED
  BY <1>1, FileInvariant, PTL

\* Without I/O errors and renames, what loadProgress reads is at the destination,
\* wherever the program was killed.
THEOREM RecordIsBacked == Spec => []ProgressBacked
<1>1. FileInv => ProgressBacked
  BY DEF FileInv, BackedInv, ProgressBacked
<1>2. QED
  BY <1>1, FileInvariant, PTL

\* transferLargeFileAsync returns true only for an exact copy, and false, once it has
\* truncated the destination, only after it has removed both files.
THEOREM LargeIsAtomic == Spec => []LargeAllOrNothing
<1>1. FileInv => LargeAllOrNothing
  BY DEF FileInv, LargeInv, EndInv, LargeExact, LargeAllOrNothing
<1>2. QED
  BY <1>1, FileInvariant, PTL

\* The record that a chunk thread writes never counts more units than are copied,
\* although the threads overwrite one another's records without a lock.
THEOREM NeverAhead == Spec => ProgressNeverAhead
<1>1. ASSUME FileInv, [Next]_vars
      PROVE  [pc = "chunks" /\ prog' # prog /\ prog' \in Progress
                => prog'.offset <= Cardinality(Copied)]_transferVars
  <2> SUFFICES ASSUME pc = "chunks", prog' # prog, prog' \in Progress
               PROVE  prog'.offset <= Cardinality(Copied)
    OBVIOUS
  <2> USE DEF diskVars, largeVars, runVars, At
  <2>1. CASE \E i \in DOMAIN chunk : SaveWrite(i)
    <3>1. PICK i \in DOMAIN chunk : SaveWrite(i)
      BY <2>1
    <3>2. LargeInv
      BY <1>1 DEF FileInv
    <3>3. QED
      BY <3>1, <3>2, RecordedIsCopied
  <2>2. CASE \E i \in DOMAIN chunk : ChunkStep(i) /\ ~SaveWrite(i)
    <3>1. prog' \in {prog, EmptyFile}
      BY <2>2 DEF ChunkStep, StartChunk, CopyChunk, CopyFails, StoreError, Count, SaveOpen,
                  SaveFails
    <3>2. QED
      BY <3>1
  <2>3. CASE LargeStep /\ ~\E i \in DOMAIN chunk : ChunkStep(i)
    <3>1. JoinChunks
      BY <2>3 DEF LargeStep, LargeOpen, LargeRefused, Preallocate, PreallocateFails,
                  LargeSucceeds, LargeCleanup, RemoveDest, RemoveProg
    <3>2. QED
      BY <3>1 DEF JoinChunks
  <2>4. CASE ~LargeStep
    <3>1. CASE Crash \/ UNCHANGED vars
      BY <3>1 DEF Crash, vars, transferVars
    <3>2. CASE Next /\ ~Crash
      <4>1. ~(SyncFile \/ ResumeSync \/ SyncRefused \/ Resume \/ NothingToResume \/ Choose
              \/ ChangeSource \/ \E strategy \in Strategies : HandleConflict(strategy))
        BY DEF SyncFile, ResumeSync, Begin, HandleConflict, SyncRefused, Resume,
               NothingToResume, Choose, ChangeSource
      <4>2. ~(Open \/ OpenFails \/ CopyBlock \/ WriteFails \/ SaveProgress \/ SaveProgressFails
              \/ SaveInterrupted \/ SaveInterruptedFails)
        BY DEF Open, OpenFails, CopyBlock, WriteFails, SaveProgress, OpenProgress,
               SaveProgressFails, SaveInterrupted, SaveInterruptedFails
      <4>3. ~(CopyRest \/ RestLost \/ RemoveProgress \/ Close \/ FlushLost \/ LargeReturned
              \/ Cleanup)
        BY DEF CopyRest, RestLost, RemoveProgress, RemoveProg, RemoveDest, Close, FlushLost,
               LargeReturned, Cleanup
      <4>4. QED
        BY <2>4, <3>2, <4>1, <4>2, <4>3 DEF Next, Run, Large
    <3>3. QED
      BY <1>1, <3>1, <3>2
  <2>5. QED
    BY <2>1, <2>2, <2>3, <2>4
<1>2. QED
  BY <1>1, FileInvariant, PTL DEF Spec, ProgressNeverAhead
=============================================================================
