------------------------------- MODULE FileSync -------------------------------
(***************************************************************************)
(* The synchronisation of one file to a local destination:                 *)
(* FileSync::syncFile (the path taken by SyncManager::syncLocal) and       *)
(* FileSync::resumeSync (the path taken by the option -r), with the block  *)
(* copy of transferFile and the chunked copy of LargeTransfer, over any    *)
(* number of runs of the program. A run may be killed between any two      *)
(* steps; what is on the disk then is what the next run starts from.       *)
(*                                                                         *)
(* Permissions, the speed limit and logging are left out. The source file  *)
(* changes only between runs.                                              *)
(***************************************************************************)
EXTENDS LargeTransfer

CONSTANTS BufferSize,      \* bufferSize of transferFile, in units
          LargeThreshold,  \* LARGE_FILE_THRESHOLD, in units
          Strategies,      \* conflict strategies of the runs (option -c)
          PathHasSpace,    \* whether the destination path contains white space
          MaxCrashes,      \* bound on kills in a behaviour
          MaxChanges       \* bound on changes of the source in a behaviour

ASSUME FileSyncAssumption ==
  /\ BufferSize \in Nat \ {0}
  /\ LargeThreshold \in Nat \ {0}
  /\ Strategies \subseteq {"overwrite", "skip", "rename"}
  /\ PathHasSpace \in BOOLEAN
  /\ MaxCrashes \in Nat /\ MaxChanges \in Nat

VARIABLES
  bak,          \* content of <dest>.bak, or NoFile
  caller,       \* "syncFile" or "resumeSync"
  offset,       \* parameter of the current transferFile
  transferred,  \* its local variable, also the read position in the source
  unflushed,    \* last units, still in the ofstream's buffer
  result,       \* value returned by the last call; "none" while there is none
  crashes, changes,
  sound,        \* history: this run has resumed only from a true prefix of the
                \* source and no unchecked write of it has failed
  interrupted   \* history: a transfer of this run has failed

runVars == <<caller, offset, transferred, unflushed, sound,
             interrupted>>
vars == <<transferVars, bak, runVars, result, crashes, changes>>

SyncPC == {"idle", "conflict", "load", "resumeLoad", "open", "copy", "saveOpen",
           "saveWrite", "failOpen", "failWrite", "remove", "close", "choose",
           "retryCleanDest", "retryCleanProg", "cleanDest", "cleanProg"}

TypeOK ==
  /\ LargeTypeOK
  /\ pc \in SyncPC \cup LargePC
  /\ bak \in Seq(Unit) \cup {NoFile}
  /\ caller \in {"syncFile", "resumeSync"}
  /\ offset \in Nat /\ transferred \in Nat
  /\ unflushed \in Seq(Unit)
  /\ result \in {"true", "false", "none"}
  /\ crashes \in 0..MaxCrashes /\ changes \in 0..MaxChanges
  /\ sound \in BOOLEAN /\ interrupted \in BOOLEAN

Init ==
  /\ src \in Sources /\ dest \in OldFiles /\ prog = NoFile /\ bak = NoFile
  /\ pc = "idle" /\ result = "none"
  /\ chunk = <<>> /\ counted = <<>> /\ hasError = FALSE /\ moved = 0
  /\ caller = "syncFile"
  /\ offset = 0 /\ transferred = 0 /\ unflushed = <<>>
  /\ errors = 0 /\ crashes = 0 /\ changes = 0
  /\ sound = TRUE /\ interrupted = FALSE

Return(r) == pc' = "idle" /\ result' = r

\* the threads of the chunked copy are gone
NoThreads == chunk' = <<>> /\ counted' = <<>> /\ hasError' = FALSE /\ moved' = 0

-----------------------------------------------------------------------------
(* The two entry points *)

Begin(who, to) ==
  /\ At("idle", to)
  /\ caller' = who
  /\ offset' = 0 /\ transferred' = 0 /\ unflushed' = <<>>
  /\ result' = "none" /\ sound' = TRUE /\ interrupted' = FALSE
  /\ UNCHANGED <<diskVars, largeVars, errors, bak, crashes, changes>>

SyncFile == Begin("syncFile", "conflict")
ResumeSync == Begin("resumeSync", "resumeLoad")

\* Variant of HandleConflict: overwrite does as skip.
ConflictRefused(strategy) ==
  /\ pc = "conflict"
  /\ \/ dest = NoFile /\ pc' = "load" /\ UNCHANGED result
     \/ dest # NoFile /\ Return("false")
  /\ UNCHANGED <<diskVars, largeVars, errors, bak, runVars, crashes, changes>>

\* handleConflict with the conflictStrategy of this run, if the destination exists
HandleConflict(strategy) ==
  /\ pc = "conflict"
  /\ \/ /\ dest = NoFile \/ strategy = "overwrite"
        /\ pc' = "load" /\ UNCHANGED <<dest, bak, result>>
     \/ /\ dest # NoFile /\ strategy = "skip"
        /\ Return("false") /\ UNCHANGED <<dest, bak>>
     \/ /\ dest # NoFile /\ strategy = "rename"
        /\ bak' = dest /\ dest' = NoFile
        /\ pc' = "load" /\ UNCHANGED result
  /\ UNCHANGED <<src, prog, largeVars, errors, runVars, crashes, changes>>

\* the source is missing, createDirectory fails, or rename() fails
SyncRefused ==
  /\ pc = "conflict"
  /\ IOError
  /\ Return("false")
  /\ UNCHANGED <<diskVars, largeVars, bak, runVars, crashes, changes>>

\* loadProgress: what it reads back as progress.offset, 0 if it does not read
\* the recorded path (operator>> stops at white space) or both numbers
LoadProgress ==
  IF prog \in Progress /\ ~PathHasSpace /\ prog.total > 0 THEN prog.offset ELSE 0

\* the destination holds exactly the first n units of the source
HoldsPrefix(n) == n <= Len(src) /\ dest = SubSeq(src, 1, n)

Resume ==
  /\ LoadProgress > 0
  /\ pc \in {"load", "resumeLoad"} /\ pc' = "open"
  /\ offset' = LoadProgress /\ transferred' = LoadProgress
  /\ sound' = HoldsPrefix(LoadProgress)
  /\ UNCHANGED <<diskVars, largeVars, errors, bak, caller, unflushed,
                 interrupted, result, crashes, changes>>

NothingToResume ==
  /\ LoadProgress = 0
  /\ \/ At("load", "choose") /\ UNCHANGED result
     \/ pc = "resumeLoad" /\ Return("false")
  /\ UNCHANGED <<diskVars, largeVars, errors, bak, runVars, crashes, changes>>

\* syncFile, after no or a failed resume; a stat that fails counts as small
Choose ==
  /\ \/ /\ At("choose", IF Len(src) >= LargeThreshold THEN "large" ELSE "open")
        /\ UNCHANGED errors
     \/ At("choose", "open") /\ IOError
  /\ offset' = 0 /\ transferred' = 0 /\ sound' = TRUE
  /\ UNCHANGED <<diskVars, largeVars, bak, caller, unflushed,
                 interrupted, result, crashes, changes>>

-----------------------------------------------------------------------------
(* transferFile(srcPath, destPath, offset) *)

\* Variant of TransferFalse: no cleanup.
TransferFalseReturns ==
  \/ caller = "resumeSync" /\ Return("false")
  \/ caller = "syncFile" /\ offset > 0 /\ pc' = "choose" /\ UNCHANGED result
  \/ caller = "syncFile" /\ offset = 0 /\ Return("false")

\* where its "return false" leads
TransferFalse ==
  \/ caller = "resumeSync" /\ Return("false")
  \/ caller = "syncFile" /\ offset > 0 /\ pc' = "choose" /\ UNCHANGED result
  \/ caller = "syncFile" /\ offset = 0 /\ pc' = "cleanDest" /\ UNCHANGED result

\* Variant of Opened: always app.
OpenedAppend == IF dest # NoFile THEN dest ELSE <<>>

\* the destination after the ofstream constructor: app or trunc
Opened == IF offset > 0 /\ dest # NoFile THEN dest ELSE <<>>

Open ==
  /\ At("open", "copy")
  /\ dest' = Opened
  /\ UNCHANGED <<src, prog, largeVars, errors, bak, runVars, result, crashes,
                 changes>>

\* one of the two files does not open; the destination is opened, and so
\* emptied, even when the source is the one
OpenFails ==
  /\ pc = "open"
  /\ IOError
  /\ dest' \in {dest, Opened}
  /\ TransferFalse
  /\ interrupted' = TRUE
  /\ UNCHANGED <<src, prog, largeVars, bak, caller, offset, transferred, unflushed,
                 sound, crashes, changes>>

FullBlock == transferred + BufferSize <= Len(src)
Block == SubSeq(src, transferred + 1, transferred + BufferSize)

\* one full read() and write()
CopyBlock ==
  /\ FullBlock
  /\ At("copy", "saveOpen")
  /\ dest' = dest \o Block
  /\ transferred' = transferred + BufferSize
  /\ UNCHANGED <<src, prog, largeVars, errors, bak, caller, offset,
                 unflushed, sound, interrupted, result, crashes, changes>>

\* the write fails after n units of the block
WriteFails ==
  /\ FullBlock
  /\ At("copy", "failOpen")
  /\ IOError
  /\ \E n \in 0..BufferSize - 1 : dest' = dest \o SubSeq(Block, 1, n)
  /\ interrupted' = TRUE
  /\ UNCHANGED <<src, prog, largeVars, bak, caller, offset,
                 transferred, unflushed, sound, result, crashes, changes>>

\* saveProgress: truncation, then the record; a failure of either is silent
OpenProgress(from, to) ==
  /\ At(from, to)
  /\ prog' = EmptyFile
  /\ UNCHANGED <<src, dest, largeVars, errors, bak, runVars, result, crashes,
                 changes>>

\* Variants of Record: the end of the block to be written next, or what is left
\* with the wrong sign.
RecordNext == [offset |-> transferred + BufferSize, total |-> Len(src)]
RecordRemaining == [offset |-> transferred - Len(src), total |-> Len(src)]

Record == [offset |-> transferred, total |-> Len(src)]

SaveProgress ==
  \/ OpenProgress("saveOpen", "saveWrite")
  \/ /\ At("saveWrite", "copy")
     /\ prog' = Record
     /\ UNCHANGED <<src, dest, largeVars, errors, bak, runVars, result,
                    crashes, changes>>

SaveProgressFails ==
  /\ At("saveOpen", "copy") \/ At("saveWrite", "copy")
  /\ IOError
  /\ UNCHANGED <<diskVars, largeVars, bak, runVars, result, crashes, changes>>

\* saveProgress after the failed write, and return false
SaveInterrupted ==
  \/ OpenProgress("failOpen", "failWrite")
  \/ /\ pc = "failWrite"
     /\ prog' = Record
     /\ TransferFalse
     /\ UNCHANGED <<src, dest, largeVars, errors, bak, runVars, crashes, changes>>

SaveInterruptedFails ==
  /\ pc \in {"failOpen", "failWrite"}
  /\ IOError
  /\ TransferFalse
  /\ UNCHANGED <<diskVars, largeVars, bak, runVars, crashes, changes>>

Rest == SubSeq(src, transferred + 1, Len(src))

\* Variant of CopyRest: no end of file is seen behind the end of the source.
CopyRestWithin ==
  /\ ~FullBlock /\ transferred <= Len(src)
  /\ At("copy", "remove")
  /\ \/ dest' = dest \o Rest /\ UNCHANGED unflushed
     \/ unflushed' = Rest /\ UNCHANGED dest
  /\ transferred' = transferred + Len(Rest)
  /\ UNCHANGED <<src, prog, largeVars, errors, bak, caller, offset,
                 sound, interrupted, result, crashes, changes>>

\* the unchecked write of the last, short read: it reaches the file or stays
\* in the ofstream's buffer, according to its length
CopyRest ==
  /\ ~FullBlock
  /\ At("copy", "remove")
  /\ \/ dest' = dest \o Rest /\ UNCHANGED unflushed
     \/ unflushed' = Rest /\ UNCHANGED dest
  /\ transferred' = transferred + Len(Rest)
  /\ UNCHANGED <<src, prog, largeVars, errors, bak, caller, offset,
                 sound, interrupted, result, crashes, changes>>

RestLost ==
  /\ Rest # <<>> /\ ~FullBlock
  /\ At("copy", "remove")
  /\ IOError
  /\ sound' = FALSE
  /\ transferred' = transferred + Len(Rest)
  /\ UNCHANGED <<diskVars, largeVars, bak, caller, offset, unflushed,
                 interrupted, result, crashes, changes>>

RemoveProgress ==
  /\ RemoveProg("remove", "close")
  /\ UNCHANGED <<bak, runVars, result, crashes, changes>>

\* the ofstream's destructor flushes, and both callers return true
Close ==
  /\ pc = "close" /\ Return("true")
  /\ dest' = dest \o unflushed
  /\ unflushed' = <<>>
  /\ UNCHANGED <<src, prog, largeVars, errors, bak, caller, offset,
                 transferred, sound, interrupted, crashes, changes>>

FlushLost ==
  /\ pc = "close" /\ Return("true")
  /\ unflushed # <<>> /\ IOError
  /\ unflushed' = <<>> /\ sound' = FALSE
  /\ UNCHANGED <<diskVars, largeVars, bak, caller, offset,
                 transferred, interrupted, crashes, changes>>

-----------------------------------------------------------------------------
(* The rest of syncFile *)

Large ==
  /\ LargeStep
  /\ UNCHANGED <<bak, runVars, result, crashes, changes>>

LargeReturned ==
  /\ \/ /\ pc = "largeDone" /\ Return("true")
        /\ UNCHANGED interrupted
     \/ /\ At("largeRefused", "retryCleanDest") \/ At("largeFailed", "retryCleanDest")
        /\ interrupted' = TRUE /\ UNCHANGED result
  /\ NoThreads
  /\ UNCHANGED <<diskVars, errors, bak, caller, offset, transferred, unflushed,
                 sound, crashes, changes>>

\* cleanupCorruptedFile before the fallback to transferFile, and at the end
Cleanup ==
  /\ \/ RemoveDest("retryCleanDest", "retryCleanProg") /\ UNCHANGED result
     \/ RemoveProg("retryCleanProg", "open") /\ UNCHANGED result
     \/ RemoveDest("cleanDest", "cleanProg") /\ UNCHANGED result
     \/ RemoveProg("cleanProg", "idle") /\ result' = "false"
  /\ UNCHANGED <<bak, runVars, crashes, changes>>

-----------------------------------------------------------------------------
(* The environment *)

\* the process is killed: its memory is lost, the disk stays
Crash ==
  /\ pc # "idle" /\ crashes < MaxCrashes
  /\ crashes' = crashes + 1
  /\ Return("none")
  /\ NoThreads
  /\ unflushed' = <<>> /\ transferred' = 0 /\ offset' = 0
  /\ caller' = "syncFile" /\ sound' = TRUE /\ interrupted' = FALSE
  /\ UNCHANGED <<diskVars, errors, bak, changes>>

ChangeSource ==
  /\ pc = "idle" /\ changes < MaxChanges
  /\ changes' = changes + 1
  /\ src' \in Sources \ {src}
  /\ result' = "none"
  /\ UNCHANGED <<dest, prog, pc, largeVars, errors, bak, runVars, crashes>>

Run ==
  \/ \E strategy \in Strategies : HandleConflict(strategy)
  \/ SyncRefused \/ Resume \/ NothingToResume \/ Choose
  \/ Open \/ OpenFails \/ CopyBlock \/ WriteFails \/ SaveProgress
  \/ SaveProgressFails \/ SaveInterrupted \/ SaveInterruptedFails
  \/ CopyRest \/ RestLost \/ RemoveProgress \/ Close \/ FlushLost
  \/ Large \/ LargeReturned \/ Cleanup

Next == SyncFile \/ ResumeSync \/ Run \/ Crash \/ ChangeSource

Spec == Init /\ [][Next]_vars

\* A process that is not killed runs on, and the user runs the sync again and
\* again and never stops trying with overwrite, whatever -r runs and runs with
\* other strategies come between.
FairSpec ==
  /\ Spec
  /\ WF_vars(Run) /\ SF_vars(SyncFile) /\ SF_vars(HandleConflict("overwrite"))

-----------------------------------------------------------------------------
(* Properties *)

Returned(r) == pc = "idle" /\ result = r

\* A call that returns true leaves no progress record that could mislead a later
\* one, and has made the destination equal to the source, over any history of
\* kills, I/O errors and source changes, provided that it has not appended to
\* something else than the first offset units of the source and that no
\* unchecked write has failed.
SuccessExact ==
  Returned("true") => prog = NoFile /\ (sound => dest = src)

\* A syncFile that returns false because its transfers have failed, by a write, a
\* chunk or an open, misleads no later run: what loadProgress would read then is
\* nothing, or the length of what the destination holds of the source. A failed
\* write may leave a part of a block behind the recorded offset; it is the cleanup
\* that keeps the next run from appending to it.
FailureHarmless ==
  Returned("false") /\ caller = "syncFile" /\ interrupted
    => LoadProgress = 0 \/ HoldsPrefix(LoadProgress)

\* As long as there was no I/O error and no rename of the destination, what
\* loadProgress would read never promises more than the destination holds,
\* whenever the process is killed, in a chunked transfer as well as in a plain one.
ProgressBacked ==
  errors = 0 /\ bak = NoFile /\ LoadProgress > 0
    => dest # NoFile /\ LoadProgress <= Len(dest)

\* Every call returns.
CallReturns == pc # "idle" ~> pc = "idle"

\* Running the tool again repairs whatever a kill, an I/O error, a wrong resume
\* or a change of the source has left behind.
Heals == []<>(pc = "idle" /\ dest = src)

\* "When the writing of a file is interrupted its offset is saved, and the next
\* start continues from the break point" (README.md:181): a call that a failed
\* write has ended leaves a record of what it had transferred.
OffsetSaved ==
  Returned("false") /\ interrupted /\ transferred > 0
    => LoadProgress = transferred

\* "After a network failure or an abnormal exit, a restart continues from the
\* break point" (README.md:9): a resumed transfer that returns true has
\* completed the copy.
ResumeCompletes == Returned("true") /\ offset > 0 => dest = src

\* At least one of the two promises is kept in every behaviour. A counterexample
\* breaks both: it forgets the offset of an interrupted write (README.md:181), and
\* continues a killed run from a wrong break point (README.md:9).
BreakPointKept == []OffsetSaved \/ []ResumeCompletes

=============================================================================
