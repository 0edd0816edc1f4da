------------------------------- MODULE PartFile -------------------------------
(***************************************************************************)
(* A download (CPartFile) as the main thread sees it: the gap list, the    *)
(* buffered data, the hashing of finished parts with ICH and AICH          *)
(* recovery, the .part.met file, and completion.  The write thread, the    *)
(* hashing thread and the thread that moves the finished file interleave   *)
(* with it; the program may crash and load the .part.met again.            *)
(*                                                                         *)
(* The file is cut into blocks, the units in which data arrives; a block   *)
(* belongs to one part (PARTSIZE).  The main thread runs one handler at a  *)
(* time; `pc' is the place in it where another thread or a crash can make  *)
(* a difference.                                                           *)
(***************************************************************************)
EXTENDS Integers, FiniteSets

CONSTANTS NumBlocks,  \* blocks of the file
          Part,       \* parts of the file
          PartOf,     \* [Block -> Part]
          Events,     \* which events of the environment may happen
          MaxBad,     \* bound on the corrupt blocks that arrive
          MaxCrash    \* bound on the crashes

Block == 1..NumBlocks

EventKinds == {"pause",  \* the user pauses and resumes the file
               "stop",   \* the user or the scheduler stops it
               "alloc",  \* preference: allocate the full file at once
               "space",  \* not enough disk space for a flush
               "error",  \* a write is reported as failed
               "aich",   \* AICH recovery data is requested and arrives
               "met",    \* a step of writing the .part.met fails
               "hash",   \* the hashing thread cannot read the file
               "move"}   \* the finished file cannot be moved

ASSUME FileAssumption ==
  /\ NumBlocks \in Nat \ {0}
  /\ PartOf \in [Block -> Part]
  /\ Part \cap {"idle", "complete"} = {}
ASSUME EventAssumption ==
  /\ Events \subseteq EventKinds
  /\ MaxBad \in Nat /\ MaxCrash \in Nat

VARIABLES
  gaps,       \* m_gaplist: the missing blocks
  flushed,    \* m_BufferedData_list: state of a buffered block
  data,       \* content of a block's buffer
  disk,       \* content of the .part file
  onDisk,     \* buffered blocks whose bytes have reached the .part file
  length,     \* length of the .part file, in blocks
  extra,      \* the extra byte that allocates the file is being written
  changed,    \* m_aChangedPart
  corrupted,  \* corrupted_list
  aich,       \* parts with an AICH request on its way
  status,     \* status: the part of EPartFileStatus that the code stores
  paused,     \* m_paused or m_insufficient
  compError,  \* m_bCompletionError
  handle,     \* m_hpartfile is open
  met,        \* the .part.met file
  tmp,        \* the .part.met.backup file (PARTMET_TMP_EXT)
  hashing,    \* hashing thread: "none", "run", "done"
  hashOk,     \* parts that the hashing thread found to be good
  mover,      \* completion thread: "none", "start", "move", "moved", "done"
  pc,         \* main thread
  todo,       \* blocks the scan of FlushBuffer has left
  after,      \* what FlushBuffer returns to: "idle", "complete" (the end
              \* of CompleteFile(true)), or the AICH recovery of a part
  ret,        \* where SavePartFile returns to
  recovered,  \* m_partmetfilename has the extension of a .backup file
  holes,      \* the `wrong' blocks of the .part.met that was loaded
  bads, crashes

buffer == <<flushed, data, onDisk>>
files  == <<disk, length, met, tmp>>
parts  == <<changed, corrupted, aich>>
state  == <<status, paused, compError>>
others == <<hashing, hashOk, mover, handle>>
bounds == <<recovered, holes, bads, crashes>>
vars == <<gaps, buffer, files, extra, parts, state, others, pc, todo, after,
          ret, bounds>>

FlushState == {"NONE", "READY", "PENDING", "ERROR", "WRITTEN"}
Content == {"none", "good", "bad"}

BlocksOf(p) == {b \in Block : PartOf[b] = p}
BlocksIn(P) == {b \in Block : PartOf[b] \in P}
PartsOf(B)  == {PartOf[b] : b \in B}
Buffered    == {b \in Block : flushed[b] # "NONE"}
InState(s)  == {b \in Block : flushed[b] = s}

IsComplete(p)   == BlocksOf(p) \cap gaps = {}
IsCompleteBD(p) == IsComplete(p) /\ BlocksOf(p) \cap Buffered = {}

\* HashSinglePart and the hashing thread, for a file with known part hashes
HashesOk(p) == \A b \in BlocksOf(p) : disk[b] = "good"

(***************************************************************************)
(* The gaps of the buffered data that SavePartFile writes.  The inner loop *)
(* merges an item with those that follow it directly; the item that ends   *)
(* the run has been taken from the list and gets no gap of its own, unless *)
(* it is WRITTEN.  `Skipped' is the set of these items.                    *)
(***************************************************************************)
Previous(b, c) == c < b /\ c \in Buffered
                    /\ \A d \in Buffered : ~(c < d /\ d < b)
Skipped ==
  LET skip[b \in Block] ==
        /\ flushed[b] \in {"READY", "PENDING", "ERROR"}
        /\ \E c \in 1..(b - 1) :
             /\ Previous(b, c)
             /\ flushed[c] # "WRITTEN"
             /\ c # b - 1
             /\ ~skip[c]
  IN {b \in Block : skip[b]}

(***************************************************************************)
(* A .part.met file: what it says, and (`wrong', not in the file) the      *)
(* blocks that it does not list as missing though they are buffered.       *)
(* `fresh': the .part file was not written to since.                       *)
(***************************************************************************)
NoMet == [there |-> FALSE, gaps |-> Block, wrong |-> {}, corrupted |-> {},
          paused |-> FALSE, fresh |-> FALSE]
Stale(m) == [m EXCEPT !.fresh = FALSE]

Init ==
  /\ gaps = Block
  /\ flushed = [b \in Block |-> "NONE"]
  /\ data = [b \in Block |-> "good"]
  /\ disk = [b \in Block |-> "none"]
  /\ onDisk = {} /\ length = 0 /\ extra = FALSE
  /\ changed = {} /\ corrupted = {} /\ aich = {}
  /\ status = "ready" /\ paused = FALSE /\ compError = FALSE
  /\ handle = TRUE
  /\ met = [NoMet EXCEPT !.there = TRUE, !.fresh = TRUE]
  /\ tmp = NoMet
  /\ hashing = "none" /\ hashOk = {} /\ mover = "none"
  /\ pc = "idle" /\ todo = {} /\ after = "idle" /\ ret = "idle"
  /\ recovered = FALSE /\ holes = {} /\ bads = 0 /\ crashes = 0

-------------------------------------------------------------------------------
(***************************************************************************)
(* Data arrives: WriteToBuffer                                             *)
(***************************************************************************)

(***************************************************************************)
(* A block that is not missing is ignored ("already written").  The gap is *)
(* filled at once, long before the data is on the disk.  (Imported data    *)
(* comes in a paused or failed file as well.)                              *)
(***************************************************************************)
WriteToBuffer(b, content) ==
  /\ pc = "idle" /\ status \in {"ready", "error"}
  /\ b \in gaps
  /\ content = "bad" => bads < MaxBad
  /\ bads' = IF content = "bad" THEN bads + 1 ELSE bads
  /\ flushed' = [flushed EXCEPT ![b] = "READY"]
  /\ data' = [data EXCEPT ![b] = content]
  /\ onDisk' = onDisk \ {b}
  /\ gaps' = gaps \ {b}
  /\ pc' = IF gaps' = {} \/ status # "ready" \/ paused THEN "flush" ELSE "idle"
  /\ UNCHANGED <<files, extra, parts, state, others, todo, after, ret,
                 recovered, holes, crashes>>

-------------------------------------------------------------------------------
(***************************************************************************)
(* FlushBuffer                                                             *)
(***************************************************************************)

(***************************************************************************)
(* CompleteFile(false): the finished file is hashed once more.  What       *)
(* happens to a file that is completed again while it is being moved is    *)
(* not modelled: "again" is a final state of the model.                    *)
(***************************************************************************)
StartFinalHashing ==
  /\ IF mover = "none"
     THEN status' = "completing" /\ hashing' = "run" /\ UNCHANGED mover
     ELSE status' = "again" /\ mover' = "done" /\ UNCHANGED hashing
  /\ UNCHANGED <<hashOk, handle>>

AfterFlush == IF after \in Part THEN "aich" ELSE after

\* Process calls it on a timer, StopPausedFile for an inactive download
MayFlush ==
  \/ pc = "flush"
  \/ pc = "idle" /\ status \in {"ready", "error"}

(***************************************************************************)
(* m_hpartfile is closed: GetLength throws, and the exception handler does *)
(* not look at the status of the file.                                     *)
(***************************************************************************)
FlushOnClosedFile ==
  /\ ~handle
  /\ MayFlush \/ (pc = "scan" /\ todo = {})
  /\ status' = "error" /\ paused' = TRUE
  /\ pc' = AfterFlush
  /\ UNCHANGED <<gaps, buffer, files, extra, parts, compError, others, todo,
                 after, ret, bounds>>

\* diskFull: PauseFile(true), which does nothing to a completing file
FlushWithoutSpace ==
  /\ MayFlush /\ handle /\ "space" \in Events
  /\ paused' = (paused \/ status # "completing")
  /\ pc' = AfterFlush
  /\ UNCHANGED <<gaps, buffer, files, extra, parts, status, compError, others,
                 todo, after, ret, bounds>>

\* a mistake: the file is made one block longer than its data
FlushTooLong ==
  /\ MayFlush /\ handle
  /\ \E n \in Buffered : (\A m \in Buffered : m <= n) /\ length' = n + 1
  /\ flushed' = [b \in Block |->
                   IF flushed[b] = "READY" THEN "PENDING" ELSE flushed[b]]
  /\ todo' = Buffered
  /\ pc' = "scan"
  /\ UNCHANGED <<gaps, data, onDisk, disk, met, tmp, extra, parts, state,
                 others, after, ret, bounds>>

(***************************************************************************)
(* SetLength, then the READY items are handed to the write thread.  If the *)
(* file is to be allocated, and its last byte is not buffered, one more    *)
(* byte is written.                                                        *)
(***************************************************************************)
FlushBuffer ==
  /\ MayFlush /\ handle
  /\ LET allocate == "alloc" \in Events /\ length = 0 /\ Buffered # {}
         end == IF allocate THEN {NumBlocks} ELSE Buffered \cup {length}
     IN /\ length' \in end
        /\ \A n \in end : n <= length'
        /\ extra' = (extra \/ (allocate /\ NumBlocks \notin Buffered))
  /\ IF length' = length
     THEN UNCHANGED <<met, tmp>>
     ELSE met' = Stale(met) /\ tmp' = Stale(tmp)
  /\ flushed' = [b \in Block |->
                   IF flushed[b] = "READY" THEN "PENDING" ELSE flushed[b]]
  /\ todo' = Buffered
  /\ pc' = "scan"
  /\ UNCHANGED <<gaps, data, onDisk, disk, parts, state, others, after, ret,
                 bounds>>

\* mistakes: an item is deleted before it was written, or after it failed
ScanDrops(b, states) ==
  /\ pc = "scan"
  /\ b \in todo /\ \A c \in todo : b <= c
  /\ todo' = todo \ {b}
  /\ IF flushed[b] \in states \cup {"WRITTEN"}
     THEN /\ flushed' = [flushed EXCEPT ![b] = "NONE"]
          /\ changed' = changed \cup {PartOf[b]}
     ELSE UNCHANGED <<flushed, changed>>
  /\ UNCHANGED <<gaps, data, onDisk, files, extra, corrupted, aich, state, pc,
                 others, after, ret, bounds>>
ScanDropsPending(b) == ScanDrops(b, {"PENDING"})
ScanDropsFailed(b) == ScanDrops(b, {"ERROR"})

\* what the write thread made of the items, in list order
ScanItem(b) ==
  /\ pc = "scan"
  /\ b \in todo /\ \A c \in todo : b <= c
  /\ \/ /\ flushed[b] = "WRITTEN"          \* DeleteWrittenItem
        /\ flushed' = [flushed EXCEPT ![b] = "NONE"]
        /\ changed' = changed \cup {PartOf[b]}
        /\ todo' = todo \ {b}
        /\ UNCHANGED <<pc, status, paused>>
     \/ /\ flushed[b] = "ERROR"            \* prepare for resend and throw
        /\ flushed' = [flushed EXCEPT ![b] = "READY"]
        /\ status' = "error" /\ paused' = TRUE
        /\ todo' = {} /\ pc' = AfterFlush
        /\ UNCHANGED changed
     \/ /\ flushed[b] \in {"READY", "PENDING"}
        /\ todo' = todo \ {b}
        /\ UNCHANGED <<flushed, changed, pc, status, paused>>
  /\ UNCHANGED <<gaps, data, onDisk, files, extra, corrupted, aich, compError,
                 others, after, ret, bounds>>

\* a mistake: a corrupt part is noted, its gap is not opened again
CheckKeepsCorrupt ==
  /\ pc = "scan" /\ todo = {} /\ handle
  /\ corrupted' = corrupted \cup {p \in changed : IsCompleteBD(p) /\ ~HashesOk(p)}
  /\ changed' = {}
  /\ pc' = "met"
  /\ UNCHANGED <<gaps, aich, buffer, files, extra, state, others, todo, after,
                 ret, bounds>>

(***************************************************************************)
(* Every changed part: a finished one is hashed, and given up if it is     *)
(* corrupt; an unfinished one that was corrupt may be whole by now (ICH).  *)
(***************************************************************************)
CheckParts ==
  /\ pc = "scan" /\ todo = {} /\ handle
  /\ LET full == {p \in changed : IsCompleteBD(p)}
         good == {p \in full : HashesOk(p)}
         bad  == full \ good
         ich  == {p \in (changed \ full) \cap corrupted : HashesOk(p)}
     IN /\ gaps' = (gaps \cup BlocksIn(bad)) \ BlocksIn(ich)
        /\ corrupted' = (corrupted \cup bad) \ (good \cup ich)
        /\ \E asked \in SUBSET (IF "aich" \in Events /\ after = "idle"
                                THEN bad ELSE {}) :
             aich' = aich \cup asked      \* RequestAICHRecovery
  /\ changed' = {}
  /\ pc' = "met"
  /\ UNCHANGED <<buffer, files, extra, state, others, todo, after, ret,
                 bounds>>

\* m_bUpdateMet: the .part.met is saved from time to time
UpdateMet ==
  /\ pc = "met"
  /\ \/ pc' = "save" /\ ret' = "end"
     \/ pc' = "end" /\ UNCHANGED ret
  /\ UNCHANGED <<gaps, buffer, files, extra, parts, state, others, todo,
                 after, bounds>>

\* mistakes: outstanding writes are not looked at, or only a flush that has
\* parts left to check completes the file
FinishFlushIf(condition) ==
  /\ pc = "end"
  /\ IF gaps = {} /\ Buffered = {} /\ condition /\ status # "completing"
     THEN StartFinalHashing
     ELSE UNCHANGED <<status, others>>
  /\ pc' = AfterFlush
  /\ UNCHANGED <<gaps, buffer, files, extra, parts, paused, compError, todo,
                 after, ret, bounds>>
FinishWhileWriting == FinishFlushIf(TRUE)
FinishIfChanged == FinishFlushIf(~extra /\ changed # {})

\* "Is this file finished?"
FinishFlush ==
  /\ pc = "end"
  /\ IF gaps = {} /\ ~extra /\ Buffered = {} /\ status # "completing"
     THEN StartFinalHashing
     ELSE UNCHANGED <<status, others>>
  /\ pc' = AfterFlush
  /\ UNCHANGED <<gaps, buffer, files, extra, parts, paused, compError, todo,
                 after, ret, bounds>>

-------------------------------------------------------------------------------
(***************************************************************************)
(* SavePartFile: write a temporary file, remove the old one, rename.       *)
(***************************************************************************)

\* a mistake: the .part.met is removed before its successor is written
SaveInPlace ==
  /\ pc = "save" /\ status # "hashing"
  /\ pc' = "write" /\ tmp' = NoMet /\ met' = NoMet
  /\ UNCHANGED <<gaps, buffer, disk, length, extra, parts, state, others,
                 todo, after, ret, bounds>>

\* a file that is being rehashed is not saved; opening truncates the file
SavePartFile ==
  /\ pc = "save"
  /\ \/ status # "hashing" /\ pc' = "write" /\ tmp' = NoMet
     \/ (status = "hashing" \/ "met" \in Events) /\ pc' = ret /\ UNCHANGED tmp
  /\ UNCHANGED <<gaps, buffer, disk, length, met, extra, parts, state, others,
                 todo, after, ret, bounds>>

\* a mistake: the gap list is written without the buffered data
WriteTmpNoBuffered ==
  /\ pc = "write"
  /\ tmp' = [there |-> TRUE, fresh |-> TRUE, gaps |-> gaps,
             wrong |-> holes \ gaps, corrupted |-> corrupted, paused |-> paused]
  /\ pc' = "remove"
  /\ UNCHANGED <<gaps, buffer, disk, length, met, extra, parts, state, others,
                 todo, after, ret, bounds>>

\* buffered data is written as missing, except for items that are WRITTEN
WriteTmp ==
  /\ pc = "write"
  /\ \/ /\ tmp' = [there |-> TRUE, fresh |-> TRUE,
                   gaps |-> gaps \cup (Buffered \ (InState("WRITTEN") \cup Skipped)),
                   wrong |-> (holes \cup Skipped) \ gaps,
                   corrupted |-> corrupted,
                   paused |-> paused]
        /\ flushed' = [b \in Block |->
                         IF flushed[b] = "WRITTEN" THEN "NONE" ELSE flushed[b]]
        /\ changed' = changed \cup PartsOf(InState("WRITTEN"))
        /\ pc' = "remove"
     \/ /\ "met" \in Events /\ pc' = ret
        /\ UNCHANGED <<tmp, flushed, changed>>
  /\ UNCHANGED <<gaps, data, onDisk, disk, length, met, extra, corrupted, aich,
                 state, others, todo, after, ret, bounds>>

RemoveMet ==
  /\ pc = "remove"
  /\ \/ met' = NoMet
     \/ "met" \in Events /\ UNCHANGED met
  /\ pc' = "rename"
  /\ UNCHANGED <<gaps, buffer, disk, length, tmp, extra, parts, state, others,
                 todo, after, ret, bounds>>

\* the rename fails if the old file is still there
RenameMet ==
  /\ pc = "rename"
  /\ \/ ~met.there /\ met' = tmp /\ tmp' = NoMet
     \/ "met" \in Events /\ UNCHANGED <<met, tmp>>
  /\ pc' = ret
  /\ UNCHANGED <<gaps, buffer, disk, length, extra, parts, state, others,
                 todo, after, ret, bounds>>

-------------------------------------------------------------------------------
(***************************************************************************)
(* Hashing thread (CAddFileThread) and PartFileHashFinished                *)
(***************************************************************************)

(***************************************************************************)
(* A failure is reported to the owner of a shared file, not to a part      *)
(* file.  CompleteFile makes the path from m_partmetfilename, which is     *)
(* wrong for a file that was recovered from a .backup.                     *)
(***************************************************************************)
NoFileToHash == recovered /\ status = "completing"

HashThread ==
  /\ hashing = "run"
  /\ \/ /\ ~NoFileToHash
        /\ hashing' = "done"
        /\ hashOk' = {p \in Part : HashesOk(p)}
     \/ /\ "hash" \in Events \/ NoFileToHash
        /\ hashing' = "none"
        /\ UNCHANGED hashOk
  /\ UNCHANGED <<gaps, buffer, files, extra, parts, state, mover, handle, pc,
                 todo, after, ret, bounds>>

\* a mistake: the result of the final hashing is not looked at
HashFinishedTrusts ==
  /\ pc = "idle" /\ hashing = "done"
  /\ hashing' = "none" /\ hashOk' = {}
  /\ IF status = "completing"
     THEN /\ paused' = TRUE /\ pc' = "flush" /\ after' = "complete"
          /\ UNCHANGED <<status, ret>>
     ELSE /\ status' = "ready" /\ pc' = "save" /\ ret' = "idle"
          /\ UNCHANGED <<paused, after>>
  /\ UNCHANGED <<gaps, buffer, files, extra, parts, compError, mover, handle,
                 todo, bounds>>

PartFileHashFinished ==
  /\ pc = "idle" /\ hashing = "done"
  /\ hashing' = "none" /\ hashOk' = {}
  /\ LET bad == {p \in Part : IsComplete(p)} \ hashOk IN
     /\ gaps' = gaps \cup BlocksIn(bad)
     /\ IF bad = {} /\ status = "completing"
        THEN \* CompleteFile(true): StopFile flushes the buffer
             /\ paused' = TRUE
             /\ pc' = "flush" /\ after' = "complete"
             /\ UNCHANGED <<status, ret>>
        ELSE /\ status' = "ready"
             /\ pc' = "save" /\ ret' = "idle"
             /\ UNCHANGED <<paused, after>>
  /\ UNCHANGED <<buffer, files, extra, parts, compError, mover, handle, todo,
                 bounds>>

-------------------------------------------------------------------------------
(***************************************************************************)
(* Completion thread (PerformFileComplete) and PerformFileCompleteEnd      *)
(***************************************************************************)

\* the end of CompleteFile(true)
StartMover ==
  /\ pc = "complete"
  /\ status' = "completing"
  /\ mover' = "start"
  /\ pc' = "idle" /\ after' = "idle"
  /\ UNCHANGED <<gaps, buffer, files, extra, parts, paused, compError, hashing,
                 hashOk, handle, todo, ret, bounds>>

ClosePartFile ==
  /\ mover = "start"
  /\ handle' = FALSE
  /\ mover' = "move"
  /\ UNCHANGED <<gaps, buffer, files, extra, parts, state, hashing, hashOk, pc,
                 todo, after, ret, bounds>>

\* the .part file is moved, the .part.met files are removed
MoveFile ==
  /\ mover = "move"
  /\ status' = "complete" /\ paused' = FALSE
  /\ met' = NoMet /\ tmp' = NoMet
  /\ changed' = {}
  /\ mover' = "moved"
  /\ UNCHANGED <<gaps, buffer, disk, length, extra, corrupted, aich, compError,
                 hashing, hashOk, handle, pc, todo, after, ret, bounds>>

MoveFails ==
  /\ mover = "move" /\ "move" \in Events
  /\ status' = "error" /\ paused' = TRUE /\ compError' = TRUE
  /\ mover' = "none"
  /\ UNCHANGED <<gaps, buffer, files, extra, parts, hashing, hashOk, handle, pc,
                 todo, after, ret, bounds>>

PerformFileCompleteEnd ==
  /\ pc = "idle" /\ mover = "moved"
  /\ status' = "complete"
  /\ mover' = "done"
  /\ UNCHANGED <<gaps, buffer, files, extra, parts, paused, compError, hashing,
                 hashOk, handle, pc, todo, after, ret, bounds>>

-------------------------------------------------------------------------------
(***************************************************************************)
(* AICH recovery                                                           *)
(***************************************************************************)

InQueue == status \notin {"gone", "twice"} /\ mover # "done"

\* ProcessAICHAnswer, while the file is in the download queue
AICHRecoveryDataAvailable(p) ==
  /\ pc = "idle" /\ p \in aich /\ InQueue
  /\ aich' = aich \ {p}
  /\ pc' = "flush" /\ after' = p
  /\ UNCHANGED <<gaps, buffer, files, extra, changed, corrupted, state, others,
                 todo, ret, bounds>>

(***************************************************************************)
(* After the flush: the blocks that are good are filled.  If this makes    *)
(* the part complete it is hashed, and the file may be complete.           *)
(***************************************************************************)
RecoverPart(p) ==
  /\ pc = "aich" /\ p = after
  /\ after' = "idle"
  /\ LET good     == {b \in BlocksOf(p) : disk[b] = "good"}
         complete == BlocksOf(p) \cap ((gaps \ good) \cup Buffered) = {}
     IN
     \/ \* the handle is closed: an exception; or the part was OK already
        /\ ~handle \/ IsCompleteBD(p)
        /\ pc' = "idle"
        /\ UNCHANGED <<gaps, corrupted, status, others, ret>>
     \/ /\ handle /\ ~IsCompleteBD(p) /\ complete /\ ~HashesOk(p)
        /\ gaps' = gaps \cup BlocksOf(p)
        /\ pc' = "idle"
        /\ UNCHANGED <<corrupted, status, others, ret>>
     \/ /\ handle /\ ~IsCompleteBD(p) /\ (complete => HashesOk(p))
        /\ gaps' = gaps \ good
        /\ corrupted' = IF complete THEN corrupted \ {p} ELSE corrupted
        /\ IF complete /\ gaps' = {} /\ Buffered = {}
           THEN StartFinalHashing ELSE UNCHANGED <<status, others>>
        /\ pc' = "save" /\ ret' = "idle"
  /\ UNCHANGED <<buffer, files, extra, changed, aich, paused, compError, todo,
                 bounds>>

-------------------------------------------------------------------------------
(***************************************************************************)
(* The user                                                                *)
(***************************************************************************)
PauseFile ==
  /\ pc = "idle" /\ "pause" \in Events
  /\ status \in {"ready", "hashing"} /\ ~paused
  /\ paused' = TRUE
  /\ pc' = "save" /\ ret' = "idle"
  /\ UNCHANGED <<gaps, buffer, files, extra, parts, status, compError, others,
                 todo, after, bounds>>

(***************************************************************************)
(* PauseFile, then the buffer is flushed.  The scheduler and the category  *)
(* menu stop a file in whatever state it is; PauseFile then returns before *)
(* it saves a file that is being completed.                                *)
(***************************************************************************)
StopFile ==
  /\ pc = "idle" /\ "stop" \in Events /\ InQueue
  /\ paused' = TRUE
  /\ IF status \in {"completing", "complete"}
     THEN pc' = "flush" /\ UNCHANGED ret
     ELSE pc' = "save" /\ ret' = "flush"
  /\ UNCHANGED <<gaps, buffer, files, extra, parts, status, compError, others,
                 todo, after, bounds>>

\* (ResumeFileInsufficient does not save the file)
ResumeFile ==
  /\ pc = "idle" /\ Events \cap {"pause", "stop", "space"} # {}
  /\ \/ /\ status \in {"ready", "hashing"} /\ paused
        /\ paused' = FALSE
        /\ \/ pc' = "save" /\ ret' = "idle"
           \/ "space" \in Events /\ UNCHANGED <<pc, ret>>
        /\ UNCHANGED <<compError, status, others>>
     \/ /\ status = "error" /\ compError
        /\ gaps = {} /\ Buffered = {}
        /\ compError' = FALSE
        /\ StartFinalHashing
        /\ UNCHANGED <<paused, pc, ret>>
  /\ UNCHANGED <<gaps, buffer, files, extra, parts, todo, after, bounds>>

-------------------------------------------------------------------------------
(***************************************************************************)
(* The write thread, as AsyncWrite promises it (PartFileWriteThread)       *)
(***************************************************************************)
Persist(b) ==
  /\ flushed[b] = "PENDING" /\ b \notin onDisk
  /\ onDisk' = onDisk \cup {b}
  /\ disk' = [disk EXCEPT ![b] = data[b]]
  /\ met' = Stale(met) /\ tmp' = Stale(tmp)
  /\ UNCHANGED <<gaps, flushed, data, length, extra, parts, state, others, pc,
                 todo, after, ret, bounds>>

Report(b) ==
  /\ flushed[b] = "PENDING"
  /\ \E s \in (IF b \in onDisk THEN {"WRITTEN"} ELSE {})
                 \cup (IF "error" \in Events THEN {"ERROR"} ELSE {}) :
       flushed' = [flushed EXCEPT ![b] = s]
  /\ UNCHANGED <<gaps, data, onDisk, files, extra, parts, state, others, pc,
                 todo, after, ret, bounds>>

ExtraByteWritten ==
  /\ extra /\ extra' = FALSE
  /\ UNCHANGED <<gaps, buffer, files, parts, state, others, pc, todo, after,
                 ret, bounds>>

-------------------------------------------------------------------------------
(***************************************************************************)
(* A crash, and the next start: CDownloadQueue::Init loads the .part.met   *)
(* files and after them the .backup files.  With both in place the same    *)
(* download is loaded twice; what the two objects then do to the file is   *)
(* not modelled.                                                           *)
(***************************************************************************)
LoadPartFile ==
  LET file    == IF met.there THEN met ELSE tmp
      missing == {b \in Block : b > length}
  IN /\ gaps' = file.gaps \cup missing
     /\ holes' = file.wrong \ missing
     /\ corrupted' = {p \in file.corrupted : ~(BlocksOf(p) \cap gaps' = {})}
     /\ paused' = file.paused
     /\ recovered' = ~met.there
     /\ \/ ~met.there /\ ~tmp.there /\ status' = "gone"
        \/ met.there /\ tmp.there /\ status' = "twice"
        \/ /\ met.there # tmp.there
           /\ \* file times have a resolution of a second
              \/ gaps' # {} /\ status' = "ready"
              \/ gaps' = {} /\ status' = "completing"
              \/ gaps' # {} /\ ~file.fresh /\ status' = "hashing"
     /\ hashing' = IF status' \in {"completing", "hashing"} THEN "run" ELSE "none"
     /\ pc' = IF recovered' /\ file.there THEN "save" ELSE "idle"

Crash ==
  /\ crashes < MaxCrash
  /\ InQueue /\ mover # "moved"
  /\ crashes' = crashes + 1
  /\ LoadPartFile
  /\ flushed' = [b \in Block |-> "NONE"] /\ data' = [b \in Block |-> "good"]
  /\ onDisk' = {} /\ extra' = FALSE
  /\ changed' = {} /\ aich' = {}
  /\ compError' = FALSE /\ handle' = TRUE
  /\ hashOk' = {} /\ mover' = "none"
  /\ todo' = {} /\ after' = "idle" /\ ret' = "idle"
  /\ UNCHANGED <<files, bads>>

Finished == ~InQueue /\ UNCHANGED vars

Handler ==
  \/ \E b \in Block : ScanItem(b)
  \/ FlushOnClosedFile \/ FlushWithoutSpace \/ FlushBuffer
  \/ CheckParts \/ UpdateMet \/ FinishFlush
  \/ SavePartFile \/ WriteTmp \/ RemoveMet \/ RenameMet \/ StartMover
  \/ \E p \in Part : RecoverPart(p)

Mover == ClosePartFile \/ MoveFile \/ MoveFails

Next ==
  \/ \E b \in Block, c \in {"good", "bad"} : WriteToBuffer(b, c)
  \/ Handler
  \/ HashThread \/ PartFileHashFinished
  \/ Mover \/ PerformFileCompleteEnd
  \/ \E p \in Part : AICHRecoveryDataAvailable(p)
  \/ PauseFile \/ StopFile \/ ResumeFile
  \/ \E b \in Block : Persist(b) \/ Report(b)
  \/ ExtraByteWritten
  \/ Crash \/ Finished

Spec == Init /\ [][Next]_vars

(***************************************************************************)
(* A handler runs to its end, Process flushes an active download again and *)
(* again, the threads make progress, and a posted message is taken from    *)
(* the queue before the timer calls Process again.                         *)
(***************************************************************************)
Active == pc # "idle" \/ (status = "ready" /\ ~paused)

Fairness ==
  /\ WF_vars(Handler /\ Active)
  /\ WF_vars(HashThread) /\ WF_vars(Mover) /\ WF_vars(ExtraByteWritten)
  /\ SF_vars(PartFileHashFinished) /\ SF_vars(PerformFileCompleteEnd)
  /\ \A b \in Block : WF_vars(Persist(b)) /\ WF_vars(Report(b))

FairSpec == Spec /\ Fairness

-------------------------------------------------------------------------------
(***************************************************************************)
(* Properties                                                              *)
(***************************************************************************)

MetFile == [there : BOOLEAN, gaps : SUBSET Block, wrong : SUBSET Block,
            corrupted : SUBSET Part, paused : BOOLEAN, fresh : BOOLEAN]

\* Every variable has its type.
TypeOK ==
  /\ gaps \subseteq Block /\ flushed \in [Block -> FlushState]
  /\ data \in [Block -> {"good", "bad"}] /\ disk \in [Block -> Content]
  /\ onDisk \subseteq Block /\ length \in 0..NumBlocks /\ extra \in BOOLEAN
  /\ changed \subseteq Part /\ corrupted \subseteq Part /\ aich \subseteq Part
  /\ status \in {"ready", "hashing", "completing", "complete", "error",
                 "gone", "twice", "again"}
  /\ paused \in BOOLEAN /\ compError \in BOOLEAN /\ handle \in BOOLEAN
  /\ met \in MetFile /\ tmp \in MetFile
  /\ hashing \in {"none", "run", "done"} /\ hashOk \subseteq Part
  /\ mover \in {"none", "start", "move", "moved", "done"}
  /\ pc \in {"idle", "flush", "scan", "met", "end", "save", "write", "remove",
             "rename", "aich", "complete"}
  /\ todo \subseteq Block /\ after \in {"idle", "complete"} \cup Part
  /\ ret \in {"idle", "end", "flush"}
  /\ recovered \in BOOLEAN /\ holes \subseteq Block
  /\ bads \in 0..MaxBad /\ crashes \in 0..MaxCrash

(***************************************************************************)
(* "the list is ordered, no overlaps" (WriteToBuffer): a block that is     *)
(* missing is not buffered, so no block is buffered twice.                 *)
(***************************************************************************)
NoOverlap == gaps \cap Buffered = {}

(***************************************************************************)
(* A block that is neither missing nor buffered has been written; and so   *)
(* does every .part.met on the disk say (but for its wrong blocks), at any *)
(* moment at which the program may crash.                                  *)
(***************************************************************************)
Unwritten == {b \in Block : disk[b] = "none"}
GapsAreHonest == Unwritten \subseteq gaps \cup Buffered \cup holes
MetIsHonest ==
  \A m \in {met, tmp} : m.there => Unwritten \subseteq m.gaps \cup m.wrong

(***************************************************************************)
(* "Add buffered data as gap too" (SavePartFile): the .part.met lists all  *)
(* buffered data as missing.                                               *)
(***************************************************************************)
MetCoversBuffered == tmp.wrong = {}

(***************************************************************************)
(* "make sure eMule will never deliver a corrupt file" (HashSinglePart):   *)
(* what is moved to the incoming directory is good, whatever failed before.*)
(***************************************************************************)
OnlyGoodFilesMove ==
  mover # "none" \/ status = "complete" => \A b \in Block : disk[b] = "good"

(***************************************************************************)
(* No part escapes the hash check: until the file is moved, a part that    *)
(* counts as complete with bad data is still noted in m_aChangedPart, from *)
(* which only the check in FlushBuffer takes it.  True if nothing crashes. *)
(***************************************************************************)
CorruptIsMarked ==
  mover \notin {"moved", "done"} =>
    \A p \in Part : IsCompleteBD(p) /\ ~HashesOk(p) => p \in changed

(***************************************************************************)
(* More than the code does: what others are offered (WritePartStatus) and  *)
(* given (AddReqBlock) has been hashed.  Both ask only IsCompleteBD, which *)
(* holds in the meantime for a part that is noted and not hashed yet.      *)
(***************************************************************************)
SharedPartsAreGood ==
  pc = "idle" /\ status = "ready" => \A p \in Part : IsCompleteBD(p) => HashesOk(p)

(***************************************************************************)
(* After any crash before the file is moved there is a .part.met, or a     *)
(* .backup of it, to load ("try recovering any part.met files").           *)
(***************************************************************************)
DownloadSurvives ==
  mover \notin {"moved", "done"} => met.there \/ tmp.there

(***************************************************************************)
(* "The same file shall be added only once": no start finds two .part.met  *)
(* files of one download.                                                  *)
(***************************************************************************)
LoadedOnce == status # "twice"

(***************************************************************************)
(* The assertion of CompleteFile holds while the final hashing runs: no    *)
(* gap, no buffered data and no outstanding write.                         *)
(***************************************************************************)
CompleteFileAsserts ==
  status = "completing" /\ hashing # "none" =>
    gaps = {} /\ Buffered = {} /\ ~extra

(***************************************************************************)
(* PerformFileComplete makes the file a complete one "*before* releasing   *)
(* the file mutex": from then on no handler takes it for a download.       *)
(***************************************************************************)
CompleteIsFinal == [][status = "complete" => status' = "complete"]_vars

(***************************************************************************)
(* A download with nothing missing is moved, or a part proves corrupt, or  *)
(* it is in an error state or paused.                                      *)
(***************************************************************************)
NothingMissingCompletes ==
  gaps = {} ~> \/ gaps # {}
               \/ status \in {"complete", "error", "twice", "again"}
               \/ (status = "ready" /\ paused)

(***************************************************************************)
(* The file does not stay in PS_COMPLETING or PS_HASHING for ever.         *)
(***************************************************************************)
Busy == status \in {"completing", "hashing"}
HashingEnds == Busy ~> ~Busy

\* The main thread uses the write thread within what AsyncWrite allows.
Promise == INSTANCE AsyncWrite WITH Item <- Block
KeepsPromise == Promise!Spec
===============================================================================
