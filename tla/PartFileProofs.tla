---------------------------- MODULE PartFileProofs ----------------------------
(***************************************************************************)
(* Theorems about PartFile, for every file (blocks, parts and their sizes),*)
(* every choice of events and any number of corrupt blocks and crashes.    *)
(***************************************************************************)
EXTENDS PartFile, TLAPS

-------------------------------------------------------------------------------
(***************************************************************************)
(* Types                                                                   *)
(***************************************************************************)

\* Sets of blocks and parts that the actions compute.
LEMMA SetTypes ==
  /\ Buffered \subseteq Block /\ Skipped \subseteq Block
  /\ \A s : InState(s) \subseteq Block
  /\ \A p : BlocksOf(p) \subseteq Block
  /\ \A P : BlocksIn(P) \subseteq Block
  /\ \A B : B \subseteq Block => PartsOf(B) \subseteq Part
<1>1. Skipped \subseteq Block
  BY Zenon DEF Skipped
<1>2. \A B : B \subseteq Block => PartsOf(B) \subseteq Part
  BY FileAssumption DEF PartsOf
<1> QED
  BY <1>1, <1>2 DEF Buffered, InState, BlocksOf, BlocksIn

\* A .part.met file that is missing, and one that is out of date.
LEMMA MetTypes ==
  NoMet \in MetFile /\ \A m \in MetFile : Stale(m) \in MetFile
BY DEF NoMet, MetFile, Stale

\* The download of a new file starts with these types.
LEMMA InitType == Init => TypeOK
<1> SUFFICES ASSUME Init PROVE TypeOK
  OBVIOUS
<1>1. met \in MetFile /\ tmp \in MetFile
  BY MetTypes DEF Init, NoMet, MetFile
<1>2. 0 \in 0..NumBlocks /\ 0 \in 0..MaxBad /\ 0 \in 0..MaxCrash
  BY FileAssumption, EventAssumption
<1> QED
  BY <1>1, <1>2 DEF Init, TypeOK, FlushState, Content, Block

\* The Boolean variables of TypeOK, and the others.
BoolType ==
  /\ extra \in BOOLEAN /\ paused \in BOOLEAN /\ compError \in BOOLEAN
  /\ handle \in BOOLEAN /\ recovered \in BOOLEAN
RestType ==
  /\ gaps \subseteq Block /\ flushed \in [Block -> FlushState]
  /\ data \in [Block -> {"good", "bad"}] /\ disk \in [Block -> Content]
  /\ onDisk \subseteq Block /\ length \in 0..NumBlocks
  /\ changed \subseteq Part /\ corrupted \subseteq Part /\ aich \subseteq Part
  /\ status \in {"ready", "hashing", "completing", "complete", "error",
                 "gone", "twice", "again"}
  /\ met \in MetFile /\ tmp \in MetFile
  /\ hashing \in {"none", "run", "done"} /\ hashOk \subseteq Part
  /\ mover \in {"none", "start", "move", "moved", "done"}
  /\ pc \in {"idle", "flush", "scan", "met", "end", "save", "write", "remove",
             "rename", "aich", "complete"}
  /\ todo \subseteq Block /\ after \in {"idle", "complete"} \cup Part
  /\ ret \in {"idle", "end", "flush"}
  /\ holes \subseteq Block
  /\ bads \in 0..MaxBad /\ crashes \in 0..MaxCrash

\* Every step, of the main thread and of the others, keeps the types.
LEMMA NextType ==
  BoolType /\ RestType /\ [Next]_vars => BoolType' /\ RestType'
<1> SUFFICES ASSUME BoolType, RestType, [Next]_vars
             PROVE  BoolType' /\ RestType'
  OBVIOUS
<1> USE DEF vars, buffer, files, parts, state, others, bounds
<1>1. ASSUME NEW b \in Block, NEW c \in {"good", "bad"}, WriteToBuffer(b, c)
      PROVE  BoolType' /\ RestType'
  <2>1. BoolType'
    BY <1>1 DEF BoolType, WriteToBuffer
  <2>2. RestType'
    <3>1. bads' \in 0..MaxBad
      BY <1>1, EventAssumption DEF RestType, WriteToBuffer
    <3>2. /\ flushed' \in [Block -> FlushState]
          /\ data' \in [Block -> {"good", "bad"}]
      BY <1>1 DEF RestType, WriteToBuffer, FlushState
    <3>3. /\ onDisk' \subseteq Block /\ gaps' \subseteq Block
          /\ pc' \in {"flush", "idle"}
          /\ UNCHANGED <<files, parts, status, hashing, hashOk, mover, todo,
                         after, ret, holes, crashes>>
      BY <1>1 DEF RestType, WriteToBuffer
    <3> QED
      BY <3>1, <3>2, <3>3 DEF RestType
  <2> QED
    BY <2>1, <2>2
<1>2. ASSUME FlushOnClosedFile PROVE BoolType' /\ RestType'
  <2>1. BoolType'
    BY <1>2 DEF BoolType, FlushOnClosedFile
  <2>2. RestType'
    BY <1>2 DEF RestType, FlushOnClosedFile, AfterFlush
  <2> QED
    BY <2>1, <2>2
<1>3. ASSUME FlushWithoutSpace PROVE BoolType' /\ RestType'
  <2>1. BoolType'
    BY <1>3 DEF BoolType, FlushWithoutSpace
  <2>2. RestType'
    BY <1>3 DEF RestType, FlushWithoutSpace, AfterFlush
  <2> QED
    BY <2>1, <2>2
<1>4. ASSUME FlushBuffer PROVE BoolType' /\ RestType'
  <2>1. BoolType'
    BY <1>4 DEF BoolType, FlushBuffer
  <2>2. RestType'
    <3>1. length' \in 0..NumBlocks
      BY <1>4, FileAssumption DEF RestType, FlushBuffer, Buffered, Block
    <3>2. flushed' \in [Block -> FlushState]
      BY <1>4 DEF RestType, FlushBuffer, FlushState
    <3>3. met' \in MetFile /\ tmp' \in MetFile
      BY <1>4, MetTypes DEF RestType, FlushBuffer
    <3>4. /\ todo' \subseteq Block /\ pc' = "scan"
          /\ UNCHANGED <<gaps, data, onDisk, disk, parts, status, hashing,
                         hashOk, mover, after, ret, holes, bads, crashes>>
      BY <1>4, SetTypes DEF FlushBuffer
    <3> QED
      BY <3>1, <3>2, <3>3, <3>4 DEF RestType
  <2> QED
    BY <2>1, <2>2
<1>5. ASSUME NEW b \in Block, ScanItem(b) PROVE BoolType' /\ RestType'
  <2>1. BoolType'
    BY <1>5 DEF BoolType, ScanItem
  <2>2. RestType'
    <3>1. PartOf[b] \in Part
      BY FileAssumption
    <3>2. flushed' \in [Block -> FlushState]
      BY <1>5 DEF RestType, ScanItem, FlushState
    <3>3. /\ changed' \subseteq Part /\ todo' \subseteq Block
          /\ status' \in {status, "error"}
          /\ pc' \in {pc, "idle", "complete", "aich"}
      BY <1>5, <3>1 DEF RestType, ScanItem, AfterFlush
    <3>4. UNCHANGED <<gaps, data, onDisk, files, corrupted, aich, hashing,
                      hashOk, mover, after, ret, holes, bads, crashes>>
      BY <1>5 DEF ScanItem
    <3> QED
      BY <3>2, <3>3, <3>4 DEF RestType
  <2> QED
    BY <2>1, <2>2
<1>6. ASSUME CheckParts PROVE BoolType' /\ RestType'
  <2>1. BoolType'
    BY <1>6 DEF BoolType, CheckParts
  <2>2. RestType'
    BY <1>6, SetTypes DEF RestType, CheckParts
  <2> QED
    BY <2>1, <2>2
<1>7. ASSUME UpdateMet PROVE BoolType' /\ RestType'
  <2>1. BoolType'
    BY <1>7 DEF BoolType, UpdateMet
  <2>2. RestType'
    BY <1>7 DEF RestType, UpdateMet
  <2> QED
    BY <2>1, <2>2
<1>8. ASSUME FinishFlush PROVE BoolType' /\ RestType'
  <2>1. BoolType'
    BY <1>8 DEF BoolType, FinishFlush, StartFinalHashing
  <2>2. RestType'
    BY <1>8 DEF RestType, FinishFlush, StartFinalHashing, AfterFlush
  <2> QED
    BY <2>1, <2>2
<1>9. ASSUME SavePartFile PROVE BoolType' /\ RestType'
  <2>1. BoolType'
    BY <1>9 DEF BoolType, SavePartFile
  <2>2. RestType'
    BY <1>9, MetTypes DEF RestType, SavePartFile
  <2> QED
    BY <2>1, <2>2
<1>10. ASSUME WriteTmp PROVE BoolType' /\ RestType'
  <2>1. BoolType'
    BY <1>10 DEF BoolType, WriteTmp
  <2>2. RestType'
    <3>1. tmp' \in MetFile
      <4> DEFINE g == gaps \cup (Buffered \ (InState("WRITTEN") \cup Skipped))
                 w == (holes \cup Skipped) \ gaps
                 new == [there |-> TRUE, fresh |-> TRUE, gaps |-> g,
                         wrong |-> w, corrupted |-> corrupted,
                         paused |-> paused]
      <4>1. /\ g \in SUBSET Block /\ w \in SUBSET Block
            /\ corrupted \in SUBSET Part
        BY SetTypes DEF RestType
      <4>2. paused \in BOOLEAN
        BY DEF BoolType
      <4> HIDE DEF g, w
      <4>3. new \in MetFile
        BY <4>1, <4>2, Zenon DEF MetFile
      <4>4. tmp' = new \/ tmp' = tmp
        BY <1>10, Zenon DEF WriteTmp, g, w
      <4> QED
        BY <4>3, <4>4 DEF RestType
    <3>2. flushed' \in [Block -> FlushState]
      BY <1>10 DEF RestType, WriteTmp, FlushState
    <3>3. changed' \subseteq Part /\ pc' \in {"remove", ret}
      BY <1>10, SetTypes DEF RestType, WriteTmp
    <3>4. UNCHANGED <<gaps, data, onDisk, disk, length, met, corrupted, aich,
                      status, hashing, hashOk, mover, todo, after, ret, holes,
                      bads, crashes>>
      BY <1>10 DEF WriteTmp
    <3> QED
      BY <3>1, <3>2, <3>3, <3>4 DEF RestType
  <2> QED
    BY <2>1, <2>2
<1>11. ASSUME RemoveMet PROVE BoolType' /\ RestType'
  <2>1. BoolType'
    BY <1>11 DEF BoolType, RemoveMet
  <2>2. RestType'
    BY <1>11, MetTypes DEF RestType, RemoveMet
  <2> QED
    BY <2>1, <2>2
<1>12. ASSUME RenameMet PROVE BoolType' /\ RestType'
  <2>1. BoolType'
    BY <1>12 DEF BoolType, RenameMet
  <2>2. RestType'
    BY <1>12, MetTypes DEF RestType, RenameMet
  <2> QED
    BY <2>1, <2>2
<1>13. ASSUME HashThread PROVE BoolType' /\ RestType'
  <2>1. BoolType'
    BY <1>13 DEF BoolType, HashThread
  <2>2. RestType'
    BY <1>13 DEF RestType, HashThread
  <2> QED
    BY <2>1, <2>2
<1>14. ASSUME PartFileHashFinished PROVE BoolType' /\ RestType'
  <2>1. BoolType'
    BY <1>14 DEF BoolType, PartFileHashFinished
  <2>2. RestType'
    BY <1>14, SetTypes DEF RestType, PartFileHashFinished
  <2> QED
    BY <2>1, <2>2
<1>15. ASSUME StartMover PROVE BoolType' /\ RestType'
  <2>1. BoolType'
    BY <1>15 DEF BoolType, StartMover
  <2>2. RestType'
    BY <1>15 DEF RestType, StartMover
  <2> QED
    BY <2>1, <2>2
<1>16. ASSUME ClosePartFile PROVE BoolType' /\ RestType'
  <2>1. BoolType'
    BY <1>16 DEF BoolType, ClosePartFile
  <2>2. RestType'
    BY <1>16 DEF RestType, ClosePartFile
  <2> QED
    BY <2>1, <2>2
<1>17. ASSUME MoveFile PROVE BoolType' /\ RestType'
  <2>1. BoolType'
    BY <1>17 DEF BoolType, MoveFile
  <2>2. RestType'
    BY <1>17, MetTypes DEF RestType, MoveFile
  <2> QED
    BY <2>1, <2>2
<1>18. ASSUME MoveFails PROVE BoolType' /\ RestType'
  <2>1. BoolType'
    BY <1>18 DEF BoolType, MoveFails
  <2>2. RestType'
    BY <1>18 DEF RestType, MoveFails
  <2> QED
    BY <2>1, <2>2
<1>19. ASSUME PerformFileCompleteEnd PROVE BoolType' /\ RestType'
  <2>1. BoolType'
    BY <1>19 DEF BoolType, PerformFileCompleteEnd
  <2>2. RestType'
    BY <1>19 DEF RestType, PerformFileCompleteEnd
  <2> QED
    BY <2>1, <2>2
<1>20. ASSUME NEW p \in Part, AICHRecoveryDataAvailable(p)
      PROVE  BoolType' /\ RestType'
  <2>1. BoolType'
    BY <1>20 DEF BoolType, AICHRecoveryDataAvailable
  <2>2. RestType'
    BY <1>20 DEF RestType, AICHRecoveryDataAvailable
  <2> QED
    BY <2>1, <2>2
<1>21. ASSUME NEW p \in Part, RecoverPart(p) PROVE BoolType' /\ RestType'
  <2>1. BoolType'
    BY <1>21 DEF BoolType, RecoverPart, StartFinalHashing
  <2>2. RestType'
    BY <1>21, SetTypes DEF RestType, RecoverPart, StartFinalHashing
  <2> QED
    BY <2>1, <2>2
<1>22. ASSUME PauseFile PROVE BoolType' /\ RestType'
  <2>1. BoolType'
    BY <1>22 DEF BoolType, PauseFile
  <2>2. RestType'
    BY <1>22 DEF RestType, PauseFile
  <2> QED
    BY <2>1, <2>2
<1>23. ASSUME StopFile PROVE BoolType' /\ RestType'
  <2>1. BoolType'
    BY <1>23 DEF BoolType, StopFile
  <2>2. RestType'
    BY <1>23 DEF RestType, StopFile
  <2> QED
    BY <2>1, <2>2
<1>24. ASSUME ResumeFile PROVE BoolType' /\ RestType'
  <2>1. BoolType'
    BY <1>24 DEF BoolType, ResumeFile, StartFinalHashing
  <2>2. RestType'
    BY <1>24 DEF RestType, ResumeFile, StartFinalHashing
  <2> QED
    BY <2>1, <2>2
<1>25. ASSUME NEW b \in Block, Persist(b) PROVE BoolType' /\ RestType'
  <2>1. BoolType'
    BY <1>25 DEF BoolType, Persist
  <2>2. RestType'
    BY <1>25, MetTypes DEF RestType, Persist, FlushState, Content
  <2> QED
    BY <2>1, <2>2
<1>26. ASSUME NEW b \in Block, Report(b) PROVE BoolType' /\ RestType'
  <2>1. BoolType'
    BY <1>26 DEF BoolType, Report
  <2>2. RestType'
    BY <1>26 DEF RestType, Report, FlushState
  <2> QED
    BY <2>1, <2>2
<1>27. ASSUME ExtraByteWritten PROVE BoolType' /\ RestType'
  <2>1. BoolType'
    BY <1>27 DEF BoolType, ExtraByteWritten
  <2>2. RestType'
    BY <1>27 DEF RestType, ExtraByteWritten
  <2> QED
    BY <2>1, <2>2
<1>28. ASSUME Crash PROVE BoolType' /\ RestType'
  <2>1. BoolType'
    <3> DEFINE file == IF met.there THEN met ELSE tmp
    <3>1. file \in MetFile
      BY DEF RestType
    <3>2. paused' = file.paused /\ recovered' = ~met.there
          /\ extra' = FALSE /\ compError' = FALSE /\ handle' = TRUE
      BY <1>28 DEF Crash, LoadPartFile
    <3> QED
      BY <3>1, <3>2 DEF BoolType, MetFile
  <2>2. RestType'
    <3> DEFINE file == IF met.there THEN met ELSE tmp
    <3>1. file \in MetFile
      BY DEF RestType
    <3>2. /\ gaps' \subseteq Block /\ holes' \subseteq Block
          /\ corrupted' \subseteq Part
      BY <1>28, <3>1 DEF Crash, LoadPartFile, MetFile
    <3>3. /\ status' \in {"gone", "twice", "ready", "completing", "hashing"}
          /\ hashing' \in {"none", "run"} /\ pc' \in {"save", "idle"}
      BY <1>28 DEF Crash, LoadPartFile
    <3>4. crashes' \in 0..MaxCrash
      BY <1>28, EventAssumption DEF Crash, RestType
    <3>5. /\ flushed' \in [Block -> FlushState]
          /\ data' \in [Block -> {"good", "bad"}]
      BY <1>28 DEF Crash, FlushState
    <3>6. /\ onDisk' = {} /\ changed' = {} /\ aich' = {} /\ hashOk' = {}
          /\ mover' = "none" /\ todo' = {} /\ after' = "idle" /\ ret' = "idle"
          /\ UNCHANGED <<disk, length, met, tmp, bads>>
      BY <1>28 DEF Crash
    <3> QED
      BY <3>1, <3>2, <3>3, <3>4, <3>5, <3>6 DEF RestType
  <2> QED
    BY <2>1, <2>2
<1>29. ASSUME Finished PROVE BoolType' /\ RestType'
  <2>1. BoolType'
    BY <1>29 DEF BoolType, Finished
  <2>2. RestType'
    BY <1>29 DEF RestType, Finished
  <2> QED
    BY <2>1, <2>2
<1>99. CASE UNCHANGED vars
  BY <1>99 DEF BoolType, RestType
<1> QED
  BY <1>1, <1>2, <1>3, <1>4, <1>5, <1>6, <1>7, <1>8, <1>9, <1>10, <1>11,
     <1>12, <1>13, <1>14, <1>15, <1>16, <1>17, <1>18, <1>19, <1>20, <1>21,
     <1>22, <1>23, <1>24, <1>25, <1>26, <1>27, <1>28, <1>29, <1>99
     DEF Next, Handler, Mover

(***************************************************************************)
(* Type correctness, for every file and every choice of events.            *)
(***************************************************************************)
THEOREM TypeCorrect == Spec => []TypeOK
<1>1. TypeOK <=> BoolType /\ RestType
  BY DEF TypeOK, BoolType, RestType
<1>2. Init => BoolType /\ RestType
  BY <1>1, InitType
<1>3. (BoolType /\ RestType) /\ [Next]_vars => (BoolType /\ RestType)'
  BY NextType
<1> QED
  BY <1>1, <1>2, <1>3, PTL DEF Spec

-------------------------------------------------------------------------------
(***************************************************************************)
(* The gap list and the .part.met tell the truth                           *)
(***************************************************************************)

\* An item is WRITTEN only after its bytes have reached the .part file.
BytesOnDisk ==
  \A b \in Block :
    /\ b \in onDisk => disk[b] # "none"
    /\ flushed[b] = "WRITTEN" => b \in onDisk

(***************************************************************************)
(* MetIsHonest for a file that is not there as well.  Written without      *)
(* Unwritten, as the two parts below.                                      *)
(***************************************************************************)
Tells(m) == \A b \in Block : disk[b] = "none" => b \in m.gaps \cup m.wrong
MetsTell == Tells(met) /\ Tells(tmp)
GapsTell ==
  \A b \in Block : disk[b] = "none" => b \in gaps \cup holes \/ flushed[b] # "NONE"

Honest == BytesOnDisk /\ MetsTell /\ GapsTell

\* A new download has written nothing and misses everything.
LEMMA InitHonest == Init => Honest
BY DEF Init, Honest, BytesOnDisk, MetsTell, GapsTell, Tells, NoMet

(***************************************************************************)
(* Steps that touch neither the gap list nor the buffer nor the files.     *)
(***************************************************************************)
LEMMA HonestUnchanged ==
  Honest /\ UNCHANGED <<gaps, flushed, onDisk, disk, holes, met, tmp>> => Honest'
BY DEF Honest, BytesOnDisk, MetsTell, GapsTell, Tells

\* What is written to the .part file does not change what a .part.met lists.
LEMMA StaleTells ==
  \A m \in MetFile : Stale(m).gaps = m.gaps /\ Stale(m).wrong = m.wrong
BY DEF Stale, MetFile

\* No step lets the gap list or a .part.met forget a block.
LEMMA NextHonest == RestType /\ Honest /\ [Next]_vars => Honest'
<1> SUFFICES ASSUME RestType, Honest, [Next]_vars PROVE Honest'
  OBVIOUS
<1> USE DEF vars, buffer, files, parts, state, others, bounds
<1>1. ASSUME NEW b \in Block, NEW c \in {"good", "bad"}, WriteToBuffer(b, c)
      PROVE  Honest'
  <2>1. BytesOnDisk'
    BY <1>1 DEF WriteToBuffer, RestType, Honest, BytesOnDisk
  <2>2. GapsTell'
    BY <1>1 DEF WriteToBuffer, RestType, Honest, GapsTell
  <2>3. MetsTell'
    BY <1>1 DEF WriteToBuffer, Honest, MetsTell, Tells
  <2> QED
    BY <2>1, <2>2, <2>3 DEF Honest
<1>2. ASSUME FlushBuffer PROVE Honest'
  <2>1. BytesOnDisk' /\ GapsTell'
    BY <1>2 DEF FlushBuffer, RestType, Honest, BytesOnDisk, GapsTell
  <2>2. /\ disk' = disk
        /\ met' \in {met, Stale(met)} /\ tmp' \in {tmp, Stale(tmp)}
    BY <1>2 DEF FlushBuffer
  <2>3. MetsTell'
    BY <2>2, StaleTells DEF RestType, Honest, MetsTell, Tells
  <2> QED
    BY <2>1, <2>3 DEF Honest
<1>3. ASSUME NEW b \in Block, ScanItem(b) PROVE Honest'
  <2>1. /\ UNCHANGED <<gaps, onDisk, disk, holes, met, tmp>>
        /\ \/ flushed[b] = "WRITTEN" /\ flushed' = [flushed EXCEPT ![b] = "NONE"]
           \/ flushed' = [flushed EXCEPT ![b] = "READY"]
           \/ flushed' = flushed
    BY <1>3 DEF ScanItem
  <2>2. BytesOnDisk' /\ GapsTell'
    BY <2>1 DEF RestType, Honest, BytesOnDisk, GapsTell
  <2>3. MetsTell'
    BY <2>1 DEF Honest, MetsTell, Tells
  <2> QED
    BY <2>2, <2>3 DEF Honest
<1>4. ASSUME CheckParts PROVE Honest'
  <2>1. \A b \in Block : b \notin gaps' => b \notin gaps \/ disk[b] = "good"
    BY <1>4 DEF CheckParts, HashesOk, BlocksIn, BlocksOf
  <2>2. UNCHANGED <<flushed, onDisk, disk, holes, met, tmp>>
    BY <1>4 DEF CheckParts
  <2> QED
    BY <2>1, <2>2 DEF Honest, BytesOnDisk, MetsTell, GapsTell, Tells
<1>5. ASSUME SavePartFile PROVE Honest'
  BY <1>5 DEF SavePartFile, Honest, BytesOnDisk, MetsTell, GapsTell, Tells, NoMet
<1>6. ASSUME WriteTmp PROVE Honest'
  <2>1. UNCHANGED <<gaps, onDisk, disk, holes, met>>
    BY <1>6 DEF WriteTmp
  <2>2. CASE UNCHANGED <<tmp, flushed>>
    BY <2>1, <2>2, HonestUnchanged
  <2>3. CASE /\ flushed' = [b \in Block |-> IF flushed[b] = "WRITTEN"
                                           THEN "NONE" ELSE flushed[b]]
             /\ tmp'.gaps = gaps \cup (Buffered \ (InState("WRITTEN") \cup Skipped))
             /\ tmp'.wrong = (holes \cup Skipped) \ gaps
    <3>1. BytesOnDisk' /\ GapsTell'
      BY <2>1, <2>3 DEF RestType, Honest, BytesOnDisk, GapsTell
    <3>2. Tells(tmp)'
      BY <2>1, <2>3 DEF Honest, BytesOnDisk, GapsTell, Tells, Buffered, InState
    <3>3. Tells(met)'
      BY <2>1 DEF Honest, MetsTell, Tells
    <3> QED
      BY <3>1, <3>2, <3>3 DEF Honest, MetsTell
  <2> QED
    BY <1>6, <2>2, <2>3 DEF WriteTmp
<1>7. ASSUME RemoveMet PROVE Honest'
  BY <1>7 DEF RemoveMet, Honest, BytesOnDisk, MetsTell, GapsTell, Tells, NoMet
<1>8. ASSUME RenameMet PROVE Honest'
  BY <1>8 DEF RenameMet, Honest, BytesOnDisk, MetsTell, GapsTell, Tells, NoMet
<1>9. ASSUME PartFileHashFinished PROVE Honest'
  BY <1>9
  DEF PartFileHashFinished, Honest, BytesOnDisk, MetsTell, GapsTell, Tells
<1>10. ASSUME MoveFile PROVE Honest'
  BY <1>10 DEF MoveFile, Honest, BytesOnDisk, MetsTell, GapsTell, Tells, NoMet
<1>11. ASSUME NEW p \in Part, RecoverPart(p) PROVE Honest'
  <2>1. \A b \in Block : b \notin gaps' => b \notin gaps \/ disk[b] = "good"
    BY <1>11 DEF RecoverPart
  <2>2. UNCHANGED <<flushed, onDisk, disk, holes, met, tmp>>
    BY <1>11 DEF RecoverPart
  <2> QED
    BY <2>1, <2>2 DEF Honest, BytesOnDisk, MetsTell, GapsTell, Tells
<1>12. ASSUME NEW b \in Block, Persist(b) PROVE Honest'
  <2>1. data[b] # "none"
    BY DEF RestType
  <2>2. BytesOnDisk' /\ GapsTell'
    BY <1>12, <2>1 DEF Persist, RestType, Honest, BytesOnDisk, GapsTell
  <2>3. \A i \in Block : disk'[i] = "none" => disk[i] = "none"
    BY <1>12, <2>1 DEF Persist, RestType
  <2>4. met' = Stale(met) /\ tmp' = Stale(tmp)
    BY <1>12 DEF Persist
  <2>5. MetsTell'
    BY <2>3, <2>4, StaleTells DEF RestType, Honest, MetsTell, Tells
  <2> QED
    BY <2>2, <2>5 DEF Honest
<1>13. ASSUME NEW b \in Block, Report(b) PROVE Honest'
  <2>1. /\ UNCHANGED <<gaps, onDisk, disk, holes, met, tmp>>
        /\ flushed[b] = "PENDING"
        /\ \/ b \in onDisk /\ flushed' = [flushed EXCEPT ![b] = "WRITTEN"]
           \/ flushed' = [flushed EXCEPT ![b] = "ERROR"]
    BY <1>13 DEF Report
  <2>2. BytesOnDisk' /\ GapsTell'
    BY <2>1 DEF RestType, Honest, BytesOnDisk, GapsTell
  <2>3. MetsTell'
    BY <2>1 DEF Honest, MetsTell, Tells
  <2> QED
    BY <2>2, <2>3 DEF Honest
<1>14. ASSUME Crash PROVE Honest'
  <2> DEFINE file == IF met.there THEN met ELSE tmp
  <2>1. Tells(file)
    BY DEF Honest, MetsTell
  <2>2. \A b \in Block : b \in file.gaps \cup file.wrong => b \in gaps' \cup holes'
    BY <1>14 DEF Crash, LoadPartFile
  <2>3. /\ UNCHANGED <<disk, met, tmp>> /\ onDisk' = {}
        /\ flushed' = [b \in Block |-> "NONE"]
    BY <1>14 DEF Crash
  <2> HIDE DEF file
  <2>4. GapsTell'
    BY <2>1, <2>2, <2>3 DEF GapsTell, Tells
  <2> QED
    BY <2>3, <2>4 DEF Honest, BytesOnDisk, MetsTell, Tells
<1>15. CASE FlushOnClosedFile \/ FlushWithoutSpace \/ UpdateMet \/ FinishFlush
            \/ HashThread \/ StartMover \/ ClosePartFile \/ MoveFails
            \/ PerformFileCompleteEnd \/ PauseFile \/ StopFile \/ ResumeFile
            \/ ExtraByteWritten \/ Finished \/ UNCHANGED vars
            \/ \E p \in Part : AICHRecoveryDataAvailable(p)
  BY <1>15, HonestUnchanged
  DEF FlushOnClosedFile, FlushWithoutSpace, UpdateMet, FinishFlush, HashThread,
      StartMover, ClosePartFile, MoveFails, PerformFileCompleteEnd, PauseFile,
      StopFile, ResumeFile, ExtraByteWritten, Finished,
      AICHRecoveryDataAvailable
<1> QED
  BY <1>1, <1>2, <1>3, <1>4, <1>5, <1>6, <1>7, <1>8, <1>9, <1>10, <1>11, <1>12,
     <1>13, <1>14, <1>15
  DEF Next, Handler, Mover

\* The invariant of the two theorems that follow.
LEMMA HonestHolds == Spec => []Honest
<1>1. TypeOK => RestType
  BY DEF TypeOK, RestType
<1> QED
  BY <1>1, TypeCorrect, InitHonest, NextHonest, PTL DEF Spec

(***************************************************************************)
(* Whatever fails and whenever the program crashes: a block that is        *)
(* neither missing nor buffered has been written, but for the wrong blocks *)
(* of the .part.met that was loaded.                                       *)
(***************************************************************************)
THEOREM GapsTellTheTruth == Spec => []GapsAreHonest
<1>1. Honest => GapsAreHonest
  BY DEF Honest, GapsTell, GapsAreHonest, Unwritten, Buffered
<1> QED
  BY <1>1, HonestHolds, PTL

(***************************************************************************)
(* A .part.met that can be loaded lists every block that was not written   *)
(* as missing, but for its wrong blocks.                                   *)
(***************************************************************************)
THEOREM MetTellsTheTruth == Spec => []MetIsHonest
<1>1. Honest => MetIsHonest
  BY DEF Honest, MetsTell, Tells, MetIsHonest, Unwritten
<1> QED
  BY <1>1, HonestHolds, PTL

-------------------------------------------------------------------------------
(***************************************************************************)
(* The gap list and the buffer do not overlap                              *)
(***************************************************************************)

\* Where a handler of the main thread returns to.
Returns ==
  /\ pc = "idle" => after = "idle"
  /\ pc \in {"save", "write", "remove", "rename"} => ret = "end" \/ after = "idle"
  /\ pc = "complete" => after = "complete"

\* Nothing is buffered, and nothing can be, while the file is hashed.
HashingQuiet ==
  hashing # "none" =>
    /\ Buffered = {} /\ mover = "none"
    /\ handle => status \in {"completing", "hashing"}
    /\ ~handle => gaps = {}

\* The flush in CompleteFile(true) starts neither a hashing nor a move.
CompletionFlush ==
  after = "complete" =>
    /\ hashing = "none" /\ mover = "none"
    /\ pc # "complete" => status = "completing"

Quiet == Returns /\ HashingQuiet /\ CompletionFlush

Separate == Quiet /\ NoOverlap

\* A new download misses everything and buffers nothing.
LEMMA InitSeparate == Init => Separate
BY DEF Init, Separate, Quiet, Returns, HashingQuiet, CompletionFlush, NoOverlap,
       Buffered

\* FlushBuffer returns to its caller.
LEMMA FlushReturns ==
  RestType => /\ AfterFlush = "idle" => after = "idle"
              /\ AfterFlush = "complete" <=> after = "complete"
              /\ AfterFlush \notin {"save", "write", "remove", "rename"}
BY FileAssumption DEF RestType, AfterFlush

\* Flushing, hashing and moving keep out of each other's way.
LEMMA NextQuiet == RestType /\ Separate /\ [Next]_vars => Quiet'
<1> SUFFICES ASSUME RestType, Separate, [Next]_vars PROVE Quiet'
  OBVIOUS
<1> USE DEF vars, buffer, files, parts, state, others, bounds
<1> USE DEF Separate, Quiet
<1>1. ASSUME NEW b \in Block, NEW c \in {"good", "bad"}, WriteToBuffer(b, c)
      PROVE  Quiet'
  <2>1. hashing = "none"
    BY <1>1 DEF WriteToBuffer, HashingQuiet
  <2>2. /\ pc = "idle" /\ pc' \in {"flush", "idle"}
        /\ UNCHANGED <<hashing, mover, status, after>>
    BY <1>1 DEF WriteToBuffer
  <2> QED
    BY <2>1, <2>2, FileAssumption DEF Returns, HashingQuiet, CompletionFlush
<1>2. ASSUME FlushOnClosedFile PROVE Quiet'
  <2>1. /\ ~handle /\ pc' = AfterFlush
        /\ UNCHANGED <<gaps, flushed, hashing, mover, handle, after>>
    BY <1>2 DEF FlushOnClosedFile
  <2> QED
    BY <2>1, FlushReturns DEF Returns, HashingQuiet, CompletionFlush, Buffered
<1>3. ASSUME FlushWithoutSpace PROVE Quiet'
  <2>1. /\ pc' = AfterFlush
        /\ UNCHANGED <<gaps, flushed, status, hashing, mover, handle, after>>
    BY <1>3 DEF FlushWithoutSpace
  <2> QED
    BY <2>1, FlushReturns DEF Returns, HashingQuiet, CompletionFlush, Buffered
<1>4. ASSUME FlushBuffer PROVE Quiet'
  <2>1. Buffered' = Buffered
    BY <1>4 DEF FlushBuffer, Buffered
  <2>2. /\ pc' = "scan" /\ pc \in {"flush", "idle"}
        /\ UNCHANGED <<gaps, hashing, mover, handle, status, after>>
    BY <1>4 DEF FlushBuffer, MayFlush
  <2> QED
    BY <2>1, <2>2 DEF Returns, HashingQuiet, CompletionFlush
<1>5. ASSUME NEW b \in Block, ScanItem(b) PROVE Quiet'
  <2>1. pc = "scan" /\ UNCHANGED <<gaps, hashing, mover, handle, after>>
    BY <1>5 DEF ScanItem
  <2>2. Buffered' \subseteq Buffered
    BY <1>5 DEF ScanItem, Buffered, RestType
  <2>3. \/ UNCHANGED <<pc, status>>
        \/ pc' = AfterFlush /\ b \in Buffered
    BY <1>5 DEF ScanItem, Buffered
  <2> QED
    BY <2>1, <2>2, <2>3, FlushReturns
    DEF Returns, HashingQuiet, CompletionFlush
<1>6. ASSUME CheckParts PROVE Quiet'
  <2>1. /\ handle /\ pc' = "met"
        /\ UNCHANGED <<flushed, hashing, mover, handle, status, after>>
    BY <1>6 DEF CheckParts
  <2>2. pc # "complete"
    BY <1>6 DEF CheckParts
  <2> QED
    BY <2>1, <2>2 DEF Returns, HashingQuiet, CompletionFlush, Buffered
<1>7. ASSUME UpdateMet PROVE Quiet'
  BY <1>7
  DEF UpdateMet, Returns, HashingQuiet, CompletionFlush, Buffered
<1>8. ASSUME FinishFlush PROVE Quiet'
  <2>1. pc = "end" /\ pc' = AfterFlush /\ UNCHANGED <<gaps, flushed, after>>
    BY <1>8 DEF FinishFlush
  <2>2. Returns' /\ pc # "complete"
    BY <2>1, FlushReturns DEF Returns
  <2>3. CASE UNCHANGED <<status, hashing, mover, handle>>
    BY <2>1, <2>2, <2>3 DEF HashingQuiet, CompletionFlush, Buffered
  <2>4. CASE /\ gaps = {} /\ Buffered = {} /\ status # "completing"
             /\ StartFinalHashing
    <3>1. after # "complete" /\ after' = after
      BY <2>1, <2>2, <2>4 DEF CompletionFlush
    <3> QED
      BY <2>1, <2>2, <2>4, <3>1
      DEF HashingQuiet, CompletionFlush, StartFinalHashing, Buffered
  <2> QED
    BY <1>8, <2>3, <2>4 DEF FinishFlush
<1>9. ASSUME SavePartFile \/ RemoveMet \/ RenameMet PROVE Quiet'
  <2>1. /\ UNCHANGED <<gaps, flushed, status, hashing, mover, handle, after,
                       ret>>
        /\ pc \in {"save", "write", "remove", "rename"}
        /\ pc' \in {"save", "write", "remove", "rename", ret}
    BY <1>9 DEF SavePartFile, RemoveMet, RenameMet
  <2> QED
    BY <2>1 DEF RestType, Returns, HashingQuiet, CompletionFlush, Buffered
<1>10. ASSUME WriteTmp PROVE Quiet'
  <2>1. /\ UNCHANGED <<gaps, status, hashing, mover, handle, after, ret>>
        /\ pc = "write" /\ pc' \in {"remove", ret}
    BY <1>10 DEF WriteTmp
  <2>2. Buffered' \subseteq Buffered
    BY <1>10 DEF WriteTmp, Buffered
  <2> QED
    BY <2>1, <2>2 DEF RestType, Returns, HashingQuiet, CompletionFlush
<1>11. ASSUME HashThread PROVE Quiet'
  BY <1>11 DEF HashThread, Returns, HashingQuiet, CompletionFlush, Buffered
<1>12. ASSUME PartFileHashFinished PROVE Quiet'
  <2>1. /\ pc = "idle" /\ hashing = "done" /\ hashing' = "none"
        /\ mover' = mover
        /\ \/ /\ status' = "completing"
              /\ pc' = "flush" /\ after' = "complete"
           \/ pc' = "save" /\ ret' = "idle" /\ after' = after
    BY <1>12 DEF PartFileHashFinished
  <2> QED
    BY <2>1, FileAssumption DEF Returns, HashingQuiet, CompletionFlush
<1>13. ASSUME StartMover PROVE Quiet'
  BY <1>13, FileAssumption
  DEF StartMover, Returns, HashingQuiet, CompletionFlush
<1>14. ASSUME ClosePartFile \/ MoveFile \/ MoveFails \/ PerformFileCompleteEnd
       PROVE  Quiet'
  <2>1. /\ mover # "none" /\ UNCHANGED <<pc, after, ret, hashing>>
    BY <1>14 DEF ClosePartFile, MoveFile, MoveFails, PerformFileCompleteEnd
  <2> QED
    BY <2>1 DEF Returns, HashingQuiet, CompletionFlush
<1>15. ASSUME NEW p \in Part, AICHRecoveryDataAvailable(p) PROVE Quiet'
  <2>1. /\ pc' = "flush" /\ after' \in Part
        /\ UNCHANGED <<gaps, flushed, status, hashing, mover, handle>>
    BY <1>15 DEF AICHRecoveryDataAvailable
  <2> QED
    BY <2>1, FileAssumption DEF Returns, HashingQuiet, CompletionFlush, Buffered
<1>16. ASSUME NEW p \in Part, RecoverPart(p) PROVE Quiet'
  <2>1. /\ after' = "idle" /\ flushed' = flushed
        /\ pc' = "idle" \/ pc' = "save"
    BY <1>16 DEF RecoverPart
  <2>2. Returns' /\ CompletionFlush'
    BY <2>1 DEF Returns, CompletionFlush
  <2>3. CASE UNCHANGED <<status, hashing, mover, handle>>
    <3>1. handle \/ gaps' = gaps
      BY <1>16 DEF RecoverPart
    <3> QED
      BY <2>1, <2>2, <2>3, <3>1 DEF HashingQuiet, Buffered
  <2>4. CASE gaps' = {} /\ Buffered = {} /\ StartFinalHashing
    BY <2>1, <2>2, <2>4 DEF HashingQuiet, StartFinalHashing, Buffered
  <2>5. \/ UNCHANGED <<status, hashing, mover, handle>>
        \/ gaps' = {} /\ Buffered = {} /\ StartFinalHashing
    BY <1>16 DEF RecoverPart
  <2> QED
    BY <2>3, <2>4, <2>5
<1>17. ASSUME PauseFile \/ StopFile PROVE Quiet'
  BY <1>17, FileAssumption
  DEF PauseFile, StopFile, Returns, HashingQuiet, CompletionFlush, Buffered
<1>18. ASSUME ResumeFile PROVE Quiet'
  <2>1. /\ pc = "idle" /\ UNCHANGED <<gaps, flushed, after>>
        /\ \/ pc' = "save" \/ pc' = pc
    BY <1>18 DEF ResumeFile
  <2>2. Returns' /\ after' = "idle"
    BY <2>1 DEF Returns
  <2>3. CASE UNCHANGED <<status, hashing, mover, handle>>
    BY <2>1, <2>2, <2>3, FileAssumption DEF HashingQuiet, CompletionFlush, Buffered
  <2>4. CASE gaps = {} /\ Buffered = {} /\ StartFinalHashing
    BY <2>1, <2>2, <2>4, FileAssumption
    DEF HashingQuiet, CompletionFlush, StartFinalHashing, Buffered
  <2> QED
    BY <1>18, <2>2, <2>3, <2>4 DEF ResumeFile
<1>19. ASSUME NEW b \in Block, Persist(b) \/ Report(b) PROVE Quiet'
  <2>1. Buffered' = Buffered
    BY <1>19 DEF Persist, Report, Buffered, RestType
  <2>2. UNCHANGED <<gaps, status, hashing, mover, handle, pc, after, ret>>
    BY <1>19 DEF Persist, Report
  <2> QED
    BY <2>1, <2>2 DEF Returns, HashingQuiet, CompletionFlush
<1>20. ASSUME Crash PROVE Quiet'
  <2>1. /\ handle' = TRUE /\ mover' = "none" /\ after' = "idle"
        /\ Buffered' = {}
    BY <1>20 DEF Crash, Buffered
  <2>2. /\ pc' \in {"save", "idle"}
        /\ hashing' # "none" => status' \in {"completing", "hashing"}
    BY <1>20 DEF Crash, LoadPartFile
  <2> QED
    BY <2>1, <2>2, FileAssumption DEF Returns, HashingQuiet, CompletionFlush
<1>21. CASE ExtraByteWritten \/ Finished \/ UNCHANGED vars
  BY <1>21
  DEF ExtraByteWritten, Finished, Returns, HashingQuiet, CompletionFlush,
      Buffered
<1> QED
  BY <1>1, <1>2, <1>3, <1>4, <1>5, <1>6, <1>7, <1>8, <1>9, <1>10, <1>11, <1>12,
     <1>13, <1>14, <1>15, <1>16, <1>17, <1>18, <1>19, <1>20, <1>21
  DEF Next, Handler, Mover

\* Whatever is opened as a gap is buffered by nobody.
LEMMA NextNoOverlap == RestType /\ Separate /\ [Next]_vars => NoOverlap'
<1> SUFFICES ASSUME RestType, Separate, [Next]_vars PROVE NoOverlap'
  OBVIOUS
<1> USE DEF vars, buffer, files, parts, state, others, bounds
<1>0. gaps \cap Buffered = {}
  BY DEF Separate, NoOverlap
<1>1. ASSUME NEW b \in Block, NEW c \in {"good", "bad"}, WriteToBuffer(b, c)
      PROVE  NoOverlap'
  <2>1. gaps' = gaps \ {b}
    BY <1>1 DEF WriteToBuffer
  <2>2. Buffered' = Buffered \cup {b}
    BY <1>1 DEF WriteToBuffer, Buffered, RestType
  <2> QED
    BY <1>0, <2>1, <2>2 DEF NoOverlap
<1>2. ASSUME CheckParts PROVE NoOverlap'
  <2>1. \A b \in gaps' : b \in gaps \/ b \notin Buffered
    BY <1>2 DEF CheckParts, BlocksIn, IsCompleteBD, BlocksOf
  <2>2. Buffered' = Buffered
    BY <1>2 DEF CheckParts, Buffered
  <2> QED
    BY <1>0, <2>1, <2>2 DEF NoOverlap
<1>3. ASSUME PartFileHashFinished PROVE NoOverlap'
  <2>1. Buffered = {}
    BY <1>3 DEF PartFileHashFinished, Separate, Quiet, HashingQuiet
  <2>2. Buffered' = Buffered
    BY <1>3 DEF PartFileHashFinished, Buffered
  <2> QED
    BY <2>1, <2>2 DEF NoOverlap
<1>4. ASSUME NEW p \in Part, RecoverPart(p) PROVE NoOverlap'
  <2>1. \/ gaps' \subseteq gaps
        \/ gaps' = gaps \cup BlocksOf(p) /\ BlocksOf(p) \cap Buffered = {}
    BY <1>4 DEF RecoverPart
  <2>2. Buffered' = Buffered
    BY <1>4 DEF RecoverPart, Buffered
  <2> QED
    BY <1>0, <2>1, <2>2 DEF NoOverlap
<1>5. ASSUME Crash PROVE NoOverlap'
  BY <1>5 DEF Crash, NoOverlap, Buffered
<1>6. CASE UNCHANGED gaps /\ Buffered' \subseteq Buffered
  BY <1>0, <1>6 DEF NoOverlap
<1>7. ASSUME FlushBuffer \/ WriteTmp \/ \E b \in Block :
               ScanItem(b) \/ Persist(b) \/ Report(b)
      PROVE  NoOverlap'
  <2>1. UNCHANGED gaps /\ Buffered' \subseteq Buffered
    BY <1>7
    DEF FlushBuffer, WriteTmp, ScanItem, Persist, Report, Buffered, RestType
  <2> QED
    BY <1>6, <2>1
<1>8. CASE FlushOnClosedFile \/ FlushWithoutSpace \/ UpdateMet \/ FinishFlush
           \/ SavePartFile \/ RemoveMet \/ RenameMet \/ HashThread
           \/ StartMover \/ ClosePartFile \/ MoveFile \/ MoveFails
           \/ PerformFileCompleteEnd \/ PauseFile \/ StopFile \/ ResumeFile
           \/ ExtraByteWritten \/ Finished \/ UNCHANGED vars
           \/ \E p \in Part : AICHRecoveryDataAvailable(p)
  <2>1. UNCHANGED <<gaps, flushed>>
    BY <1>8
    DEF FlushOnClosedFile, FlushWithoutSpace, UpdateMet, FinishFlush,
        SavePartFile, RemoveMet, RenameMet, HashThread, StartMover,
        ClosePartFile, MoveFile, MoveFails, PerformFileCompleteEnd, PauseFile,
        StopFile, ResumeFile, ExtraByteWritten, Finished,
        AICHRecoveryDataAvailable
  <2> QED
    BY <1>6, <2>1 DEF Buffered
<1> QED
  BY <1>1, <1>2, <1>3, <1>4, <1>5, <1>7, <1>8 DEF Next, Handler, Mover

\* The invariant of the three theorems that follow.
LEMMA SeparateHolds == Spec => [](RestType /\ Separate)
<1>1. TypeOK => RestType
  BY DEF TypeOK, RestType
<1>2. RestType /\ Separate /\ [Next]_vars => Separate'
  BY NextQuiet, NextNoOverlap DEF Separate
<1> QED
  BY <1>1, <1>2, TypeCorrect, InitSeparate, PTL DEF Spec

(***************************************************************************)
(* The invariant of WriteToBuffer and FlushBuffer: no block is missing and *)
(* buffered at once.  It needs that nothing arrives while the file is      *)
(* hashed, as the parts that prove corrupt are missing again afterwards.   *)
(***************************************************************************)
THEOREM NoBlockTwice == Spec => []NoOverlap
<1>1. Separate => NoOverlap
  BY DEF Separate
<1> QED
  BY <1>1, SeparateHolds, PTL

(***************************************************************************)
(* While the file is hashed no data waits in the buffer to be written into *)
(* it, and the completion thread does not move it.                         *)
(***************************************************************************)
THEOREM HashingIsUndisturbed == Spec => []HashingQuiet
<1>1. Separate => HashingQuiet
  BY DEF Separate, Quiet
<1> QED
  BY <1>1, SeparateHolds, PTL

-------------------------------------------------------------------------------
(***************************************************************************)
(* The main thread keeps to what AsyncWrite allows                         *)
(***************************************************************************)

\* Only a crash takes items from the buffer that were not written.
LEMMA StepKeepsPromise ==
  RestType /\ Separate /\ MaxCrash = 0 /\ [Next]_vars
    => [Promise!Next]_(Promise!vars)
<1> SUFFICES ASSUME RestType, Separate, MaxCrash = 0, [Next]_vars
             PROVE  [Promise!Next]_(Promise!vars)
  OBVIOUS
<1> USE DEF vars, buffer, files, parts, state, others, bounds
<1>0. flushed \in [Block -> FlushState]
  BY DEF RestType
<1>1. ASSUME NEW b \in Block, NEW c \in {"good", "bad"}, WriteToBuffer(b, c)
      PROVE  Promise!Buffer(b)
  <2>1. flushed[b] = "NONE"
    BY <1>1 DEF WriteToBuffer, Separate, NoOverlap, Buffered
  <2> QED
    BY <1>1, <2>1 DEF WriteToBuffer, Promise!Buffer
<1>2. ASSUME FlushBuffer PROVE [Promise!Next]_(Promise!vars)
  <2>1. /\ onDisk' = onDisk
        /\ flushed' = [b \in Block |-> IF flushed[b] = "READY"
                                      THEN "PENDING" ELSE flushed[b]]
    BY <1>2 DEF FlushBuffer
  <2>2. CASE \E b \in Block : flushed[b] = "READY"
    BY <2>1, <2>2 DEF Promise!HandOver, Promise!Next
  <2>3. CASE ~\E b \in Block : flushed[b] = "READY"
    <3>1. flushed' = flushed
      BY <1>0, <2>1, <2>3
    <3> QED
      BY <2>1, <3>1 DEF Promise!vars
  <2> QED
    BY <2>2, <2>3
<1>3. ASSUME NEW b \in Block, ScanItem(b) PROVE [Promise!Next]_(Promise!vars)
  <2>1. /\ onDisk' = onDisk
        /\ \/ flushed[b] = "WRITTEN" /\ flushed' = [flushed EXCEPT ![b] = "NONE"]
           \/ flushed[b] = "ERROR" /\ flushed' = [flushed EXCEPT ![b] = "READY"]
           \/ flushed' = flushed
    BY <1>3 DEF ScanItem
  <2>2. CASE flushed[b] = "WRITTEN" /\ flushed' = [flushed EXCEPT ![b] = "NONE"]
    <3>1. flushed' = [i \in Block |-> IF i \in {b} THEN "NONE" ELSE flushed[i]]
      BY <1>0, <2>2
    <3>2. Promise!Collect({b})
      BY <2>1, <2>2, <3>1 DEF Promise!Collect
    <3> QED
      BY <3>2 DEF Promise!Next
  <2>3. CASE flushed[b] = "ERROR" /\ flushed' = [flushed EXCEPT ![b] = "READY"]
    BY <2>1, <2>3 DEF Promise!Retry, Promise!Next
  <2>4. CASE flushed' = flushed
    BY <2>1, <2>4 DEF Promise!vars
  <2> QED
    BY <2>1, <2>2, <2>3, <2>4
<1>4. ASSUME WriteTmp PROVE [Promise!Next]_(Promise!vars)
  <2>1. onDisk' = onDisk
    BY <1>4 DEF WriteTmp
  <2>2. CASE flushed' = [b \in Block |-> IF flushed[b] = "WRITTEN"
                                        THEN "NONE" ELSE flushed[b]]
    <3>1. flushed' = [i \in Block |-> IF i \in InState("WRITTEN")
                                     THEN "NONE" ELSE flushed[i]]
      BY <2>2 DEF InState
    <3>2. Promise!Collect(InState("WRITTEN"))
      BY <2>1, <3>1 DEF Promise!Collect, InState
    <3>3. InState("WRITTEN") \in SUBSET Block
      BY DEF InState
    <3> QED
      BY <3>2, <3>3 DEF Promise!Next
  <2>3. CASE flushed' = flushed
    BY <2>1, <2>3 DEF Promise!vars
  <2> QED
    BY <1>4, <2>2, <2>3 DEF WriteTmp
<1>5. ASSUME NEW b \in Block, Persist(b) PROVE Promise!Persist(b)
  BY <1>5 DEF Persist, Promise!Persist
<1>6. ASSUME NEW b \in Block, Report(b) PROVE Promise!Report(b)
  BY <1>6 DEF Report, Promise!Report
<1>7. ~Crash
  BY EventAssumption DEF Crash, RestType
<1>8. CASE FlushOnClosedFile \/ FlushWithoutSpace \/ CheckParts \/ UpdateMet
           \/ FinishFlush \/ SavePartFile \/ RemoveMet \/ RenameMet
           \/ HashThread \/ PartFileHashFinished \/ StartMover \/ ClosePartFile
           \/ MoveFile \/ MoveFails \/ PerformFileCompleteEnd
           \/ PauseFile \/ StopFile \/ ResumeFile \/ ExtraByteWritten
           \/ Finished \/ UNCHANGED vars
           \/ \E p \in Part : AICHRecoveryDataAvailable(p) \/ RecoverPart(p)
  BY <1>8
  DEF FlushOnClosedFile, FlushWithoutSpace, CheckParts, UpdateMet, FinishFlush,
      SavePartFile, RemoveMet, RenameMet, HashThread, PartFileHashFinished,
      StartMover, ClosePartFile, MoveFile, MoveFails, PerformFileCompleteEnd,
      PauseFile, StopFile, ResumeFile, ExtraByteWritten, Finished,
      AICHRecoveryDataAvailable, RecoverPart, Promise!vars
<1> QED
  BY <1>1, <1>2, <1>3, <1>4, <1>5, <1>6, <1>7, <1>8
  DEF Next, Handler, Mover, Promise!Next

(***************************************************************************)
(* As long as nothing crashes the main thread, with the write thread that  *)
(* keeps the promise (KeepsThePromise of PartFileWriteThreadProofs), does  *)
(* to the buffered items what AsyncWrite allows: a block is buffered once, *)
(* sent again only after it failed, and dropped only when it is written.   *)
(***************************************************************************)
THEOREM UsesThePromise == MaxCrash = 0 /\ Spec => KeepsPromise
<1>1. Init => Promise!Init
  BY DEF Init, Promise!Init
<1>2. (RestType /\ Separate) /\ MaxCrash = 0 /\ [Next]_vars
        => [Promise!Next]_(Promise!vars)
  BY StepKeepsPromise
<1>3. CASE MaxCrash = 0
  BY <1>1, <1>2, <1>3, SeparateHolds, PTL DEF Spec, KeepsPromise, Promise!Spec
<1> QED
  BY <1>3

-------------------------------------------------------------------------------
(***************************************************************************)
(* Parts that count as complete have been hashed                           *)
(***************************************************************************)

\* CorruptIsMarked in the form the proof uses: what counts as complete is good
\* or noted, until the file is moved (which empties m_aChangedPart).
Checked ==
  mover \notin {"moved", "done"} =>
    \A p \in Part : IsCompleteBD(p) => HashesOk(p) \/ p \in changed

\* A new download has no complete part, but for parts without a block.
LEMMA InitChecked == Init => Checked
BY DEF Init, Checked, IsCompleteBD, IsComplete, HashesOk, BlocksOf

(***************************************************************************)
(* Steps that fill no gap but by buffering the block, free an item only    *)
(* with a note in m_aChangedPart, and write only to buffered blocks.       *)
(***************************************************************************)
LEMMA CheckedKept ==
  ASSUME Checked,
         mover' \notin {"moved", "done"} => mover \notin {"moved", "done"},
         changed \subseteq changed',
         \A b \in Block :
           /\ b \in gaps => b \in gaps' \/ flushed'[b] # "NONE"
           /\ flushed[b] # "NONE" =>
                b \in gaps' \/ flushed'[b] # "NONE" \/ PartOf[b] \in changed'
           /\ disk'[b] = disk[b] \/ flushed'[b] # "NONE"
  PROVE  Checked'
<1> SUFFICES ASSUME mover' \notin {"moved", "done"},
                    NEW p \in Part, IsCompleteBD(p)'
             PROVE  HashesOk(p)' \/ p \in changed'
  BY DEF Checked
<1>1. \A b \in BlocksOf(p) : b \notin gaps' /\ flushed'[b] = "NONE"
  BY DEF IsCompleteBD, IsComplete, BlocksOf, Buffered
<1>2. CASE p \in changed'
  BY <1>2
<1>3. CASE p \notin changed'
  <2>1. \A b \in BlocksOf(p) :
          b \notin gaps /\ flushed[b] = "NONE" /\ disk'[b] = disk[b]
    BY <1>1, <1>3 DEF BlocksOf
  <2>2. IsCompleteBD(p)
    BY <2>1 DEF IsCompleteBD, IsComplete, Buffered
  <2>3. HashesOk(p)
    BY <1>3, <2>2 DEF Checked
  <2> QED
    BY <2>1, <2>3 DEF HashesOk, BlocksOf
<1> QED
  BY <1>2, <1>3

\* The hashing of the changed parts leaves no complete part unchecked.
LEMMA CheckPartsChecked == Checked /\ CheckParts => Checked'
<1> SUFFICES ASSUME Checked, CheckParts, mover' \notin {"moved", "done"},
                    NEW p \in Part, IsCompleteBD(p)'
             PROVE  HashesOk(p)'
  BY DEF Checked
<1> DEFINE full == {q \in changed : IsCompleteBD(q)}
           good == {q \in full : HashesOk(q)}
           bad  == full \ good
           ich  == {q \in (changed \ full) \cap corrupted : HashesOk(q)}
<1>1. /\ gaps' = (gaps \cup BlocksIn(bad)) \ BlocksIn(ich)
      /\ UNCHANGED <<flushed, disk, mover>>
  BY DEF CheckParts, buffer, files, others
<1>2. HashesOk(p)' <=> HashesOk(p)
  BY <1>1 DEF HashesOk, BlocksOf
<1>3. CASE p \in ich
  BY <1>2, <1>3
<1>4. CASE p \notin ich
  <2>1. BlocksOf(p) \cap gaps' = {} /\ BlocksOf(p) \cap Buffered = {}
    BY <1>1 DEF IsCompleteBD, IsComplete, Buffered, BlocksOf
  <2>2. \A b \in BlocksOf(p) : b \notin BlocksIn(ich)
    BY <1>4 DEF BlocksIn, BlocksOf
  <2>3. \A b \in BlocksOf(p) : b \notin gaps /\ b \notin BlocksIn(bad)
    <3> HIDE DEF bad, ich
    <3> QED
      BY <1>1, <2>1, <2>2
  <2>4. IsCompleteBD(p)
    BY <2>1, <2>3 DEF IsCompleteBD, IsComplete
  <2>5. HashesOk(p) \/ p \in changed
    BY <1>1, <2>4 DEF Checked
  <2>6. CASE p \in bad
    <3>1. \A b \in BlocksOf(p) : b \in BlocksIn(bad)
      BY <2>6 DEF BlocksIn, BlocksOf
    <3>2. BlocksOf(p) = {}
      BY <2>3, <3>1
    <3> QED
      BY <1>2, <3>2 DEF HashesOk
  <2> QED
    BY <1>2, <2>4, <2>5, <2>6
<1> QED
  BY <1>3, <1>4

\* Without crashes no step makes a part complete that is not hashed.
LEMMA NextChecked ==
  RestType /\ Separate /\ Checked /\ MaxCrash = 0 /\ [Next]_vars => Checked'
<1> SUFFICES ASSUME RestType, Separate, Checked, MaxCrash = 0, [Next]_vars
             PROVE  Checked'
  OBVIOUS
<1> USE DEF vars, buffer, files, parts, state, others, bounds
<1>0. flushed \in [Block -> FlushState] /\ disk \in [Block -> Content]
  BY DEF RestType
<1>1. ASSUME NEW b \in Block, NEW c \in {"good", "bad"}, WriteToBuffer(b, c)
      PROVE  Checked'
  <2>1. /\ gaps' = gaps \ {b} /\ flushed' = [flushed EXCEPT ![b] = "READY"]
        /\ UNCHANGED <<disk, mover, changed>>
    BY <1>1 DEF WriteToBuffer
  <2> QED
    BY <1>0, <2>1, CheckedKept
<1>2. ASSUME FlushBuffer PROVE Checked'
  <2>1. /\ flushed' = [b \in Block |-> IF flushed[b] = "READY"
                                      THEN "PENDING" ELSE flushed[b]]
        /\ UNCHANGED <<gaps, disk, mover, changed>>
    BY <1>2 DEF FlushBuffer
  <2> QED
    BY <1>0, <2>1, CheckedKept
<1>3. ASSUME NEW b \in Block, ScanItem(b) PROVE Checked'
  <2>1. /\ UNCHANGED <<gaps, disk, mover>>
        /\ \/ flushed' = [flushed EXCEPT ![b] = "NONE"]
              /\ changed' = changed \cup {PartOf[b]}
           \/ flushed' = [flushed EXCEPT ![b] = "READY"] /\ changed' = changed
           \/ UNCHANGED <<flushed, changed>>
    BY <1>3 DEF ScanItem
  <2> QED
    BY <1>0, <2>1, CheckedKept
<1>4. ASSUME WriteTmp PROVE Checked'
  <2>1. /\ UNCHANGED <<gaps, disk, mover>>
        /\ \/ /\ flushed' = [b \in Block |-> IF flushed[b] = "WRITTEN"
                                            THEN "NONE" ELSE flushed[b]]
              /\ changed' = changed \cup PartsOf(InState("WRITTEN"))
           \/ UNCHANGED <<flushed, changed>>
    BY <1>4 DEF WriteTmp
  <2>2. \A b \in Block : flushed[b] = "WRITTEN" => PartOf[b] \in PartsOf(InState("WRITTEN"))
    BY DEF PartsOf, InState
  <2> QED
    BY <1>0, <2>1, <2>2, CheckedKept
<1>5. ASSUME PartFileHashFinished PROVE Checked'
  <2>1. gaps \subseteq gaps' /\ UNCHANGED <<flushed, disk, mover, changed>>
    BY <1>5 DEF PartFileHashFinished
  <2> QED
    BY <1>0, <2>1, CheckedKept
<1>6. ASSUME NEW b \in Block, Persist(b) PROVE Checked'
  <2>1. /\ flushed[b] = "PENDING" /\ disk' = [disk EXCEPT ![b] = data[b]]
        /\ UNCHANGED <<gaps, flushed, mover, changed>>
    BY <1>6 DEF Persist
  <2> QED
    BY <1>0, <2>1, CheckedKept
<1>7. ASSUME NEW b \in Block, Report(b) PROVE Checked'
  <2>1. /\ \E s \in {"WRITTEN", "ERROR"} : flushed' = [flushed EXCEPT ![b] = s]
        /\ UNCHANGED <<gaps, disk, mover, changed>>
    BY <1>7 DEF Report
  <2> QED
    BY <1>0, <2>1, CheckedKept
<1>8. ASSUME NEW p \in Part, RecoverPart(p) PROVE Checked'
  <2> DEFINE good == {b \in BlocksOf(p) : disk[b] = "good"}
  <2>1. UNCHANGED <<flushed, disk, changed>> /\ mover' \in {mover, "done"}
    BY <1>8 DEF RecoverPart, StartFinalHashing
  <2>2. CASE gaps \subseteq gaps'
    BY <1>0, <2>1, <2>2, CheckedKept
  <2>3. CASE /\ gaps' = gaps \ good
             /\ BlocksOf(p) \cap ((gaps \ good) \cup Buffered) = {} => HashesOk(p)
    <3> SUFFICES ASSUME mover' \notin {"moved", "done"},
                        NEW q \in Part, IsCompleteBD(q)'
                 PROVE  HashesOk(q)' \/ q \in changed'
      BY DEF Checked
    <3>1. /\ BlocksOf(q) \cap gaps' = {} /\ BlocksOf(q) \cap Buffered = {}
          /\ HashesOk(q)' <=> HashesOk(q)
      BY <2>1 DEF IsCompleteBD, IsComplete, Buffered, BlocksOf, HashesOk
    <3>2. CASE q = p
      BY <2>3, <3>1, <3>2
    <3>3. CASE q # p
      <4>1. \A b \in BlocksOf(q) : b \notin good
        BY <3>3 DEF BlocksOf
      <4>2. IsCompleteBD(q)
        BY <2>3, <3>1, <4>1 DEF IsCompleteBD, IsComplete
      <4> QED
        BY <2>1, <3>1, <4>2 DEF Checked
    <3> QED
      BY <3>2, <3>3
  <2> QED
    BY <1>8, <2>2, <2>3 DEF RecoverPart
<1>9. ASSUME MoveFile PROVE Checked'
  BY <1>9 DEF MoveFile, Checked
<1>10. ~Crash
  BY EventAssumption DEF Crash, RestType
<1>11. ASSUME CheckParts PROVE Checked'
  BY <1>11, CheckPartsChecked
<1>12. CASE FlushOnClosedFile \/ FlushWithoutSpace \/ UpdateMet \/ FinishFlush
            \/ SavePartFile \/ RemoveMet \/ RenameMet \/ HashThread \/ StartMover
            \/ ClosePartFile \/ MoveFails \/ PerformFileCompleteEnd
            \/ PauseFile \/ StopFile \/ ResumeFile
            \/ ExtraByteWritten \/ Finished \/ UNCHANGED vars
            \/ \E p \in Part : AICHRecoveryDataAvailable(p)
  <2>1. UNCHANGED <<gaps, flushed, disk, changed>>
    BY <1>12
    DEF FlushOnClosedFile, FlushWithoutSpace, UpdateMet, FinishFlush,
        SavePartFile, RemoveMet, RenameMet, HashThread, StartMover,
        ClosePartFile, MoveFails, PerformFileCompleteEnd, PauseFile, StopFile,
        ResumeFile, ExtraByteWritten, Finished, AICHRecoveryDataAvailable
  <2>2. mover' \notin {"moved", "done"} => mover \notin {"moved", "done"}
    <3>1. pc = "complete" => mover = "none"
      BY DEF Separate, Quiet, Returns, CompletionFlush
    <3> QED
      BY <1>12, <3>1
      DEF FlushOnClosedFile, FlushWithoutSpace, UpdateMet, FinishFlush,
          SavePartFile, RemoveMet, RenameMet, HashThread, StartMover,
          ClosePartFile, MoveFails, PerformFileCompleteEnd, PauseFile, StopFile,
          ResumeFile, ExtraByteWritten, Finished, AICHRecoveryDataAvailable,
          StartFinalHashing
  <2> QED
    BY <2>1, <2>2, CheckedKept
<1> QED
  BY <1>1, <1>2, <1>3, <1>4, <1>5, <1>6, <1>7, <1>8, <1>9, <1>10, <1>11, <1>12
  DEF Next, Handler, Mover

(***************************************************************************)
(* A part with bad data that counts as complete is noted in m_aChangedPart *)
(* until it is hashed, whatever arrives, fails or is stopped, recovered or *)
(* saved in between (DeleteWrittenItem, FlushBuffer, RecoverPart); but     *)
(* nothing may crash: a part that a loaded .part.met lists as complete is  *)
(* not hashed again.                                                       *)
(***************************************************************************)
THEOREM CorruptStaysMarked ==
  ASSUME MaxCrash = 0 PROVE Spec => []CorruptIsMarked
<1>1. Init => Checked
  BY InitChecked
<1>2. (RestType /\ Separate) /\ Checked /\ [Next]_vars => Checked'
  BY MaxCrash = 0, NextChecked
<1>3. Checked => CorruptIsMarked
  BY DEF Checked, CorruptIsMarked
<1> QED
  BY <1>1, <1>2, <1>3, SeparateHolds, PTL DEF Spec

-------------------------------------------------------------------------------
(***************************************************************************)
(* The .part.met survives                                                  *)
(***************************************************************************)

\* At any step of SavePartFile one of the two files is there.
MetKept ==
  mover \notin {"moved", "done"} =>
    /\ pc # "rename" => met.there
    /\ pc \in {"remove", "rename"} => tmp.there

\* The write thread and SetLength change a file, they do not remove it.
LEMMA StaleIsThere == \A m \in MetFile : Stale(m).there = m.there
BY DEF Stale, MetFile

LEMMA NextMetKept ==
  RestType /\ Separate /\ MetKept /\ MaxCrash = 0 /\ "met" \notin Events
    /\ [Next]_vars => MetKept'
<1> SUFFICES ASSUME RestType, Separate, MetKept, MaxCrash = 0,
                    "met" \notin Events, [Next]_vars
             PROVE  MetKept'
  OBVIOUS
<1> USE DEF vars, buffer, files, parts, state, others, bounds
<1>0. met \in MetFile /\ tmp \in MetFile
  BY DEF RestType
<1>1. AfterFlush \notin {"remove", "rename"} /\ ret \notin {"remove", "rename"}
  BY FlushReturns DEF RestType
<1>2. ASSUME UNCHANGED mover \/ mover' = "done",
             met'.there = met.there, tmp'.there = tmp.there,
             pc' = pc \/ (pc # "rename" /\ pc' \notin {"remove", "rename"})
      PROVE  MetKept'
  BY <1>2 DEF MetKept
<1>3. CASE FlushBuffer
  <2>1. met' \in {met, Stale(met)} /\ tmp' \in {tmp, Stale(tmp)}
    BY <1>3 DEF FlushBuffer
  <2>2. met'.there = met.there /\ tmp'.there = tmp.there
    BY <1>0, <2>1, StaleIsThere
  <2>3. mover' = mover /\ pc # "rename" /\ pc' = "scan"
    BY <1>3 DEF FlushBuffer, MayFlush
  <2> QED
    BY <1>2, <2>2, <2>3
<1>4. CASE \E b \in Block : Persist(b)
  <2>1. met' = Stale(met) /\ tmp' = Stale(tmp) /\ UNCHANGED <<mover, pc>>
    BY <1>4 DEF Persist
  <2> QED
    BY <1>0, <1>2, <2>1, StaleIsThere
<1>5. CASE SavePartFile
  BY <1>1, <1>5 DEF SavePartFile, MetKept
<1>6. CASE WriteTmp
  <2>1. /\ tmp'.there /\ pc = "write" /\ pc' = "remove"
        /\ UNCHANGED <<met, mover>>
    BY <1>6 DEF WriteTmp
  <2> QED
    BY <2>1 DEF MetKept
<1>7. CASE RemoveMet
  BY <1>7 DEF RemoveMet, MetKept
<1>8. CASE RenameMet
  BY <1>1, <1>8 DEF RenameMet, MetKept
<1>9. CASE StartMover \/ ClosePartFile \/ MoveFails
  <2>1. pc = "complete" => mover = "none"
    BY DEF Separate, Quiet, Returns, CompletionFlush
  <2> QED
    BY <1>9, <2>1 DEF StartMover, ClosePartFile, MoveFails, MetKept
<1>10. CASE MoveFile \/ PerformFileCompleteEnd
  BY <1>10 DEF MoveFile, PerformFileCompleteEnd, MetKept
<1>11. ~Crash
  BY EventAssumption DEF Crash, RestType
<1>12. CASE FlushOnClosedFile \/ FlushWithoutSpace \/ CheckParts \/ UpdateMet
            \/ PartFileHashFinished \/ PauseFile \/ StopFile
            \/ (\E p \in Part : AICHRecoveryDataAvailable(p))
            \/ \E b \in Block, c \in {"good", "bad"} : WriteToBuffer(b, c)
  <2>1. /\ UNCHANGED <<met, tmp, mover>>
        /\ pc # "rename" /\ pc' \notin {"remove", "rename"}
    BY <1>1, <1>12
    DEF FlushOnClosedFile, FlushWithoutSpace, CheckParts, UpdateMet,
        PartFileHashFinished, PauseFile, StopFile, AICHRecoveryDataAvailable,
        WriteToBuffer, MayFlush
  <2> QED
    BY <1>2, <2>1
<1>13. CASE FinishFlush \/ ResumeFile \/ \E p \in Part : RecoverPart(p)
  <2>1. /\ UNCHANGED <<met, tmp>> /\ mover' \in {mover, "done"}
        /\ pc # "rename" /\ pc' \notin {"remove", "rename"}
    BY <1>1, <1>13 DEF FinishFlush, ResumeFile, RecoverPart, StartFinalHashing
  <2> QED
    BY <1>2, <2>1
<1>14. CASE \E b \in Block : ScanItem(b)
  <2>1. /\ UNCHANGED <<met, tmp, mover>>
        /\ pc = "scan" /\ pc' \in {pc, AfterFlush}
    BY <1>14 DEF ScanItem
  <2> QED
    BY <1>1, <1>2, <2>1
<1>15. CASE HashThread \/ ExtraByteWritten \/ Finished \/ UNCHANGED vars
            \/ \E b \in Block : Report(b)
  <2>1. UNCHANGED <<met, tmp, mover, pc>>
    BY <1>15 DEF HashThread, ExtraByteWritten, Finished, Report
  <2> QED
    BY <1>2, <2>1
<1> QED
  BY <1>3, <1>4, <1>5, <1>6, <1>7, <1>8, <1>9, <1>10, <1>11, <1>12, <1>13,
     <1>14, <1>15
  DEF Next, Handler, Mover

(***************************************************************************)
(* Wherever SavePartFile is interrupted there is a .part.met or a .backup  *)
(* to load, until the completion thread has moved the file.  This is so    *)
(* before the first crash, and while the files can be removed and renamed: *)
(* the save after a failed rename truncates the only copy.                 *)
(***************************************************************************)
THEOREM MetSurvives ==
  ASSUME MaxCrash = 0, "met" \notin Events
  PROVE  Spec => []DownloadSurvives
<1>1. Init => MetKept
  BY DEF Init, MetKept, NoMet
<1>2. (RestType /\ Separate) /\ MetKept /\ [Next]_vars => MetKept'
  BY MaxCrash = 0, "met" \notin Events, NextMetKept
<1>3. MetKept => DownloadSurvives
  BY DEF MetKept, DownloadSurvives
<1> QED
  BY <1>1, <1>2, <1>3, SeparateHolds, PTL DEF Spec

-------------------------------------------------------------------------------
(***************************************************************************)
(* Only a good file is completed                                           *)
(***************************************************************************)

\* Nobody but the main thread's own flushes touches a file that is hashed for
\* the last time; or no corrupt data is about.
Undisturbed == Events \cap {"stop", "aich"} = {}
AllGood == MaxBad = 0 /\ MaxCrash = 0

\* From the end of the final hashing on the file is whole and good.
Over  == mover # "none" \/ after = "complete" \/ ~handle
Whole == /\ gaps = {} /\ Buffered = {} /\ ~extra
         /\ \A b \in Block : disk[b] = "good"
Sealed == Over => Whole
Closed == compError \/ status = "complete" \/ mover \in {"move", "moved"} => ~handle

\* During the final hashing it is whole; the hashing thread reads what
\* PartFileHashFinished judges.
FinalHashing ==
  /\ hashing # "none" /\ status = "completing" => gaps = {} /\ ~extra
  /\ hashing = "done" => hashOk = {p \in Part : HashesOk(p)}

\* No AICH recovery is under way.
NoRecovery == aich = {} /\ after \notin Part

\* No check of changed parts opens a gap in it, for one of two reasons.
NoCheck ==
  /\ ret # "flush"
  /\ hashing # "none" /\ status = "completing" => pc \notin {"flush", "scan"}
GoodData ==
  holes = {} /\ \A b \in Block : data[b] = "good" /\ disk[b] # "bad"
Reason == (Undisturbed => NoCheck) /\ (AllGood => GoodData)

Finishing == Sealed /\ Closed /\ FinalHashing /\ NoRecovery /\ Reason

LEMMA InitFinishing == Init => Finishing
BY FileAssumption
DEF Init, Finishing, Sealed, Over, Closed, FinalHashing, NoRecovery, Reason, NoCheck,
    GoodData

\* A whole file of good data has no bad part, in memory and on the disk.
LEMMA NoBadPart ==
  ASSUME RestType, Honest, GoodData, NEW p \in Part, IsCompleteBD(p)
  PROVE  HashesOk(p)
<1> SUFFICES ASSUME NEW b \in BlocksOf(p) PROVE disk[b] = "good"
  BY DEF HashesOk
<1>1. b \in Block /\ b \notin gaps /\ flushed[b] = "NONE"
  BY DEF IsCompleteBD, IsComplete, BlocksOf, Buffered
<1>2. disk[b] # "none"
  BY <1>1 DEF Honest, GapsTell, GoodData
<1> QED
  BY <1>1, <1>2 DEF RestType, GoodData, Content

(***************************************************************************)
(* CheckParts: with good data no part is bad; and whatever the data, none  *)
(* is bad in a file that is good on the disk.                              *)
(***************************************************************************)
LEMMA CheckOpensNothing ==
  ASSUME RestType, Honest, CheckParts,
         GoodData \/ \A b \in Block : disk[b] = "good"
  PROVE  gaps' \subseteq gaps /\ aich' = aich
<1> DEFINE full == {p \in changed : IsCompleteBD(p)}
           good == {p \in full : HashesOk(p)}
           bad  == full \ good
           ich  == {p \in (changed \ full) \cap corrupted : HashesOk(p)}
<1>1. \A p \in Part : IsCompleteBD(p) => HashesOk(p)
  BY NoBadPart DEF HashesOk, BlocksOf
<1>2. bad = {}
  BY <1>1 DEF RestType
<1>3. /\ gaps' = (gaps \cup BlocksIn(bad)) \ BlocksIn(ich)
      /\ \E asked \in SUBSET (IF "aich" \in Events /\ after = "idle"
                              THEN bad ELSE {}) : aich' = aich \cup asked
  BY DEF CheckParts
<1>4. BlocksIn(bad) = {}
  BY <1>2 DEF BlocksIn
<1> HIDE DEF bad, ich
<1> QED
  BY <1>2, <1>3, <1>4

\* The result of the final hashing of a whole file.
LEMMA HashedWhole ==
  ASSUME RestType, Whole, FinalHashing, PartFileHashFinished
  PROVE  gaps' = {}
<1>1. \A p \in Part : HashesOk(p)
  BY DEF Whole, HashesOk, BlocksOf
<1>2. hashOk = Part
  BY <1>1 DEF FinalHashing, PartFileHashFinished
<1>3. gaps' = gaps \cup BlocksIn({p \in Part : IsComplete(p)} \ hashOk)
  BY DEF PartFileHashFinished
<1>4. {p \in Part : IsComplete(p)} \ hashOk = {}
  BY <1>2
<1> QED
  BY <1>3, <1>4 DEF Whole, BlocksIn

\* A whole file stays whole: nothing arrives, nothing is written, no part is
\* found corrupt.
LEMMA WholeStays ==
  RestType /\ Honest /\ Whole /\ FinalHashing /\ NoRecovery /\ [Next]_vars
    => Whole' \/ Crash
<1> SUFFICES ASSUME RestType, Honest, Whole, FinalHashing, NoRecovery,
                    [Next]_vars
             PROVE  Whole' \/ Crash
  OBVIOUS
<1> USE DEF vars, buffer, files, parts, state, others, bounds
<1>1. \A b \in Block : flushed[b] = "NONE" /\ b \notin gaps
  BY DEF Whole, Buffered
<1>2. CASE UNCHANGED <<gaps, flushed, disk, extra>>
  BY <1>2 DEF Whole, Buffered
<1>3. CASE \/ \E b \in Block : ScanItem(b) \/ Persist(b) \/ Report(b)
           \/ \E b \in Block, c \in {"good", "bad"} : WriteToBuffer(b, c)
           \/ \E p \in Part : RecoverPart(p) \/ AICHRecoveryDataAvailable(p)
           \/ ExtraByteWritten
  BY <1>1, <1>3
  DEF ScanItem, Persist, Report, WriteToBuffer, RecoverPart,
      AICHRecoveryDataAvailable, ExtraByteWritten, NoRecovery, Whole
<1>4. CASE FlushBuffer
  <2>1. UNCHANGED <<gaps, disk>> /\ Buffered' = Buffered
    BY <1>4 DEF FlushBuffer, Buffered
  <2>2. Buffered = {} /\ ~extra => ~extra'
    BY <1>4 DEF FlushBuffer
  <2> QED
    BY <2>1, <2>2 DEF Whole
<1>5. CASE WriteTmp
  <2>1. UNCHANGED <<gaps, disk, extra>> /\ Buffered' \subseteq Buffered
    BY <1>5 DEF WriteTmp, Buffered
  <2> QED
    BY <2>1 DEF Whole
<1>6. CASE CheckParts
  <2>1. gaps' \subseteq gaps
    BY <1>6, CheckOpensNothing DEF Whole
  <2>2. UNCHANGED <<flushed, disk, extra>>
    BY <1>6 DEF CheckParts
  <2> QED
    BY <2>1, <2>2 DEF Whole, Buffered
<1>7. CASE PartFileHashFinished
  <2>1. UNCHANGED <<flushed, disk, extra>>
    BY <1>7 DEF PartFileHashFinished
  <2> QED
    BY <1>7, <2>1, HashedWhole DEF Whole, Buffered
<1>8. CASE FlushOnClosedFile \/ FlushWithoutSpace \/ UpdateMet \/ FinishFlush
           \/ SavePartFile \/ RemoveMet \/ RenameMet \/ HashThread
           \/ StartMover \/ ClosePartFile \/ MoveFile \/ MoveFails
           \/ PerformFileCompleteEnd \/ PauseFile \/ StopFile \/ ResumeFile
           \/ Finished \/ UNCHANGED vars
  BY <1>2, <1>8
  DEF FlushOnClosedFile, FlushWithoutSpace, UpdateMet, FinishFlush,
      SavePartFile, RemoveMet, RenameMet, HashThread, StartMover,
      ClosePartFile, MoveFile, MoveFails, PerformFileCompleteEnd, PauseFile,
      StopFile, ResumeFile, Finished
<1> QED
  BY <1>3, <1>4, <1>5, <1>6, <1>7, <1>8 DEF Next, Handler, Mover

\* The final hashing is what ends in the sealed state.
LEMMA OverBegins ==
  RestType /\ Separate /\ [Next]_vars
    => \/ Over' => Over
       \/ PartFileHashFinished /\ status = "completing" /\ after' = "complete"
<1> SUFFICES ASSUME RestType, Separate, [Next]_vars, ~Over, Over'
             PROVE  PartFileHashFinished /\ status = "completing" /\ after' = "complete"
  OBVIOUS
<1> USE DEF vars, buffer, files, parts, state, others, bounds
<1>1. mover = "none" /\ handle /\ after # "complete" /\ pc # "complete"
  BY DEF Over, Separate, Quiet, Returns
<1>2. ~UNCHANGED <<mover, handle, after>>
  BY DEF Over
<1>3. ~StartFinalHashing \/ after' # after
  BY <1>1, <1>2 DEF StartFinalHashing
<1>4. CASE PartFileHashFinished
  BY <1>2, <1>4 DEF PartFileHashFinished
<1>5. ~Crash
  BY FileAssumption DEF Crash, Over
<1>6. ASSUME NEW p \in Part,
             RecoverPart(p) \/ AICHRecoveryDataAvailable(p)
      PROVE  FALSE
  <2>1. after' # "complete"
    BY <1>6, FileAssumption DEF RecoverPart, AICHRecoveryDataAvailable
  <2>2. mover' = "none" /\ handle' = handle
    BY <1>1, <1>6
    DEF RecoverPart, AICHRecoveryDataAvailable, StartFinalHashing
  <2> QED
    BY <1>1, <2>1, <2>2 DEF Over
<1>7. CASE FinishFlush \/ ResumeFile
  BY <1>2, <1>3, <1>7 DEF FinishFlush, ResumeFile
<1>8. CASE StartMover \/ ClosePartFile \/ MoveFile \/ MoveFails
           \/ PerformFileCompleteEnd
  BY <1>1, <1>8
  DEF StartMover, ClosePartFile, MoveFile, MoveFails, PerformFileCompleteEnd
<1>9. CASE FlushOnClosedFile \/ FlushWithoutSpace \/ FlushBuffer \/ CheckParts
           \/ UpdateMet \/ SavePartFile \/ WriteTmp \/ RemoveMet \/ RenameMet
           \/ HashThread \/ PauseFile \/ StopFile \/ ExtraByteWritten
           \/ Finished \/ UNCHANGED vars
           \/ (\E b \in Block : ScanItem(b) \/ Persist(b) \/ Report(b))
           \/ \E b \in Block, c \in {"good", "bad"} : WriteToBuffer(b, c)
  BY <1>2, <1>9
  DEF FlushOnClosedFile, FlushWithoutSpace, FlushBuffer, CheckParts, UpdateMet,
      SavePartFile, WriteTmp, RemoveMet, RenameMet, HashThread, PauseFile,
      StopFile, ExtraByteWritten, Finished, ScanItem, Persist, Report,
      WriteToBuffer
<1> QED
  BY <1>4, <1>5, <1>6, <1>7, <1>8, <1>9 DEF Next, Handler, Mover

\* A file that passes the final hashing is whole and good.
LEMMA NextSealed ==
  RestType /\ Honest /\ Separate /\ Finishing /\ [Next]_vars => Sealed'
<1> SUFFICES ASSUME RestType, Honest, Separate, Finishing, [Next]_vars, Over'
             PROVE  Whole'
  BY DEF Sealed
<1>1. CASE Over
  <2>1. ~Crash
    BY FileAssumption DEF Crash, Over
  <2> QED
    BY <1>1, <2>1, WholeStays DEF Finishing, Sealed
<1>2. CASE PartFileHashFinished /\ status = "completing" /\ after' = "complete"
  <2>1. /\ gaps = {} /\ ~extra /\ Buffered = {}
        /\ hashOk = {p \in Part : HashesOk(p)}
    BY <1>2 DEF PartFileHashFinished, Finishing, FinalHashing, Separate, Quiet,
                HashingQuiet
  <2> DEFINE bad == {p \in Part : IsComplete(p)} \ hashOk
  <2>2. bad = {} \/ after' = after
    BY <1>2 DEF PartFileHashFinished
  <2>3. CASE bad = {}
    <3>1. \A p \in Part : IsComplete(p)
      BY <2>1 DEF IsComplete
    <3>2. \A p \in Part : HashesOk(p)
      BY <2>1, <2>3, <3>1
    <3>3. \A b \in Block : disk[b] = "good"
      BY <3>2, FileAssumption DEF HashesOk, BlocksOf
    <3>4. Whole
      BY <2>1, <3>3 DEF Whole
    <3>5. ~Crash
      BY <1>2, FileAssumption DEF Crash, PartFileHashFinished
    <3> QED
      BY <3>4, <3>5, WholeStays DEF Finishing
  <2>4. CASE after' = after
    BY <1>1, <1>2, <2>4 DEF Over
  <2> QED
    BY <2>2, <2>3, <2>4
<1> QED
  BY <1>1, <1>2, OverBegins

\* Only the completion thread closes the file, and only for good.
LEMMA NextClosed ==
  Separate /\ Finishing /\ [Next]_vars => Closed'
<1> SUFFICES ASSUME Separate, Finishing, [Next]_vars PROVE Closed'
  OBVIOUS
<1> USE DEF vars, buffer, files, parts, state, others, bounds
<1>1. compError \/ status = "complete" \/ mover \in {"move", "moved"} => ~handle
  BY DEF Finishing, Closed
<1>2. CASE /\ UNCHANGED <<compError, handle>>
           /\ status' = "complete" => status = "complete"
           /\ mover' \in {mover, "done"}
  BY <1>1, <1>2 DEF Closed
<1>3. StartFinalHashing =>
        /\ handle' = handle /\ status' # "complete" /\ mover' \in {mover, "done"}
  BY DEF StartFinalHashing
<1>4. CASE FinishFlush \/ \E p \in Part : RecoverPart(p)
  BY <1>2, <1>3, <1>4 DEF FinishFlush, RecoverPart
<1>5. CASE ResumeFile
  BY <1>1, <1>3, <1>5 DEF ResumeFile, Closed
<1>6. CASE StartMover
  <2>1. mover = "none"
    BY <1>6 DEF StartMover, Separate, Quiet, Returns, CompletionFlush
  <2> QED
    BY <1>1, <1>6, <2>1 DEF StartMover, Closed
<1>7. CASE ClosePartFile \/ MoveFile \/ MoveFails \/ PerformFileCompleteEnd
  BY <1>1, <1>7
  DEF ClosePartFile, MoveFile, MoveFails, PerformFileCompleteEnd, Closed
<1>8. CASE Crash
  BY <1>8 DEF Crash, LoadPartFile, Closed
<1>9. CASE FlushOnClosedFile \/ FlushWithoutSpace \/ FlushBuffer \/ CheckParts
           \/ UpdateMet \/ SavePartFile \/ WriteTmp \/ RemoveMet \/ RenameMet
           \/ HashThread \/ PartFileHashFinished \/ PauseFile \/ StopFile
           \/ ExtraByteWritten \/ Finished \/ UNCHANGED vars
           \/ (\E b \in Block : ScanItem(b) \/ Persist(b) \/ Report(b))
           \/ (\E b \in Block, c \in {"good", "bad"} : WriteToBuffer(b, c))
           \/ \E p \in Part : AICHRecoveryDataAvailable(p)
  BY <1>2, <1>9
  DEF FlushOnClosedFile, FlushWithoutSpace, FlushBuffer, CheckParts, UpdateMet,
      SavePartFile, WriteTmp, RemoveMet, RenameMet, HashThread,
      PartFileHashFinished, PauseFile, StopFile, ExtraByteWritten, Finished,
      ScanItem, Persist, Report, WriteToBuffer, AICHRecoveryDataAvailable
<1> QED
  BY <1>4, <1>5, <1>6, <1>7, <1>8, <1>9 DEF Next, Handler, Mover

\* What the hashing thread found is still true when it is judged: nothing is
\* written to a file that is hashed.
LEMMA NextHashed ==
  RestType /\ Separate /\ FinalHashing /\ [Next]_vars
    => (hashing' = "done" => hashOk' = {p \in Part : HashesOk(p)'})
<1> SUFFICES ASSUME RestType, Separate, FinalHashing, [Next]_vars,
                    hashing' = "done"
             PROVE  hashOk' = {p \in Part : HashesOk(p)'}
  OBVIOUS
<1> USE DEF vars, buffer, files, parts, state, others, bounds
<1>1. CASE HashThread
  BY <1>1 DEF HashThread, HashesOk, BlocksOf
<1>2. CASE hashing # "done" \/ disk' # disk
  <2>1. ~StartFinalHashing \/ hashing = "done"
    BY DEF StartFinalHashing
  <2>2. ~Crash /\ ~PartFileHashFinished
    BY DEF Crash, LoadPartFile, PartFileHashFinished
  <2>3. hashing # "done" \/ \A b \in Block : ~Persist(b)
    BY DEF Separate, Quiet, HashingQuiet, Persist, Buffered
  <2> QED
    BY <1>1, <1>2, <2>1, <2>2, <2>3
    DEF Next, Handler, Mover, FlushOnClosedFile, FlushWithoutSpace, FlushBuffer,
        ScanItem, CheckParts, UpdateMet, FinishFlush, SavePartFile, WriteTmp,
        RemoveMet, RenameMet, StartMover, ClosePartFile, MoveFile, MoveFails,
        PerformFileCompleteEnd, AICHRecoveryDataAvailable, RecoverPart,
        PauseFile, StopFile, ResumeFile, WriteToBuffer, Persist, Report,
        ExtraByteWritten, Finished
<1>3. CASE hashing = "done" /\ disk' = disk
  <2>1. hashOk = {p \in Part : HashesOk(p)}
    BY <1>3 DEF FinalHashing
  <2>2. \A p : HashesOk(p)' <=> HashesOk(p)
    BY <1>3 DEF HashesOk, BlocksOf
  <2>3. hashOk' = hashOk
    <3>1. ~HashThread /\ ~PartFileHashFinished /\ ~Crash
      BY <1>3 DEF HashThread, PartFileHashFinished, Crash, LoadPartFile
    <3> QED
      BY <3>1
      DEF Next, Handler, Mover, FlushOnClosedFile, FlushWithoutSpace,
          FlushBuffer, ScanItem, CheckParts, UpdateMet, FinishFlush,
          SavePartFile, WriteTmp, RemoveMet, RenameMet, StartMover,
          ClosePartFile, MoveFile, MoveFails, PerformFileCompleteEnd,
          AICHRecoveryDataAvailable, RecoverPart, PauseFile, StopFile,
          ResumeFile, WriteToBuffer, Persist, Report, ExtraByteWritten,
          Finished, StartFinalHashing
  <2> QED
    BY <2>1, <2>2, <2>3
<1> QED
  BY <1>2, <1>3

\* A file that is hashed for the last time is whole, and stays whole.
LEMMA NextWholeHashing ==
  RestType /\ Honest /\ Separate /\ Finishing /\ (Undisturbed \/ AllGood)
    /\ [Next]_vars
    => (hashing' # "none" /\ status' = "completing" => gaps' = {} /\ ~extra')
<1> SUFFICES ASSUME RestType, Honest, Separate, Finishing,
                    Undisturbed \/ AllGood, [Next]_vars,
                    hashing' # "none", status' = "completing"
             PROVE  gaps' = {} /\ ~extra'
  OBVIOUS
<1> USE DEF vars, buffer, files, parts, state, others, bounds
<1>1. CASE hashing # "none" /\ status = "completing"
  <2>1. /\ gaps = {} /\ ~extra /\ Buffered = {} /\ after \notin Part
        /\ Undisturbed => pc \notin {"flush", "scan"}
    BY <1>1 DEF Finishing, FinalHashing, NoRecovery, Separate, Quiet,
                HashingQuiet, Reason, NoCheck
  <2>2. CASE UNCHANGED <<gaps, extra>>
    BY <2>1, <2>2
  <2>3. CASE FlushBuffer
    BY <2>1, <2>3 DEF FlushBuffer
  <2>4. CASE CheckParts
    <3>1. GoodData
      BY <2>1, <2>4 DEF CheckParts, Finishing, Reason
    <3> QED
      BY <2>1, <2>4, <3>1, CheckOpensNothing DEF CheckParts
  <2>5. ~PartFileHashFinished
    BY DEF PartFileHashFinished
  <2>6. CASE Crash
    BY <2>6 DEF Crash, LoadPartFile
  <2>7. ASSUME NEW p \in Part PROVE ~RecoverPart(p)
    BY <2>1 DEF RecoverPart
  <2>8. ASSUME NEW b \in Block, NEW c \in {"good", "bad"}
        PROVE  ~WriteToBuffer(b, c)
    BY <2>1 DEF WriteToBuffer
  <2>9. CASE ExtraByteWritten
    BY <2>1, <2>9 DEF ExtraByteWritten
  <2> QED
    BY <2>2, <2>3, <2>4, <2>5, <2>6, <2>7, <2>8, <2>9
    DEF Next, Handler, Mover, FlushOnClosedFile, FlushWithoutSpace, ScanItem,
        UpdateMet, FinishFlush, SavePartFile, WriteTmp, RemoveMet, RenameMet,
        HashThread, StartMover, ClosePartFile, MoveFile, MoveFails,
        PerformFileCompleteEnd, AICHRecoveryDataAvailable, PauseFile, StopFile,
        ResumeFile, Persist, Report, Finished
<1>2. CASE ~(hashing # "none" /\ status = "completing")
  <2>1. CASE FinishFlush
    BY <1>2, <2>1 DEF FinishFlush
  <2>2. CASE ResumeFile
    <3>1. compError /\ gaps = {} /\ UNCHANGED <<gaps, extra>>
      BY <1>2, <2>2 DEF ResumeFile
    <3>2. ~extra
      BY <3>1 DEF Finishing, Closed, Sealed, Over, Whole
    <3> QED
      BY <3>1, <3>2
  <2>3. CASE Crash
    BY <2>3 DEF Crash, LoadPartFile
  <2>4. CASE StartMover
    BY <2>4 DEF StartMover, Separate, Quiet, Returns, CompletionFlush
  <2>5. ASSUME NEW p \in Part PROVE ~RecoverPart(p)
    BY DEF RecoverPart, Finishing, NoRecovery
  <2> QED
    BY <1>2, <2>1, <2>2, <2>3, <2>4, <2>5
    DEF Next, Handler, Mover, FlushOnClosedFile, FlushWithoutSpace, FlushBuffer,
        ScanItem, CheckParts, UpdateMet, SavePartFile, WriteTmp, RemoveMet,
        RenameMet, HashThread, PartFileHashFinished, ClosePartFile, MoveFile,
        MoveFails, PerformFileCompleteEnd, AICHRecoveryDataAvailable,
        PauseFile, StopFile, WriteToBuffer, Persist, Report, ExtraByteWritten,
        Finished
<1> QED
  BY <1>1, <1>2

\* No AICH recovery begins: nobody asks for one, or no part is bad.
LEMMA NextNoRecovery ==
  RestType /\ Honest /\ Finishing /\ (Undisturbed \/ AllGood) /\ [Next]_vars
    => NoRecovery'
<1> SUFFICES ASSUME RestType, Honest, Finishing, Undisturbed \/ AllGood,
                    [Next]_vars
             PROVE  NoRecovery'
  OBVIOUS
<1> USE DEF vars, buffer, files, parts, state, others, bounds
<1>1. aich = {} /\ after \notin Part /\ {"idle", "complete"} \cap Part = {}
  BY FileAssumption DEF Finishing, NoRecovery
<1>2. CASE CheckParts
  <2>1. aich' = {}
    <3>1. CASE Undisturbed
      BY <1>1, <1>2, <3>1 DEF CheckParts, Undisturbed
    <3>2. CASE AllGood
      BY <1>1, <1>2, <3>2, CheckOpensNothing DEF Finishing, Reason
    <3> QED
      BY <3>1, <3>2
  <2> QED
    BY <1>1, <1>2, <2>1 DEF CheckParts, NoRecovery
<1>3. CASE PartFileHashFinished \/ StartMover \/ Crash
  BY <1>1, <1>3 DEF PartFileHashFinished, StartMover, Crash, NoRecovery
<1>4. ASSUME NEW p \in Part
      PROVE  ~RecoverPart(p) /\ ~AICHRecoveryDataAvailable(p)
  BY <1>1 DEF RecoverPart, AICHRecoveryDataAvailable
<1>5. CASE UNCHANGED <<aich, after>>
  BY <1>1, <1>5 DEF NoRecovery
<1> QED
  BY <1>2, <1>3, <1>4, <1>5
  DEF Next, Handler, Mover, FlushOnClosedFile, FlushWithoutSpace, FlushBuffer,
      ScanItem, UpdateMet, FinishFlush, SavePartFile, WriteTmp, RemoveMet,
      RenameMet, HashThread, ClosePartFile, MoveFile, MoveFails,
      PerformFileCompleteEnd, PauseFile, StopFile, ResumeFile, WriteToBuffer,
      Persist, Report, ExtraByteWritten, Finished

\* The main thread does not flush during the final hashing.
LEMMA NextNoCheck ==
  RestType /\ Separate /\ NoRecovery /\ NoCheck /\ Undisturbed /\ [Next]_vars
    => NoCheck'
<1> SUFFICES ASSUME RestType, Separate, NoRecovery, NoCheck, Undisturbed,
                    [Next]_vars
             PROVE  NoCheck'
  OBVIOUS
<1> USE DEF vars, buffer, files, parts, state, others, bounds
<1> DEFINE Final == hashing # "none" /\ status = "completing"
<1>1. /\ ret \notin {"flush", "scan"} /\ (Final => pc \notin {"flush", "scan"})
      /\ AfterFlush \notin {"flush", "scan"} /\ aich = {}
  BY FileAssumption DEF NoCheck, NoRecovery, AfterFlush, RestType
<1>2. ~StopFile /\ \A p \in Part : /\ ~AICHRecoveryDataAvailable(p)
                                  /\ ~RecoverPart(p)
  BY <1>1
  DEF StopFile, AICHRecoveryDataAvailable, RecoverPart, Undisturbed, NoRecovery
<1>3. CASE /\ ret' \in {ret, "end", "idle"}
           /\ \/ pc' \notin {"flush", "scan"}
              \/ pc' = pc /\ (Final' => Final)
              \/ ~Final'
  BY <1>1, <1>3 DEF NoCheck
<1>4. CASE FlushBuffer \/ \E b \in Block : ScanItem(b)
  <2>1. /\ ret' = ret /\ (Final' => Final)
        /\ Final => pc = "scan" \/ MayFlush
    BY <1>4 DEF FlushBuffer, ScanItem
  <2>2. ~Final
    BY <1>1, <2>1 DEF MayFlush
  <2> QED
    BY <1>3, <2>1, <2>2
<1>5. ASSUME NEW b \in Block, NEW c \in {"good", "bad"}, WriteToBuffer(b, c)
      PROVE  NoCheck'
  BY <1>1, <1>5 DEF WriteToBuffer, NoCheck
<1>6. CASE PartFileHashFinished \/ StartMover \/ Crash
  BY <1>1, <1>6 DEF PartFileHashFinished, StartMover, Crash, LoadPartFile, NoCheck
<1>7. CASE FlushOnClosedFile \/ FlushWithoutSpace \/ CheckParts \/ UpdateMet
           \/ FinishFlush \/ SavePartFile \/ WriteTmp \/ RemoveMet \/ RenameMet
           \/ PauseFile
  <2>1. ret' \in {ret, "end", "idle"} /\ pc' \notin {"flush", "scan"}
    BY <1>1, <1>7
    DEF FlushOnClosedFile, FlushWithoutSpace, CheckParts, UpdateMet, FinishFlush,
        SavePartFile, WriteTmp, RemoveMet, RenameMet, PauseFile
  <2> QED
    BY <1>3, <2>1
<1>8. CASE ResumeFile
  BY <1>1, <1>8 DEF ResumeFile, NoCheck
<1>9. CASE HashThread \/ ClosePartFile \/ MoveFile \/ MoveFails
           \/ PerformFileCompleteEnd \/ ExtraByteWritten
           \/ Finished \/ UNCHANGED vars
           \/ \E b \in Block : Persist(b) \/ Report(b)
  BY <1>1, <1>9
  DEF HashThread, ClosePartFile, MoveFile, MoveFails, PerformFileCompleteEnd,
      ExtraByteWritten, Finished, Persist, Report, NoCheck
<1> QED
  BY <1>2, <1>4, <1>5, <1>6, <1>7, <1>8, <1>9 DEF Next, Handler, Mover

\* Without corrupt data and crashes nothing bad is buffered or written.
LEMMA NextGoodData ==
  RestType /\ GoodData /\ AllGood /\ [Next]_vars => GoodData'
<1> SUFFICES ASSUME RestType, GoodData, AllGood, [Next]_vars PROVE GoodData'
  OBVIOUS
<1> USE DEF vars, buffer, files, parts, state, others, bounds
<1>1. /\ holes = {} /\ \A b \in Block : data[b] = "good" /\ disk[b] # "bad"
      /\ data \in [Block -> {"good", "bad"}] /\ disk \in [Block -> Content]
  BY DEF GoodData, RestType
<1>2. ~Crash
  BY EventAssumption DEF Crash, AllGood, RestType
<1>3. ASSUME NEW b \in Block, NEW c \in {"good", "bad"}, WriteToBuffer(b, c)
      PROVE  GoodData'
  <2>1. c = "good"
    BY <1>3, EventAssumption DEF WriteToBuffer, AllGood, RestType
  <2>2. data' = [data EXCEPT ![b] = c] /\ UNCHANGED <<holes, disk>>
    BY <1>3 DEF WriteToBuffer
  <2> QED
    BY <1>1, <2>1, <2>2 DEF GoodData
<1>4. ASSUME NEW b \in Block, Persist(b) PROVE GoodData'
  <2>1. disk' = [disk EXCEPT ![b] = data[b]] /\ UNCHANGED <<holes, data>>
    BY <1>4 DEF Persist
  <2> QED
    BY <1>1, <2>1 DEF GoodData
<1>5. CASE UNCHANGED <<holes, data, disk>>
  BY <1>1, <1>5 DEF GoodData
<1> QED
  BY <1>2, <1>3, <1>4, <1>5
  DEF Next, Handler, Mover, FlushOnClosedFile, FlushWithoutSpace, FlushBuffer,
      ScanItem, CheckParts, UpdateMet, FinishFlush, SavePartFile, WriteTmp,
      RemoveMet, RenameMet, HashThread, PartFileHashFinished, StartMover,
      ClosePartFile, MoveFile, MoveFails, PerformFileCompleteEnd,
      AICHRecoveryDataAvailable, RecoverPart, PauseFile, StopFile, ResumeFile,
      Report, ExtraByteWritten, Finished

\* The invariant of the two theorems that follow.
LEMMA FinishingHolds ==
  ASSUME Undisturbed \/ AllGood
  PROVE  Spec => [](RestType /\ Separate /\ Finishing)
<1>1. RestType /\ Honest /\ Separate /\ Finishing /\ [Next]_vars => Finishing'
  <2> SUFFICES ASSUME RestType, Honest, Separate, Finishing, [Next]_vars
               PROVE  Finishing'
    OBVIOUS
  <2>1. Sealed' /\ Closed'
    BY NextSealed, NextClosed
  <2>2. FinalHashing'
    BY Undisturbed \/ AllGood, NextWholeHashing, NextHashed
    DEF Finishing, FinalHashing
  <2>3. NoRecovery'
    BY Undisturbed \/ AllGood, NextNoRecovery
  <2>4. (Undisturbed => NoCheck')
    BY NextNoCheck DEF Finishing, Reason
  <2>5. (AllGood => GoodData')
    BY NextGoodData DEF Finishing, Reason
  <2> QED
    BY <2>1, <2>2, <2>3, <2>4, <2>5
    DEF Finishing, Reason, Undisturbed, AllGood
<1> QED
  BY <1>1, InitFinishing, HonestHolds, SeparateHolds, PTL DEF Spec

(***************************************************************************)
(* "never deliver a corrupt file" (HashSinglePart): what the completion    *)
(* thread moves is good, whatever was corrupt, failed or crashed before.   *)
(* This is so where nobody flushes the file during its final hashing: not  *)
(* StopFile, not an AICH answer that comes late (the run PartFileCorrupt   *)
(* has the counterexample); or where no corrupt data comes at all.         *)
(***************************************************************************)
THEOREM MovedIsGood ==
  ASSUME Undisturbed \/ AllGood PROVE Spec => []OnlyGoodFilesMove
<1>1. Finishing => OnlyGoodFilesMove
  BY DEF Finishing, Sealed, Closed, Over, Whole, OnlyGoodFilesMove
<1> QED
  BY <1>1, Undisturbed \/ AllGood, FinishingHolds, PTL

(***************************************************************************)
(* The assertion of CompleteFile, for as long as the hashing that it       *)
(* starts runs: nothing is missing, nothing buffered and nothing being     *)
(* written, under the same condition.                                      *)
(***************************************************************************)
THEOREM CompleteFileAssertion ==
  ASSUME Undisturbed \/ AllGood PROVE Spec => []CompleteFileAsserts
<1>1. Separate /\ Finishing => CompleteFileAsserts
  BY DEF Separate, Quiet, HashingQuiet, Finishing, FinalHashing,
         CompleteFileAsserts
<1> QED
  BY <1>1, Undisturbed \/ AllGood, FinishingHolds, PTL
===============================================================================
