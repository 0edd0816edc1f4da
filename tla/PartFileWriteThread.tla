-------------------------- MODULE PartFileWriteThread --------------------------
(***************************************************************************)
(* CPartFileWriteThread and the part of CPartFile::FlushBuffer that talks  *)
(* to it: the hand-over of buffered data under m_lockFlushList, the        *)
(* wake-up protocol over m_Run, m_bNewData and the completion port, the    *)
(* overlapped writes, and the end of the thread.                           *)
(*                                                                         *)
(* One part file; its buffered items are numbered by their file offset.    *)
(* Two processes, the main thread (mpc) and the write thread (wpc), and    *)
(* the operating system, which finishes outstanding writes in any order.   *)
(***************************************************************************)
EXTENDS Integers, Sequences, FiniteSets

CONSTANTS Item,       \* buffered items, by offset in the file
          AllocFull,  \* preference: allocate the full file on the first flush
          Faults,     \* which failures of the environment may happen
          MayStop,    \* may the program be closed
          MaxPort,    \* bound: no flush while this many packets are queued
          MaxLeak     \* bound: no short write once m_iWrites is above this

FaultKinds == {"open",      \* AddFile cannot open or associate the file
               "sync",      \* WriteFile fails at once
               "short",     \* a write completes with fewer bytes
               "dequeue"}   \* GetQueuedCompletionStatus returns FALSE for it

ASSUME ItemAssumption == Item \subseteq Nat \ {0} /\ IsFiniteSet(Item)
ASSUME SwitchAssumption ==
  /\ AllocFull \in BOOLEAN
  /\ MayStop \in BOOLEAN
  /\ Faults \subseteq FaultKinds
  /\ MaxPort \in Nat /\ MaxLeak \in Nat

(***************************************************************************)
(* The item of the extra byte that is written behind the file to allocate  *)
(* it; it is never in m_BufferedData_list (its data pointer is NULL).      *)
(***************************************************************************)
Extra == 0
Request == Item \cup {Extra}

VARIABLES
  flushed,      \* PartFileBufferedData::flushed; "NONE": not buffered
  onDisk,       \* items whose current bytes are in the part file
  allocated,    \* the part file has a length (GetLength() > 0)
  iWrites,      \* CPartFile::m_iWrites
  hWrite,       \* CPartFile::m_hWrite is an open handle
  fileError,    \* the file's status is PS_ERROR
  flushList,    \* m_FlushList
  listToWrite,  \* m_listToWrite
  pendingIO,    \* m_listPendingIO
  run,          \* m_Run
  newData,      \* m_bNewData
  port,         \* packets queued in the completion port m_hPort
  inflight,     \* overlapped writes the system has not finished
  freed,        \* entries of m_listPendingIO whose structure was deleted
  cur,          \* packet the write thread took from the port last
  mpc, todo,    \* main thread: where it is, items its scan has left
  wpc           \* write thread: where it is

itemVars   == <<flushed, onDisk>>
fileVars   == <<allocated, iWrites, hWrite, fileError>>
listVars   == <<listToWrite, pendingIO, freed>>
mainVars   == <<mpc, todo>>
threadVars == <<cur, wpc>>
vars == <<itemVars, fileVars, flushList, listVars, run, newData, port,
          inflight, mainVars, threadVars>>

FlushState == {"NONE", "READY", "PENDING", "ERROR", "WRITTEN"}
Wakeup == [kind |-> "wakeup", of |-> Extra, ok |-> TRUE]
Exit   == [kind |-> "exit",   of |-> Extra, ok |-> TRUE]
Io(x, ok) == [kind |-> "io", of |-> x, ok |-> ok]
\* a packet for which GetQueuedCompletionStatus will return FALSE
Failed(x) == [kind |-> "failed", of |-> x, ok |-> FALSE]
Packet == [kind : {"wakeup", "exit", "io", "failed"}, of : Request, ok : BOOLEAN]

Buffered == {i \in Item : flushed[i] # "NONE"}
IsRunning == run # "STOP"

(***************************************************************************)
(* The READY items in list order; `Elements' of a sequence.                *)
(***************************************************************************)
Elements(s) == {s[n] : n \in DOMAIN s}
InOffsetOrder(s, S) ==
  /\ Elements(s) = S
  /\ \A m, n \in DOMAIN s : m < n => s[m] < s[n]

Init ==
  /\ flushed = [i \in Item |-> "NONE"]
  /\ onDisk = {}
  /\ allocated = FALSE
  /\ iWrites = 0
  /\ hWrite = FALSE
  /\ fileError = FALSE
  /\ flushList = <<>> /\ listToWrite = <<>>
  /\ pendingIO = {} /\ inflight = {} /\ freed = {}
  /\ run = "STOP" /\ newData = FALSE
  /\ port = <<>>
  /\ cur = Wakeup
  /\ mpc = "idle" /\ todo = {}
  /\ wpc = "create"

-------------------------------------------------------------------------------
(***************************************************************************)
(* Main thread                                                             *)
(***************************************************************************)

\* a mistake: data is taken for a range that is being written
RebufferPending(i) ==
  /\ mpc = "idle"
  /\ flushed[i] \in {"NONE", "PENDING"}
  /\ flushed' = [flushed EXCEPT ![i] = "READY"]
  /\ onDisk' = onDisk \ {i}
  /\ UNCHANGED <<fileVars, flushList, listVars, run, newData, port, inflight,
                 mainVars, threadVars>>

\* WriteToBuffer: a new item, for a range that is not buffered yet
WriteToBuffer(i) ==
  /\ mpc = "idle"
  /\ flushed[i] = "NONE"
  /\ flushed' = [flushed EXCEPT ![i] = "READY"]
  /\ onDisk' = onDisk \ {i}
  /\ UNCHANGED <<fileVars, flushList, listVars, run, newData, port, inflight,
                 mainVars, threadVars>>

(***************************************************************************)
(* FlushBuffer, first half: every READY item goes to m_FlushList under the *)
(* lock.  On the first flush of a file that is to be allocated in full,    *)
(* either the last item goes to the head of the list (it is at the end of  *)
(* the file) or the extra byte does.                                       *)
(***************************************************************************)
FlushBuffer ==
  /\ mpc = "idle" /\ Len(port) < MaxPort
  /\ allocated' = (allocated \/ Buffered # {})
  /\ IF ~IsRunning
     THEN /\ mpc' = "scan" /\ todo' = Buffered
          /\ UNCHANGED <<flushed, flushList>>
     ELSE LET ready == {i \in Item : flushed[i] = "READY"} IN
          /\ mpc' = "check" /\ todo' = {}
          /\ flushed' = [i \in Item |->
                           IF i \in ready THEN "PENDING" ELSE flushed[i]]
          /\ \E s \in [1..Cardinality(ready) -> ready] :
               /\ InOffsetOrder(s, ready)
               /\ \/ /\ ready = {} \/ allocated \/ ~AllocFull
                     /\ flushList' = flushList \o s
                  \/ /\ ready # {} /\ ~allocated /\ AllocFull
                     /\ flushList' = <<Extra>> \o flushList \o s
                  \/ \* the last buffered byte is the last one of the file
                     /\ ready # {} /\ ~allocated /\ AllocFull
                     /\ flushList' = <<s[Len(s)]>> \o flushList
                                       \o SubSeq(s, 1, Len(s) - 1)
  /\ UNCHANGED <<onDisk, iWrites, hWrite, fileError, listVars, run, newData,
                 port, inflight, threadVars>>

\* "let it sleep if nothing to do"
CheckFlushList ==
  /\ mpc = "check"
  /\ IF flushList = <<>>
     THEN mpc' = "scan" /\ todo' = Buffered
     ELSE mpc' = "wake" /\ todo' = {}
  /\ UNCHANGED <<itemVars, fileVars, flushList, listVars, run, newData, port,
                 inflight, threadVars>>

\* a mistake: only the flag is set, no packet is posted to a sleeping thread
WakeUpByFlag ==
  /\ mpc = "wake"
  /\ mpc' = "mark" /\ todo' = {}
  /\ UNCHANGED <<itemVars, fileVars, flushList, listVars, run, newData, port,
                 inflight, threadVars>>

(***************************************************************************)
(* WakeUpCall reads m_Run and m_listPendingIO without a lock; setting      *)
(* m_bNewData is a step of its own.                                        *)
(***************************************************************************)
WakeUpCall ==
  /\ mpc = "wake"
  /\ IF run = "IDLE" /\ pendingIO = {}
     THEN /\ port' = Append(port, Wakeup)
          /\ mpc' = "scan" /\ todo' = Buffered
     ELSE /\ mpc' = "mark" /\ todo' = {}
          /\ UNCHANGED port
  /\ UNCHANGED <<itemVars, fileVars, flushList, listVars, run, newData,
                 inflight, threadVars>>

MarkNewData ==
  /\ mpc = "mark"
  /\ newData' = TRUE
  /\ mpc' = "scan" /\ todo' = Buffered
  /\ UNCHANGED <<itemVars, fileVars, flushList, listVars, run, port, inflight,
                 threadVars>>

\* a mistake: an item that could not be written is deleted like a written one
ScanDropsFailed(i) ==
  /\ mpc = "scan"
  /\ i \in todo /\ \A j \in todo : i <= j
  /\ todo' = todo \ {i}
  /\ flushed' = [flushed EXCEPT ![i] =
                   IF @ \in {"WRITTEN", "ERROR"} THEN "NONE" ELSE @]
  /\ UNCHANGED <<onDisk, fileVars, mpc, flushList, listVars, run, newData,
                 port, inflight, threadVars>>

(***************************************************************************)
(* FlushBuffer, second half: what the thread made of each item, in list    *)
(* order.  A failed item is prepared for resending and the exception       *)
(* handler puts the file into PS_ERROR.                                    *)
(***************************************************************************)
ScanItem(i) ==
  /\ mpc = "scan"
  /\ i \in todo /\ \A j \in todo : i <= j
  /\ \/ /\ flushed[i] = "WRITTEN"          \* DeleteWrittenItem
        /\ flushed' = [flushed EXCEPT ![i] = "NONE"]
        /\ todo' = todo \ {i}
        /\ UNCHANGED <<mpc, fileError>>
     \/ /\ flushed[i] = "ERROR"
        /\ flushed' = [flushed EXCEPT ![i] = "READY"]
        /\ fileError' = TRUE
        /\ todo' = {} /\ mpc' = "idle"
     \/ /\ flushed[i] \notin {"WRITTEN", "ERROR"}
        /\ todo' = todo \ {i}
        /\ UNCHANGED <<flushed, mpc, fileError>>
  /\ UNCHANGED <<onDisk, allocated, iWrites, hWrite, flushList, listVars, run,
                 newData, port, inflight, threadVars>>

\* the end of FlushBuffer
ScanDone ==
  /\ mpc = "scan" /\ todo = {}
  /\ mpc' = "idle"
  /\ UNCHANGED <<itemVars, fileVars, flushList, listVars, run, newData, port,
                 inflight, todo, threadVars>>

\* a mistake: the thread is left to find RUN_STOP for itself
EndWithoutPost ==
  /\ MayStop /\ mpc = "idle" /\ wpc # "create"
  /\ run' = "STOP"
  /\ mpc' = "join"
  /\ UNCHANGED <<itemVars, fileVars, flushList, listVars, newData, port,
                 inflight, todo, threadVars>>

(***************************************************************************)
(* The end of the program: EndThread stores RUN_STOP, posts the packet     *)
(* with key 0 and waits for the thread.  (Closing before the thread has    *)
(* created its port is not modelled.)                                      *)
(***************************************************************************)
EndThread ==
  /\ MayStop /\ mpc = "idle" /\ wpc # "create"
  /\ run' = "STOP"
  /\ port' = IF wpc = "ended" THEN port ELSE Append(port, Exit)
  /\ mpc' = "join"
  /\ UNCHANGED <<itemVars, fileVars, flushList, listVars, newData, inflight,
                 todo, threadVars>>

Join ==
  /\ mpc = "join" /\ wpc = "ended"
  /\ mpc' = "closed"
  /\ UNCHANGED <<itemVars, fileVars, flushList, listVars, run, newData, port,
                 inflight, todo, threadVars>>

-------------------------------------------------------------------------------
(***************************************************************************)
(* Write thread (RunInternal)                                              *)
(***************************************************************************)

CreatePort ==
  /\ wpc = "create"
  /\ run' = "IDLE"
  /\ wpc' = "wait"
  /\ UNCHANGED <<itemVars, fileVars, flushList, listVars, newData, port,
                 inflight, mainVars, cur>>

\* GetQueuedCompletionStatus(INFINITE) and the condition of the outer loop
Wait ==
  /\ wpc = "wait" /\ port # <<>>
  /\ port' = Tail(port)
  /\ IF Head(port).kind \in {"exit", "failed"}
     THEN wpc' = "stop" /\ UNCHANGED <<run, cur>>
     ELSE wpc' = "move" /\ run' = "WORK" /\ cur' = Head(port)
  /\ UNCHANGED <<itemVars, fileVars, flushList, listVars, newData, inflight,
                 mainVars>>

\* move m_FlushList to the local list, under m_lockFlushList
MoveFlushList ==
  /\ wpc = "move"
  /\ wpc' = "write"
  /\ listToWrite' = listToWrite \o flushList
  /\ flushList' = <<>>
  /\ newData' = (newData /\ flushList = <<>>)
  /\ UNCHANGED <<itemVars, fileVars, pendingIO, freed, run, port, inflight,
                 mainVars, cur>>

(***************************************************************************)
(* One round of WriteBuffers: AddFile, then WriteFile.                     *)
(***************************************************************************)
Next1 == Head(listToWrite)

\* AddFile failed: the buffer is forgotten, its state stays PENDING
WriteNoFile ==
  /\ ~hWrite /\ "open" \in Faults
  /\ fileError' = TRUE
  /\ wpc' = "write"
  /\ UNCHANGED <<flushed, iWrites, hWrite, pendingIO, inflight>>

\* a mistake: the outstanding write is not counted
StartUncounted ==
  /\ hWrite' = TRUE
  /\ pendingIO' = pendingIO \cup {Next1}
  /\ inflight' = inflight \cup {Next1}
  /\ wpc' = "write"
  /\ UNCHANGED <<flushed, iWrites, fileError>>

\* the write was started
WriteStarted ==
  /\ hWrite' = TRUE
  /\ pendingIO' = pendingIO \cup {Next1}
  /\ inflight' = inflight \cup {Next1}
  /\ iWrites' = iWrites + 1
  /\ wpc' = "write"
  /\ UNCHANGED <<flushed, fileError>>

\* WriteFile failed at once: the rest of the list waits for the next round
WriteRefused ==
  /\ "sync" \in Faults
  /\ flushed' = [i \in Item |-> IF i = Next1 THEN "ERROR" ELSE flushed[i]]
  /\ hWrite' = FALSE      \* RemFile
  /\ wpc' = "complete"
  /\ UNCHANGED <<iWrites, fileError, pendingIO, inflight>>

WriteBuffers ==
  /\ wpc = "write"
  /\ IF listToWrite = <<>> \/ ~IsRunning
     THEN /\ wpc' = "complete"
          /\ UNCHANGED <<flushed, iWrites, hWrite, fileError, listToWrite,
                         pendingIO, inflight>>
     ELSE /\ listToWrite' = Tail(listToWrite)
          /\ WriteNoFile \/ WriteStarted \/ WriteRefused
  /\ UNCHANGED <<onDisk, allocated, flushList, freed, run, newData, port,
                 mainVars, cur>>

\* mistakes: the size is not compared, m_iWrites or the list is left alone
CompleteIgnoresSize(x) ==
  /\ pendingIO' = pendingIO \ {x}
  /\ iWrites' = iWrites - 1
  /\ flushed' = [i \in Item |-> IF i = x THEN "WRITTEN" ELSE flushed[i]]
  /\ UNCHANGED <<hWrite, freed>>
CompleteUncounted(x) ==
  /\ pendingIO' = pendingIO \ {x}
  /\ flushed' = [i \in Item |-> IF i = x THEN "WRITTEN" ELSE flushed[i]]
  /\ UNCHANGED <<iWrites, hWrite, freed>>
CompleteKeepsEntry(x) ==
  /\ iWrites' = iWrites - 1
  /\ flushed' = [i \in Item |-> IF i = x THEN "WRITTEN" ELSE flushed[i]]
  /\ UNCHANGED <<pendingIO, hWrite, freed>>

(***************************************************************************)
(* WriteCompletionRoutine for the packet in hand.  A short write leaves    *)
(* m_iWrites as it is.  Once the main thread has stored RUN_STOP the       *)
(* structure is deleted and its entry stays in m_listPendingIO.            *)
(***************************************************************************)
CompleteIo(x) ==
  IF IsRunning
  THEN /\ pendingIO' = pendingIO \ {x}
       /\ iWrites' = IF cur.ok THEN iWrites - 1 ELSE iWrites
       /\ flushed' = [i \in Item |->
                        IF i # x THEN flushed[i]
                        ELSE IF cur.ok THEN "WRITTEN" ELSE "ERROR"]
       /\ UNCHANGED <<hWrite, freed>>
  ELSE /\ hWrite' = FALSE   \* RemFile
       /\ freed' = freed \cup {x}
       /\ UNCHANGED <<flushed, iWrites, pendingIO>>

\* the body of the inner loop
Complete ==
  /\ wpc = "complete"
  /\ IF cur.kind = "io"
     THEN CompleteIo(cur.of)
     ELSE UNCHANGED <<flushed, iWrites, hWrite, pendingIO, freed>>
  /\ wpc' = IF cur.kind = "exit" THEN "stop" ELSE "poll"
  /\ UNCHANGED <<onDisk, allocated, fileError, flushList, listToWrite, run,
                 newData, port, inflight, mainVars, cur>>

\* GetQueuedCompletionStatus(0): a packet it fails on ends the loop as well
Poll ==
  /\ wpc = "poll"
  /\ IF port = <<>>
     THEN wpc' = "rest" /\ UNCHANGED <<port, cur>>
     ELSE /\ port' = Tail(port)
          /\ IF Head(port).kind = "failed"
             THEN wpc' = "rest" /\ UNCHANGED cur
             ELSE wpc' = "complete" /\ cur' = Head(port)
  /\ UNCHANGED <<itemVars, fileVars, flushList, listVars, run, newData,
                 inflight, mainVars>>

Rest ==
  /\ wpc = "rest"
  /\ run' = "IDLE"
  /\ wpc' = "recheck"
  /\ UNCHANGED <<itemVars, fileVars, flushList, listVars, newData, port,
                 inflight, mainVars, cur>>

\* InterlockedExchange8(&m_bNewData, 0), then the loop reads m_Run again
Recheck ==
  /\ wpc = "recheck"
  /\ newData' = FALSE
  /\ IF newData /\ pendingIO = {}
     THEN port' = Append(port, Wakeup)
     ELSE UNCHANGED port
  /\ wpc' = IF IsRunning THEN "wait" ELSE "stop"
  /\ UNCHANGED <<itemVars, fileVars, flushList, listVars, run, inflight,
                 mainVars, cur>>

\* after the loop: what is still in m_listPendingIO is deleted, the port closed
Stop ==
  /\ wpc = "stop"
  /\ run' = "STOP"
  /\ hWrite' = (hWrite /\ pendingIO = {})
  /\ pendingIO' = {}
  /\ port' = <<>>
  /\ wpc' = "ended"
  /\ UNCHANGED <<itemVars, allocated, iWrites, fileError, flushList,
                 listToWrite, freed, newData, inflight, mainVars, cur>>

-------------------------------------------------------------------------------
(***************************************************************************)
(* The operating system: an outstanding write ends, and unless the port    *)
(* was closed a packet for it is queued.                                   *)
(***************************************************************************)
IoEnds(x) ==
  /\ x \in inflight
  /\ inflight' = inflight \ {x}
  /\ \E p \in {Io(x, TRUE)}
                \cup (IF "short" \in Faults /\ iWrites <= MaxLeak
                         THEN {Io(x, FALSE)} ELSE {})
                \cup (IF "dequeue" \in Faults THEN {Failed(x)} ELSE {}) :
       /\ onDisk' = IF p.ok /\ x \in Item THEN onDisk \cup {x} ELSE onDisk
       /\ port' = IF wpc = "ended" THEN port ELSE Append(port, p)
  /\ UNCHANGED <<flushed, fileVars, flushList, listVars, run, newData,
                 mainVars, threadVars>>

Closed == mpc = "closed" /\ UNCHANGED vars

Main ==
  \/ CheckFlushList \/ WakeUpCall \/ MarkNewData \/ ScanDone \/ Join
  \/ \E i \in Item : ScanItem(i)

WriteThread ==
  \/ CreatePort \/ Wait \/ MoveFlushList \/ WriteBuffers \/ Complete
  \/ Poll \/ Rest \/ Recheck \/ Stop

Next ==
  \/ \E i \in Item : WriteToBuffer(i)
  \/ FlushBuffer \/ EndThread \/ Main
  \/ WriteThread
  \/ \E x \in Request : IoEnds(x)
  \/ Closed

Spec == Init /\ [][Next]_vars

(***************************************************************************)
(* Both threads and the system make progress, and CPartFile::Process       *)
(* flushes the file again and again while its status is not PS_ERROR.      *)
(***************************************************************************)
Fairness ==
  /\ WF_vars(Main) /\ WF_vars(WriteThread)
  /\ WF_vars(FlushBuffer /\ ~fileError)
  /\ \A x \in Request : WF_vars(IoEnds(x))

FairSpec == Spec /\ Fairness

-------------------------------------------------------------------------------
(***************************************************************************)
(* Properties                                                              *)
(***************************************************************************)

\* Every variable has its type; the lists hold requests, the port packets.
TypeOK ==
  /\ flushed \in [Item -> FlushState]
  /\ onDisk \subseteq Item
  /\ allocated \in BOOLEAN /\ hWrite \in BOOLEAN /\ fileError \in BOOLEAN
  /\ iWrites \in Nat
  /\ flushList \in Seq(Request) /\ listToWrite \in Seq(Request)
  /\ pendingIO \subseteq Request /\ inflight \subseteq Request
  /\ freed \subseteq Request
  /\ run \in {"STOP", "IDLE", "WORK"} /\ newData \in BOOLEAN
  /\ port \in Seq(Packet) /\ cur \in Packet
  /\ mpc \in {"idle", "check", "wake", "mark", "scan", "join", "closed"}
  /\ todo \subseteq Item
  /\ wpc \in {"create", "wait", "move", "write", "complete", "poll", "rest",
              "recheck", "stop", "ended"}

Ended(p) == p.kind \in {"io", "failed"}

\* Requests whose packet waits in the port, and the one being completed
QueuedIn(q) == {p.of : p \in {e \in Elements(q) : Ended(e)}}
Queued == QueuedIn(port)
InHand == IF wpc \in {"move", "write", "complete"} /\ cur.kind = "io"
          THEN {cur.of} ELSE {}

\* Requests the thread or the system still has a pointer to
Held == Elements(flushList) \cup Elements(listToWrite) \cup inflight
          \cup Queued \cup InHand

(***************************************************************************)
(* A request is in one place at a time: it is never written twice, and its *)
(* structure is in no list when its completion deletes it.                 *)
(***************************************************************************)
Distinct(s) == \A m, n \in DOMAIN s : m # n => s[m] # s[n]
EndOnce(q) ==
  \A m, n \in DOMAIN q :
    m # n /\ Ended(q[m]) /\ Ended(q[n]) => q[m].of # q[n].of
HeldOnce ==
  /\ Distinct(flushList) /\ Distinct(listToWrite) /\ EndOnce(port)
  /\ Elements(flushList)
       \cap (Elements(listToWrite) \cup inflight \cup Queued \cup InHand) = {}
  /\ Elements(listToWrite) \cap (inflight \cup Queued \cup InHand) = {}
  /\ inflight \cap (Queued \cup InHand) = {}
  /\ Queued \cap InHand = {}

(***************************************************************************)
(* The main thread deletes a buffer, or sends it again, only when neither  *)
(* the write thread nor the system holds a pointer to it any more.         *)
(***************************************************************************)
HeldIsPending == \A i \in Item \cap Held : flushed[i] = "PENDING"

(***************************************************************************)
(* The data of an item that is reported as written is in the part file:    *)
(* this is what lets FlushBuffer hash a part when its last item is gone.   *)
(***************************************************************************)
WrittenIsOnDisk == \A i \in Item : flushed[i] = "WRITTEN" => i \in onDisk

(***************************************************************************)
(* What FlushBuffer tests before CompleteFile (no buffered data,           *)
(* m_iWrites <= 0) means that nothing of the file, the allocation of its   *)
(* extra byte included, is queued or being written any more.               *)
(***************************************************************************)
QuietWhenCompleted ==
  mpc = "scan" /\ todo = {} /\ Buffered = {} /\ iWrites <= 0 => Held = {}

(***************************************************************************)
(* "outstanding I/O counter" (PartFile.h): m_iWrites is the number of the  *)
(* entries of m_listPendingIO.                                             *)
(***************************************************************************)
CountsOutstanding == iWrites = Cardinality(pendingIO)

(***************************************************************************)
(* "pending I/O makes posting unnecessary" (WakeUpCall): while the thread  *)
(* sleeps, an entry of m_listPendingIO has a packet to come.               *)
(***************************************************************************)
PendingIoWakes ==
  wpc = "wait" /\ pendingIO # {} => inflight # {} \/ port # <<>>

(***************************************************************************)
(* The entries of m_listPendingIO are structures that still exist.         *)
(***************************************************************************)
NoDeletedEntry == pendingIO \cap freed = {}

(***************************************************************************)
(* Buffered data that was handed over is written, whatever wake-up was     *)
(* missed: the periodic flush makes up for it.                             *)
(***************************************************************************)
HandedOverIsWritten ==
  \A i \in Item : flushed[i] = "PENDING" ~> flushed[i] = "WRITTEN"

(***************************************************************************)
(* With failing files and writes, handed-over data is reported, or the     *)
(* file is in PS_ERROR (or the program is being closed).                   *)
(***************************************************************************)
HandedOverIsReported ==
  \A i \in Item : flushed[i] = "PENDING" ~>
                     flushed[i] # "PENDING" \/ fileError \/ ~IsRunning

\* EndThread does not wait for ever.
EndThreadReturns == mpc = "join" ~> mpc = "closed"

\* The thread does for the main thread what AsyncWrite promises.
Promise == INSTANCE AsyncWrite
ImplementsPromise == Promise!Spec
===============================================================================
