-------------------------- MODULE UploadDiskIOThread --------------------------
(***************************************************************************)
(* CUploadDiskIOThread and what it shares with the main thread and the     *)
(* upload bandwidth throttler: the block requests of every upload slot     *)
(* under the upload-list lock and the block-list lock of the slot, the     *)
(* read handle and the read counter of every file, the wake-up protocol    *)
(* over m_Run, m_bNewData and the completion port, and the packets on the  *)
(* sockets of the clients.                                                 *)
(*                                                                         *)
(* Three threads (mpc, dpc, tpc) and the operating system.  All blocks     *)
(* have the same size, EMBLOCKSIZE, and are sent as one packet.            *)
(***************************************************************************)
EXTENDS Integers, Sequences, FiniteSets, SequencesExt

CONSTANTS Client, File, Block, FileOf,  \* FileOf[b]: the file of block b
          Addr,          \* addresses an UploadingToClient_Struct can have
          NoAddr, NoFile,
          BufferLimit,   \* blocks that may be buffered before no more is read
          Scenarios,     \* the environments of the program
          MaxPort,       \* bound: no idle wake-up while so many packets wait
          MaxSession     \* bound: upload sessions

EventKinds == {
  "open",      \* AssociateFile fails
  "quota",     \* ReadFile: too many outstanding requests
  "sync",      \* ReadFile fails at once
  "short",     \* a read completes with fewer bytes
  "dequeue",   \* GetQueuedCompletionStatus returns FALSE for it
  "socket",    \* a client loses its connection
  "delete",    \* and its CUpDownClient is deleted
  "switch",    \* a client changes the file it uploads
  "leave",     \* a client cancels, or its time is over
  "unshare",   \* a file is unshared
  "move",      \* the download of a file is completed and moved
  "stop",      \* the program is closed
  "reuse"}     \* a struct gets the address of one that was freed while a
               \* read for that one was outstanding

ASSUME DataAssumption ==
  /\ FileOf \in [Block -> File]
  /\ NoAddr \notin Addr /\ NoFile \notin File
  /\ IsFiniteSet(Client) /\ IsFiniteSet(Block)
ASSUME SwitchesAssumption ==
  /\ Scenarios \subseteq [may : SUBSET EventKinds,
                          wants : [Client -> SUBSET Block],
                          sessions : 0..MaxSession]
  /\ BufferLimit \in Nat /\ MaxPort \in Nat /\ MaxSession \in Nat

VARIABLES
  env,         \* what the environment of this behaviour does (constant):
               \* .may: the events it admits; .wants[c]: the blocks client c
               \* asks for; .sessions: bound on the sessions of each client
  \* upload slots (CUploadQueue::uploadinglist and its structs)
  slot,        \* [Client -> Addr]: the client's struct; NoAddr: no slot
  session,     \* [Client -> number of its upload sessions so far]
  queue,       \* [Addr -> m_BlockRequests_queue]
  done,        \* [Addr -> m_DoneBlocks_list]
  ioError,     \* [Addr -> m_bIOError]
  \* clients
  upFile,      \* [Client -> requpfileid]
  connected,   \* [Client -> its socket exists and is connected]
  sockQ,       \* [Client -> payload packets on the socket, as requests]
  buffered,    \* [Client -> added minus sent payload of the session]
  \* files
  hRead,       \* [File -> m_hRead is an open handle]
  inUse,       \* [File -> nInUse]
  noNewReads,  \* [File -> bNoNewReads]
  shared,      \* files CSharedFileList::GetFileByID finds
  move,        \* [File -> state of the completion of the download]
  \* disk thread
  run,         \* m_Run
  newData,     \* m_bNewData
  port,        \* packets queued in m_hPort
  pendingIO,   \* m_listPendingIO
  inflight,    \* overlapped reads the system has not finished
  cur,         \* packet the disk thread took from the port last
  dpc, todo, at,  \* where it is; structs its scan has left; struct in hand
  to,          \* the client whose socket ReadCompletionRoutine sends to
  mpc, by,     \* main thread: where it is; the client Process has in hand
  tpc          \* throttler: where it is

slotVars   == <<slot, session, queue, done, ioError>>
clientVars == <<upFile, connected, sockQ, buffered>>
fileVars   == <<hRead, inUse, noNewReads, shared, move>>
ioVars     == <<pendingIO, inflight>>
diskVars   == <<cur, dpc, todo, at, to>>
mainVars   == <<mpc, by>>
vars == <<env, slotVars, clientVars, fileVars, run, newData, port, ioVars,
          diskVars, mainVars, tpc>>

Request == [cl : Client, ses : 1..MaxSession, blk : Block]
\* an OverlappedRead_Struct: the struct's address and the request (history)
Read == [st : Addr, req : Request]

Wakeup == [kind |-> "wakeup"]
Exit   == [kind |-> "exit"]
Io(x, ok) == [kind |-> "io", rd |-> x, ok |-> ok]
\* a packet for which GetQueuedCompletionStatus will return FALSE
Failed(x) == [kind |-> "failed", rd |-> x, ok |-> FALSE]
Packet == {Wakeup, Exit} \cup [kind : {"io", "failed"}, rd : Read, ok : BOOLEAN]

Uploading  == {c \in Client : slot[c] # NoAddr}
\* a mistake: the list keeps an entry for a client that was removed
UploadListStale == {slot[c] : c \in Client}

UploadList == {slot[c] : c \in Uploading}
Owner(a)   == CHOOSE c \in Client : slot[c] = a
IsRunning  == run # "STOP"
Uploaders(f) == {c \in Client : upFile[c] = f}   \* m_ClientUploadList
ReqOf(c, b) == [cl |-> c, ses |-> session[c], blk |-> b]

(***************************************************************************)
(* The two locks.  The disk thread scans the list under the upload-list    *)
(* lock and reads the requests of one slot under its block-list lock;      *)
(* CUploadQueue::Process looks at the head request under the latter.       *)
(***************************************************************************)
ListLocked == dpc \in {"scan", "pick", "open", "read"}
BlocksLockedByDisk(a) == dpc \in {"pick", "open", "read"} /\ at = a
BlocksLockedByMain(a) == mpc = "head" /\ \E c \in by : slot[c] = a

Init ==
  /\ env \in Scenarios
  /\ slot = [c \in Client |-> NoAddr] /\ session = [c \in Client |-> 0]
  /\ queue = [a \in Addr |-> <<>>] /\ done = [a \in Addr |-> {}]
  /\ ioError = [a \in Addr |-> FALSE]
  /\ upFile \in [Client -> File \cup {NoFile}]
  /\ \A c \in Client : IF env.wants[c] = {} THEN upFile[c] = NoFile
                       ELSE \E b \in env.wants[c] : upFile[c] = FileOf[b]
  /\ connected = [c \in Client |-> TRUE]
  /\ sockQ = [c \in Client |-> {}] /\ buffered = [c \in Client |-> 0]
  /\ hRead = [f \in File |-> FALSE] /\ inUse = [f \in File |-> 0]
  /\ noNewReads = [f \in File |-> FALSE]
  /\ shared = File /\ move = [f \in File |-> "part"]
  /\ run = "STOP" /\ newData = FALSE /\ port = <<>>
  /\ pendingIO = {} /\ inflight = {}
  /\ cur = Wakeup /\ dpc = "create" /\ todo = {} /\ at = NoAddr
  /\ to = {}
  /\ mpc = "idle" /\ by = {}
  /\ tpc = "loop"

-------------------------------------------------------------------------------
(***************************************************************************)
(* Main thread: slots                                                      *)
(***************************************************************************)

\* a mistake: a pool takes each struct without waiting requests to be free
PooledAddr == {a \in Addr : queue[a] = <<>>}

\* addresses operator new may return for the next UploadingToClient_Struct
FreeAddr ==
  {a \in Addr \ UploadList :
     "reuse" \in env.may \/ \A x \in pendingIO : x.st # a}

\* AddUpNextClient for a connected client, with ResetSessionUp
AddUpNextClient(c) ==
  /\ mpc = "idle" /\ ~ListLocked
  /\ slot[c] = NoAddr /\ connected[c]
  /\ env.wants[c] # {} /\ session[c] < env.sessions
  /\ \E a \in FreeAddr :
       /\ slot' = [slot EXCEPT ![c] = a]
       /\ queue' = [queue EXCEPT ![a] = <<>>]
       /\ done' = [done EXCEPT ![a] = {}]
       /\ ioError' = [ioError EXCEPT ![a] = FALSE]
  /\ session' = [session EXCEPT ![c] = @ + 1]
  /\ buffered' = [buffered EXCEPT ![c] = 0]
  /\ UNCHANGED <<env, upFile, connected, sockQ, fileVars, run, newData,
                 port, ioVars, diskVars, mainVars, tpc>>

(***************************************************************************)
(* RemoveFromUploadQueue: the struct leaves the list under the list lock   *)
(* and is deleted; its destructor truncates the queue of the socket.       *)
(***************************************************************************)
RemoveFromUploadQueue(c) ==
  /\ slot[c] # NoAddr /\ ~ListLocked
  /\ slot' = [slot EXCEPT ![c] = NoAddr]
  /\ queue' = [queue EXCEPT ![slot[c]] = <<>>]
  /\ done' = [done EXCEPT ![slot[c]] = {}]
  /\ ioError' = [ioError EXCEPT ![slot[c]] = FALSE]
  /\ sockQ' = [sockQ EXCEPT ![c] = {}]
  /\ UNCHANGED <<session, upFile, connected, buffered>>

\* OP_CANCELTRANSFER, OP_END_OF_DOWNLOAD, CheckForTimeOver
EndSession(c) ==
  /\ "leave" \in env.may /\ mpc = "idle"
  /\ RemoveFromUploadQueue(c)
  /\ UNCHANGED <<env, fileVars, run, newData, port, ioVars, diskVars,
                 mainVars, tpc>>

(***************************************************************************)
(* SetUploadFileID: the last client that leaves the upload list of a file  *)
(* closes its read handle (RemoveUploadingClient).                         *)
(***************************************************************************)
SetUploadFileID(c, f) ==
  LET old == upFile[c] IN
  /\ upFile' = [upFile EXCEPT ![c] = f]
  /\ hRead' = IF old \in File /\ f # old /\ Uploaders(old) = {c}
              THEN [hRead EXCEPT ![old] = FALSE] ELSE hRead
  /\ UNCHANGED <<inUse, noNewReads, shared, move>>

\* OP_STARTUPLOADREQ, OP_REQUESTFILENAME...: the client asks for a file
AskForFile(c, f) ==
  /\ mpc = "idle" /\ "switch" \in env.may
  /\ connected[c] /\ f \in shared /\ f # upFile[c]
  /\ SetUploadFileID(c, f)
  /\ UNCHANGED <<env, slotVars, connected, sockQ, buffered, run, newData,
                 port, ioVars, diskVars, mainVars, tpc>>

\* the connection is lost: Safe_Delete clears CUpDownClient::socket
LoseSocket(c) ==
  /\ "socket" \in env.may /\ mpc = "idle" /\ connected[c]
  /\ connected' = [connected EXCEPT ![c] = FALSE]
  /\ sockQ' = [sockQ EXCEPT ![c] = {}]
  /\ UNCHANGED <<env, slotVars, upFile, buffered, fileVars, run, newData,
                 port, ioVars, diskVars, mainVars, tpc>>

\* ~CUpDownClient of a client that is neither connected nor in the list
DeleteClient(c) ==
  /\ "delete" \in env.may /\ mpc = "idle"
  /\ ~connected[c] /\ slot[c] = NoAddr /\ upFile[c] \in File
  /\ SetUploadFileID(c, NoFile)
  /\ UNCHANGED <<env, slotVars, connected, sockQ, buffered, run, newData,
                 port, ioVars, diskVars, mainVars, tpc>>

-------------------------------------------------------------------------------
(***************************************************************************)
(* Main thread: block requests                                             *)
(***************************************************************************)

\* what AddReqBlock asks of a request before it takes the lock
MayRequest(c, b) ==
  slot[c] # NoAddr /\ ~ioError[slot[c]] /\ FileOf[b] \in shared

\* a mistake: only the requests that still wait are compared
IsNewInQueue(a, b) == b \notin ToSet(queue[a])

\* the request is in neither list of the slot
IsNewRequest(a, b) == b \notin done[a] \cup ToSet(queue[a])

(***************************************************************************)
(* AddReqBlock for a block of OP_REQUESTPARTS, then AddReqBlock(NULL, TRUE) *)
(* with its WakeUpCall.  Unless they switch, clients keep to one file.       *)
(***************************************************************************)
AddReqBlock(c, b) ==
  /\ mpc = "idle" /\ connected[c] /\ b \in env.wants[c]
  /\ Len(port) < MaxPort
  /\ "switch" \in env.may \/ FileOf[b] = upFile[c]
  /\ IF MayRequest(c, b)
     THEN /\ ~BlocksLockedByDisk(slot[c])
          /\ queue' = IF IsNewRequest(slot[c], b)
                      THEN [queue EXCEPT ![slot[c]] = Append(@, b)] ELSE queue
     ELSE UNCHANGED queue
  /\ mpc' = "wake"
  /\ UNCHANGED <<env, slot, session, done, ioError, clientVars, fileVars,
                 run, newData, port, ioVars, diskVars, by, tpc>>

(***************************************************************************)
(* WakeUpCall, by the main thread or the throttler, reads m_Run and        *)
(* m_listPendingIO without a lock; setting m_bNewData is a later step.     *)
(***************************************************************************)
MustPost == run = "IDLE" /\ pendingIO = {}

WakeUpCall ==
  /\ mpc = "wake"
  /\ IF MustPost THEN port' = Append(port, Wakeup) /\ mpc' = "idle"
                 ELSE UNCHANGED port /\ mpc' = "mark"
  /\ UNCHANGED <<env, slotVars, clientVars, fileVars, run, newData, ioVars,
                 diskVars, by, tpc>>

MarkNewData ==
  /\ mpc = "mark"
  /\ newData' = TRUE /\ mpc' = "idle"
  /\ UNCHANGED <<env, slotVars, clientVars, fileVars, run, port, ioVars,
                 diskVars, by, tpc>>

(***************************************************************************)
(* Process, one client of the upload list (every 100 ms): a client without *)
(* socket or with a failed read is removed, once the list lock is free;    *)
(* otherwise the head request is looked at under the block-list lock.      *)
(***************************************************************************)
Process(c) ==
  /\ mpc = "idle" /\ slot[c] # NoAddr
  /\ IF ~connected[c] \/ ioError[slot[c]]
     THEN mpc' = "remove"
     ELSE mpc' = "head" /\ ~BlocksLockedByDisk(slot[c])
  /\ by' = {c}
  /\ UNCHANGED <<env, slotVars, clientVars, fileVars, run, newData, port,
                 ioVars, diskVars, tpc>>

\* the lock is released before the file id is switched or the client removed
ProcessHead(c) ==
  /\ mpc = "head" /\ c \in by
  /\ LET q == queue[slot[c]]
         switch == q # <<>> /\ FileOf[Head(q)] # upFile[c] IN
     /\ IF switch /\ FileOf[Head(q)] \in shared
        THEN SetUploadFileID(c, FileOf[Head(q)])
        ELSE UNCHANGED <<upFile, fileVars>>
     /\ IF switch /\ FileOf[Head(q)] \notin shared
        THEN mpc' = "remove" /\ UNCHANGED by
        ELSE mpc' = "idle" /\ by' = {}
  /\ UNCHANGED <<env, slotVars, connected, sockQ, buffered, run, newData,
                 port, ioVars, diskVars, tpc>>

ProcessRemove(c) ==
  /\ mpc = "remove" /\ c \in by
  /\ RemoveFromUploadQueue(c)
  /\ mpc' = "idle" /\ by' = {}
  /\ UNCHANGED <<env, fileVars, run, newData, port, ioVars, diskVars, tpc>>

-------------------------------------------------------------------------------
(***************************************************************************)
(* Files: unsharing, and the completion of a download, whose thread blocks *)
(* new reads and moves the file; the main thread ends it.  (Only a file    *)
(* that is being uploaded is of interest.)                                 *)
(***************************************************************************)
Unshare(f) ==
  /\ "unshare" \in env.may /\ mpc = "idle" /\ f \in shared
  /\ shared' = shared \ {f}
  /\ UNCHANGED <<env, slotVars, clientVars, hRead, inUse, noNewReads, move,
                 run, newData, port, ioVars, diskVars, mainVars, tpc>>

PerformFileComplete(f) ==
  /\ "move" \in env.may
  /\ \/ /\ move[f] = "part" /\ Uploaders(f) # {}
        /\ move' = [move EXCEPT ![f] = "moving"]
        /\ noNewReads' = [noNewReads EXCEPT ![f] = TRUE]
     \/ /\ move[f] = "moving"    \* moved: TM_FILECOMPLETED is posted
        /\ move' = [move EXCEPT ![f] = "moved"]
        /\ UNCHANGED noNewReads
     \/ /\ move[f] = "moving"    \* the move failed
        /\ move' = [move EXCEPT ![f] = "failed"]
        /\ noNewReads' = [noNewReads EXCEPT ![f] = FALSE]
  /\ UNCHANGED <<env, slotVars, clientVars, hRead, inUse, shared, run,
                 newData, port, ioVars, diskVars, mainVars, tpc>>

PerformFileCompleteEnd(f) ==
  /\ mpc = "idle" /\ move[f] = "moved"
  /\ move' = [move EXCEPT ![f] = "complete"]
  /\ hRead' = [hRead EXCEPT ![f] = FALSE]
  /\ noNewReads' = [noNewReads EXCEPT ![f] = FALSE]
  /\ UNCHANGED <<env, slotVars, clientVars, inUse, shared, run, newData,
                 port, ioVars, diskVars, mainVars, tpc>>

\* a mistake: m_Run is cleared, but nothing wakes a thread that sleeps
EndWithoutPost ==
  /\ "stop" \in env.may /\ mpc = "idle" /\ dpc # "create"
  /\ run' = "STOP" /\ mpc' = "join"
  /\ UNCHANGED <<env, slotVars, clientVars, fileVars, newData, port, ioVars,
                 diskVars, by, tpc>>

\* the end of the program, once the thread has created its port
EndThread ==
  /\ "stop" \in env.may /\ mpc = "idle" /\ dpc # "create"
  /\ run' = "STOP"
  /\ port' = IF dpc = "ended" THEN port ELSE Append(port, Exit)
  /\ mpc' = "join"
  /\ UNCHANGED <<env, slotVars, clientVars, fileVars, newData, ioVars,
                 diskVars, by, tpc>>

Join ==
  /\ mpc = "join" /\ dpc = "ended"
  /\ mpc' = "closed"
  /\ UNCHANGED <<env, slotVars, clientVars, fileVars, run, newData, port,
                 ioVars, diskVars, by, tpc>>

-------------------------------------------------------------------------------
(***************************************************************************)
(* Throttler: payload of a slot is sent; when little is left on the        *)
(* socket, or no socket has anything to send, the disk thread is woken.    *)
(* Its WakeUpCall is the same code; the test is one step with the sending. *)
(***************************************************************************)
ThrottlerWakeUp ==
  IF MustPost THEN port' = Append(port, Wakeup) /\ UNCHANGED tpc
              ELSE UNCHANGED port /\ tpc' = "mark"

SendFileData(c) ==
  /\ tpc = "loop" /\ mpc # "closed"
  /\ slot[c] # NoAddr /\ connected[c]
  /\ \E r \in sockQ[c] : sockQ' = [sockQ EXCEPT ![c] = @ \ {r}]
  /\ buffered' = [buffered EXCEPT ![c] = @ - 1]
  /\ IF Cardinality(sockQ'[c]) <= 1
     THEN ThrottlerWakeUp
     ELSE UNCHANGED <<port, tpc>>
  /\ UNCHANGED <<env, slotVars, upFile, connected, fileVars, run, newData,
                 ioVars, diskVars, mainVars>>

\* a mistake: only a socket that sends something makes the throttler call
NothingIsDone == FALSE

NothingToSend ==
  /\ tpc = "loop" /\ mpc # "closed" /\ Len(port) < MaxPort
  /\ Uploading # {} /\ \A c \in Uploading : sockQ[c] = {}
  /\ ThrottlerWakeUp
  /\ UNCHANGED <<env, slotVars, clientVars, fileVars, run, newData, ioVars,
                 diskVars, mainVars>>

ThrottlerMarks ==
  /\ tpc = "mark"
  /\ newData' = TRUE /\ tpc' = "loop"
  /\ UNCHANGED <<env, slotVars, clientVars, fileVars, run, port, ioVars,
                 diskVars, mainVars>>

-------------------------------------------------------------------------------
(***************************************************************************)
(* Disk thread (RunInternal)                                               *)
(***************************************************************************)
CreatePort ==
  /\ dpc = "create"
  /\ run' = "IDLE" /\ dpc' = "wait"
  /\ UNCHANGED <<env, slotVars, clientVars, fileVars, newData, port, ioVars,
                 cur, todo, at, to, mainVars, tpc>>

\* GetQueuedCompletionStatus(INFINITE) and the condition of the outer loop
Wait ==
  /\ dpc = "wait" /\ port # <<>>
  /\ port' = Tail(port)
  /\ IF Head(port).kind \in {"exit", "failed"}
     THEN dpc' = "stop" /\ UNCHANGED <<run, cur>>
     ELSE dpc' = "lock" /\ run' = "WORK" /\ cur' = Head(port)
  /\ UNCHANGED <<env, slotVars, clientVars, fileVars, newData, ioVars, todo,
                 at, to, mainVars, tpc>>

\* "start new I/O": the upload-list lock is taken for the whole scan
LockList ==
  /\ dpc = "lock"
  /\ dpc' = "scan" /\ todo' = UploadList
  /\ UNCHANGED <<env, slotVars, clientVars, fileVars, run, newData, port,
                 ioVars, cur, at, to, mainVars, tpc>>

\* StartCreateNextBlockPackage up to its lock on the block lists
ScanSlot(a) ==
  /\ dpc = "scan" /\ a \in todo
  /\ IF ioError[a] \/ queue[a] = <<>> \/ ~connected[Owner(a)]
     THEN todo' = todo \ {a} /\ UNCHANGED <<dpc, at>>
     ELSE /\ ~BlocksLockedByMain(a)
          /\ dpc' = "pick" /\ at' = a
          /\ UNCHANGED todo
  /\ UNCHANGED <<env, slotVars, clientVars, fileVars, run, newData, port,
                 ioVars, cur, to, mainVars, tpc>>

\* return from StartCreateNextBlockPackage, with or without an exception
LeaveSlot(failed) ==
  /\ ioError' = [ioError EXCEPT ![at] = @ \/ failed]
  /\ dpc' = "scan" /\ todo' = todo \ {at} /\ at' = NoAddr

(***************************************************************************)
(* The loop of StartCreateNextBlockPackage over the requests of the slot.  *)
(***************************************************************************)
PickBlock ==
  /\ dpc = "pick"
  /\ LET c == Owner(at) IN
     IF queue[at] = <<>> \/ buffered[c] > BufferLimit
     THEN LeaveSlot(FALSE)
     ELSE LET f == FileOf[Head(queue[at])] IN
          \/ (upFile[c] # f) /\ LeaveSlot(FALSE)   \* wait for Process
          \/ (upFile[c] = f /\ f \notin shared) /\ LeaveSlot(TRUE)
          \/ (upFile[c] = f /\ f \in shared /\ noNewReads[f])
             /\ LeaveSlot(FALSE)
          \/ /\ upFile[c] = f /\ f \in shared /\ ~noNewReads[f]
             /\ dpc' = "open" /\ UNCHANGED <<ioError, todo, at>>
  /\ UNCHANGED <<env, slot, session, queue, done, clientVars, fileVars, run,
                 newData, port, ioVars, cur, to, mainVars, tpc>>

\* the file of the block in hand
FileInHand == FileOf[Head(queue[at])]

AssociateFile ==
  /\ dpc = "open"
  /\ \/ /\ hRead[FileInHand] \/ noNewReads[FileInHand]
        /\ dpc' = "read" /\ UNCHANGED <<hRead, ioError, todo, at>>
     \/ /\ ~hRead[FileInHand] /\ ~noNewReads[FileInHand]
        /\ dpc' = "read" /\ hRead' = [hRead EXCEPT ![FileInHand] = TRUE]
        /\ UNCHANGED <<ioError, todo, at>>
     \/ /\ ~hRead[FileInHand] /\ ~noNewReads[FileInHand] /\ "open" \in env.may
        /\ LeaveSlot(TRUE) /\ UNCHANGED hRead
  /\ UNCHANGED <<env, slot, session, queue, done, clientVars, inUse,
                 noNewReads, shared, move, run, newData, port, ioVars, cur, to,
                 mainVars, tpc>>

\* the read was started: the request moves to m_DoneBlocks_list
ReadStarted ==
  LET c == Owner(at)
      b == Head(queue[at])
      x == [st |-> at, req |-> ReqOf(c, b)] IN
  /\ hRead[FileOf[b]]
  /\ inUse' = [inUse EXCEPT ![FileOf[b]] = @ + 1]
  /\ pendingIO' = pendingIO \cup {x} /\ inflight' = inflight \cup {x}
  /\ buffered' = [buffered EXCEPT ![c] = @ + 1]
  /\ queue' = [queue EXCEPT ![at] = Tail(@)]
  /\ done' = [done EXCEPT ![at] = @ \cup {b}]
  /\ dpc' = "pick"
  /\ UNCHANGED <<ioError, todo, at>>

\* ReadFile failed, on its own or because the handle was closed meanwhile
ReadRefused ==
  /\ \/ "quota" \in env.may /\ hRead[FileInHand] /\ LeaveSlot(FALSE)
     \/ ("sync" \in env.may \/ ~hRead[FileInHand]) /\ LeaveSlot(TRUE)
  /\ UNCHANGED <<inUse, ioVars, buffered, queue, done>>

ReadFile ==
  /\ dpc = "read"
  /\ ReadStarted \/ ReadRefused
  /\ UNCHANGED <<env, slot, session, upFile, connected, sockQ, hRead,
                 noNewReads, shared, move, run, newData, port, cur, to,
                 mainVars, tpc>>

\* the end of the scan: m_bNewData is cleared, then the lock is released
ScanDone ==
  /\ dpc = "scan" /\ todo = {}
  /\ newData' = FALSE /\ dpc' = "complete"
  /\ UNCHANGED <<env, slotVars, clientVars, fileVars, run, port, ioVars,
                 cur, todo, at, to, mainVars, tpc>>

\* a mistake: a read is counted off only if its data is used
CompleteUsed(x) ==
  LET f == FileOf[x.req.blk]
      used == IsRunning /\ hRead[f] /\ x.st \in UploadList IN
  /\ inUse' = IF used THEN [inUse EXCEPT ![f] = @ - 1] ELSE inUse
  /\ pendingIO' = pendingIO \ {x}
  /\ dpc' = "poll"
  /\ UNCHANGED <<hRead, ioError, to>>

(***************************************************************************)
(* ReadCompletionRoutine for the packet in hand.  Data of a file that was  *)
(* closed is discarded; otherwise the struct is looked for in the list by  *)
(* its address.  After EndThread has stored RUN_STOP the entry stays in    *)
(* m_listPendingIO.                                                        *)
(***************************************************************************)
CompleteRead(x) ==
  LET f == FileOf[x.req.blk]
      found == x.st \in UploadList IN
  /\ inUse' = [inUse EXCEPT ![f] = @ - 1]
  /\ IF IsRunning
     THEN /\ pendingIO' = pendingIO \ {x}
          /\ ioError' = IF hRead[f] /\ found /\ ~cur.ok
                        THEN [ioError EXCEPT ![x.st] = TRUE] ELSE ioError
          /\ IF hRead[f] /\ found /\ cur.ok /\ connected[Owner(x.st)]
             THEN dpc' = "send" /\ to' = {Owner(x.st)}
             ELSE dpc' = "poll" /\ UNCHANGED to
          /\ UNCHANGED hRead
     ELSE /\ hRead' = [hRead EXCEPT ![f] = FALSE]    \* DissociateFile
          /\ dpc' = "poll"
          /\ UNCHANGED <<pendingIO, ioError, to>>

\* the body of the inner loop
Complete ==
  /\ dpc = "complete"
  /\ IF cur.kind = "io"
     THEN CompleteRead(cur.rd)
     ELSE /\ dpc' = IF cur.kind = "exit" THEN "stop" ELSE "poll"
          /\ UNCHANGED <<inUse, hRead, pendingIO, ioError, to>>
  /\ UNCHANGED <<env, slot, session, queue, done, clientVars, noNewReads,
                 shared, move, run, newData, port, inflight, cur, todo, at,
                 mainVars, tpc>>

\* the packets are put on the socket after the list lock was released
SendPackets ==
  /\ dpc = "send"
  /\ sockQ' = [c \in Client |-> IF c \in to /\ connected[c]
                             THEN sockQ[c] \cup {cur.rd.req} ELSE sockQ[c]]
  /\ dpc' = "poll" /\ to' = {}
  /\ UNCHANGED <<env, slotVars, upFile, connected, buffered, fileVars, run,
                 newData, port, ioVars, cur, todo, at, mainVars, tpc>>

\* GetQueuedCompletionStatus(0): a packet it fails on ends the loop as well
Poll ==
  /\ dpc = "poll"
  /\ IF port = <<>>
     THEN dpc' = "rest" /\ cur' = Wakeup /\ UNCHANGED port
     ELSE /\ port' = Tail(port)
          /\ IF Head(port).kind = "failed"
             THEN dpc' = "rest" /\ cur' = Wakeup
             ELSE dpc' = "complete" /\ cur' = Head(port)
  /\ UNCHANGED <<env, slotVars, clientVars, fileVars, run, newData, ioVars,
                 todo, at, to, mainVars, tpc>>

Rest ==
  /\ dpc = "rest"
  /\ run' = "IDLE" /\ dpc' = "recheck"
  /\ UNCHANGED <<env, slotVars, clientVars, fileVars, newData, port, ioVars,
                 cur, todo, at, to, mainVars, tpc>>

\* InterlockedExchange8(&m_bNewData, 0), then the loop reads m_Run again
Recheck ==
  /\ dpc = "recheck"
  /\ newData' = FALSE
  /\ port' = IF newData /\ pendingIO = {} THEN Append(port, Wakeup) ELSE port
  /\ dpc' = IF IsRunning THEN "wait" ELSE "stop"
  /\ UNCHANGED <<env, slotVars, clientVars, fileVars, run, ioVars, cur,
                 todo, at, to, mainVars, tpc>>

\* after the loop: files of pending reads are closed, their entries deleted
Stop ==
  /\ dpc = "stop"
  /\ run' = "STOP" /\ dpc' = "ended"
  /\ hRead' = [f \in File |->
                 hRead[f] /\ \A x \in pendingIO : FileOf[x.req.blk] # f]
  /\ inUse' = [f \in File |->
                 inUse[f] - Cardinality({x \in pendingIO :
                                           FileOf[x.req.blk] = f})]
  /\ pendingIO' = {} /\ port' = <<>>
  /\ UNCHANGED <<env, slotVars, clientVars, noNewReads, shared, move,
                 newData, inflight, cur, todo, at, to, mainVars, tpc>>

-------------------------------------------------------------------------------
\* The operating system finishes a read and queues a packet for it.
IoEnds(x) ==
  /\ x \in inflight
  /\ inflight' = inflight \ {x}
  /\ \E p \in {Io(x, TRUE)}
                \cup (IF "short" \in env.may THEN {Io(x, FALSE)} ELSE {})
                \cup (IF "dequeue" \in env.may THEN {Failed(x)} ELSE {}) :
       port' = IF dpc = "ended" THEN port ELSE Append(port, p)
  /\ UNCHANGED <<env, slotVars, clientVars, fileVars, run, newData,
                 pendingIO, diskVars, mainVars, tpc>>

Closed == mpc = "closed" /\ UNCHANGED vars

Main ==
  \/ WakeUpCall \/ MarkNewData \/ Join
  \/ \E c \in Client : ProcessHead(c) \/ ProcessRemove(c)

Throttler ==
  \/ \E c \in Client : SendFileData(c)
  \/ NothingToSend \/ ThrottlerMarks

DiskThread ==
  \/ CreatePort \/ Wait \/ LockList \/ \E a \in Addr : ScanSlot(a)
  \/ PickBlock \/ AssociateFile \/ ReadFile \/ ScanDone
  \/ Complete \/ SendPackets \/ Poll \/ Rest \/ Recheck \/ Stop

Next ==
  \/ \E c \in Client :
       \/ AddUpNextClient(c) \/ EndSession(c) \/ LoseSocket(c)
       \/ DeleteClient(c) \/ Process(c)
       \/ \E f \in File : AskForFile(c, f)
       \/ \E b \in Block : AddReqBlock(c, b)
  \/ \E f \in File :
       Unshare(f) \/ PerformFileComplete(f) \/ PerformFileCompleteEnd(f)
  \/ EndThread \/ Main \/ Throttler \/ DiskThread
  \/ \E x \in inflight : IoEnds(x)
  \/ Closed

Spec == Init /\ [][Next]_vars

(***************************************************************************)
(* The three threads and the system make progress, and the upload timer    *)
(* runs Process for every client of the list again and again.              *)
(***************************************************************************)
Fairness ==
  /\ SF_vars(Main) /\ SF_vars(DiskThread) /\ WF_vars(Throttler)
  /\ WF_vars(\E x \in inflight : IoEnds(x))
  /\ \A c \in Client : SF_vars(Process(c))
  /\ WF_vars(\E f \in File : PerformFileComplete(f))
  /\ SF_vars(\E f \in File : PerformFileCompleteEnd(f))

FairSpec == Spec /\ Fairness

-------------------------------------------------------------------------------
(***************************************************************************)
(* Properties                                                              *)
(***************************************************************************)

\* Every variable has its type; the port and the lists hold reads.
TypeOK ==
  /\ env \in Scenarios
  /\ slot \in [Client -> Addr \cup {NoAddr}]
  /\ session \in [Client -> 0..MaxSession]
  /\ queue \in [Addr -> Seq(Block)] /\ done \in [Addr -> SUBSET Block]
  /\ ioError \in [Addr -> BOOLEAN]
  /\ upFile \in [Client -> File \cup {NoFile}]
  /\ connected \in [Client -> BOOLEAN]
  /\ sockQ \in [Client -> SUBSET Request] /\ buffered \in [Client -> Int]
  /\ hRead \in [File -> BOOLEAN] /\ inUse \in [File -> Int]
  /\ noNewReads \in [File -> BOOLEAN] /\ shared \subseteq File
  /\ move \in [File -> {"part", "moving", "moved", "failed", "complete"}]
  /\ run \in {"STOP", "IDLE", "WORK"} /\ newData \in BOOLEAN
  /\ port \in Seq(Packet) /\ cur \in Packet
  /\ pendingIO \subseteq Read /\ inflight \subseteq Read
  /\ dpc \in {"create", "wait", "lock", "scan", "pick", "open", "read",
              "complete", "send", "poll", "rest", "recheck", "stop", "ended"}
  /\ todo \subseteq Addr /\ at \in Addr \cup {NoAddr} /\ to \subseteq Client
  /\ mpc \in {"idle", "wake", "mark", "head", "remove", "join", "closed"}
  /\ by \subseteq Client /\ tpc \in {"loop", "mark"}

\* Reads whose packet waits in the port, and the one in hand
Queued == {p.rd : p \in {q \in ToSet(port) : q.kind \in {"io", "failed"}}}
InHand == IF dpc \in {"lock", "scan", "pick", "open", "read", "complete"}
             /\ cur.kind = "io"
          THEN {cur.rd} ELSE {}
Outstanding == inflight \cup Queued \cup InHand

(***************************************************************************)
(* "count outstanding I/O (reads) to know if the file is in use"           *)
(* (KnownFile.h): while the thread runs, nInUse of a file is the number of *)
(* its reads that the system or the port still has.                        *)
(***************************************************************************)
CountsReads ==
  IsRunning => \A f \in File :
    inUse[f] = Cardinality({x \in Outstanding : FileOf[x.req.blk] = f})

(***************************************************************************)
(* A file that is being read is open: whoever closes the handle asserts    *)
(* !nInUse (CKnownFile::RemoveUploadingClient, ~CKnownFile,                *)
(* CPartFile::PerformFileCompleteEnd).                                     *)
(***************************************************************************)
InUseIsOpen == IsRunning => \A f \in File : inUse[f] > 0 => hRead[f]

(***************************************************************************)
(* "check if the client struct is still in the upload list (otherwise it   *)
(* is a deleted pointer)" (ReadCompletionRoutine): a struct that is found  *)
(* there is the one the read was made for, of the client that asked and in *)
(* the session in which it asked.  Not so with the event reuse.            *)
(***************************************************************************)
FoundIsRequester ==
  \A x \in pendingIO : x.st \in UploadList =>
    slot[x.req.cl] = x.st /\ session[x.req.cl] = x.req.ses

\* the session that asked for r goes on
GoesOn(r) == slot[r.cl] # NoAddr /\ session[r.cl] = r.ses

(***************************************************************************)
(* What the lookup by address does guarantee, however addresses are used   *)
(* again: the reads of a session that goes on are found under its struct,  *)
(* which is no one else's, and their data goes to its client and no other. *)
(* (Only data of a session that is over can reach a stranger.)             *)
(***************************************************************************)
SessionKeepsReads ==
  /\ \A x \in pendingIO :
       GoesOn(x.req) => {c \in Client : slot[c] = x.st} = {x.req.cl}
  /\ dpc = "send" /\ GoesOn(cur.rd.req) => to = {cur.rd.req.cl}

(***************************************************************************)
(* The requests that were accepted are read, or their slot is given up,    *)
(* whatever wake-up call was missed: the throttler makes up for it.  Blocks *)
(* are finitely many here, so that is: again and again none waits.  Not    *)
(* so for a client that changes files, which may lose blocks that stay     *)
(* counted as buffered (see InUseIsOpen), nor if every ReadFile is refused. *)
(***************************************************************************)
NoRequestWaits == \A a \in UploadList : queue[a] = <<>>

RequestsAreTaken ==
  []<>(NoRequestWaits \/ ~IsRunning \/ env.may \cap {"switch", "quota"} # {})

(***************************************************************************)
(* The main thread never waits for ever, for a lock (Process and the disk  *)
(* thread take the same two) or for the end of the thread (EndThread).     *)
(***************************************************************************)
MainReturns == []<>(mpc \in {"idle", "closed"})

(***************************************************************************)
(* The thread serves the slots as BlockService promises: data goes to the  *)
(* client that asked, for a request it asked in that session, once.  With  *)
(* the event reuse only SessionKeepsReads is promised.                     *)
(***************************************************************************)
Asked == UNION {{ReqOf(c, b) : b \in ToSet(queue[slot[c]])} : c \in Uploading}
Owed == {x.req : x \in pendingIO \cup (IF dpc = "send" THEN {cur.rd} ELSE {})}

Promise == INSTANCE BlockService
             WITH asked <- Asked, owed <- Owed, out <- sockQ
ImplementsPromise ==
  /\ Promise!Init
  /\ []["reuse" \in env.may \/ Promise!Next]_(Promise!vars)
===============================================================================
