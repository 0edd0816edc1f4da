# eMule Next: TLA+ models of the transfer engine, the server connection and the port mapper

This directory is a verification project for the client in `src/srchybrid`. It
holds TLA+ modules translated from the C++ source, configurations that
model-check them with TLC, and theorems that TLAPS checks for every value of
the constants. `PROJECT.json` lists the components, the runs, the lines of the
source that each definition stands for, the hazards of the code and the
theorems. All source paths below are relative to `src/srchybrid/`.

To run a check: `tlc -config PartFileCrash.cfg MCPartFile.tla`.
To check the proofs: `tlapm PartFileProofs.tla`.

## 1. The system

eMule Next is a Windows client (MFC) of the eDonkey and Kademlia networks. One
**main thread** owns nearly all the state: it handles window messages, socket
events (they arrive as messages) and a 100 ms timer (`CUploadQueue::UploadTimer`,
from which `CDownloadQueue::Process` is called). A few **worker threads** do
what would block it. They talk to the main thread by posted messages
(`TM_FINISHEDHASHING`, `TM_FILECOMPLETED`, ...), by completion ports, by
locked lists, and by plain fields that one side writes and the other reads.

| component | state | operations | who it talks to |
|---|---|---|---|
| Part file (`PartFile.cpp`) | gap list, buffered data, parts marked as changed or corrupted, status, `.part.met` on disk | WriteToBuffer, FlushBuffer, hash check, ICH/AICH recovery, save and load, pause/stop/resume, complete | writer (list + completion port), hashing and completion threads (messages), download queue (timer) |
| Part file writer (`PartFileWriteThread.cpp`) | `m_FlushList` (locked), `m_listToWrite`, `m_listPendingIO`, `m_Run`, `m_bNewData`, its port | WakeUpCall, EndThread, RunInternal, WriteBuffers, WriteCompletionRoutine, AddFile, RemFile | part file: state of each buffered item, `m_iWrites`, the write handle |
| Hashing thread (`SharedFileList.cpp`, CAddFileThread) | the file it reads | Run | part file, by message |
| Download queue (`DownloadQueue.cpp`) | list of downloads, sources of each, A4AF lists, UDP requests | Init (load), Process, AddSource, SetCatStatus, sort and priorities | part files, clients, servers |
| Upload disk thread (`UploadDiskIOThread.cpp`) | pending reads, block requests of each upload | StartCreateNextBlockPackage, ReadCompletionRoutine, WakeUpCall | upload queue (locked list), throttler |
| Upload queue (`UploadQueue.cpp`, `UploadPolicy.h`) | waiting list, uploading list, slots, rates | AddClientToQueue, AddUpNextClient, ForceNewClient, RemoveFromUploadQueue, Process | clients, throttler, disk thread |
| Bandwidth throttler (`UploadBandwidthThrottler.cpp`) | standard and control queues of sockets | RunInternal, QueueForSendingControlPacket, AddToStandardList, RemoveFromAllQueues | sockets, upload queue |
| Clients (`BaseClient.cpp`, `DownloadClient.cpp`, `UploadClient.cpp`, `ListenSocket.cpp`) | connection, upload and download state, secure identification | TryToConnect, Disconnected, packet handlers, ProcessBlockPacket | all queues |
| Credits, dead sources, corruption black box | per-client records with timers | verify identity, block and expire, find who sent corrupt data | clients, part files |
| Servers (`ServerConnect.cpp`, `ServerSocket.cpp`, `ServerBootstrap.h`) | connection attempts, the established server | ConnectToAnyServer, ConnectionEstablished, ConnectionFailed, retry timer | server list, first-run policies |
| Kademlia (`kademlia/`) | routing table, searches, index, packet tracking, firewall state | Search::JumpStart/ProcessResponse, RoutingBin/Zone, UDP listener | UDP socket |
| Port mapping (`PortMappingProtocol.h`, `UPnPImplPcpNatPmp.cpp`, `UPnPImplWrapper.cpp`) | session with the gateway, leases, mappers left to try | StartDiscovery, Work, MaintainLeases, DeletePorts | the main window (`EmuleDlg.cpp`), by message and by joining its thread |
| AICH (`SHAHashSet.cpp`) | hash tree, trust in a master hash | CreatePartRecoveryData, UntrustedHashReceived | part file, known files |
| Known and shared files, scheduler, web server, dialogs | lists, preferences | mostly one-step updates | everything |

`cryptopp`, `id3lib`, `mbedtls`, `miniupnpc` and `zlib` are third-party.

### What is hard, and what makes it right

*Part file writer.* Two threads and the operating system share raw pointers to
buffers and a wake-up protocol without a lock over `m_Run`, `m_bNewData` and the
emptiness of another thread's list. It is right when a buffer is neither freed
nor sent twice while anyone holds it, "written" means on the disk, handed-over
data is written whatever wake-up was missed, and the thread ends when told to.

*Part file.* The gap list, the buffer, the changed-part marks, the file on disk and
the `.part.met` describe the same bytes and change at different times, in
handlers that other threads and crashes interrupt. It is right when no
byte counts as present that was not written (in memory and in every `.part.met`
on the disk), nothing is downloaded twice, a corrupt part stays marked for the hash
check and never gets into a completed file, a completed download really completes, and a crash in
the middle of saving leaves something to load.

*Upload disk thread.* The upload list is written by the main thread and read by two
others; a client can leave, change files or be deleted while its reads are outstanding,
and the thread looks up who asked by an address. Right: a session gets the data it asked for, once, and nobody else gets it; outstanding reads are counted; no request is left because a wake-up was missed; no lock or join
blocks the main thread for ever.

*Upload queue.* A client is in one of two lists, has an upload state, a connection and perhaps a socket
that the throttler serves, and a dozen handlers change some of these. Right: they agree, slots are bounded,
a client that gets data has a socket that is served, and a connection try ends.

*Port mapping.* A worker negotiates with a gateway over UDP while the main window may
time out, fall back, renew, switch the option or end. Right: a mapping that the
gateway made, however late, can be removed; ports that count as forwarded are;
the fallback is not taken once a mapping was asked for; and a connection that waits for the
result is made.

*Server connection.* Two attempts race while handlers of sockets call functions that destroy sockets. Right: the
current socket is open and connected, nothing that was deleted is used, each socket that tries is watched by
the time-out, and the client goes on trying as long as the user wants a connection and the options say so.

*Clients, Kademlia.* Protocols with timers and late answers:
the state must stay consistent when an answer comes after its timeout, or when the
program ends with a request under way.

The full list of hazards, each with its line and the properties that cover it,
is in `PROJECT.json`.

## 2. Modules

| module | what it is |
|---|---|
| `AsyncWrite` | abstract specification: what the writer promises to the main thread |
| `PartFileWriteThread` | the writer, both threads and the completion port; implements `AsyncWrite` |
| `MCPartFileWriteThread` | two items for TLC |
| `PartFileWriteThreadProofs` | theorems about the writer, with the refinement of `AsyncWrite` |
| `PartFile` | a download as the main thread sees it, with hashing, completion, saving, crash and load; uses the writer as `AsyncWrite` allows |
| `MCPartFile` | three blocks in two parts for TLC |
| `PartFileProofs` | theorems about a download |
| `PcpNatPmp` | the port mapper for PCP and NAT-PMP: worker, session, leases, cleanup, and the gateway |
| `UPnPSetup` | the main window and the wrapper around it; extends `PcpNatPmp` |
| `MCUPnPSetup` | two lifetimes for TLC |
| `UPnPSetupProofs` | theorems about the port mapper |
| `BlockService` | abstract specification: what the upload disk thread promises to the clients with a slot |
| `UploadDiskIOThread` | the disk thread with main thread, throttler, files and completion port; implements `BlockService` |
| `MCUploadDiskIOThread` | two clients, two files and nine scenarios for TLC |
| `UploadDiskIOThreadProofs` | theorems about the upload disk thread: types, the struct it scans |
| `UploadReadsProofs` | theorems about its reads: their counter, who gets the data, and the refinement of `BlockService` |
| `UploadQueue` | the upload queue, the connections of its clients and the throttler's list of slots |
| `MCUploadQueue` | three clients and nine scenarios for TLC |
| `UploadQueueProofs` | theorems about the lists of the upload queue |
| `UploadSlotsProofs` | theorems about its slots: how many there are, and that the throttler serves them |
| `ServerConnect` | the connection to an ed2k server: attempts, login, failures, retry |
| `MCServerConnect` | three addresses for sockets, and the scenarios, for TLC |
| `ServerConnectProofs` | theorems about the connection to a server |

`AsyncWrite` joins the two components: `PartFileWriteThread` is shown to
implement it, and `PartFile` is composed with it. Its variables `flushed` and
`onDisk` are those of both. So the thread's lists need not be in the download's
model, and what the download does is checked against the promise
(`KeepsPromise`).

### PartFileWriteThread and the code

One part file; an item is a `PartFileBufferedData`, numbered by its offset; item
0 is the request for the extra byte that allocates the file (its `data` is NULL
and it is never in `m_BufferedData_list`).

* Main thread (`mpc`): `WriteToBuffer`, then `FlushBuffer` in its steps: mark READY
  items PENDING and append them to `m_FlushList` under the lock
  (`FlushBuffer`), `CheckFlushList` and `WakeUpCall` (test of `m_Run`
  and `m_listPendingIO` and the post) with `MarkNewData` (the store to
  `m_bNewData`) as a step of its own, one `ScanItem` for each item of the scan,
  `ScanDone`; `EndThread` and `Join`.
* Write thread (`wpc`): `CreatePort`, `Wait` (the outer
  GetQueuedCompletionStatus), `MoveFlushList`, `WriteBuffers` (one request at a
  time: written, refused at once, or the file does not open), `Complete`, `Poll`
  (the inner GetQueuedCompletionStatus), `Rest` (store of RUN_IDLE), `Recheck`
  (test of `m_bNewData`), `Stop`.
* System: `IoEnds` ends an outstanding write in any order, in full, short or
  failed, and queues its packet.

Two choices follow from Windows: a failed overlapped write makes
GetQueuedCompletionStatus return FALSE *with* a dequeued packet (`Failed`), and
a posted wake-up is a packet of the same queue. `Faults` says which failures a
run admits. Bounds: `MaxPort` (no flush while that many packets are queued),
`MaxLeak` (no short write once `m_iWrites` is above it). Not modelled: several
part files (they share the thread's lists but no other state), closing
before the thread has created its port.

### PartFile and the code

A block is the unit in which data arrives and is buffered. Two abstractions of the
data: a block is missing, buffered or present as a whole, and its content is
"good", "bad" or (never written) "none". A part is good when all its blocks on
the disk are: the known hashes are taken to be right.

* `pc` is the place in a handler of the main thread where another thread or a
  crash makes a difference. FlushBuffer is `FlushBuffer` (with its early exits
  `FlushOnClosedFile`, `FlushWithoutSpace`), `ScanItem`, `CheckParts` (the hash
  check of changed parts with ICH), `UpdateMet`, `FinishFlush`. SavePartFile is
  `SavePartFile`, `WriteTmp`, `RemoveMet`, `RenameMet`, and returns to `ret`.
* `after` is what FlushBuffer returns to: nothing, the end of CompleteFile(true)
  (`StartMover`), or the rest of AICHRecoveryDataAvailable (`RecoverPart`).
* Threads: `HashThread` and its message `PartFileHashFinished`; the completion
  thread `ClosePartFile`, `MoveFile` or `MoveFails`, and its message
  `PerformFileCompleteEnd`.
* Users and timers: `WriteToBuffer`, `PauseFile`, `StopFile` (it may come in any status,
  as CDownloadQueue::SetCatStatus calls it from the scheduler), `ResumeFile`.
* `Persist`, `Report` and `ExtraByteWritten` are what `AsyncWrite` lets the writer do.
* `Crash` loses the memory and then loads what is on the disk: `.part.met`
  first, else the `.backup` (`LoadPartFile`). If both exist the code makes two
  downloads of one file; the model ends there (status "twice"). A file that is
  moved but not yet known is downloaded "again".

`holes` and the `wrong` field of a `.part.met` are not in the program. They record
the blocks that SavePartFile leaves out (see 5), so that the honest part of the
file can be stated and proved.

`Events` chooses the events of the environment, `MaxBad` bounds the corrupt
blocks, `MaxCrash` the crashes.

Not modelled in this component: choice of the next block to request and sources,
deletion of a download, import of other formats, previews, read errors of the
`.part` file during the hash check, the hash set arriving late (it is known
from the start), compressed NTFS files, the limit of one file that completes at a time.
Two branches are left out: ICH is always switched on, and a part whose AICH data is already in
memory is recovered only after the request (`RequestAICHRecovery` calls
AICHRecoveryDataAvailable at once, `PartFile.cpp:5197-5200`). The write thread runs all the
time, so FlushBuffer's test of that (`PartFile.cpp:4103`) is always true: the shutdown is in the writer's model.

### PcpNatPmp, UPnPSetup and the code

`PcpNatPmp` is the class CUPnPImplPcpNatPmp with `PortMapping::Run`. The worker
(`wpc`) takes one step for each exchange with the gateway: `ProbePcp`, `ProbeNatPmp`,
`Recheck` (a NAT-PMP renewal), and for each lease `SendMap` and `ReceiveMap`, which are two
steps since the gateway grants a request at once and its reply may be lost. Then `FinishRun`
(the end of Work: the lease times, or the removal after a failure), `ReportResult` and
`WorkEnds` (the store to `m_running`) are separate, as the main thread can run in between.
`Exchange` gives the results an exchange can have: a cancellation or a change of the network
ends it with NetworkChanged. What the gateway holds is `maps`; its field `by`, which is not
in the program, says whether the request of a mapping can still be named: "current" while its
nonce is in the session, "lost" when a deletion was sent in vain, "old" when the
session was reset without one.

`UPnPSetup` is the main thread: `Startup`, `OnUPnPResult` and what it does next (`TimedOut`,
`FallBack`, `SelectMini`, `SwitchImplementation`, `SetupFails`), the time-out timer, the lease
timer (`RenewLeases`, `StopLeases`), `RefreshUPnP` with its callers (`LowId`, `Resume`),
the option, the wizard and `Close`. A handler is one step but for the joins of the
worker (`mpc` is then the place after the join). Posted messages are handled in order and before
input and timers (`Idle`), as the Windows message loop does. The wrapper's lists
are `active` and `avail`.

Time is in ticks of 30 s, the retry interval of MaintainLeases; an attempt of the worker is over
within two ticks, as its exchanges are bounded. So a lifetime of 1 tick is below the minimum
of 60 s (`ShortLease`), and 2 is the shortest that is accepted.

Not modelled: the packet encoding (`Decode` is the set of its verdicts), the external
port, address and epoch (the verdicts of the tests on them), the choice of the route (`net` says
that the network is eligible and the route unchanged), a socket that cannot be opened for the removal
(as a lost deletion), the mappings made by UPnP (its search runs and ends with a result), the
mapper by the Windows service (as if disabled by its preference), the message boxes,
diagnostics that keep a legacy user from the next mapper, `StartDiscovery` without random numbers.

### UploadDiskIOThread and the code

The three threads are `mpc` (main), `dpc` (disk) and `tpc` (throttler). An `Addr` is the address an
UploadingToClient_Struct can have, so that the lookup by pointer in ReadCompletionRoutine can be stated; a
slot that is given up frees its address. `FreeAddr` are the addresses `new` may return. The code has nothing that keeps
the heap from returning one for which a read is pending; the event "reuse" lets it do so, and `ImplementsPromise` leaves that event out.

* Main thread: `AddUpNextClient` opens a slot, `AddReqBlock` adds a request and calls `WakeUpCall` / `MarkNewData`
  (the same two steps as in the writer), `Process` moves done blocks out and removes a client
  with an I/O error (`ProcessHead`, `ProcessRemove`); `SetUploadFileID`, `AskForFile`, `EndSession`, `LoseSocket`,
  `DeleteClient` are what a client can do; `Unshare`, `PerformFileComplete` and `PerformFileCompleteEnd` what can happen to a
  file; `EndThread` and `Join`.
* Disk thread: `Wait`, `LockList`, then for each slot `ScanSlot`, `PickBlock`, `AssociateFile`, `ReadFile`, back to the next slot by
  `LeaveSlot`; `ScanDone` clears `m_bNewData`; `Complete` (ReadCompletionRoutine), `SendPackets`, `Poll`, `Rest`, `Recheck`,
  `Stop`.
* Throttler: `SendFileData` empties a socket, `NothingToSend` and `ThrottlerMarks` are its call of WakeUpCall.
* The list lock is held from `LockList` to `ScanDone` (`ListLocked`), the block-list lock of a slot by the scan
  (`BlocksLockedByDisk`) or by Process (`BlocksLockedByMain`).

A behaviour is one of `Scenarios`: the events it admits, the blocks each client asks for, the number of sessions. Bounds:
`MaxPort`, `MaxSession`, `BufferLimit`. Not modelled: compression and packet formats (a block is one packet), the
sizes of blocks, requests outside the file (refused before they are queued).

### UploadQueue and the code

All of this runs in the main thread, in handlers that call each other. What the code keeps in members is one record `q` (the waiting
and the uploading list, each client's upload state, connection, socket and marks, the sockets, the connecting list, the
throttler's standard list), a function of the code is an operator from a record to the next, and an action is an event of
the message loop: `ClientConnects` (listening socket, AttachToAlreadyKnown), `OnConnect`, `HelloAnswer`, `SocketCloses`,
`DeleteSocket`, `ConnectTimeout`, `AskForDownload`, `StartUploadReq` (with AddClientToQueue), `CancelTransfer`, `Ban`, `UnBan`, and
`Process` / `ProcessSlot` / `ProcessEnd`, the loop over the slots one element at a time, since what a handler does to
the list it walks is what can go wrong.

Abstractions: the lists are sets (order and slot numbers decide only which socket is served first); scores, rates and time limits
are choices (any waiting client can be the best, a session can end at any time under the event "over"); clients inserted during
Process wait for its next round; the early return for a low ID client when more than 50 wait (`UploadQueue.cpp:530-545`) is left
out. Bounds: `MaxSock` sockets at once.

### ServerConnect and the code

Again the members are one record, `sc`, and a function is an operator from a record to the set of records it may leave, the choice
being what the server list and the network answer. Events: `UserConnects`, `UserConnectsTo`, `UserStops`, `UserDisconnects`;
of a socket `Filtered` (its name is resolved), `OnConnect`, `Login`, `PacketFails`, `PacketFailsThenLogin`, `OnError`, `OnClose`; of the
timers `RetryConnectTimer`, `OneSecond` (which calls CheckForTimeout) and `TimePasses` (an attempt gets 25 s old).
The field `freed` is not in the program: it records a use of a deleted socket or of a map that was emptied meanwhile. `wanted`
remembers what the user asked for last.

`Socket` is a set of addresses; a pool that is empty stops new attempts, which bounds the model. Not modelled: the server list
(which server comes next), KeepConnectionAlive, UDP, what is in a login (a refused one changes nothing), proxies, a
WM_TIMER that was posted before KillTimer.

## 3. What the runs show

Writer, two items and the extra byte: enough for one item to be collected,
failed or completed while another is queued behind it, for two
completions out of order, and for the allocation to be overtaken.

| run | question | result |
|---|---|---|
| WriteThreadClean | no failures, no end | `CountsOutstanding`, `PendingIoWakes`, and (liveness) `HandedOverIsWritten`: no wake-up is lost although the test is unlocked |
| WriteThreadAll | all failures, end at any moment | `HeldIsPending`, `WrittenIsOnDisk`, `QuietWhenCompleted`, `EndThreadReturns`, refinement `ImplementsPromise` |

Download, three blocks, the first two in one part: a part that is done in one
step and one that is not, two buffered blocks that touch and two that do not,
and a part complete while the other is being written.

| run | question | result |
|---|---|---|
| PartFileDownload | a corrupt block, ICH and AICH recovery | `CorruptIsMarked`, and `NothingMissingCompletes` under fairness |
| PartFileCrash | a corrupt block, saves that fail, a crash at any step | `GapsAreHonest`, `MetIsHonest`, `OnlyGoodFilesMove` |
| PartFileFaults | failing writes, full disk, allocation, failing hash or move, pause, stop | `CompleteFileAsserts`, `DownloadSurvives`, `KeepsPromise` |
| PartFileCorrupt | one corrupt block and a stop | `OnlyGoodFilesMove` is violated |

Port mapper. Two leases (TCP and UDP), so that one can be granted and the other refused, lost or
too short; lifetimes of 1 and 2 ticks, so that a lease runs out or is renewed between any two
steps. The initial states have the option and the home consent on or off.

| run | question | result |
|---|---|---|
| PortMapping | two leases, a network that comes and goes, the wizard's opt-out and consent, the end of the program | `MappingsAreTracked`, `CleanupOnNetwork`, `ForwardedIsMapped`, `FallbackIsUnmapped`, `OneMapperAtATime` |
| PortMapLive | one lease, suspend, options switched; the network stays eligible | `DelayedConnects` under fairness |

Upload disk thread. Two clients and two blocks of one file, one of another: one block waits while another is read, one client
comes while the other's blocks are read, a file is closed while another is read. The scenarios are in `MCUploadDiskIOThread`: both clients
at once; clients that come and go with short reads; failing opens and reads; a full quota and the end of the program; a lost connection with
or without deletion; a completed download; an unshared file; a client that changes files; and an
address that passes from the struct of a client that leaves, while its read is pending, to the next client's (the event "reuse"; the next session of the same
client is covered by the theorem).

| run | question | result |
|---|---|---|
| UploadDisk | all these scenarios | `CountsReads`, `SessionKeepsReads` (a session that goes on gets its own data, and nobody else does), refinement `ImplementsPromise`; under fairness `RequestsAreTaken` and `MainReturns` |

Upload queue. Three clients and one ordinary slot: one served, one that waits, one that comes. Low ID clients, collections, equal user
hashes, clients that are kept as sources, bans, sockets that are refused.

| run | question | result |
|---|---|---|
| UploadQueue | all scenarios | `ListsMatchStates`, `ServedUnlessReplaced`, `SlotBound`; under fairness `ConnectingEnds` |
| UploadQueueServed | a client with a slot that connects again | `SlotsAreServed` is violated |

Server connection. Three addresses: two attempts (the most the code makes), and the socket that failed or is marked and still there. Most
scenarios run with and without the option to reconnect; a refused Connect is in a scenario without an empty list, so that
`KeepsTrying` asks something of it.

| run | question | result |
|---|---|---|
| ServerConnect | dead, full, filtered and refusing servers, failing packets, an empty list, equal ticks | `ConnectedIsOpen`, `NoUseAfterFree`, `NoneLeftBehind`, `SocketsAreWatched` (not with equal ticks), `KeepsTrying`; under fairness `AttemptEnds` |

The events are split over the runs because their product is large and because
some break a property that holds without them; each such split is one
of the findings, or is listed in 5. Types are proved for every component
(`TypeCorrect`); `TypeOK` is also checked in the runs PartFileDownload, UploadDisk and ServerConnect.

Deadlock is checked except in PartFileCrash and PartFileFaults: there the system
really stops. A part file whose final hashing fails (an unreadable file, or the
name of a `.backup` in `m_partmetfilename`) stays in PS_COMPLETING, as
CAddFileThread reports a failure for shared files only and no handler of the
part file leaves that status. Nor is it in UploadDisk, where every session may have ended and nobody
has anything left to ask. In the port mapper time always passes, so that deadlock
checking shows nothing there; `DelayedConnects` would show a join that never returns.

### Fairness

Writer: weak fairness of the main thread's handler steps, of the write thread
and of each outstanding write (threads are scheduled, I/O ends), and of
`FlushBuffer` while the file is not in PS_ERROR, since CPartFile::Process
flushes it from a timer. `WriteToBuffer` and `EndThread` are not fair.

Download: a handler runs to its end and an active download is flushed again and
again (weak fairness of `Handler /\ Active`; a paused or failed file gets
none), the threads and the writes make progress (weak). The two messages
have strong fairness: they are taken from the message queue of the main thread in
order, while in between other handlers may run and disable them for a while.

Port mapper: weak fairness of the handlers of the main thread (messages are handled, and a
handler runs to its end once the worker it joins has ended), of the worker's steps (its thread
is scheduled and every exchange is bounded), of the time-out timer while it is set, and of the UPnP search
(its calls have time-outs). Users, the lease timer, time and the network are not fair.

Upload disk thread: strong fairness of the main thread's handler steps and of the disk thread, which wait for locks that others take again and
again (critical sections of Windows starve nobody for ever), and of Process, which comes ten times a second; weak fairness of the
throttler, of each outstanding read and of the completion thread. Clients are not fair.

Upload queue: weak fairness of Process and its loop (the timer of 100 ms), and strong fairness of `ConnectTimeout` for each client:
ProcessConnectingClientsList runs every second, and a try that goes on is found too old. Clients and the network are not fair.

Server connection: weak fairness of `OneSecond` and `RetryConnectTimer` (Windows timers) and of `TimePasses`. Servers and users are not fair.

## 4. What is proved

For all constants that satisfy `ItemAssumption`, `SwitchAssumption`
(writer), `FileAssumption`, `EventAssumption` (download), `LeaseAssumption` and
`ImplAssumption` (port mapper), `DataAssumption` and `SwitchesAssumption` (upload disk thread),
`QueueAssumption` (upload queue) and `ServerAssumption` (server connection): any number of items, blocks, parts, leases, clients, sockets and files, any choice
of faults, events, scenarios and lifetimes, any bound.

*Writer* (`PartFileWriteThreadProofs`): `TypeCorrect`, `RequestsHeldOnce`,
`BuffersOutliveWrites`, `WrittenIsWritten` and the refinement `KeepsThePromise`. The
main argument is one inductive invariant. "Held once" and "held is pending" are not inductive
alone: that a request is in only one of six places needs that READY items are
in none, which needs that what is held is PENDING, which needs that the
main thread marks an item PENDING in the step that appends it, and that the extra byte is
requested only while the file has no length. The invariant joins these with the
contents of the thread's local state (the packet it holds, at each place of its
loop). The refinement then is one case for each action: `FlushBuffer` maps to `HandOver`, the
end of an I/O to `Persist`, its completion to `Report`, a scan step to `Collect` or `Retry`, the rest stutters.

Three more theorems rest on it.

* `CompletedIsQuiet`, for all faults and with the thread ending at any moment. `m_iWrites <= 0` and an empty buffer leave one request
  that could still be about, the one for the extra byte. It is queued in front of an item, so that a list which ends with it
  (`m_FlushList`, `m_listToWrite`) has no items behind it only if there were none: `ListsEndWithItems` says that a list that is not empty ends
  with an item.
* `WritesAreCounted` and `PendingWakesThread`, under `NoWriteLost`: no write ends short, no failed one is dequeued by the inner loop, and the
  program runs on. Each of the three is a place where the code takes an entry off the list but not off the counter, or drops the packet of one that stays in the list
  (section 5), so that the assumption is what the comments need and no less. The invariant `AllPending` says that `m_listPendingIO` is
  what the system, the port and the thread's hands have, each once.

*Download* (`PartFileProofs`):

* `GapsTellTheTruth`, `MetTellsTheTruth`: a block that is not missing and not buffered has been written,
  and both `.part.met` files say so too, for every crash and failure. The
  strengthening `Honest` adds that WRITTEN and PENDING-and-done blocks are on the disk
  (`BytesOnDisk`), and joins the three facts, since a crash
  turns what the `.part.met` says into the gap list and a save turns the
  gap list into what the `.part.met` says.
* `NoBlockTwice`: missing and buffered blocks are disjoint. Parts become missing again
  in five places (failed hash, ICH, AICH, final hashing, loading); that none of
  them meets a buffered block rests on `Quiet`: where a handler returns
  to, while a file is hashed, and in the flush of CompleteFile.
* `HashingIsUndisturbed`: while the file is hashed nothing is buffered and no
  completion thread runs.
* `UsesThePromise`: without crashes every step of the download is a step of
  `AsyncWrite` or leaves its variables alone. (A crash empties the buffer, which no
  step of `AsyncWrite` does; the assumption `MaxCrash = 0` says so.)
* `CorruptStaysMarked`, without crashes (a part that a loaded `.part.met` lists as complete is not hashed again): until the file is moved, a part which counts as
  complete with bad data is in `m_aChangedPart`. The invariant `Checked` adds what the places in the middle of a flush and of a recovery have still to mark.
  It does not say that such a part is not given to others in the meantime; it is (section 5).
* `MovedIsGood` and `CompleteFileAssertion`: what the completion thread moves is good, and the assertions of CompleteFile hold while the last hashing
  runs. The assumption is `Undisturbed` (neither StopFile nor an AICH answer is among the events: each flushes the buffer of a file that
  is being hashed, see section 5) or `AllGood` (nothing corrupt arrives and nothing crashes). The invariant `Finishing` follows a file through its end: once the
  hashing has started nothing is missing or buffered (`FinalHashing`), the bytes of a file that passed it stay (`Sealed`), nobody reopens it (`Closed`), no
  recovery waits for the flush (`NoRecovery`), and the flush of CompleteFile returns to the mover (`Reason`).
* `MetSurvives`: until the file is moved a `.part.met` or its backup is there. Without crashes, and if saves do not fail in their
  rename: the next save after one that did truncates the only copy (section 5).
* `TypeCorrect`.

*Port mapper* (`UPnPSetupProofs`): `TypeCorrect`, of both modules together, and `MappingsCanBeRemoved`, that a mapping the gateway made by PCP
has its nonce in the session until a deletion was sent for it or the session was reset (when that may be is
`CleanupOnNetwork`). It holds because `issued` is set before the request is sent and
cleared only with a deletion. The invariant `Tracked` adds the types of the gateway, the
session and the locals of Run (that the lease a request is for is a lease).
Four more theorems say what the worker and the main window promise each other, for any leases, lifetimes and events:

* `CleanupBeforeReset` (an action property): a step that forgets a mapping without a deletion is one taken on another network or at the end. It needs `Owned`: a
  current mapping belongs to a session of PCP, and there is none while the worker probes for another protocol.
* `ForwardedPortsAreMapped`: while the worker's reckoning has time left, each lease is held by the gateway. The invariant `Leased` says the same of the leases
  granted so far in the attempt that goes on, which is reckoned from before its first request.
* `FallbackNeverBypasses`: the fallback is taken only if no mapping was asked for. `Unmapped` follows the permission from the failed probe to the result that is handled.
* `MappersExclude`: the UPnP search runs only when the worker has done its last exchange. `OneActive` says that only the active mapper is at work, and that a failure which is
  posted and not handled yet is one of a worker that is done and has no session left.

*Upload disk thread* (`UploadDiskIOThreadProofs`): `TypeCorrect`; `ScannedIsListed`, that the struct the thread works on stays in the
upload list while it does so and belongs to one client. The invariant `IInv` joins
the types, `ScanIsListed` (which needs that the list lock is held at each place of the scan, and that
AddUpNextClient and RemoveFromUploadQueue wait for it) and `OneSlotEach` (an address is given to a new slot only if no client has it).

*Reads of the upload disk thread* (`UploadReadsProofs`): `ReadsAreCounted`, that `nInUse` of each file is the number of its reads that are not
counted off yet, if no scenario has a failed read dequeued by the inner loop (`NoDequeue`; that read is dropped and the file counts as in use for ever);
`SessionGetsItsReads`, with no assumption: whatever address the heap returns, the data read for a session that goes on is sent to its client and to nobody else; and
`ThreadKeepsPromise`, that the three threads implement `BlockService`; the property itself leaves out the event "reuse" (`NoReuse`). They rest on an invariant `RInv` about where a read is: with the system, in the port
or in the thread's hands, in one place at a time; that no request is read twice; and that a request which was taken from its slot is in the slot's list of done blocks until the session ends, so that it
is not accepted again. For `SessionGetsItsReads` it is enough that a session keeps its struct from its first request to its end (`SessionHasStruct`), that no two
clients have one, and that a session's number never comes back. The
refinement goes action by action as for the writer; the case that carries it is ReadCompletionRoutine, which delivers by the address: there the assumption is needed, since with an address used again `FoundIsRequester` fails.

*Upload queue* (`UploadQueueProofs`): `TypeCorrect` and `QueueListsMatch`, that lists, states and the saved position agree. A handler is a
chain of operators on the record `q`, each about one client: `Touches(s, t, c)` says that from `s` to `t` nothing changes but for client
`c`, so that an operator has to be looked at only for its own client. The invariant `IInv` is three things: `Typed`, that a socket
which is connecting was made by a connection try that goes on (else TryToConnect could give up a socket while the slot waits for it); `Lists`,
for each client, where a client in the upload list that is not banned has a state of UPLOADING or CONNECTING, and UPLOADING when its connection
is up (else Enqueue would queue a client that has a slot), which holds unless a scenario both makes and ends bans (`BansEnd`); and `LoopIsAt`, where the loop of Process is: what it has left is in the upload list,
which holds because no handler takes another client than its own, or than the waiting twin of its own, out of a list. AddUpNextClient breaks
`Lists` in its middle, where the client is in no list and its state says CONNECTING, and TryToConnect may delete it there: `TakenKeeps` is that case.

*Upload slots* (`UploadSlotsProofs`): `SlotsAreBounded`, if no ban is ended by the user (`NoUnban`). Slots are opened in four places, each with its own test;
the proof counts ordinary slots, those not opened for a collection. `Frees` and `Adds` say what an operator may do to them: only AddUpNextClient adds one, its own
client, after a test of the whole list (`OneMoreKeeps`) or with the collection's mark (`AddsMarkedKeeps`); the rest takes slots away (`FewerKeeps`). A slot would also become ordinary
if its client lost the mark while it keeps the slot, which Enqueue does to a client that asks: that a client which may ask has no slot needs the invariant `IInv` above.

*Service of the slots* (`UploadSlotsProofs`): `SlotsStayServed`, that a client with a slot has a socket on which the throttler calls send. The scenarios are those
of `ServedUnlessReplaced`: no client gets another socket, none fails to be created, none is a chat partner or is banned; each of the four takes the socket from under a slot or opens a slot without one
(the first is the finding below). The invariant `Served` adds that no two clients have one socket (else a client that leaves would take another's off the list), and that a connection try has made a socket, unless the client has a
low ID and was asked to call back. `Leaves(s, t, c)` says that an operator changes only client `c` and that who was served still is. The invariant carries two cases: Disconnect, which closes the socket, takes the
slot away only if the state is UPLOADING or CONNECTING, which `IInv` guarantees; and AddUpNextClient opens the slot after a try whose failure must have deleted the client, or it would open a slot without
a socket (`TriedIsDeleted`).

*Server connection* (`ServerConnectProofs`): `TypeCorrect`, `NoSocketLeftBehind` and `TriesAreKeptUp` hold in every scenario, `SocketsStayWatched` in those without the event "tick" (the property says so); `ConnectionIsUsable` if no packet is handled after the one that cost
an established connection (`NoneAfterFailure`); `NothingFreedIsUsed` if, besides, one server is tried at a time where Connect can fail at once (`OneIfRefused`). The two assumptions leave out the events with which TLC
refutes these two (section 5), and no others. A callback of a socket is a chain of functions that call each other in the middle of their work, so the invariants are stated of the record
between two calls. `Sound` holds there always: types, the link between `connected` and `connectedsocket`, a single try has at most one attempt, the limit, and the watched sockets. `Sure` adds `Steady` unless the event "batchLive" is possible: what
is open is alive, a connected program has nothing else under way, no attempt is open when nothing is tried, and no attempt is logged in (else a second login would find the program connected).
`Pursues` is what a program that is to reconnect keeps, and `Calm` names the scenarios in which nothing freed is used. A function that runs inside another may destroy sockets which the other is about to
destroy itself: `Spared` is such a socket, and `Follows(s, t)`, which is transitive, says that it is spared and that nothing freed is used on the way. Four cases carry the
proof: a refused Connect, whose failure stops all tries before ConnectToServer enters the dead socket in the emptied map (`RefusedIsGood`); a lost connection, which
closes the current socket whichever socket reports it (`LostIsGood`); the loop of CheckForTimeout, which goes on in the map after ConnectionFailed has changed it (`VisitIsGood`, `TimeoutIsGood`: while a second attempt
is left, only a refused Connect stops all tries under the loop); and the login that wins, after which StopConnectionTry destroys all but the winner (`EstablishedIsGood`).

Left to TLC: the liveness properties (`HandedOverIsWritten`, `EndThreadReturns`,
`NothingMissingCompletes`, `DelayedConnects`, `RequestsAreTaken`, `MainReturns`, `ConnectingEnds`, `AttemptEnds`), which need ENABLED. Every safety property of the
passing runs is stated by a theorem, some under an assumption about the scenarios that the theorem names.

## 5. Where the code does not do what it says

Two runs end in a counterexample against a line of the code or its comments; `PROJECT.json` quotes them under "findings". In short:

1. a part can reach the final hashing unchecked and be hidden from it by a stop (PartFileCorrupt);
2. a client that holds an upload slot and connects again gets a socket that the throttler does not serve (UploadQueueServed);

Seven more disagree with a line of the code. They are told here and not among the runs; each
comes back with the run and constants in brackets:

* A failed write that the inner loop dequeues is dropped (`PartFileWriteThread.cpp:96`): GetQueuedCompletionStatus returns FALSE both for a time-out and for the packet of a
  failed write. Its entry stays in `m_listPendingIO`, and as WakeUpCall says "pending I/O makes posting unnecessary" (line 228), no later
  call posts anything. (WriteThreadClean with `Faults = {"dequeue"}`: `PendingIoWakes`.)
* SavePartFile leaves out a buffered block that follows a gap in its merge loop (`PartFile.cpp:1413`: the item that does not touch the run has been
  taken from the list), against the comment at 1390-1392, "Add buffered data as gap too". (PartFileDownload with `Events = {}`: `MetCoversBuffered`.)
* The fallback from PCP to MiniUPnP is refused when MiniUPnP was the last working mapper, which it is by default (`UPnPImplWrapper.cpp:109`, `Preferences.cpp:2465`),
  against `docs/PORT-MAPPING.md:29-34`. (PortMapLive with `LastWorking = "mini"`: `FallbackTriesUpnp`.)
* A short write never decrements `m_iWrites` ("outstanding I/O counter", `PartFile.h:338`), so the file cannot
  complete in this session. (WriteThreadClean with `Faults = {"short"}`: `CountsOutstanding`.)
* AICH recovery completes a file while its extra byte is being written, against the assertion at
  `PartFile.cpp:2669`. (PartFileFaults with `Events = {"alloc", "aich"}`,
  `MaxBad = 1`: `CompleteFileAsserts`.)
* A late AICH answer does what StopFile does in finding 1: it flushes the file during its final hashing, and the check of a part that got there unchecked opens its gap before
  the result of the hashing is read (`PartFile.cpp:1486`), so that the corrupt
  file is moved as it is. (PartFileCorrupt with `Events = {"aich"}`, `MaxBad = 2`: `OnlyGoodFilesMove`.)
* A crash in SavePartFile between writing the `.backup` and removing the `.part.met` leads to two downloads of one
  file; `DownloadListCtrl.cpp:244` says "The same file shall be added only once". (PartFileCrash: `LoadedOnce`.)

The upload and server models add these, each refuted by TLC when the event in brackets is put into a scenario:

* `InUseIsOpen` ("switch", "delete"): the read handle of a file is closed while reads for it are outstanding, against
  `ASSERT(!nInUse)` at `KnownFile.cpp:309`, when the last client of the file changes files or is deleted. The data is discarded
  (`UploadDiskIOThread.cpp:297`) while the payload stays counted as added, so that the slot of a client that switches back may starve.
* `FoundIsRequester` ("reuse", in UploadDisk): the comment at `UploadDiskIOThread.cpp:300` says of the look-up in the upload list "otherwise it is a deleted pointer". A struct that is
  deleted while its read is pending may be followed by one at the same address: then the pointer is deleted and is in the list, and the data read for the first client goes
  to the second. `ImplementsPromise` without its exception for "reuse" fails too; `SessionKeepsReads` is what holds.
* `RequestsAreTaken` ("dequeue"): a failed read that the inner loop dequeues is dropped (`UploadDiskIOThread.cpp:115`), and WakeUpCall posts
  nothing any more; in the outer loop it ends the thread.
* `ListsMatchStates` without its exception for "unban": UnBan sets US_NONE for a client that may hold a slot; asked again, it
  is put on the waiting list too.
* `SlotBound` without its exception for "again": a client with a slot for a collection that asks for another file violates
  `ASSERT` at `UploadClient.cpp:711` and counts as an ordinary slot.
* `MarkedIsDeleted` ("error", "packet", "refuse"): `ServerConnect.cpp:309-310` says that a marked socket "will delete itself after this
  function"; after OnError, after a packet that cannot be processed (`ServerSocket.cpp:612`) and after a Connect that fails at once (`:668`)
  nobody deletes it, and it stays in `m_lstOpenSockets`.
* `ConnectedIsOpen`, `NoUseAfterFree` ("batchLive"): on an established connection a packet that cannot be processed, followed by a login answer in the same
  read, leaves the client connected with a closed socket, or uses the socket after it was destroyed.
* `NoUseAfterFree` ("refuse" with two attempts at once): CheckForTimeout starts another attempt, whose Connect fails at once with a fatal error;
  StopConnectionTry empties the map of attempts while the loop holds the position of the next one.
* `SocketsAreWatched` leaves out the event "tick": two attempts in one tick of the clock have one key in `connectionattempts`, so that the first has no time-out.

Also seen while modelling: the comment at `PartFile.cpp:2916-2917` ("UploadDiskIOThread will close the file ASAP") describes something that thread
does not do; `BaseClient.cpp:1122` ("sets US_NONE") is not true of a client in US_CONNECTING that is not listed yet; after RUN_STOP ReadCompletionRoutine
frees an entry of `m_listPendingIO` that it leaves in the list; a client that is removed for an I/O error is told nothing.

A part with bad data that is marked as changed and not hashed yet counts as complete: a save in the middle of a flush collects WRITTEN items after the check of the
changed parts, and until the next flush hashes the part, AddReqBlock (`UploadClient.cpp:366`) and WritePartStatus (`PartFile.cpp:2102`) give it out and offer it, as
both ask only IsCompleteBD. (PartFileDownload: `SharedPartsAreGood`. `CorruptIsMarked` is what holds.) The ports of the port mapper, too, count as forwarded between the end of the lease and the next call of the
lease timer, which `ForwardedIsMapped` leaves out.

Properties of the older modules that TLC also refutes, stated there but not among the runs, because
no line of the code or the documents claims them:

* `NoDeletedEntry`: a completion handled after EndThread leaves a deleted structure in
  `m_listPendingIO`, which the loop at the end of the thread deletes again.
* `HandedOverIsReported`: after a refused WriteFile the rest of `m_listToWrite` waits
  for a wake-up that only new data gives.
* `HashingEnds`: after a failed final hashing the file stays in PS_COMPLETING.
* `DownloadSurvives` with the event "met": after a failed rename the `.backup` is
  the only copy, and the next save truncates it.
* `CompleteIsFinal` with "aich" or "stop": a late flush of a file that is
  complete sets PS_ERROR.
* `DelayedConnects` with the event "network": after the time-out or the fallback StartUPnP(false)
  returns early when the network is no longer eligible, with the timer killed (`EmuleDlg.cpp:3795`) and no message
  posted; nobody makes the delayed connection, until the user asks again.

Two more behaviours of the port set-up that the model has and no line speaks against: a time-out that is
posted just before a success removes the mappings that were reported as working
(`EmuleDlg.cpp:3680`, `3692`); and an opt-out during a PCP attempt sends its failure down the path of
the existing UPnP users (`EmuleDlg.cpp:3706`), which starts a UPnP search though the option is off.

## 6. Plan

In this order; each new component has a module, an MC module, one or two runs and,
where it says so, a module of proofs. Runs that show a known finding give
way to runs of new components once the finding is described here.

1. **UploadQueue**: a second file and the order of the waiting list.
2. **Throttler**: standard list and two-stage control queues under two locks; a
   removed socket is in no queue; a control packet is sent eventually.
3. **Port mapping**, what is left: the mapper by the Windows service, which is not in the test for a busy
   mapper (`EmuleDlg.cpp:3778`).
4. **GapList**: AddGap, FillGap and GetNextEmptyBlockInPart on byte ranges against
   sets of bytes; a refinement from `PartFile`'s block sets.
5. **First-run policies** (`ServerBootstrap.h`, `ConnectionSetupPolicy.h`), composed with `ServerConnect`.
6. **Kademlia**: PacketTracking (a reply only to a request), RoutingBin and
   RoutingZone (capacity, uniqueness by IP), a search's life and its stop.
7. **DownloadQueue**: sources and A4AF lists (a source is in one list), deletion
   of a download with writes outstanding (extends `PartFile`), DeadSourceList.
8. **Clients**: connection and secure identification state, credits.
9. **AICH trust** and **CorruptionBlackBox**: who is blamed for which range.
