----------------------- MODULE UploadDiskIOThreadProofs -----------------------
(***************************************************************************)
(* Theorems about UploadDiskIOThread, for all clients, files and blocks    *)
(* and every environment.                                                  *)
(*                                                                         *)
(* The argument: the upload-list lock keeps a struct in the list while the *)
(* disk thread has it in hand, so a read is started for a listed struct    *)
(* and in the name of its client.  The lemma RequesterStep is for scenarios*)
(* in which a struct that left the list does not come back while one of    *)
(* its reads is pending; UploadReadsProofs has what holds in all.          *)
(***************************************************************************)
EXTENDS UploadDiskIOThread, FiniteSetTheorems, TLAPS

\* no two clients have the same struct, and a slot belongs to a session
OneSlotEach ==
  /\ \A x, y \in Client : slot[x] # NoAddr /\ slot[x] = slot[y] => x = y
  /\ \A x \in Client : slot[x] # NoAddr => session[x] >= 1

\* what the scan still has to visit, and has in hand, is in the list
ScanIsListed ==
  /\ ListLocked => todo \subseteq UploadList
  /\ dpc \in {"pick", "open", "read"} => at \in todo
  /\ dpc \in {"open", "read"} => queue[at] # <<>>

\* finitely many reads are pending, and data that is sent was read
ReadsInHand ==
  /\ IsFiniteSet(pendingIO)
  /\ dpc = "send" => cur.kind = "io"

IInv == TypeOK /\ OneSlotEach /\ ScanIsListed /\ ReadsInHand

\* The operating system and the heap do not hand out the address of a freed
\* struct while a read for it is pending.
NoReuse == "reuse" \notin env.may

-------------------------------------------------------------------------------
(***************************************************************************)
(* Lists, packets and owners                                               *)
(***************************************************************************)
LEMMA QueueFacts ==
  /\ <<>> \in Seq(Block)
  /\ \A s \in Seq(Block), b \in Block : Append(s, b) \in Seq(Block)
                                      /\ Append(s, b) # <<>>
  /\ \A s \in Seq(Block) : s # <<>> => Head(s) \in Block /\ Tail(s) \in Seq(Block)
<1>1. \A s \in Seq(Block), b \in Block :
        Append(s, b) \in Seq(Block) /\ Len(Append(s, b)) = Len(s) + 1
  OBVIOUS
<1>2. \A s \in Seq(Block), b \in Block : Append(s, b) # <<>>
  BY <1>1
<1>3. \A s \in Seq(Block) : s # <<>> => Head(s) \in Block /\ Tail(s) \in Seq(Block)
  OBVIOUS
<1> QED
  BY <1>1, <1>2, <1>3

LEMMA PortFacts ==
  /\ <<>> \in Seq(Packet)
  /\ \A s \in Seq(Packet), p \in Packet : Append(s, p) \in Seq(Packet)
  /\ \A s \in Seq(Packet) :
       s # <<>> => Head(s) \in Packet /\ Tail(s) \in Seq(Packet)
OBVIOUS

LEMMA PacketFacts ==
  /\ Wakeup \in Packet /\ Exit \in Packet
  /\ \A x \in Read, k \in BOOLEAN : Io(x, k) \in Packet /\ Failed(x) \in Packet
  /\ \A p \in Packet : p.kind = "io" => p.rd \in Read /\ p.ok \in BOOLEAN
BY DEF Packet, Wakeup, Exit, Io, Failed

LEMMA PostFacts ==
  ASSUME TypeOK
  PROVE  /\ Append(port, Wakeup) \in Seq(Packet)
         /\ Append(port, Exit) \in Seq(Packet)
BY PortFacts, PacketFacts DEF TypeOK

LEMMA OwnerFacts ==
  ASSUME TypeOK, NEW a \in UploadList
  PROVE  /\ Owner(a) \in Client /\ slot[Owner(a)] = a
         /\ a \in Addr
<1>1. a # NoAddr /\ \E x \in Client : slot[x] = a
  BY DEF UploadList, Uploading
<1>2. Owner(a) \in Client /\ slot[Owner(a)] = a
  BY <1>1 DEF Owner
<1>3. a \in Addr
  BY <1>1 DEF TypeOK
<1> QED
  BY <1>2, <1>3

-------------------------------------------------------------------------------
LEMMA InitInv == Init => IInv
<1> SUFFICES ASSUME Init PROVE IInv
  OBVIOUS
<1>1. TypeOK
  <2>1. /\ queue \in [Addr -> Seq(Block)] /\ port \in Seq(Packet)
        /\ cur \in Packet
    BY QueueFacts, PortFacts, PacketFacts DEF Init
  <2>2. /\ env \in Scenarios
        /\ slot \in [Client -> Addr \cup {NoAddr}]
        /\ session \in [Client -> 0..MaxSession]
        /\ done \in [Addr -> SUBSET Block] /\ ioError \in [Addr -> BOOLEAN]
        /\ upFile \in [Client -> File \cup {NoFile}]
        /\ connected \in [Client -> BOOLEAN]
        /\ sockQ \in [Client -> SUBSET Request] /\ buffered \in [Client -> Int]
    BY SwitchesAssumption DEF Init
  <2>3. /\ hRead \in [File -> BOOLEAN] /\ inUse \in [File -> Int]
        /\ noNewReads \in [File -> BOOLEAN] /\ shared \subseteq File
        /\ move \in [File -> {"part", "moving", "moved", "failed", "complete"}]
    BY DEF Init
  <2> QED
    BY <2>1, <2>2, <2>3 DEF Init, TypeOK
<1>2. OneSlotEach /\ ScanIsListed /\ ReadsInHand
  BY FS_EmptySet DEF Init, OneSlotEach, ScanIsListed, ListLocked, ReadsInHand
<1> QED
  BY <1>1, <1>2 DEF IInv

\* The types of what the main thread, the throttler and the system write.
LEMMA TypeStepMain ==
  ASSUME IInv
  PROVE  /\ \A x \in Client : AddUpNextClient(x) => TypeOK'
         /\ \A x \in Client : EndSession(x) \/ LoseSocket(x) => TypeOK'
         /\ \A x \in Client : DeleteClient(x) => TypeOK'
         /\ \A x \in Client, h \in File : AskForFile(x, h) => TypeOK'
         /\ \A x \in Client, b \in Block : AddReqBlock(x, b) => TypeOK'
         /\ \A x \in Client : Process(x) => TypeOK'
         /\ \A x \in Client : ProcessHead(x) => TypeOK'
         /\ \A x \in Client : ProcessRemove(x) => TypeOK'
         /\ WakeUpCall \/ MarkNewData \/ EndThread \/ Join => TypeOK'
         /\ \A h \in File : Unshare(h) => TypeOK'
         /\ \A h \in File : PerformFileComplete(h) => TypeOK'
         /\ \A h \in File : PerformFileCompleteEnd(h) => TypeOK'
         /\ \A x \in Client : SendFileData(x) => TypeOK'
         /\ NothingToSend \/ ThrottlerMarks => TypeOK'
<1> USE DEF IInv
<1>1. ASSUME NEW x \in Client, AddUpNextClient(x) PROVE TypeOK'
  <2>1. session' \in [Client -> 0..MaxSession]
    <3>1. session[x] \in 0..MaxSession /\ env.sessions \in 0..MaxSession
      BY SwitchesAssumption DEF TypeOK
    <3>2. session[x] + 1 \in 0..MaxSession
      BY <1>1, <3>1, SwitchesAssumption DEF AddUpNextClient
    <3> QED
      BY <1>1, <3>2 DEF AddUpNextClient, TypeOK
  <2>2. /\ slot' \in [Client -> Addr \cup {NoAddr}]
        /\ queue' \in [Addr -> Seq(Block)] /\ done' \in [Addr -> SUBSET Block]
        /\ ioError' \in [Addr -> BOOLEAN] /\ buffered' \in [Client -> Int]
    BY <1>1, QueueFacts DEF AddUpNextClient, FreeAddr, TypeOK
  <2> QED
    BY <1>1, <2>1, <2>2
    DEF AddUpNextClient, TypeOK, fileVars, ioVars, diskVars, mainVars
<1>2. ASSUME NEW x \in Client, EndSession(x) PROVE TypeOK'
  BY <1>2, QueueFacts DEF EndSession, RemoveFromUploadQueue, TypeOK, fileVars,
                        ioVars, diskVars, mainVars
<1>3. ASSUME NEW x \in Client, LoseSocket(x) PROVE TypeOK'
  BY <1>3 DEF LoseSocket, TypeOK, slotVars, fileVars, ioVars, diskVars, mainVars
<1>4. ASSUME NEW x \in Client, DeleteClient(x) PROVE TypeOK'
  BY <1>4 DEF DeleteClient, SetUploadFileID, TypeOK, slotVars, ioVars,
              diskVars, mainVars
<1>5. ASSUME NEW x \in Client, NEW h \in File, AskForFile(x, h) PROVE TypeOK'
  BY <1>5 DEF AskForFile, SetUploadFileID, TypeOK, slotVars, ioVars,
              diskVars, mainVars
<1>6. ASSUME NEW x \in Client, NEW b \in Block, AddReqBlock(x, b) PROVE TypeOK'
  <2>1. queue' \in [Addr -> Seq(Block)]
    <3>1. \/ UNCHANGED queue
          \/ /\ slot[x] # NoAddr
             /\ queue' = [queue EXCEPT ![slot[x]] = Append(@, b)]
      BY <1>6 DEF AddReqBlock, MayRequest
    <3>2. slot[x] # NoAddr => /\ slot[x] \in Addr
                              /\ Append(queue[slot[x]], b) \in Seq(Block)
      BY QueueFacts DEF TypeOK
    <3> QED
      BY <3>1, <3>2 DEF TypeOK
  <2> QED
    BY <1>6, <2>1 DEF AddReqBlock, TypeOK, clientVars, fileVars, ioVars, diskVars
<1>7. ASSUME NEW x \in Client, Process(x) PROVE TypeOK'
  BY <1>7 DEF Process, TypeOK, slotVars, clientVars, fileVars, ioVars, diskVars
<1>8. ASSUME NEW x \in Client, ProcessHead(x) PROVE TypeOK'
  <2>1. /\ upFile' \in [Client -> File \cup {NoFile}]
        /\ hRead' \in [File -> BOOLEAN]
        /\ UNCHANGED <<inUse, noNewReads, shared, move>>
    BY <1>8 DEF ProcessHead, SetUploadFileID, TypeOK, fileVars
  <2> QED
    BY <1>8, <2>1 DEF ProcessHead, TypeOK, slotVars, ioVars, diskVars
<1>9. ASSUME NEW x \in Client, ProcessRemove(x) PROVE TypeOK'
  BY <1>9, QueueFacts DEF ProcessRemove, RemoveFromUploadQueue, TypeOK, fileVars,
                        ioVars, diskVars
<1>10. ASSUME WakeUpCall \/ MarkNewData \/ EndThread \/ Join PROVE TypeOK'
  <2>1. port' \in Seq(Packet)
    BY <1>10, PostFacts
    DEF WakeUpCall, MarkNewData, EndThread, Join, TypeOK
  <2>2. mpc' \in {"idle", "wake", "mark", "head", "remove", "join", "closed"}
    BY <1>10 DEF WakeUpCall, MarkNewData, EndThread, Join, TypeOK
  <2> QED
    BY <1>10, <2>1, <2>2
    DEF WakeUpCall, MarkNewData, EndThread, Join, TypeOK, slotVars, clientVars,
        fileVars, ioVars, diskVars
<1>11. ASSUME NEW h \in File, Unshare(h) PROVE TypeOK'
  BY <1>11 DEF Unshare, TypeOK, slotVars, clientVars, ioVars, diskVars, mainVars
<1>12. ASSUME NEW h \in File, PerformFileComplete(h) PROVE TypeOK'
  <2>1. /\ move' \in [File -> {"part", "moving", "moved", "failed", "complete"}]
        /\ noNewReads' \in [File -> BOOLEAN]
    BY <1>12 DEF PerformFileComplete, TypeOK
  <2> QED
    BY <1>12, <2>1 DEF PerformFileComplete, TypeOK, slotVars, clientVars,
                       ioVars, diskVars, mainVars
<1>13. ASSUME NEW h \in File, PerformFileCompleteEnd(h) PROVE TypeOK'
  BY <1>13 DEF PerformFileCompleteEnd, TypeOK, slotVars, clientVars, ioVars,
               diskVars, mainVars
<1>14. ASSUME NEW x \in Client, SendFileData(x) PROVE TypeOK'
  <2>1. port' \in Seq(Packet) /\ tpc' \in {"loop", "mark"}
    <3>1. \/ ThrottlerWakeUp
          \/ UNCHANGED <<port, tpc>>
      BY <1>14 DEF SendFileData
    <3> QED
      BY <3>1, PostFacts DEF ThrottlerWakeUp, TypeOK
  <2>2. sockQ' \in [Client -> SUBSET Request] /\ buffered' \in [Client -> Int]
    BY <1>14 DEF SendFileData, TypeOK
  <2> QED
    BY <1>14, <2>1, <2>2 DEF SendFileData, TypeOK, slotVars, fileVars, ioVars,
                             diskVars, mainVars
<1>15. ASSUME NothingToSend \/ ThrottlerMarks PROVE TypeOK'
  <2>1. port' \in Seq(Packet) /\ tpc' \in {"loop", "mark"}
    BY <1>15, PostFacts
    DEF NothingToSend, ThrottlerMarks, ThrottlerWakeUp, TypeOK
  <2>2. newData' \in BOOLEAN
    BY <1>15 DEF NothingToSend, ThrottlerMarks, TypeOK
  <2> QED
    BY <1>15, <2>1, <2>2
    DEF NothingToSend, ThrottlerMarks, TypeOK, slotVars, clientVars, fileVars,
        ioVars, diskVars, mainVars
<1> QED
  BY <1>1, <1>2, <1>3, <1>4, <1>5, <1>6, <1>7, <1>8, <1>9, <1>10, <1>11,
     <1>12, <1>13, <1>14, <1>15

\* The types of what the disk thread and the system write.
LEMMA TypeStepDisk ==
  ASSUME IInv
  PROVE  /\ CreatePort \/ Wait => TypeOK'
         /\ LockList \/ ScanDone => TypeOK'
         /\ \A a \in Addr : ScanSlot(a) => TypeOK'
         /\ PickBlock => TypeOK'
         /\ AssociateFile => TypeOK'
         /\ ReadFile => TypeOK'
         /\ Complete => TypeOK'
         /\ SendPackets => TypeOK'
         /\ Poll \/ Rest \/ Recheck => TypeOK'
         /\ Stop => TypeOK'
         /\ \A x \in inflight : IoEnds(x) => TypeOK'
<1> USE DEF IInv
<1>0. dpc \in {"pick", "open", "read"} =>
        at \in UploadList /\ at \in Addr /\ ioError[at] \in BOOLEAN
  BY OwnerFacts DEF ScanIsListed, ListLocked, TypeOK
<1>1. ASSUME CreatePort \/ Wait PROVE TypeOK'
  <2>1. port' \in Seq(Packet) /\ cur' \in Packet
    BY <1>1, PortFacts DEF CreatePort, Wait, TypeOK
  <2>2. run' \in {"STOP", "IDLE", "WORK"}
    BY <1>1 DEF CreatePort, Wait, TypeOK
  <2> QED
    BY <1>1, <2>1, <2>2 DEF CreatePort, Wait, TypeOK, slotVars, clientVars,
                            fileVars, ioVars, mainVars
<1>2. ASSUME LockList \/ ScanDone PROVE TypeOK'
  <2>1. todo' \subseteq Addr
    BY <1>2, OwnerFacts DEF LockList, ScanDone, TypeOK
  <2> QED
    BY <1>2, <2>1 DEF LockList, ScanDone, TypeOK, slotVars, clientVars,
                      fileVars, ioVars, mainVars
<1>3. ASSUME NEW a \in Addr, ScanSlot(a) PROVE TypeOK'
  BY <1>3 DEF ScanSlot, TypeOK, slotVars, clientVars, fileVars, ioVars, mainVars
<1>4. ASSUME PickBlock PROVE TypeOK'
  <2>1. \/ LeaveSlot(TRUE) \/ LeaveSlot(FALSE)
        \/ dpc' = "open" /\ UNCHANGED <<ioError, todo, at>>
    BY <1>4 DEF PickBlock
  <2>2. /\ ioError' \in [Addr -> BOOLEAN] /\ todo' \subseteq Addr
        /\ at' \in Addr \cup {NoAddr} /\ dpc' \in {"open", "scan"}
    BY <1>0, <1>4, <2>1 DEF PickBlock, LeaveSlot, TypeOK
  <2> QED
    BY <1>4, <2>2 DEF PickBlock, TypeOK, clientVars, fileVars, ioVars, mainVars
<1>5. ASSUME AssociateFile PROVE TypeOK'
  <2>1. \/ LeaveSlot(TRUE) /\ UNCHANGED hRead
        \/ dpc' = "read" /\ UNCHANGED <<hRead, ioError, todo, at>>
        \/ /\ dpc' = "read" /\ UNCHANGED <<ioError, todo, at>>
           /\ hRead' = [hRead EXCEPT ![FileInHand] = TRUE]
    BY <1>5 DEF AssociateFile
  <2>2. /\ ioError' \in [Addr -> BOOLEAN] /\ todo' \subseteq Addr
        /\ at' \in Addr \cup {NoAddr} /\ dpc' \in {"read", "scan"}
        /\ hRead' \in [File -> BOOLEAN]
    BY <1>0, <1>5, <2>1 DEF AssociateFile, LeaveSlot, TypeOK
  <2> QED
    BY <1>5, <2>2 DEF AssociateFile, TypeOK, clientVars, ioVars, mainVars
<1>6. ASSUME ReadFile PROVE TypeOK'
  <2>1. CASE ReadStarted
    <3> DEFINE c == Owner(at)
               b == Head(queue[at])
               x == [st |-> at, req |-> ReqOf(c, b)]
    <3>1. /\ c \in Client /\ slot[c] = at /\ at \in Addr /\ at # NoAddr
          /\ queue[at] \in Seq(Block) /\ queue[at] # <<>>
      BY <1>0, <1>6, OwnerFacts, DataAssumption DEF ReadFile, ScanIsListed, TypeOK
    <3>2. b \in Block /\ Tail(queue[at]) \in Seq(Block) /\ FileOf[b] \in File
      BY <3>1, QueueFacts, DataAssumption
    <3>3. session[c] \in 1..MaxSession
      BY <3>1, SwitchesAssumption DEF OneSlotEach, TypeOK
    <3>4. x \in Read
      BY <3>1, <3>2, <3>3 DEF Read, Request, ReqOf
    <3>5. /\ inUse' = [inUse EXCEPT ![FileOf[b]] = @ + 1]
          /\ pendingIO' = pendingIO \cup {x} /\ inflight' = inflight \cup {x}
          /\ buffered' = [buffered EXCEPT ![c] = @ + 1]
          /\ queue' = [queue EXCEPT ![at] = Tail(@)]
          /\ done' = [done EXCEPT ![at] = @ \cup {b}]
          /\ dpc' = "pick" /\ UNCHANGED <<ioError, todo, at>>
      BY <2>1 DEF ReadStarted
    <3>6. /\ inUse' \in [File -> Int] /\ buffered' \in [Client -> Int]
          /\ queue' \in [Addr -> Seq(Block)] /\ done' \in [Addr -> SUBSET Block]
      BY <3>1, <3>2, <3>5 DEF TypeOK
    <3>7. pendingIO' \subseteq Read /\ inflight' \subseteq Read
      BY <3>4, <3>5 DEF TypeOK
    <3> HIDE DEF c, b, x
    <3> QED
      BY <1>6, <3>5, <3>6, <3>7 DEF ReadFile, TypeOK, mainVars
  <2>2. CASE ReadRefused
    <3>1. LeaveSlot(TRUE) \/ LeaveSlot(FALSE)
      BY <2>2 DEF ReadRefused
    <3>2. /\ ioError' \in [Addr -> BOOLEAN] /\ todo' \subseteq Addr
          /\ at' = NoAddr /\ dpc' = "scan"
      BY <1>0, <1>6, <3>1 DEF ReadFile, LeaveSlot, TypeOK
    <3> QED
      BY <1>6, <2>2, <3>2 DEF ReadFile, ReadRefused, TypeOK, ioVars, mainVars
  <2> QED
    BY <1>6, <2>1, <2>2 DEF ReadFile
<1>7. ASSUME Complete PROVE TypeOK'
  <2>1. CASE cur.kind = "io"
    <3> DEFINE x == cur.rd
               h == FileOf[x.req.blk]
    <3>1. x \in Read /\ h \in File /\ cur.ok \in BOOLEAN
      BY <2>1, PacketFacts, DataAssumption DEF TypeOK, Read, Request
    <3>2. CompleteRead(x)
      BY <1>7, <2>1 DEF Complete
    <3>3. /\ inUse' = [inUse EXCEPT ![h] = @ - 1]
          /\ pendingIO' \subseteq pendingIO
          /\ hRead' = hRead \/ hRead' = [hRead EXCEPT ![h] = FALSE]
          /\ ioError' = ioError \/ ioError' = [ioError EXCEPT ![x.st] = TRUE]
          /\ dpc' \in {"send", "poll"}
      BY <3>2 DEF CompleteRead
    <3>4. to' \subseteq Client
      <4>1. to' = to \/ (x.st \in UploadList /\ to' = {Owner(x.st)})
        BY <3>2 DEF CompleteRead
      <4> QED
        BY <4>1, OwnerFacts DEF TypeOK
    <3>5. /\ inUse' \in [File -> Int] /\ hRead' \in [File -> BOOLEAN]
          /\ ioError' \in [Addr -> BOOLEAN]
      <4> HIDE DEF x, h
      <4>1. inUse' \in [File -> Int]
        BY <3>1, <3>3 DEF TypeOK
      <4>2. hRead' \in [File -> BOOLEAN]
        BY <3>1, <3>3 DEF TypeOK
      <4>3. ioError' \in [Addr -> BOOLEAN]
        BY <3>1, <3>3 DEF TypeOK
      <4> QED
        BY <4>1, <4>2, <4>3
    <3> HIDE DEF x, h
    <3> QED
      BY <1>7, <3>3, <3>4, <3>5 DEF Complete, TypeOK, clientVars, mainVars
  <2>2. CASE cur.kind # "io"
    BY <1>7, <2>2 DEF Complete, TypeOK, clientVars, mainVars
  <2> QED
    BY <2>1, <2>2
<1>8. ASSUME SendPackets PROVE TypeOK'
  <2>1. sockQ' \in [Client -> SUBSET Request]
    <3>1. CASE to = {}
      BY <1>8, <3>1 DEF SendPackets, TypeOK
    <3>2. CASE to # {}
      <4>1. cur.rd.req \in Request
        BY <1>8, PacketFacts DEF SendPackets, ReadsInHand, TypeOK, Read
      <4>2. \A y \in Client : sockQ'[y] = sockQ[y] \cup {cur.rd.req}
                              \/ sockQ'[y] = sockQ[y]
        BY <1>8 DEF SendPackets
      <4>3. sockQ' = [y \in Client |-> sockQ'[y]]
        BY <1>8 DEF SendPackets
      <4>4. \A y \in Client : sockQ'[y] \subseteq Request
        BY <4>1, <4>2 DEF TypeOK
      <4> QED
        BY <4>3, <4>4
    <3> QED
      BY <3>1, <3>2
  <2> QED
    BY <1>8, <2>1 DEF SendPackets, TypeOK, slotVars, fileVars, ioVars, mainVars
<1>9. ASSUME Poll \/ Rest \/ Recheck PROVE TypeOK'
  <2>1. port' \in Seq(Packet) /\ cur' \in Packet
    BY <1>9, PortFacts, PostFacts, PacketFacts DEF Poll, Rest, Recheck, TypeOK
  <2>2. /\ run' \in {"STOP", "IDLE", "WORK"} /\ newData' \in BOOLEAN
        /\ dpc' \in {"rest", "complete", "recheck", "wait", "stop"}
    BY <1>9 DEF Poll, Rest, Recheck, TypeOK
  <2> QED
    BY <1>9, <2>1, <2>2 DEF Poll, Rest, Recheck, TypeOK, slotVars, clientVars,
                            fileVars, ioVars, mainVars
<1>10. ASSUME Stop PROVE TypeOK'
  <2>1. \A h \in File :
          inUse[h] - Cardinality({x \in pendingIO : FileOf[x.req.blk] = h}) \in Int
    <3> TAKE h \in File
    <3> DEFINE P == {x \in pendingIO : FileOf[x.req.blk] = h}
    <3>1. IsFiniteSet(P)
      BY FS_Subset DEF ReadsInHand
    <3>2. Cardinality(P) \in Nat
      BY <3>1, FS_CardinalityType
    <3> QED
      BY <3>2 DEF TypeOK
  <2>2. inUse' \in [File -> Int] /\ hRead' \in [File -> BOOLEAN]
    BY <1>10, <2>1 DEF Stop, TypeOK
  <2> QED
    BY <1>10, <2>2, PortFacts DEF Stop, TypeOK, slotVars, clientVars, mainVars
<1>11. ASSUME NEW x \in inflight, IoEnds(x) PROVE TypeOK'
  <2>1. port' \in Seq(Packet)
    <3>1. x \in Read
      BY DEF TypeOK
    <3>2. \/ UNCHANGED port
          \/ port' = Append(port, Io(x, TRUE)) \/ port' = Append(port, Io(x, FALSE))
          \/ port' = Append(port, Failed(x))
      BY <1>11 DEF IoEnds
    <3>3. Io(x, TRUE) \in Packet /\ Io(x, FALSE) \in Packet /\ Failed(x) \in Packet
      BY <3>1, PacketFacts
    <3>4. /\ Append(port, Io(x, TRUE)) \in Seq(Packet)
          /\ Append(port, Io(x, FALSE)) \in Seq(Packet)
          /\ Append(port, Failed(x)) \in Seq(Packet)
      BY <3>3, PortFacts DEF TypeOK
    <3> QED
      BY <3>2, <3>4 DEF TypeOK
  <2> QED
    BY <1>11, <2>1 DEF IoEnds, TypeOK, slotVars, clientVars, fileVars,
                       diskVars, mainVars
<1> QED
  BY <1>1, <1>2, <1>3, <1>4, <1>5, <1>6, <1>7, <1>8, <1>9, <1>10, <1>11

-------------------------------------------------------------------------------
(***************************************************************************)
(* The slots, the scan and the pending reads                               *)
(***************************************************************************)

\* Only these steps change what the invariants below speak of.
SlotStep ==
  \/ \E x \in Client : AddUpNextClient(x)
  \/ \E x \in Client : RemoveFromUploadQueue(x) /\ UNCHANGED <<pendingIO, diskVars>>
ScanStep == LockList \/ (\E a \in Addr : ScanSlot(a)) \/ PickBlock \/ AssociateFile

LEMMA StepKinds ==
  ASSUME IInv, [Next]_vars
  PROVE  \/ SlotStep \/ ReadFile
         \/ ScanStep /\ UNCHANGED <<slot, session, queue, pendingIO, cur>>
         \/ /\ UNCHANGED <<slot, session, pendingIO, diskVars>>
            /\ \A a \in Addr : queue[a] # <<>> => queue'[a] # <<>>
         \/ /\ UNCHANGED <<slot, session, queue>>
            /\ pendingIO' \subseteq pendingIO
            /\ dpc' \notin {"scan", "pick", "open", "read"}
            /\ dpc' = "send" => cur'.kind = "io"
<1>1. ASSUME NEW x \in Client, AddUpNextClient(x) \/ EndSession(x) \/ ProcessRemove(x)
      PROVE  SlotStep
  BY <1>1 DEF SlotStep, EndSession, ProcessRemove, ioVars
<1>2. ASSUME NEW x \in Client, NEW b \in Block, AddReqBlock(x, b)
      PROVE  /\ UNCHANGED <<slot, session, pendingIO, diskVars>>
             /\ \A a \in Addr : queue[a] # <<>> => queue'[a] # <<>>
  <2>1. \/ UNCHANGED queue
        \/ /\ slot[x] # NoAddr
           /\ queue' = [queue EXCEPT ![slot[x]] = Append(@, b)]
    BY <1>2 DEF AddReqBlock, MayRequest
  <2>2. slot[x] # NoAddr =>
          slot[x] \in Addr /\ Append(queue[slot[x]], b) # <<>>
    BY QueueFacts DEF IInv, TypeOK
  <2>3. \A a \in Addr : queue[a] # <<>> => queue'[a] # <<>>
    BY <2>1, <2>2 DEF IInv, TypeOK
  <2> QED
    BY <1>2, <2>3 DEF AddReqBlock, ioVars
<1>3. ASSUME NEW x \in Client,
             LoseSocket(x) \/ DeleteClient(x) \/ Process(x) \/ ProcessHead(x)
               \/ SendFileData(x)
      PROVE  UNCHANGED <<slot, session, queue, pendingIO, diskVars>>
  BY <1>3 DEF LoseSocket, DeleteClient, Process, ProcessHead, SendFileData,
              slotVars, ioVars
<1>4. ASSUME NEW x \in Client, NEW h \in File, AskForFile(x, h)
      PROVE  UNCHANGED <<slot, session, queue, pendingIO, diskVars>>
  BY <1>4 DEF AskForFile, slotVars, ioVars
<1>5. ASSUME NEW h \in File,
             Unshare(h) \/ PerformFileComplete(h) \/ PerformFileCompleteEnd(h)
      PROVE  UNCHANGED <<slot, session, queue, pendingIO, diskVars>>
  BY <1>5 DEF Unshare, PerformFileComplete, PerformFileCompleteEnd, slotVars,
              ioVars
<1>6. ASSUME WakeUpCall \/ MarkNewData \/ EndThread \/ Join \/ NothingToSend
               \/ ThrottlerMarks \/ (\E x \in inflight : IoEnds(x)) \/ Closed
               \/ UNCHANGED vars
      PROVE  UNCHANGED <<slot, session, queue, pendingIO, diskVars>>
  BY <1>6 DEF WakeUpCall, MarkNewData, EndThread, Join, NothingToSend,
              ThrottlerMarks, IoEnds, Closed, vars, slotVars, ioVars
<1>7. ASSUME ScanStep
      PROVE  UNCHANGED <<slot, session, queue, pendingIO, cur>>
  BY <1>7 DEF ScanStep, LockList, ScanSlot, PickBlock, AssociateFile, slotVars,
              ioVars
<1>8. ASSUME CreatePort \/ Wait \/ ScanDone \/ SendPackets \/ Poll \/ Rest
               \/ Recheck
      PROVE  /\ UNCHANGED <<slot, session, queue, pendingIO>>
             /\ dpc' \notin {"scan", "pick", "open", "read", "send"}
  BY <1>8 DEF CreatePort, Wait, ScanDone, SendPackets, Poll, Rest, Recheck,
              slotVars, ioVars
<1>9. ASSUME Complete \/ Stop
      PROVE  /\ UNCHANGED <<slot, session, queue>>
             /\ pendingIO' \subseteq pendingIO
             /\ dpc' \notin {"scan", "pick", "open", "read"}
             /\ dpc' = "send" => cur'.kind = "io"
  <2>1. CASE Complete /\ cur.kind = "io"
    BY <2>1 DEF Complete, CompleteRead
  <2>2. CASE Complete /\ cur.kind # "io"
    BY <2>2 DEF Complete
  <2>3. CASE Stop
    BY <2>3 DEF Stop, slotVars
  <2> QED
    BY <1>9, <2>1, <2>2, <2>3
<1>10. CASE Next
  <2>1. \/ \E x \in Client :
             \/ AddUpNextClient(x) \/ EndSession(x) \/ LoseSocket(x)
             \/ DeleteClient(x) \/ Process(x) \/ ProcessHead(x)
             \/ ProcessRemove(x) \/ SendFileData(x)
             \/ \E h \in File : AskForFile(x, h)
             \/ \E b \in Block : AddReqBlock(x, b)
        \/ \E h \in File :
             Unshare(h) \/ PerformFileComplete(h) \/ PerformFileCompleteEnd(h)
        \/ WakeUpCall \/ MarkNewData \/ EndThread \/ Join \/ NothingToSend
        \/ ThrottlerMarks \/ (\E x \in inflight : IoEnds(x)) \/ Closed
        \/ ScanStep \/ ReadFile
        \/ CreatePort \/ Wait \/ ScanDone \/ SendPackets \/ Poll \/ Rest
        \/ Recheck \/ Complete \/ Stop
    BY <1>10 DEF Next, Main, Throttler, DiskThread, ScanStep
  <2> QED
    BY <2>1, <1>1, <1>2, <1>3, <1>4, <1>5, <1>6, <1>7, <1>8, <1>9
<1>11. CASE UNCHANGED vars
  BY <1>6, <1>11
<1> QED
  BY <1>10, <1>11

\* What leaves the list or enters it.
LEMMA RemoveFacts ==
  ASSUME TypeOK, OneSlotEach, NEW x \in Client, RemoveFromUploadQueue(x)
  PROVE  /\ UploadList' = UploadList \ {slot[x]}
         /\ \A y \in Client : y # x => slot'[y] = slot[y]
         /\ slot'[x] = NoAddr /\ session' = session /\ ~ListLocked
<1>1. /\ \A y \in Client : slot'[y] = IF y = x THEN NoAddr ELSE slot[y]
      /\ slot[x] # NoAddr /\ session' = session /\ ~ListLocked
  BY DEF RemoveFromUploadQueue, TypeOK
<1>2. \A y \in Client : y # x /\ slot[y] # NoAddr => slot[y] # slot[x]
  BY DEF OneSlotEach
<1>3. UploadList' = UploadList \ {slot[x]}
  BY <1>1, <1>2 DEF UploadList, Uploading
<1> QED
  BY <1>1, <1>3

LEMMA AddFacts ==
  ASSUME TypeOK, NEW x \in Client, AddUpNextClient(x)
  PROVE  \E a \in FreeAddr :
           /\ slot[x] = NoAddr /\ slot'[x] = a /\ a \in Addr /\ a \notin UploadList
           /\ \A y \in Client : y # x => slot'[y] = slot[y]
           /\ \A y \in Client : y # x => session'[y] = session[y]
           /\ session'[x] = session[x] + 1 /\ session[x] \in Nat
           /\ UploadList' = UploadList \cup {a}
           /\ ~ListLocked /\ UNCHANGED <<pendingIO, diskVars>>
<1>1. PICK a \in FreeAddr : slot' = [slot EXCEPT ![x] = a]
  BY DEF AddUpNextClient
<1>2. a \in Addr /\ a \notin UploadList /\ a # NoAddr
  BY DataAssumption DEF FreeAddr
<1>3. /\ \A y \in Client : slot'[y] = IF y = x THEN a ELSE slot[y]
      /\ \A y \in Client : session'[y] = IF y = x THEN session[x] + 1 ELSE session[y]
      /\ slot[x] = NoAddr /\ ~ListLocked /\ session[x] \in Nat
  BY <1>1 DEF AddUpNextClient, TypeOK
<1>4. UploadList' = UploadList \cup {a}
  BY <1>2, <1>3 DEF UploadList, Uploading
<1>5. UNCHANGED <<pendingIO, diskVars>>
  BY DEF AddUpNextClient, ioVars
<1> QED
  BY <1>1, <1>2, <1>3, <1>4, <1>5

LEMMA OneSlotStep ==
  ASSUME IInv, [Next]_vars
  PROVE  OneSlotEach'
<1> USE DEF IInv
<1>1. CASE UNCHANGED <<slot, session>>
  BY <1>1 DEF OneSlotEach
<1>2. CASE ReadFile
  BY <1>2 DEF ReadFile, OneSlotEach
<1>3. ASSUME NEW x \in Client, AddUpNextClient(x) PROVE OneSlotEach'
  <2>1. PICK a \in FreeAddr :
           /\ slot'[x] = a /\ a \notin UploadList
           /\ \A y \in Client : y # x => slot'[y] = slot[y]
           /\ \A y \in Client : y # x => session'[y] = session[y]
           /\ session'[x] = session[x] + 1 /\ session[x] \in Nat
    BY <1>3, AddFacts
  <2>2. \A y \in Client : slot[y] # NoAddr => slot[y] # a
    BY <2>1 DEF UploadList, Uploading
  <2> QED
    BY <2>1, <2>2 DEF OneSlotEach
<1>4. ASSUME NEW x \in Client, RemoveFromUploadQueue(x) PROVE OneSlotEach'
  BY <1>4, RemoveFacts DEF OneSlotEach
<1> QED
  BY StepKinds, <1>1, <1>2, <1>3, <1>4 DEF SlotStep

LEMMA ScanStepInv ==
  ASSUME IInv, [Next]_vars
  PROVE  ScanIsListed' /\ ReadsInHand'
<1> USE DEF IInv
<1>1. CASE SlotStep
  <2>1. ~ListLocked /\ UNCHANGED <<pendingIO, diskVars>>
    BY <1>1, AddFacts, RemoveFacts DEF SlotStep
  <2> QED
    BY <2>1 DEF ScanIsListed, ReadsInHand, ListLocked, diskVars
<1>2. CASE ReadFile
  <2>1. CASE ReadStarted
    BY <1>2, <2>1, FS_AddElement
    DEF ReadFile, ReadStarted, ScanIsListed, ReadsInHand, ListLocked,
        UploadList, Uploading
  <2>2. CASE ReadRefused
    BY <1>2, <2>2
    DEF ReadFile, ReadRefused, LeaveSlot, ScanIsListed, ReadsInHand, ListLocked,
        UploadList, Uploading, ioVars
  <2> QED
    BY <1>2, <2>1, <2>2 DEF ReadFile
<1>3. CASE ScanStep /\ UNCHANGED <<slot, session, queue, pendingIO, cur>>
  <2>1. UploadList' = UploadList
    BY <1>3 DEF UploadList, Uploading
  <2>2. CASE LockList
    BY <1>3, <2>1, <2>2 DEF LockList, ScanIsListed, ReadsInHand, ListLocked
  <2>3. ASSUME NEW a \in Addr, ScanSlot(a) PROVE ScanIsListed' /\ ReadsInHand'
    BY <1>3, <2>1, <2>3 DEF ScanSlot, ScanIsListed, ReadsInHand, ListLocked
  <2>4. CASE PickBlock
    BY <1>3, <2>1, <2>4
    DEF PickBlock, LeaveSlot, ScanIsListed, ReadsInHand, ListLocked
  <2>5. CASE AssociateFile
    BY <1>3, <2>1, <2>5
    DEF AssociateFile, LeaveSlot, ScanIsListed, ReadsInHand, ListLocked
  <2> QED
    BY <1>3, <2>2, <2>3, <2>4, <2>5 DEF ScanStep
<1>4. CASE /\ UNCHANGED <<slot, session, pendingIO, diskVars>>
           /\ \A a \in Addr : queue[a] # <<>> => queue'[a] # <<>>
  <2>1. UploadList' = UploadList
    BY <1>4 DEF UploadList, Uploading
  <2>2. dpc \in {"open", "read"} => at \in Addr
    BY DEF ScanIsListed, TypeOK
  <2> QED
    BY <1>4, <2>1, <2>2 DEF ScanIsListed, ReadsInHand, ListLocked, diskVars
<1>5. CASE /\ UNCHANGED <<slot, session, queue>>
           /\ pendingIO' \subseteq pendingIO
           /\ dpc' \notin {"scan", "pick", "open", "read"}
           /\ dpc' = "send" => cur'.kind = "io"
  BY <1>5, FS_Subset DEF ScanIsListed, ReadsInHand, ListLocked
<1> QED
  BY StepKinds, <1>1, <1>2, <1>3, <1>4, <1>5

\* A struct that is found in the list is that of the client that asked.
LEMMA RequesterStep ==
  ASSUME NoReuse, IInv, FoundIsRequester, [Next]_vars
  PROVE  FoundIsRequester'
<1> USE DEF IInv
<1>1. CASE UNCHANGED <<slot, session>> /\ pendingIO' \subseteq pendingIO
  BY <1>1 DEF FoundIsRequester, UploadList, Uploading
<1>2. CASE ReadFile
  <2>0. UploadList' = UploadList /\ UNCHANGED <<slot, session>>
    BY <1>2 DEF ReadFile, UploadList, Uploading
  <2>1. CASE ReadStarted
    <3> DEFINE c == Owner(at)
               x == [st |-> at, req |-> ReqOf(c, Head(queue[at]))]
    <3>1. c \in Client /\ slot[c] = at
      BY <1>2, OwnerFacts DEF ReadFile, ScanIsListed, ListLocked
    <3>2. x.st = at /\ x.req.cl = c /\ x.req.ses = session[c]
      BY DEF ReqOf
    <3>3. pendingIO' = pendingIO \cup {x}
      BY <2>1 DEF ReadStarted
    <3> HIDE DEF c, x
    <3> QED
      BY <2>0, <3>1, <3>2, <3>3 DEF FoundIsRequester
  <2>2. CASE ReadRefused
    BY <2>0, <2>2 DEF ReadRefused, FoundIsRequester, ioVars
  <2> QED
    BY <1>2, <2>1, <2>2 DEF ReadFile
<1>3. ASSUME NEW y \in Client, AddUpNextClient(y) PROVE FoundIsRequester'
  <2>1. PICK a \in FreeAddr :
           /\ slot[y] = NoAddr /\ slot'[y] = a
           /\ \A z \in Client : z # y => slot'[z] = slot[z]
           /\ \A z \in Client : z # y => session'[z] = session[z]
           /\ UploadList' = UploadList \cup {a} /\ UNCHANGED pendingIO
    BY <1>3, AddFacts
  <2>2. \A x \in pendingIO : x.st # a
    BY DEF NoReuse, FreeAddr
  <2>3. ASSUME NEW x \in pendingIO, x.st \in UploadList
        PROVE  x.req.cl \in Client /\ x.req.cl # y
    <3>1. slot[x.req.cl] = x.st /\ x.st # NoAddr
      BY <2>3 DEF FoundIsRequester, UploadList, Uploading
    <3>2. x.req.cl \in Client
      BY <2>3 DEF TypeOK, Read, Request
    <3> QED
      BY <2>1, <3>1, <3>2
  <2> QED
    BY <2>1, <2>2, <2>3 DEF FoundIsRequester
<1>4. ASSUME NEW y \in Client, RemoveFromUploadQueue(y), UNCHANGED pendingIO
      PROVE  FoundIsRequester'
  <2>1. /\ UploadList' = UploadList \ {slot[y]} /\ session' = session
        /\ \A z \in Client : z # y => slot'[z] = slot[z]
    BY <1>4, RemoveFacts
  <2>2. \A x \in pendingIO : x.req.cl \in Client
    BY DEF TypeOK, Read, Request
  <2> QED
    BY <1>4, <2>1, <2>2 DEF FoundIsRequester
<1> QED
  BY StepKinds, <1>1, <1>2, <1>3, <1>4 DEF SlotStep

-------------------------------------------------------------------------------
(***************************************************************************)
(* Theorems                                                                *)
(***************************************************************************)
LEMMA StepInv ==
  ASSUME IInv, [Next]_vars
  PROVE  IInv'
<1>1. TypeOK'
  <2>1. CASE UNCHANGED vars \/ Closed
    BY <2>1 DEF Closed, IInv, TypeOK, vars, slotVars, clientVars, fileVars,
                ioVars, diskVars, mainVars
  <2>2. CASE Next /\ ~Closed
    <3>1. CASE \E x \in Client :
                 \/ AddUpNextClient(x) \/ EndSession(x) \/ LoseSocket(x)
                 \/ DeleteClient(x) \/ Process(x) \/ ProcessHead(x)
                 \/ ProcessRemove(x) \/ SendFileData(x)
                 \/ \E h \in File : AskForFile(x, h)
                 \/ \E b \in Block : AddReqBlock(x, b)
      BY <3>1, TypeStepMain
    <3>2. CASE \/ \E h \in File : \/ Unshare(h) \/ PerformFileComplete(h)
                                  \/ PerformFileCompleteEnd(h)
               \/ WakeUpCall \/ MarkNewData \/ EndThread \/ Join
               \/ NothingToSend \/ ThrottlerMarks
      BY <3>2, TypeStepMain
    <3>3. CASE DiskThread \/ \E x \in inflight : IoEnds(x)
      BY <3>3, TypeStepDisk DEF DiskThread
    <3> QED
      BY <2>2, <3>1, <3>2, <3>3 DEF Next, Main, Throttler
  <2> QED
    BY <2>1, <2>2
<1> QED
  BY <1>1, OneSlotStep, ScanStepInv DEF IInv

(***************************************************************************)
(* Every variable of the upload disk thread keeps its type; the packets of *)
(* the port and the pending list hold reads of real clients and blocks.    *)
(***************************************************************************)
THEOREM TypeCorrect == Spec => []TypeOK
<1>1. IInv /\ [Next]_vars => IInv'
  BY StepInv
<1>2. IInv => TypeOK
  BY DEF IInv
<1> QED
  BY InitInv, <1>1, <1>2, PTL DEF Spec

(***************************************************************************)
(* The struct that the disk thread scans or reads for is in the upload     *)
(* list all the while ("safe in terms of not getting deleted/changed",     *)
(* StartCreateNextBlockPackage), and no two clients share one.             *)
(***************************************************************************)
THEOREM ScannedIsListed == Spec => [](ScanIsListed /\ OneSlotEach)
<1>1. IInv /\ [Next]_vars => IInv'
  BY StepInv
<1>2. IInv => ScanIsListed /\ OneSlotEach
  BY DEF IInv
<1> QED
  BY InitInv, <1>1, <1>2, PTL DEF Spec
===============================================================================
