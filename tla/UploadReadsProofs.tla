--------------------------- MODULE UploadReadsProofs ---------------------------
(***************************************************************************)
(* Theorems about the reads of UploadDiskIOThread: every read that was     *)
(* started is in one place until it is counted off, those of a session     *)
(* that goes on reach its client and no other, and the thread keeps the    *)
(* promise of BlockService.                                                *)
(*                                                                         *)
(* The argument: the requests of a slot are distinct and none is accepted  *)
(* twice in a session, so a new read is not a pending one; the system, the *)
(* port and the hand of the thread pass a read on without copying it.      *)
(***************************************************************************)
EXTENDS UploadDiskIOThreadProofs

\* packets with a read, the reads of some packets, and that none is twice there
Carries(p) == p.kind \in {"io", "failed"}
ReadsOf(s) == {s[i].rd : i \in {j \in 1..Len(s) : Carries(s[j])}}
Once(s) == \A i, j \in 1..Len(s) :
             Carries(s[i]) /\ Carries(s[j]) /\ s[i].rd = s[j].rd => i = j

Distinct(s) == \A i, j \in 1..Len(s) : s[i] = s[j] => i = j

\* the read whose data ReadCompletionRoutine puts on a socket
Sending == IF dpc = "send" THEN {cur.rd} ELSE {}

\* the requests of a slot are distinct and were not taken before
QueueIsFresh ==
  \A a \in Addr : Distinct(queue[a]) /\ ToSet(queue[a]) \cap done[a] = {}

\* what was read for the present session of a slot is in its list of done blocks
Taken ==
  \A x \in pendingIO \cup Sending :
    /\ x.req.ses <= session[x.req.cl]
    /\ slot[x.req.cl] # NoAddr /\ x.req.ses = session[x.req.cl]
         => x.req.blk \in done[slot[x.req.cl]]

\* no request is read twice
DistinctReads ==
  /\ \A x, y \in pendingIO \cup Sending : x.req = y.req => x = y
  /\ pendingIO \cap Sending = {}

\* a read is with the system, in one packet of the port, or in hand
OnePlace ==
  /\ Once(port)
  /\ ReadsOf(port) \cap (inflight \cup InHand) = {}
  /\ inflight \cap InHand = {}

\* until the thread ends, it knows of every read
Known ==
  /\ dpc # "ended" => Outstanding \subseteq pendingIO
  /\ dpc = "ended" => run = "STOP"

RInv == IInv /\ QueueIsFresh /\ Taken /\ DistinctReads /\ OnePlace /\ Known

-------------------------------------------------------------------------------
(***************************************************************************)
(* Lists                                                                   *)
(***************************************************************************)
LEMMA AppendReads ==
  ASSUME NEW s \in Seq(Packet), NEW p \in Packet
  PROVE  /\ ReadsOf(Append(s, p)) = ReadsOf(s) \cup (IF Carries(p) THEN {p.rd} ELSE {})
         /\ Once(s) /\ (Carries(p) => p.rd \notin ReadsOf(s)) => Once(Append(s, p))
<1> DEFINE t == Append(s, p)
<1>1. /\ Len(t) = Len(s) + 1 /\ Len(s) \in Nat
      /\ \A i \in 1..Len(s) : t[i] = s[i]
      /\ t[Len(s) + 1] = p
  OBVIOUS
<1>2. \A i \in 1..Len(t) : i \in 1..Len(s) \/ i = Len(s) + 1
  BY <1>1
<1>3. 1..Len(s) \subseteq 1..Len(t) /\ Len(s) + 1 \in 1..Len(t)
  BY <1>1
<1> HIDE DEF t
<1>4. ReadsOf(t) = ReadsOf(s) \cup (IF Carries(p) THEN {p.rd} ELSE {})
  <2>1. ASSUME NEW x \in ReadsOf(t)
        PROVE  x \in ReadsOf(s) \cup (IF Carries(p) THEN {p.rd} ELSE {})
    <3>1. PICK i \in 1..Len(t) : Carries(t[i]) /\ t[i].rd = x
      BY DEF ReadsOf
    <3> QED
      BY <1>1, <1>2, <3>1 DEF ReadsOf
  <2>2. ReadsOf(s) \subseteq ReadsOf(t)
    BY <1>1, <1>3 DEF ReadsOf
  <2>3. Carries(p) => p.rd \in ReadsOf(t)
    BY <1>1, <1>3 DEF ReadsOf
  <2> QED
    BY <2>1, <2>2, <2>3
<1>5. ASSUME Once(s), Carries(p) => p.rd \notin ReadsOf(s)
      PROVE  Once(t)
  <2> SUFFICES ASSUME NEW i \in 1..Len(t), NEW j \in 1..Len(t), Carries(t[i]),
                      Carries(t[j]), t[i].rd = t[j].rd
               PROVE  i = j
    BY DEF Once
  <2>1. \A k \in 1..Len(s) : Carries(t[k]) => t[k].rd \in ReadsOf(s)
    BY <1>1 DEF ReadsOf
  <2> QED
    BY <1>1, <1>2, <1>5, <2>1 DEF Once
<1> QED
  BY <1>4, <1>5 DEF t

LEMMA TailReads ==
  ASSUME NEW s \in Seq(Packet), s # <<>>
  PROVE  /\ ReadsOf(s) = ReadsOf(Tail(s))
                           \cup (IF Carries(Head(s)) THEN {Head(s).rd} ELSE {})
         /\ Once(s) => /\ Once(Tail(s))
                       /\ Carries(Head(s)) => Head(s).rd \notin ReadsOf(Tail(s))
<1> DEFINE t == Tail(s)
<1>1. /\ Len(s) \in Nat /\ Len(s) >= 1 /\ Len(t) = Len(s) - 1
      /\ \A i \in 1..Len(t) : t[i] = s[i + 1]
      /\ s[1] = Head(s)
  OBVIOUS
<1>2. /\ \A i \in 1..Len(t) : i + 1 \in 1..Len(s) /\ i + 1 # 1
      /\ \A i \in 1..Len(s) : i = 1 \/ (i - 1 \in 1..Len(t) /\ (i - 1) + 1 = i)
      /\ 1 \in 1..Len(s)
  BY <1>1
<1> HIDE DEF t
<1>3. ReadsOf(s) = ReadsOf(t) \cup (IF Carries(Head(s)) THEN {Head(s).rd} ELSE {})
  <2>1. ASSUME NEW x \in ReadsOf(s)
        PROVE  x \in ReadsOf(t) \cup (IF Carries(Head(s)) THEN {Head(s).rd} ELSE {})
    <3>1. PICK i \in 1..Len(s) : Carries(s[i]) /\ s[i].rd = x
      BY DEF ReadsOf
    <3>2. CASE i = 1
      BY <1>1, <3>1, <3>2
    <3>3. CASE i - 1 \in 1..Len(t) /\ (i - 1) + 1 = i
      <4>1. t[i - 1] = s[i]
        BY <1>1, <3>3
      <4> QED
        BY <3>1, <3>3, <4>1 DEF ReadsOf
    <3> QED
      BY <1>2, <3>2, <3>3
  <2>2. ReadsOf(t) \subseteq ReadsOf(s)
    BY <1>1, <1>2 DEF ReadsOf
  <2>3. Carries(Head(s)) => Head(s).rd \in ReadsOf(s)
    BY <1>1, <1>2 DEF ReadsOf
  <2> QED
    BY <2>1, <2>2, <2>3
<1>4. ASSUME Once(s)
      PROVE  Once(t) /\ (Carries(Head(s)) => Head(s).rd \notin ReadsOf(t))
  <2>1. Once(t)
    BY <1>1, <1>2, <1>4 DEF Once
  <2>2. ASSUME Carries(Head(s)), Head(s).rd \in ReadsOf(t) PROVE FALSE
    <3>1. PICK i \in 1..Len(t) : Carries(t[i]) /\ t[i].rd = Head(s).rd
      BY <2>2 DEF ReadsOf
    <3> QED
      BY <1>1, <1>2, <1>4, <2>2, <3>1 DEF Once
  <2> QED
    BY <2>1, <2>2
<1> QED
  BY <1>3, <1>4 DEF t

\* the queue of a slot takes a request at its end and gives its first away
LEMMA QueueReads ==
  /\ \A s \in Seq(Block), b \in Block :
       /\ ToSet(Append(s, b)) = ToSet(s) \cup {b}
       /\ Distinct(s) /\ b \notin ToSet(s) => Distinct(Append(s, b))
  /\ \A s \in Seq(Block) : s # <<>> =>
       /\ ToSet(s) = ToSet(Tail(s)) \cup {Head(s)}
       /\ Distinct(s) => Distinct(Tail(s)) /\ Head(s) \notin ToSet(Tail(s))
  /\ ToSet(<<>>) = {} /\ Distinct(<<>>)
<1>1. ASSUME NEW s \in Seq(Block), NEW b \in Block
      PROVE  /\ ToSet(Append(s, b)) = ToSet(s) \cup {b}
             /\ Distinct(s) /\ b \notin ToSet(s) => Distinct(Append(s, b))
  <2> DEFINE t == Append(s, b)
  <2>1. /\ Len(t) = Len(s) + 1 /\ Len(s) \in Nat
        /\ \A i \in 1..Len(s) : t[i] = s[i]
        /\ t[Len(s) + 1] = b
        /\ DOMAIN t = 1..Len(t) /\ DOMAIN s = 1..Len(s)
    OBVIOUS
  <2>2. /\ \A i \in 1..Len(t) : i \in 1..Len(s) \/ i = Len(s) + 1
        /\ 1..Len(s) \subseteq 1..Len(t) /\ Len(s) + 1 \in 1..Len(t)
    BY <2>1
  <2> HIDE DEF t
  <2>3. ToSet(t) = ToSet(s) \cup {b}
    BY <2>1, <2>2 DEF ToSet
  <2>4. Distinct(s) /\ b \notin ToSet(s) => Distinct(t)
    BY <2>1, <2>2 DEF ToSet, Distinct
  <2> QED
    BY <2>3, <2>4 DEF t
<1>2. ASSUME NEW s \in Seq(Block), s # <<>>
      PROVE  /\ ToSet(s) = ToSet(Tail(s)) \cup {Head(s)}
             /\ Distinct(s) => Distinct(Tail(s)) /\ Head(s) \notin ToSet(Tail(s))
  <2> DEFINE t == Tail(s)
  <2>1. /\ Len(s) \in Nat /\ Len(s) >= 1 /\ Len(t) = Len(s) - 1
        /\ \A i \in 1..Len(t) : t[i] = s[i + 1]
        /\ s[1] = Head(s)
        /\ DOMAIN t = 1..Len(t) /\ DOMAIN s = 1..Len(s)
    BY <1>2
  <2>2. /\ \A i \in 1..Len(t) : i + 1 \in 1..Len(s) /\ i + 1 # 1
        /\ \A i \in 1..Len(s) : i = 1 \/ (i - 1 \in 1..Len(t) /\ (i - 1) + 1 = i)
        /\ 1 \in 1..Len(s)
    BY <2>1
  <2> HIDE DEF t
  <2>3. ToSet(s) = ToSet(t) \cup {Head(s)}
    <3>1. /\ \A i \in DOMAIN t : i + 1 \in DOMAIN s /\ t[i] = s[i + 1]
          /\ 1 \in DOMAIN s /\ s[1] = Head(s)
      BY <2>1, <2>2
    <3>3. ToSet(t) \subseteq ToSet(s) /\ Head(s) \in ToSet(s)
      BY <3>1 DEF ToSet
    <3>2. ASSUME NEW i \in 1..Len(s) PROVE s[i] \in ToSet(t) \cup {Head(s)}
      <4>1. CASE i = 1
        BY <2>1, <4>1
      <4>2. CASE i - 1 \in 1..Len(t) /\ (i - 1) + 1 = i
        <5>1. t[i - 1] = s[i]
          BY <2>1, <4>2
        <5> QED
          BY <2>1, <4>2, <5>1 DEF ToSet
      <4> QED
        BY <2>2, <4>1, <4>2
    <3> QED
      BY <2>1, <3>3, <3>2 DEF ToSet
  <2>4. ASSUME Distinct(s) PROVE Distinct(t) /\ Head(s) \notin ToSet(t)
    <3>1. Distinct(t)
      BY <2>1, <2>2, <2>4 DEF Distinct
    <3>2. ASSUME NEW i \in 1..Len(t) PROVE t[i] # Head(s)
      BY <2>1, <2>2, <2>4 DEF Distinct
    <3> QED
      BY <2>1, <3>1, <3>2 DEF ToSet
  <2> QED
    BY <2>3, <2>4 DEF t
<1>3. ToSet(<<>>) = {} /\ Distinct(<<>>)
  BY DEF ToSet, Distinct
<1> QED
  BY <1>1, <1>2, <1>3

\* Queued is the reads of the packets in the port
QueuedInPort == Queued = ReadsOf(port)

LEMMA QueuedIs == TypeOK => QueuedInPort
<1> SUFFICES ASSUME TypeOK PROVE Queued = ReadsOf(port)
  BY DEF QueuedInPort
<1>1. port \in Seq(Packet) /\ DOMAIN port = 1..Len(port)
  BY DEF TypeOK
<1>2. ASSUME NEW x \in Queued PROVE x \in ReadsOf(port)
  <2>1. PICK p \in ToSet(port) : p.kind \in {"io", "failed"} /\ p.rd = x
    BY DEF Queued
  <2> QED
    BY <1>1, <2>1 DEF ToSet, ReadsOf, Carries
<1>3. ASSUME NEW x \in ReadsOf(port) PROVE x \in Queued
  <2>1. PICK i \in 1..Len(port) : Carries(port[i]) /\ port[i].rd = x
    BY DEF ReadsOf
  <2>2. port[i] \in {q \in ToSet(port) : q.kind \in {"io", "failed"}}
    BY <1>1, <2>1 DEF ToSet, Carries
  <2> QED
    BY <2>1, <2>2 DEF Queued
<1> QED
  BY <1>2, <1>3

LEMMA QueuedNext == TypeOK' => QueuedInPort'
BY QueuedIs, PTL

-------------------------------------------------------------------------------
(***************************************************************************)
(* Where the reads are                                                     *)
(***************************************************************************)
Handles == {"lock", "scan", "pick", "open", "read", "complete"}

\* Only the steps named in PlaceSteps move a read.
QuietStep ==
  /\ UNCHANGED <<inUse, pendingIO, inflight>>
  /\ port' = port \/ port' = Append(port, Wakeup) \/ port' = Append(port, Exit)
  /\ (dpc' \in Handles <=> dpc \in Handles) /\ (dpc \in Handles => cur' = cur)
  /\ dpc' = "send" => UNCHANGED <<dpc, cur, to>>
  /\ (dpc' = "ended" <=> dpc = "ended") /\ (dpc = "ended" => run' \in {run, "STOP"})

TakeStep == Wait \/ (Poll /\ port # <<>>)

LEMMA PlaceSteps ==
  ASSUME IInv, [Next]_vars
  PROVE  \/ QuietStep \/ TakeStep \/ (ReadFile /\ ReadStarted)
         \/ Complete \/ Stop \/ \E x \in inflight : IoEnds(x)
<1>1. ASSUME NEW x \in Client,
             \/ AddUpNextClient(x) \/ EndSession(x) \/ LoseSocket(x)
             \/ DeleteClient(x) \/ Process(x) \/ ProcessHead(x)
             \/ ProcessRemove(x)
      PROVE  QuietStep
  BY <1>1 DEF QuietStep, AddUpNextClient, EndSession, LoseSocket, DeleteClient,
              Process, ProcessHead, ProcessRemove, SetUploadFileID, fileVars,
              ioVars, diskVars
<1>2. ASSUME NEW x \in Client, SendFileData(x) PROVE QuietStep
  BY <1>2 DEF QuietStep, SendFileData, ThrottlerWakeUp, fileVars, ioVars, diskVars
<1>3. ASSUME NEW x \in Client, NEW h \in File, AskForFile(x, h) PROVE QuietStep
  BY <1>3 DEF QuietStep, AskForFile, SetUploadFileID, ioVars, diskVars
<1>4. ASSUME NEW x \in Client, NEW b \in Block, AddReqBlock(x, b) PROVE QuietStep
  BY <1>4 DEF QuietStep, AddReqBlock, fileVars, ioVars, diskVars
<1>5. ASSUME NEW h \in File,
             Unshare(h) \/ PerformFileComplete(h) \/ PerformFileCompleteEnd(h)
      PROVE  QuietStep
  BY <1>5 DEF QuietStep, Unshare, PerformFileComplete, PerformFileCompleteEnd,
              ioVars, diskVars
<1>6. ASSUME WakeUpCall \/ MarkNewData \/ EndThread \/ Join \/ NothingToSend
               \/ ThrottlerMarks \/ Closed \/ UNCHANGED vars
      PROVE  QuietStep
  BY <1>6 DEF QuietStep, WakeUpCall, MarkNewData, EndThread, Join, NothingToSend,
              ThrottlerMarks, ThrottlerWakeUp, Closed, vars, fileVars, ioVars,
              diskVars
<1>7. ASSUME ScanStep \/ ScanDone PROVE QuietStep
  BY <1>7 DEF QuietStep, ScanStep, LockList, ScanSlot, PickBlock, AssociateFile,
              LeaveSlot, ScanDone, Handles, fileVars, ioVars
<1>8. ASSUME ReadFile, ReadRefused PROVE QuietStep
  BY <1>8 DEF QuietStep, ReadFile, ReadRefused, LeaveSlot, Handles, ioVars
<1>9. ASSUME CreatePort \/ SendPackets \/ (Poll /\ port = <<>>) \/ Rest \/ Recheck
      PROVE  QuietStep
  BY <1>9 DEF QuietStep, CreatePort, SendPackets, Poll, Rest, Recheck, Handles,
              fileVars, ioVars
<1>10. CASE Next
  <2>1. \/ \E x \in Client :
             \/ AddUpNextClient(x) \/ EndSession(x) \/ LoseSocket(x)
             \/ DeleteClient(x) \/ Process(x) \/ ProcessHead(x)
             \/ ProcessRemove(x) \/ SendFileData(x)
             \/ \E h \in File : AskForFile(x, h)
             \/ \E b \in Block : AddReqBlock(x, b)
        \/ \E h \in File :
             Unshare(h) \/ PerformFileComplete(h) \/ PerformFileCompleteEnd(h)
        \/ WakeUpCall \/ MarkNewData \/ EndThread \/ Join \/ NothingToSend
        \/ ThrottlerMarks \/ (\E x \in inflight : IoEnds(x)) \/ Closed
        \/ ScanStep \/ ReadFile
        \/ CreatePort \/ Wait \/ ScanDone \/ SendPackets \/ Poll \/ Rest
        \/ Recheck \/ Complete \/ Stop
    BY <1>10 DEF Next, Main, Throttler, DiskThread, ScanStep
  <2>2. CASE ReadFile
    BY <2>2, <1>8 DEF ReadFile
  <2>3. CASE Wait \/ Poll
    BY <2>3, <1>9 DEF TakeStep
  <2>4. CASE CreatePort \/ ScanDone \/ SendPackets \/ Rest \/ Recheck \/ ScanStep
    BY <2>4, <1>7, <1>9
  <2> QED
    BY <2>1, <2>2, <2>3, <2>4, <1>1, <1>2, <1>3, <1>4, <1>5, <1>6
<1>11. CASE UNCHANGED vars
  BY <1>6, <1>11
<1> QED
  BY <1>10, <1>11

\* what a quiet step leaves alone
LEMMA QuietFacts ==
  ASSUME IInv, QuietStep
  PROVE  /\ InHand' = InHand /\ Sending' \subseteq Sending
         /\ ReadsOf(port') = ReadsOf(port) /\ (Once(port) => Once(port'))
<1>1. InHand' = InHand
  BY DEF QuietStep, InHand, Handles
<1>2. Sending' \subseteq Sending
  BY DEF QuietStep, Sending
<1>3. port \in Seq(Packet) /\ ~Carries(Wakeup) /\ ~Carries(Exit)
  BY DEF IInv, TypeOK, Carries, Wakeup, Exit
<1>4. ReadsOf(port') = ReadsOf(port) /\ (Once(port) => Once(port'))
  BY <1>3, AppendReads, PacketFacts DEF QuietStep
<1> QED
  BY <1>1, <1>2, <1>4

\* Wait and Poll: the first packet is taken in hand, or dropped.
LEMMA TakeFacts ==
  ASSUME IInv, OnePlace, TakeStep
  PROVE  /\ port # <<>> /\ Once(port') /\ ReadsOf(port') \subseteq ReadsOf(port)
         /\ InHand = {} /\ InHand' \subseteq ReadsOf(port)
         /\ ReadsOf(port') \cap InHand' = {}
         /\ Head(port).kind # "failed" => ReadsOf(port') \cup InHand' = ReadsOf(port)
         /\ UNCHANGED <<inUse, pendingIO, inflight>>
         /\ Sending = {} /\ Sending' = {} /\ dpc # "ended" /\ dpc' # "ended"
<1> DEFINE h == Head(port)
<1>1. /\ port # <<>> /\ port' = Tail(port) /\ dpc \in {"wait", "poll"}
      /\ \/ h.kind \in {"exit", "failed"} /\ dpc' = "stop"
         \/ h.kind = "failed" /\ dpc' = "rest"
         \/ h.kind # "failed" /\ dpc' \in {"lock", "complete"} /\ cur' = h
      /\ UNCHANGED <<inUse, pendingIO, inflight>>
  BY DEF TakeStep, Wait, Poll, fileVars, ioVars
<1>2. /\ ReadsOf(port) = ReadsOf(port') \cup (IF Carries(h) THEN {h.rd} ELSE {})
      /\ Once(port') /\ (Carries(h) => h.rd \notin ReadsOf(port'))
  BY <1>1, TailReads DEF IInv, TypeOK, OnePlace
<1> HIDE DEF h
<1>3. InHand' = IF dpc' \in {"lock", "complete"} /\ h.kind = "io" THEN {h.rd} ELSE {}
  BY <1>1 DEF InHand
<1>4. InHand = {} /\ Sending = {} /\ Sending' = {}
  BY <1>1 DEF InHand, Sending
<1>5. h.kind # "failed" => ReadsOf(port') \cup InHand' = ReadsOf(port)
  BY <1>1, <1>2, <1>3 DEF Carries
<1>6. InHand' \subseteq ReadsOf(port) /\ ReadsOf(port') \cap InHand' = {}
  BY <1>1, <1>2, <1>3 DEF Carries
<1> QED
  BY <1>1, <1>2, <1>4, <1>5, <1>6 DEF h

\* IoEnds: the read goes from the system to a packet.
LEMMA IoFacts ==
  ASSUME IInv, OnePlace, NEW x \in inflight, IoEnds(x)
  PROVE  /\ Once(port') /\ inflight' = inflight \ {x}
         /\ ReadsOf(port') = ReadsOf(port) \cup (IF dpc = "ended" THEN {} ELSE {x})
         /\ InHand' = InHand /\ Sending' = Sending
         /\ UNCHANGED <<inUse, pendingIO, dpc, run>>
<1>1. /\ inflight' = inflight \ {x}
      /\ UNCHANGED <<inUse, pendingIO, dpc, cur, run>>
      /\ \E p \in {Io(x, TRUE), Io(x, FALSE), Failed(x)} :
           port' = IF dpc = "ended" THEN port ELSE Append(port, p)
  BY DEF IoEnds, fileVars, diskVars
<1>2. \A p \in {Io(x, TRUE), Io(x, FALSE), Failed(x)} :
        p \in Packet /\ Carries(p) /\ p.rd = x
  <2>1. /\ Io(x, TRUE) \in Packet /\ Io(x, FALSE) \in Packet /\ Failed(x) \in Packet
    BY PacketFacts DEF IInv, TypeOK
  <2>2. /\ Carries(Io(x, TRUE)) /\ Carries(Io(x, FALSE)) /\ Carries(Failed(x))
        /\ Io(x, TRUE).rd = x /\ Io(x, FALSE).rd = x /\ Failed(x).rd = x
    BY DEF Carries, Io, Failed
  <2> QED
    BY <2>1, <2>2
<1>3. x \notin ReadsOf(port)
  BY DEF OnePlace
<1>4. /\ Once(port')
      /\ ReadsOf(port') = ReadsOf(port) \cup (IF dpc = "ended" THEN {} ELSE {x})
  <2>1. port \in Seq(Packet) /\ Once(port)
    BY DEF IInv, TypeOK, OnePlace
  <2>2. CASE dpc = "ended"
    BY <1>1, <2>1, <2>2
  <2>3. ASSUME NEW p \in {Io(x, TRUE), Io(x, FALSE), Failed(x)},
               port' = Append(port, p)
        PROVE  Once(port') /\ ReadsOf(port') = ReadsOf(port) \cup {x}
    <3>1. p \in Packet /\ Carries(p) /\ p.rd = x
      BY <1>2
    <3> QED
      BY <1>3, <2>1, <2>3, <3>1, AppendReads
  <2> QED
    BY <1>1, <2>2, <2>3
<1>5. InHand' = InHand /\ Sending' = Sending
  BY <1>1 DEF InHand, Sending
<1> QED
  BY <1>1, <1>4, <1>5

\* ReadFile was started: a read that is not pending yet.
NewRead == [st |-> at, req |-> ReqOf(Owner(at), Head(queue[at]))]

LEMMA StartFacts ==
  ASSUME IInv, ReadFile, ReadStarted
  PROVE  /\ at \in Addr /\ at # NoAddr /\ Owner(at) \in Client
         /\ slot[Owner(at)] = at
         /\ queue[at] \in Seq(Block) /\ queue[at] # <<>>
         /\ NewRead \in Read /\ NewRead.req.blk = Head(queue[at])
         /\ NewRead.req.cl = Owner(at) /\ NewRead.req.ses = session[Owner(at)]
         /\ inUse' = [inUse EXCEPT ![FileOf[NewRead.req.blk]] = @ + 1]
         /\ pendingIO' = pendingIO \cup {NewRead}
         /\ inflight' = inflight \cup {NewRead}
         /\ queue' = [queue EXCEPT ![at] = Tail(queue[at])]
         /\ done' = [done EXCEPT ![at] = done[at] \cup {NewRead.req.blk}]
         /\ dpc = "read" /\ dpc' = "pick"
         /\ UNCHANGED <<slot, session, port, cur, sockQ, run>>
<1>1. at \in UploadList /\ dpc = "read" /\ queue[at] # <<>>
  BY DEF ReadFile, IInv, ScanIsListed, ListLocked
<1>2. at \in Addr /\ at # NoAddr /\ Owner(at) \in Client /\ slot[Owner(at)] = at
  BY <1>1, OwnerFacts, DataAssumption DEF IInv
<1>3. queue[at] \in Seq(Block) /\ Head(queue[at]) \in Block
  BY <1>1, <1>2, QueueFacts DEF IInv, TypeOK
<1>4. session[Owner(at)] \in 1..MaxSession
  BY <1>2, SwitchesAssumption DEF IInv, OneSlotEach, TypeOK
<1>5. /\ NewRead \in Read /\ NewRead.req.blk = Head(queue[at])
      /\ NewRead.req.cl = Owner(at) /\ NewRead.req.ses = session[Owner(at)]
  BY <1>2, <1>3, <1>4 DEF NewRead, Read, Request, ReqOf
<1>6. /\ inUse' = [inUse EXCEPT ![FileOf[NewRead.req.blk]] = @ + 1]
      /\ pendingIO' = pendingIO \cup {NewRead}
      /\ inflight' = inflight \cup {NewRead}
      /\ queue' = [queue EXCEPT ![at] = Tail(queue[at])]
      /\ done' = [done EXCEPT ![at] = done[at] \cup {NewRead.req.blk}]
      /\ dpc' = "pick"
  BY DEF ReadStarted, NewRead, ReqOf
<1>7. UNCHANGED <<slot, session, port, cur, sockQ, run>>
  BY DEF ReadFile
<1> QED
  BY <1>1, <1>2, <1>3, <1>5, <1>6, <1>7

\* the request of the new read was neither read nor is it being read
LEMMA NewIsNew ==
  ASSUME IInv, QueueIsFresh, Taken, ReadFile, ReadStarted
  PROVE  \A y \in pendingIO : y.req # NewRead.req
<1> SUFFICES ASSUME NEW y \in pendingIO, y.req = NewRead.req PROVE FALSE
  OBVIOUS
<1>1. /\ at \in Addr /\ at # NoAddr /\ slot[NewRead.req.cl] = at
      /\ NewRead.req.ses = session[NewRead.req.cl]
      /\ NewRead.req.blk = Head(queue[at])
      /\ queue[at] \in Seq(Block) /\ queue[at] # <<>>
  BY StartFacts
<1>2. NewRead.req.blk \in done[at]
  BY <1>1 DEF Taken
<1>3. NewRead.req.blk \in ToSet(queue[at])
  BY <1>1, QueueReads
<1> QED
  BY <1>1, <1>2, <1>3 DEF QueueIsFresh

\* ReadCompletionRoutine: the read in hand is counted off.
LEMMA CompleteFacts ==
  ASSUME IInv, Complete
  PROVE  /\ UNCHANGED <<inflight, port, run, slot, session, queue, done, cur, sockQ>>
         /\ dpc = "complete" /\ dpc' \in {"send", "poll", "stop"}
         /\ InHand' = {}
         /\ cur.kind = "io" =>
              /\ cur.rd \in Read /\ InHand = {cur.rd}
              /\ inUse' = [inUse EXCEPT ![FileOf[cur.rd.req.blk]] = @ - 1]
              /\ pendingIO' = IF run # "STOP" THEN pendingIO \ {cur.rd} ELSE pendingIO
              /\ dpc' = "send" => /\ run # "STOP" /\ cur.rd.st \in UploadList
                                  /\ to' = {Owner(cur.rd.st)}
         /\ cur.kind # "io" =>
              /\ InHand = {} /\ UNCHANGED <<inUse, pendingIO>> /\ dpc' # "send"
<1>1. /\ UNCHANGED <<inflight, port, run, slot, session, queue, done, cur, sockQ>>
      /\ dpc = "complete"
  BY DEF Complete, clientVars
<1>2. CASE cur.kind = "io"
  <2>1. cur.rd \in Read
    BY <1>2, PacketFacts DEF IInv, TypeOK
  <2>2. CompleteRead(cur.rd)
    BY <1>2 DEF Complete
  <2>3. dpc' \in {"send", "poll"}
    BY <2>2 DEF CompleteRead
  <2>4. InHand = {cur.rd} /\ InHand' = {}
    BY <1>1, <1>2, <2>3 DEF InHand
  <2>5. /\ inUse' = [inUse EXCEPT ![FileOf[cur.rd.req.blk]] = @ - 1]
        /\ pendingIO' = IF run # "STOP" THEN pendingIO \ {cur.rd} ELSE pendingIO
        /\ dpc' = "send" => /\ run # "STOP" /\ cur.rd.st \in UploadList
                            /\ to' = {Owner(cur.rd.st)}
    BY <2>2 DEF CompleteRead, IsRunning
  <2> QED
    BY <1>1, <1>2, <2>1, <2>3, <2>4, <2>5
<1>3. CASE cur.kind # "io"
  <2>1. dpc' \in {"stop", "poll"} /\ UNCHANGED <<inUse, pendingIO>>
    BY <1>3 DEF Complete
  <2> QED
    BY <1>1, <1>3, <2>1 DEF InHand
<1> QED
  BY <1>2, <1>3

LEMMA StopFacts ==
  ASSUME Stop
  PROVE  /\ dpc' = "ended" /\ run' = "STOP" /\ pendingIO' = {} /\ port' = <<>>
         /\ Once(port') /\ ReadsOf(port') = {} /\ InHand' = {}
         /\ Sending = {} /\ Sending' = {} /\ inflight' = inflight
BY DEF Stop, Once, ReadsOf, InHand, Sending

-------------------------------------------------------------------------------
(***************************************************************************)
(* Each part of the invariant is kept                                      *)
(***************************************************************************)
LEMMA OnePlaceStep ==
  ASSUME RInv, [Next]_vars
  PROVE  OnePlace' /\ Known'
<1> USE DEF RInv
<1>0. Queued = ReadsOf(port) /\ Queued' = ReadsOf(port')
  <2>1. TypeOK /\ TypeOK'
    BY StepInv DEF IInv
  <2> QED
    BY <2>1, QueuedIs, QueuedNext DEF QueuedInPort
<1>1. CASE QuietStep
  <2>1. OnePlace'
    BY <1>1, QuietFacts DEF OnePlace, QuietStep
  <2>2. Known'
    BY <1>0, <1>1, QuietFacts DEF Known, Outstanding, QuietStep
  <2> QED
    BY <2>1, <2>2
<1>2. CASE TakeStep
  <2>1. OnePlace'
    BY <1>2, TakeFacts DEF OnePlace
  <2>2. Known'
    BY <1>0, <1>2, TakeFacts DEF Known, Outstanding
  <2> QED
    BY <2>1, <2>2
<1>3. CASE ReadFile /\ ReadStarted
  <2>1. /\ NewRead \notin Outstanding /\ UNCHANGED <<port, run>>
        /\ pendingIO' = pendingIO \cup {NewRead} /\ inflight' = inflight \cup {NewRead}
        /\ dpc = "read" /\ dpc' = "pick" /\ InHand' = InHand
    BY <1>3, StartFacts, NewIsNew DEF Known, InHand
  <2>2. OnePlace'
    BY <1>0, <2>1 DEF OnePlace, Outstanding
  <2>3. Known'
    BY <1>0, <2>1 DEF Known, Outstanding
  <2> QED
    BY <2>2, <2>3
<1>4. CASE Complete
  <2>1. OnePlace'
    BY <1>4, CompleteFacts DEF OnePlace
  <2>2. Known'
    BY <1>0, <1>4, CompleteFacts DEF Known, Outstanding, OnePlace
  <2> QED
    BY <2>1, <2>2
<1>5. CASE Stop
  BY <1>0, <1>5, StopFacts DEF OnePlace, Known
<1>6. ASSUME NEW x \in inflight, IoEnds(x) PROVE OnePlace' /\ Known'
  <2>1. x \notin InHand /\ x \notin ReadsOf(port)
    BY DEF OnePlace
  <2>2. OnePlace'
    BY <1>6, <2>1, IoFacts DEF OnePlace
  <2>3. Known'
    BY <1>0, <1>6, IoFacts DEF Known, Outstanding
  <2> QED
    BY <2>2, <2>3
<1> QED
  BY PlaceSteps, <1>1, <1>2, <1>3, <1>4, <1>5, <1>6

\* Only these steps change the slots, their requests and the sockets.
SlotVars == <<slot, session, queue, done>>

LEMMA SlotSteps ==
  ASSUME [Next]_vars
  PROVE  \/ \E x \in Client : AddUpNextClient(x)
         \/ \E x \in Client : /\ RemoveFromUploadQueue(x)
                              /\ UNCHANGED <<pendingIO, cur, dpc>>
         \/ \E x \in Client : \E b \in Block : AddReqBlock(x, b)
         \/ ReadFile /\ ReadStarted
         \/ \E x \in Client : LoseSocket(x) \/ SendFileData(x)
         \/ SendPackets
         \/ UNCHANGED <<SlotVars, sockQ>>
<1>1. ASSUME NEW x \in Client, EndSession(x) \/ ProcessRemove(x)
      PROVE  RemoveFromUploadQueue(x) /\ UNCHANGED <<pendingIO, cur, dpc>>
  BY <1>1 DEF EndSession, ProcessRemove, ioVars, diskVars
<1>2. ASSUME NEW x \in Client, DeleteClient(x) \/ Process(x) \/ ProcessHead(x)
      PROVE  UNCHANGED <<SlotVars, sockQ>>
  BY <1>2 DEF SlotVars, DeleteClient, Process, ProcessHead, slotVars, clientVars
<1>3. ASSUME NEW x \in Client, NEW h \in File, AskForFile(x, h)
      PROVE  UNCHANGED <<SlotVars, sockQ>>
  BY <1>3 DEF SlotVars, AskForFile, slotVars
<1>4. ASSUME NEW h \in File,
             Unshare(h) \/ PerformFileComplete(h) \/ PerformFileCompleteEnd(h)
      PROVE  UNCHANGED <<SlotVars, sockQ>>
  BY <1>4 DEF SlotVars, Unshare, PerformFileComplete, PerformFileCompleteEnd,
              slotVars, clientVars
<1>5. ASSUME WakeUpCall \/ MarkNewData \/ EndThread \/ Join \/ NothingToSend
               \/ ThrottlerMarks \/ (\E x \in inflight : IoEnds(x)) \/ Closed
               \/ UNCHANGED vars
      PROVE  UNCHANGED <<SlotVars, sockQ>>
  BY <1>5 DEF SlotVars, WakeUpCall, MarkNewData, EndThread, Join, NothingToSend,
              ThrottlerMarks, IoEnds, Closed, vars, slotVars, clientVars
<1>6. ASSUME ScanStep PROVE UNCHANGED <<SlotVars, sockQ>>
  BY <1>6 DEF SlotVars, ScanStep, LockList, ScanSlot, PickBlock, AssociateFile,
              slotVars, clientVars
<1>7. ASSUME ReadFile, ReadRefused PROVE UNCHANGED <<SlotVars, sockQ>>
  BY <1>7 DEF SlotVars, ReadFile, ReadRefused
<1>8. ASSUME CreatePort \/ Wait \/ ScanDone \/ Poll \/ Rest \/ Recheck
               \/ Complete \/ Stop
      PROVE  UNCHANGED <<SlotVars, sockQ>>
  BY <1>8 DEF SlotVars, CreatePort, Wait, ScanDone, Poll, Rest, Recheck,
              Complete, Stop, slotVars, clientVars
<1>9. CASE Next
  <2>1. \/ \E x \in Client :
             \/ AddUpNextClient(x) \/ EndSession(x) \/ LoseSocket(x)
             \/ DeleteClient(x) \/ Process(x) \/ ProcessHead(x)
             \/ ProcessRemove(x) \/ SendFileData(x)
             \/ \E h \in File : AskForFile(x, h)
             \/ \E b \in Block : AddReqBlock(x, b)
        \/ \E h \in File :
             Unshare(h) \/ PerformFileComplete(h) \/ PerformFileCompleteEnd(h)
        \/ WakeUpCall \/ MarkNewData \/ EndThread \/ Join \/ NothingToSend
        \/ ThrottlerMarks \/ (\E x \in inflight : IoEnds(x)) \/ Closed
        \/ ScanStep \/ ReadFile
        \/ CreatePort \/ Wait \/ ScanDone \/ SendPackets \/ Poll \/ Rest
        \/ Recheck \/ Complete \/ Stop
    BY <1>9 DEF Next, Main, Throttler, DiskThread, ScanStep
  <2>2. CASE ReadFile
    BY <2>2, <1>7 DEF ReadFile
  <2> QED
    BY <2>1, <2>2, <1>1, <1>2, <1>3, <1>4, <1>5, <1>6, <1>8
<1>10. CASE UNCHANGED vars
  BY <1>5, <1>10
<1> QED
  BY <1>9, <1>10

\* AddReqBlock: the queue of the client's slot stays, or a new request waits.
LEMMA RequestFacts ==
  ASSUME IInv, NEW x \in Client, NEW b \in Block, AddReqBlock(x, b)
  PROVE  /\ UNCHANGED <<slot, session, done, sockQ, pendingIO, cur, dpc>>
         /\ \/ queue' = queue
            \/ /\ slot[x] \in Addr /\ slot[x] # NoAddr
               /\ b \notin done[slot[x]] /\ b \notin ToSet(queue[slot[x]])
               /\ queue' = [queue EXCEPT ![slot[x]] = Append(queue[slot[x]], b)]
<1>1. UNCHANGED <<slot, session, done, sockQ, pendingIO, cur, dpc>>
  BY DEF AddReqBlock, clientVars, ioVars, diskVars
<1>2. \/ queue' = queue
      \/ /\ slot[x] # NoAddr /\ IsNewRequest(slot[x], b)
         /\ queue' = [queue EXCEPT ![slot[x]] = Append(queue[slot[x]], b)]
  BY DEF AddReqBlock, MayRequest
<1> QED
  BY <1>1, <1>2 DEF IsNewRequest, IInv, TypeOK

\* AddUpNextClient and RemoveFromUploadQueue start with empty lists.
LEMMA ListsOfSlots ==
  ASSUME IInv, NEW x \in Client
  PROVE  /\ AddUpNextClient(x) =>
              \E a \in Addr : /\ slot[x] = NoAddr /\ slot'[x] = a
                              /\ queue' = [queue EXCEPT ![a] = <<>>]
                              /\ done' = [done EXCEPT ![a] = {}]
                              /\ a # NoAddr /\ \A y \in Client : slot[y] # a
                              /\ \A y \in Client : y # x => slot'[y] = slot[y]
                              /\ \A y \in Client : y # x => session'[y] = session[y]
                              /\ session'[x] = session[x] + 1
                              /\ UNCHANGED <<pendingIO, cur, dpc, sockQ>>
         /\ RemoveFromUploadQueue(x) =>
              /\ slot[x] \in Addr /\ slot'[x] = NoAddr /\ session' = session
              /\ queue' = [queue EXCEPT ![slot[x]] = <<>>]
              /\ done' = [done EXCEPT ![slot[x]] = {}]
              /\ sockQ' = [sockQ EXCEPT ![x] = {}]
              /\ \A y \in Client : y # x => slot'[y] = slot[y]
<1>1. ASSUME AddUpNextClient(x)
      PROVE  \E a \in Addr : /\ slot[x] = NoAddr /\ slot'[x] = a
                             /\ queue' = [queue EXCEPT ![a] = <<>>]
                             /\ done' = [done EXCEPT ![a] = {}]
                             /\ a # NoAddr /\ \A y \in Client : slot[y] # a
                             /\ \A y \in Client : y # x => slot'[y] = slot[y]
                             /\ \A y \in Client : y # x => session'[y] = session[y]
                             /\ session'[x] = session[x] + 1
                             /\ UNCHANGED <<pendingIO, cur, dpc, sockQ>>
  <2>1. PICK a \in FreeAddr : /\ slot' = [slot EXCEPT ![x] = a]
                              /\ queue' = [queue EXCEPT ![a] = <<>>]
                              /\ done' = [done EXCEPT ![a] = {}]
    BY <1>1 DEF AddUpNextClient
  <2>2. a \in Addr /\ a \notin UploadList /\ a # NoAddr
    BY DataAssumption DEF FreeAddr
  <2>3. \A y \in Client : slot[y] # a
    BY <2>2 DEF UploadList, Uploading
  <2>4. /\ slot[x] = NoAddr /\ session' = [session EXCEPT ![x] = @ + 1]
        /\ UNCHANGED <<pendingIO, cur, dpc, sockQ>>
    BY <1>1 DEF AddUpNextClient, ioVars, diskVars
  <2> QED
    BY <2>1, <2>2, <2>3, <2>4 DEF IInv, TypeOK
<1>2. ASSUME RemoveFromUploadQueue(x)
      PROVE  /\ slot[x] \in Addr /\ slot'[x] = NoAddr /\ session' = session
             /\ queue' = [queue EXCEPT ![slot[x]] = <<>>]
             /\ done' = [done EXCEPT ![slot[x]] = {}]
             /\ sockQ' = [sockQ EXCEPT ![x] = {}]
             /\ \A y \in Client : y # x => slot'[y] = slot[y]
  BY <1>2 DEF RemoveFromUploadQueue, IInv, TypeOK
<1> QED
  BY <1>1, <1>2

LEMMA FreshStep ==
  ASSUME RInv, [Next]_vars
  PROVE  QueueIsFresh'
<1> USE DEF RInv
<1>0. queue \in [Addr -> Seq(Block)] /\ done \in [Addr -> SUBSET Block]
  BY DEF IInv, TypeOK
<1>1. CASE UNCHANGED <<queue, done>>
  BY <1>1 DEF QueueIsFresh
<1>2. ASSUME NEW a \in Addr, queue' = [queue EXCEPT ![a] = <<>>],
             done' = [done EXCEPT ![a] = {}]
      PROVE  QueueIsFresh'
  BY <1>0, <1>2, QueueReads DEF QueueIsFresh
<1>3. ASSUME NEW x \in Client, NEW b \in Block, AddReqBlock(x, b)
      PROVE  QueueIsFresh'
  <2>1. CASE queue' = queue
    BY <1>3, <2>1, RequestFacts DEF QueueIsFresh
  <2>2. CASE /\ slot[x] \in Addr
             /\ b \notin done[slot[x]] /\ b \notin ToSet(queue[slot[x]])
             /\ queue' = [queue EXCEPT ![slot[x]] = Append(queue[slot[x]], b)]
    <3> DEFINE a == slot[x]
               q == Append(queue[a], b)
    <3>1. /\ ToSet(q) = ToSet(queue[a]) \cup {b} /\ Distinct(q)
      BY <1>0, <2>2, QueueReads DEF QueueIsFresh
    <3>2. done' = done
      BY <1>3, RequestFacts
    <3>3. \A y \in Addr : queue'[y] = IF y = a THEN q ELSE queue[y]
      BY <1>0, <2>2
    <3> HIDE DEF q, a
    <3>4. a \in Addr /\ b \notin done[a]
      BY <2>2 DEF a
    <3> QED
      BY <3>1, <3>2, <3>3, <3>4 DEF QueueIsFresh
  <2> QED
    BY <1>3, <2>1, <2>2, RequestFacts
<1>4. CASE ReadFile /\ ReadStarted
  <2> DEFINE b == Head(queue[at])
             q == Tail(queue[at])
  <2>1. /\ at \in Addr /\ queue[at] \in Seq(Block) /\ queue[at] # <<>>
        /\ queue' = [queue EXCEPT ![at] = q]
        /\ done' = [done EXCEPT ![at] = done[at] \cup {b}]
    BY <1>4, StartFacts
  <2>2. /\ ToSet(q) \subseteq ToSet(queue[at]) /\ Distinct(q) /\ b \notin ToSet(q)
    BY <2>1, QueueReads DEF QueueIsFresh
  <2>3. \A y \in Addr : /\ queue'[y] = IF y = at THEN q ELSE queue[y]
                        /\ done'[y] = IF y = at THEN done[at] \cup {b} ELSE done[y]
    BY <1>0, <2>1
  <2> HIDE DEF b, q
  <2> QED
    BY <2>1, <2>2, <2>3 DEF QueueIsFresh
<1>5. ASSUME NEW x \in Client, AddUpNextClient(x) \/ RemoveFromUploadQueue(x)
      PROVE  QueueIsFresh'
  BY <1>2, <1>5, ListsOfSlots
<1>6. ASSUME NEW x \in Client, LoseSocket(x) \/ SendFileData(x)
      PROVE  QueueIsFresh'
  BY <1>1, <1>6 DEF LoseSocket, SendFileData, slotVars
<1>7. CASE SendPackets
  BY <1>1, <1>7 DEF SendPackets, slotVars
<1> QED
  BY <1>1, <1>3, <1>4, <1>5, <1>6, <1>7, SlotSteps DEF SlotVars

\* Only ReadFile adds a read; ReadCompletionRoutine keeps what it sends.
LEMMA OwedReads ==
  ASSUME RInv, [Next]_vars
  PROVE  \/ /\ ReadFile /\ ReadStarted /\ Sending = {} /\ Sending' = {}
            /\ pendingIO' = pendingIO \cup {NewRead}
         \/ /\ pendingIO' \cup Sending' \subseteq pendingIO \cup Sending
            /\ pendingIO' \cap Sending' = {}
<1> USE DEF RInv
<1>1. CASE QuietStep
  BY <1>1, QuietFacts DEF QuietStep, DistinctReads
<1>2. CASE TakeStep
  BY <1>2, TakeFacts DEF DistinctReads
<1>3. CASE ReadFile /\ ReadStarted
  BY <1>3, StartFacts DEF Sending
<1>4. CASE Complete
  <2>1. CASE cur.kind = "io"
    <3>1. cur.rd \in pendingIO
      BY <1>4, <2>1, CompleteFacts DEF Known, Outstanding
    <3> QED
      BY <1>4, <2>1, <3>1, CompleteFacts DEF Sending
  <2>2. CASE cur.kind # "io"
    BY <1>4, <2>2, CompleteFacts DEF Sending
  <2> QED
    BY <2>1, <2>2
<1>5. CASE Stop
  BY <1>5, StopFacts
<1>6. ASSUME NEW x \in inflight, IoEnds(x)
      PROVE  pendingIO' = pendingIO /\ Sending' = Sending
  BY <1>6, IoFacts
<1> QED
  BY PlaceSteps, <1>1, <1>2, <1>3, <1>4, <1>5, <1>6 DEF DistinctReads

LEMMA DistinctStep ==
  ASSUME RInv, [Next]_vars
  PROVE  DistinctReads'
<1> USE DEF RInv
<1>1. CASE /\ ReadFile /\ ReadStarted /\ Sending = {} /\ Sending' = {}
           /\ pendingIO' = pendingIO \cup {NewRead}
  <2>1. \A y \in pendingIO : y.req # NewRead.req
    BY <1>1, NewIsNew
  <2> QED
    BY <1>1, <2>1 DEF DistinctReads
<1>2. CASE /\ pendingIO' \cup Sending' \subseteq pendingIO \cup Sending
           /\ pendingIO' \cap Sending' = {}
  BY <1>2 DEF DistinctReads
<1> QED
  BY OwedReads, <1>1, <1>2

\* reads of clients; ReadCompletionRoutine has one of them
LEMMA ReadTypes ==
  ASSUME IInv
  PROVE  \A x \in pendingIO \cup Sending :
           x \in Read /\ x.req \in Request /\ x.req.cl \in Client /\ x.req.ses \in Nat
<1>1. Sending \subseteq Read
  BY PacketFacts DEF IInv, ReadsInHand, TypeOK, Sending
<1>2. ASSUME NEW x \in Read
      PROVE  x.req \in Request /\ x.req.cl \in Client /\ x.req.ses \in Nat
  BY SwitchesAssumption DEF Read, Request
<1> QED
  BY <1>1, <1>2 DEF IInv, TypeOK

LEMMA TakenStep ==
  ASSUME RInv, [Next]_vars
  PROVE  Taken'
<1> DEFINE P == pendingIO \cup Sending
           Done(x, s, t, d) == /\ x.req.ses <= t[x.req.cl]
                               /\ s[x.req.cl] # NoAddr /\ x.req.ses = t[x.req.cl]
                                    => x.req.blk \in d[s[x.req.cl]]
<1> USE DEF RInv
<1>0. /\ done \in [Addr -> SUBSET Block] /\ slot \in [Client -> Addr \cup {NoAddr}]
      /\ session \in [Client -> Nat]
  BY SwitchesAssumption DEF IInv, TypeOK
<1>11. /\ \A x \in P : x.req.cl \in Client /\ x.req.ses \in Nat
      /\ \A x \in P : Done(x, slot, session, done)
  BY ReadTypes DEF Taken
<1>12. (\A x \in (pendingIO' \cup Sending') : Done(x, slot', session', done')) => Taken'
  BY DEF Taken
<1>1. ASSUME NEW x \in Client, AddUpNextClient(x)
      PROVE  \A y \in P : Done(y, slot', session', done')
  <2>1. PICK a \in Addr :
          /\ slot[x] = NoAddr /\ slot'[x] = a
          /\ done' = [done EXCEPT ![a] = {}]
          /\ a # NoAddr /\ \A y \in Client : slot[y] # a
          /\ \A y \in Client : y # x => slot'[y] = slot[y]
          /\ \A y \in Client : y # x => session'[y] = session[y]
          /\ session'[x] = session[x] + 1
    BY <1>1, ListsOfSlots
  <2>2. ASSUME NEW y \in P PROVE Done(y, slot', session', done')
    <3> DEFINE c == y.req.cl
    <3>1. c \in Client /\ y.req.ses \in Nat /\ Done(y, slot, session, done)
      BY <1>11
    <3>2. CASE c = x
      <4>1. session[x] \in Nat
        BY <1>0
      <4> QED
        BY <2>1, <3>1, <3>2, <4>1
    <3>3. CASE c # x
      <4>1. slot[c] # a /\ slot'[c] = slot[c] /\ session'[c] = session[c]
        BY <2>1, <3>1, <3>3
      <4>2. slot[c] # NoAddr => done'[slot[c]] = done[slot[c]]
        BY <1>0, <2>1, <3>1, <4>1
      <4> QED
        BY <3>1, <4>1, <4>2
    <3> QED
      BY <3>2, <3>3
  <2> QED
    BY <2>2
<1>2. ASSUME NEW x \in Client, RemoveFromUploadQueue(x)
      PROVE  \A y \in P : Done(y, slot', session', done')
  <2>1. /\ slot[x] \in Addr /\ slot'[x] = NoAddr /\ session' = session
        /\ done' = [done EXCEPT ![slot[x]] = {}]
        /\ \A y \in Client : y # x => slot'[y] = slot[y]
    BY <1>2, ListsOfSlots
  <2>2. ASSUME NEW y \in P PROVE Done(y, slot', session', done')
    <3> DEFINE c == y.req.cl
    <3>1. c \in Client /\ Done(y, slot, session, done)
      BY <1>11
    <3>2. CASE c = x
      BY <2>1, <3>1, <3>2
    <3>3. CASE c # x /\ slot[c] # NoAddr
      <4>1. slot[c] # slot[x] /\ slot'[c] = slot[c]
        BY <2>1, <3>1, <3>3 DEF IInv, OneSlotEach
      <4>2. done'[slot[c]] = done[slot[c]]
        BY <1>0, <2>1, <3>1, <3>3, <4>1
      <4> QED
        BY <2>1, <3>1, <4>1, <4>2
    <3>4. CASE c # x /\ slot[c] = NoAddr
      BY <2>1, <3>1, <3>4
    <3> QED
      BY <3>2, <3>3, <3>4
  <2> QED
    BY <2>2
<1>3. CASE ReadFile /\ ReadStarted
  <2>1. /\ at \in Addr /\ slot[NewRead.req.cl] = at
        /\ NewRead.req.ses = session[NewRead.req.cl]
        /\ NewRead.req.cl \in Client
        /\ done' = [done EXCEPT ![at] = done[at] \cup {NewRead.req.blk}]
        /\ UNCHANGED <<slot, session>>
    BY <1>3, StartFacts
  <2>2. NewRead.req.blk \in done'[at] /\ \A a \in Addr : done[a] \subseteq done'[a]
    BY <1>0, <2>1
  <2>3. session[NewRead.req.cl] \in Nat
    BY <1>0, <2>1
  <2>4. Done(NewRead, slot', session', done')
    BY <2>1, <2>2, <2>3
  <2>5. ASSUME NEW y \in P PROVE Done(y, slot', session', done')
    <3>1. slot[y.req.cl] # NoAddr => slot[y.req.cl] \in Addr
      BY <1>0, <1>11
    <3> QED
      BY <1>11, <2>1, <2>2, <3>1
  <2>6. pendingIO' \cup Sending' \subseteq P \cup {NewRead}
    BY <1>3, StartFacts DEF Sending
  <2> HIDE DEF P, Done
  <2> QED
    BY <1>12, <2>4, <2>5, <2>6
<1>4. ASSUME UNCHANGED <<slot, session, done>>
      PROVE  \A y \in P : Done(y, slot', session', done')
  BY <1>4, <1>11
<1>5. CASE pendingIO' \cup Sending' \subseteq P /\ ~(ReadFile /\ ReadStarted)
  <2>1. ASSUME NEW x \in Client, LoseSocket(x) \/ SendFileData(x)
        PROVE  UNCHANGED <<slot, session, done>>
    BY <2>1 DEF LoseSocket, SendFileData, slotVars
  <2>2. SendPackets => UNCHANGED <<slot, session, done>>
    BY DEF SendPackets, slotVars
  <2>3. ASSUME NEW x \in Client, NEW b \in Block, AddReqBlock(x, b)
        PROVE  UNCHANGED <<slot, session, done>>
    BY <2>3, RequestFacts
  <2>4. \A y \in P : Done(y, slot', session', done')
    <3> HIDE DEF P, Done
    <3> QED
      BY SlotSteps, <1>1, <1>2, <1>4, <1>5, <2>1, <2>2, <2>3 DEF SlotVars
  <2> HIDE DEF P, Done
  <2> QED
    BY <1>5, <1>12, <2>4
<1> HIDE DEF Done
<1> QED
  BY OwedReads, <1>3, <1>5

LEMMA ReadsStep == RInv /\ [Next]_vars => RInv'
BY StepInv, OnePlaceStep, FreshStep, TakenStep, DistinctStep DEF RInv

LEMMA ReadsInit == Init => RInv
<1> SUFFICES ASSUME Init PROVE RInv
  OBVIOUS
<1>1. IInv
  BY InitInv
<1>2. QueueIsFresh
  BY QueueReads DEF Init, QueueIsFresh
<1>3. Taken /\ DistinctReads
  BY DEF Init, Taken, DistinctReads, Sending
<1>4. OnePlace
  BY DEF Init, OnePlace, Once, ReadsOf, InHand
<1>5. Known
  <2>1. Queued = {}
    BY <1>1, QueuedIs DEF Init, IInv, QueuedInPort, ReadsOf
  <2> QED
    BY <2>1 DEF Init, Known, Outstanding, InHand
<1> QED
  BY <1>1, <1>2, <1>3, <1>4, <1>5 DEF RInv

-------------------------------------------------------------------------------
(***************************************************************************)
(* nInUse counts the reads of a file                                       *)
(***************************************************************************)

\* GetQueuedCompletionStatus returns FALSE for no read.
NoDequeue == \A S \in Scenarios : "dequeue" \notin S.may

NoneFailed == \A i \in 1..Len(port) : port[i].kind # "failed"

OfFile(S, f) == {x \in S : FileOf[x.req.blk] = f}
Counts == dpc # "ended" =>
            \A f \in File : inUse[f] = Cardinality(OfFile(Outstanding, f))

LEMMA OneMore ==
  ASSUME NEW S, IsFiniteSet(S), NEW x, x \notin S, NEW f
  PROVE  /\ Cardinality(OfFile(S, f)) \in Nat
         /\ Cardinality(OfFile(S \cup {x}, f)) =
              Cardinality(OfFile(S, f)) + (IF FileOf[x.req.blk] = f THEN 1 ELSE 0)
<1>1. IsFiniteSet(OfFile(S, f)) /\ x \notin OfFile(S, f)
  BY FS_Subset DEF OfFile
<1>2. Cardinality(OfFile(S, f)) \in Nat
  BY <1>1, FS_CardinalityType
<1>3. CASE FileOf[x.req.blk] = f
  <2>1. OfFile(S \cup {x}, f) = OfFile(S, f) \cup {x}
    BY <1>3 DEF OfFile
  <2> QED
    BY <1>1, <1>2, <1>3, <2>1, FS_AddElement
<1>4. CASE FileOf[x.req.blk] # f
  <2>1. OfFile(S \cup {x}, f) = OfFile(S, f)
    BY <1>4 DEF OfFile
  <2> QED
    BY <1>2, <1>4, <2>1
<1> QED
  BY <1>2, <1>3, <1>4

LEMMA NoneFailedStep ==
  ASSUME NoDequeue, RInv, NoneFailed, [Next]_vars
  PROVE  NoneFailed'
<1> USE DEF RInv
<1>0. port \in Seq(Packet) /\ "dequeue" \notin env.may
  BY DEF IInv, TypeOK, NoDequeue
<1>1. ASSUME NEW p \in Packet, p.kind # "failed", port' = Append(port, p)
      PROVE  NoneFailed'
  <2>1. /\ Len(port') = Len(port) + 1 /\ Len(port) \in Nat
        /\ \A i \in 1..Len(port) : port'[i] = port[i]
        /\ port'[Len(port) + 1] = p
    BY <1>0, <1>1
  <2>2. \A i \in 1..Len(port') : i \in 1..Len(port) \/ i = Len(port) + 1
    BY <2>1
  <2> QED
    BY <1>1, <2>1, <2>2 DEF NoneFailed
<1>2. ASSUME port # <<>>, port' = Tail(port) PROVE NoneFailed'
  <2>1. /\ Len(port) \in Nat /\ Len(port') = Len(port) - 1
        /\ \A i \in 1..Len(port') : port'[i] = port[i + 1]
    BY <1>0, <1>2
  <2>2. \A i \in 1..Len(port') : i + 1 \in 1..Len(port)
    BY <2>1
  <2> QED
    BY <2>1, <2>2 DEF NoneFailed
<1>3. ASSUME port' = port PROVE NoneFailed'
  BY <1>3 DEF NoneFailed
<1>4. CASE QuietStep
  <2>1. Wakeup \in Packet /\ Exit \in Packet /\ Wakeup.kind # "failed" /\ Exit.kind # "failed"
    BY PacketFacts DEF Wakeup, Exit
  <2> QED
    BY <1>1, <1>3, <1>4, <2>1 DEF QuietStep
<1>5. CASE TakeStep
  BY <1>2, <1>5 DEF TakeStep, Wait, Poll
<1>6. CASE ReadFile /\ ReadStarted
  BY <1>3, <1>6, StartFacts
<1>7. CASE Complete
  BY <1>3, <1>7, CompleteFacts
<1>8. CASE Stop
  BY <1>8, StopFacts DEF NoneFailed
<1>9. ASSUME NEW x \in inflight, IoEnds(x) PROVE NoneFailed'
  <2>1. port' = port \/ port' = Append(port, Io(x, TRUE))
          \/ port' = Append(port, Io(x, FALSE))
    BY <1>0, <1>9 DEF IoEnds
  <2>2. /\ Io(x, TRUE) \in Packet /\ Io(x, FALSE) \in Packet
        /\ Io(x, TRUE).kind # "failed" /\ Io(x, FALSE).kind # "failed"
    BY PacketFacts DEF IInv, TypeOK, Io
  <2> QED
    BY <1>1, <1>3, <2>1, <2>2
<1> QED
  BY PlaceSteps, <1>4, <1>5, <1>6, <1>7, <1>8, <1>9

LEMMA CountsStep ==
  ASSUME NoDequeue, RInv, NoneFailed, Counts, [Next]_vars
  PROVE  Counts'
<1> USE DEF RInv
<1> SUFFICES ASSUME dpc' # "ended" PROVE \A f \in File : inUse'[f] =
                                           Cardinality(OfFile(Outstanding', f))
  BY DEF Counts, OfFile
<1>0. /\ Outstanding = inflight \cup ReadsOf(port) \cup InHand
      /\ Outstanding' = inflight' \cup ReadsOf(port') \cup InHand'
      /\ inUse \in [File -> Int]
  <2>1. TypeOK /\ TypeOK'
    BY StepInv DEF IInv
  <2> QED
    BY <2>1, QueuedIs, QueuedNext DEF QueuedInPort, Outstanding, TypeOK
<1>1. ASSUME UNCHANGED inUse, Outstanding' = Outstanding, dpc # "ended"
      PROVE  \A f \in File : inUse'[f] = Cardinality(OfFile(Outstanding', f))
  BY <1>1 DEF Counts
<1>2. dpc # "ended" => IsFiniteSet(Outstanding)
  BY FS_Subset DEF IInv, ReadsInHand, Known
<1>3. CASE QuietStep
  BY <1>0, <1>1, <1>3, QuietFacts DEF QuietStep
<1>4. CASE TakeStep
  <2>1. port # <<>> => 1 \in 1..Len(port) /\ Head(port) = port[1]
    BY DEF IInv, TypeOK
  <2>2. Head(port).kind # "failed"
    BY <1>4, <2>1, TakeFacts DEF NoneFailed
  <2> QED
    BY <1>0, <1>1, <1>4, <2>2, TakeFacts
<1>5. CASE ReadFile /\ ReadStarted
  <2>1. /\ dpc # "ended" /\ InHand' = InHand /\ UNCHANGED port
        /\ inflight' = inflight \cup {NewRead} /\ NewRead \in Read
        /\ inUse' = [inUse EXCEPT ![FileOf[NewRead.req.blk]] = @ + 1]
    BY <1>5, StartFacts DEF InHand
  <2>2. NewRead \notin Outstanding
    BY <1>5, <2>1, NewIsNew DEF Known
  <2>3. Outstanding' = Outstanding \cup {NewRead}
    BY <1>0, <2>1
  <2>4. ASSUME NEW f \in File
        PROVE  inUse'[f] = Cardinality(OfFile(Outstanding', f))
    <3>1. inUse'[f] = inUse[f] + (IF FileOf[NewRead.req.blk] = f THEN 1 ELSE 0)
      BY <1>0, <2>1
    <3>2. inUse[f] = Cardinality(OfFile(Outstanding, f))
      BY <2>1 DEF Counts
    <3> HIDE DEF Outstanding, NewRead
    <3> QED
      BY <1>2, <2>1, <2>2, <2>3, <3>1, <3>2, OneMore
  <2> QED
    BY <2>4
<1>6. CASE Complete /\ cur.kind = "io"
  <2> DEFINE x == cur.rd
  <2>1. /\ dpc # "ended" /\ InHand = {x} /\ InHand' = {} /\ x \in Read
        /\ UNCHANGED <<port, inflight>>
        /\ inUse' = [inUse EXCEPT ![FileOf[x.req.blk]] = @ - 1]
    BY <1>6, CompleteFacts
  <2> HIDE DEF x
  <2>2. x \notin Outstanding' /\ Outstanding = Outstanding' \cup {x}
    BY <1>0, <2>1 DEF OnePlace
  <2>3. IsFiniteSet(Outstanding')
    BY <1>2, <2>1, <2>2, FS_Subset
  <2>4. ASSUME NEW f \in File
        PROVE  inUse'[f] = Cardinality(OfFile(Outstanding', f))
    <3>1. inUse'[f] = inUse[f] - (IF FileOf[x.req.blk] = f THEN 1 ELSE 0)
      BY <1>0, <2>1
    <3>2. inUse[f] = Cardinality(OfFile(Outstanding, f))
      BY <2>1 DEF Counts
    <3>3. /\ Cardinality(OfFile(Outstanding', f)) \in Nat
          /\ Cardinality(OfFile(Outstanding, f)) =
               Cardinality(OfFile(Outstanding', f))
                 + (IF FileOf[x.req.blk] = f THEN 1 ELSE 0)
      BY <2>2, <2>3, OneMore
    <3> QED
      BY <3>1, <3>2, <3>3
  <2> QED
    BY <2>4
<1>7. CASE Complete /\ cur.kind # "io"
  BY <1>0, <1>1, <1>7, CompleteFacts
<1>8. CASE Stop
  BY <1>8, StopFacts
<1>9. ASSUME NEW x \in inflight, IoEnds(x)
      PROVE  \A f \in File : inUse'[f] = Cardinality(OfFile(Outstanding', f))
  <2>1. /\ inflight' = inflight \ {x} /\ InHand' = InHand /\ UNCHANGED <<inUse, dpc>>
        /\ ReadsOf(port') = ReadsOf(port) \cup (IF dpc = "ended" THEN {} ELSE {x})
    BY <1>9, IoFacts
  <2>2. Outstanding' = Outstanding /\ dpc # "ended"
    BY <1>0, <2>1
  <2> QED
    BY <1>1, <2>1, <2>2
<1> QED
  BY PlaceSteps, <1>3, <1>4, <1>5, <1>6, <1>7, <1>8, <1>9

(***************************************************************************)
(* "count outstanding I/O (reads) to know if the file is in use"           *)
(* (KnownFile.h): while the thread runs, nInUse of every file is the       *)
(* number of its reads that the system or the port still has, or that      *)
(* ReadCompletionRoutine has not counted off.  A read for which            *)
(* GetQueuedCompletionStatus fails is the exception: RunInternal drops it  *)
(* and the counter stays up, so none is assumed to fail there.             *)
(***************************************************************************)
THEOREM ReadsAreCounted ==
  ASSUME NoDequeue
  PROVE  Spec => []CountsReads
<1> DEFINE I == RInv /\ NoneFailed /\ Counts
<1>1. Init => I
  <2> SUFFICES ASSUME Init PROVE I
    OBVIOUS
  <2>1. RInv
    BY ReadsInit
  <2>2. Outstanding = {}
    BY <2>1, QueuedIs DEF Init, RInv, IInv, QueuedInPort, ReadsOf, Outstanding, InHand
  <2>3. \A f \in File : OfFile(Outstanding, f) = {}
    BY <2>2 DEF OfFile
  <2>4. Counts
    BY <2>3, FS_EmptySet DEF Init, Counts
  <2>5. NoneFailed
    BY DEF Init, NoneFailed
  <2> QED
    BY <2>1, <2>4, <2>5
<1>2. I /\ [Next]_vars => I'
  BY NoDequeue, ReadsStep, NoneFailedStep, CountsStep
<1>3. I => CountsReads
  BY DEF RInv, Known, Counts, CountsReads, IsRunning, OfFile
<1> QED
  BY <1>1, <1>2, <1>3, PTL DEF Spec

-------------------------------------------------------------------------------
(***************************************************************************)
(* Who gets the data                                                       *)
(***************************************************************************)

\* the reads of a session that goes on carry the address of its struct
SessionHasStruct ==
  \A x \in pendingIO : GoesOn(x.req) => slot[x.req.cl] = x.st

\* what is sent for a session that goes on goes to its client
SentToSession == dpc = "send" /\ GoesOn(cur.rd.req) => to = {cur.rd.req.cl}

\* A session that is over does not begin again: its number is used once.
LEMMA SessionEnds ==
  ASSUME RInv, [Next]_vars
  PROVE  \A x \in pendingIO \cup Sending :
           GoesOn(x.req)' => GoesOn(x.req) /\ slot'[x.req.cl] = slot[x.req.cl]
<1> USE DEF RInv
<1>1. \A x \in pendingIO \cup Sending :
        x.req.cl \in Client /\ x.req.ses \in Nat /\ x.req.ses <= session[x.req.cl]
  BY ReadTypes DEF Taken
<1>2. ASSUME NEW y \in Client, AddUpNextClient(y), NEW x \in pendingIO \cup Sending,
             GoesOn(x.req)'
      PROVE  GoesOn(x.req) /\ slot'[x.req.cl] = slot[x.req.cl]
  <2>1. /\ session'[y] = session[y] + 1 /\ session[y] \in Nat
        /\ \A z \in Client : z # y => slot'[z] = slot[z] /\ session'[z] = session[z]
    BY <1>2, AddFacts DEF IInv
  <2>2. slot'[x.req.cl] # NoAddr /\ session'[x.req.cl] = x.req.ses
    BY <1>2 DEF GoesOn
  <2>3. x.req.cl # y
    BY <1>1, <2>1, <2>2
  <2> QED
    BY <1>1, <2>1, <2>2, <2>3 DEF GoesOn
<1>3. ASSUME NEW y \in Client, RemoveFromUploadQueue(y), NEW x \in pendingIO \cup Sending,
             GoesOn(x.req)'
      PROVE  GoesOn(x.req) /\ slot'[x.req.cl] = slot[x.req.cl]
  BY <1>1, <1>3, RemoveFacts DEF IInv, GoesOn
<1>4. ASSUME UNCHANGED <<slot, session>>, NEW x \in pendingIO \cup Sending, GoesOn(x.req)'
      PROVE  GoesOn(x.req) /\ slot'[x.req.cl] = slot[x.req.cl]
  BY <1>4 DEF GoesOn
<1>5. ReadFile \/ SlotStep \/ UNCHANGED <<slot, session>>
  BY StepKinds DEF ReadFile
<1>6. ReadFile => UNCHANGED <<slot, session>>
  BY DEF ReadFile
<1> QED
  BY <1>2, <1>3, <1>4, <1>5, <1>6 DEF SlotStep

LEMMA SessionStep ==
  ASSUME RInv, SessionHasStruct, SentToSession, [Next]_vars
  PROVE  SessionHasStruct' /\ SentToSession'
<1> USE DEF RInv
<1>1. ASSUME pendingIO' \subseteq pendingIO PROVE SessionHasStruct'
  <2>1. \A x \in pendingIO :
          GoesOn(x.req)' => GoesOn(x.req) /\ slot'[x.req.cl] = slot[x.req.cl]
    BY SessionEnds
  <2>2. SessionHasStruct'
    <3> SUFFICES ASSUME NEW x \in pendingIO', GoesOn(x.req)'
                 PROVE  slot'[x.req.cl] = x.st
      BY DEF SessionHasStruct
    <3>1. GoesOn(x.req) /\ slot'[x.req.cl] = slot[x.req.cl]
      BY <1>1, <2>1
    <3> QED
      BY <1>1, <3>1 DEF SessionHasStruct
  <2> QED
    BY <2>2
<1>2. CASE ReadFile /\ ReadStarted
  <2>1. /\ slot[NewRead.req.cl] = at /\ NewRead.st = at
        /\ pendingIO' = pendingIO \cup {NewRead} /\ UNCHANGED <<slot, session>>
        /\ dpc' # "send"
    BY <1>2, StartFacts DEF NewRead
  <2> QED
    BY <2>1 DEF SessionHasStruct, SentToSession, GoesOn
<1>3. CASE QuietStep \/ \E x \in inflight : IoEnds(x)
  <2>1. dpc' = "send" => dpc = "send" /\ cur' = cur /\ to' = to
    BY <1>3 DEF QuietStep, IoEnds, diskVars
  <2>2. dpc = "send" => cur.rd \in Sending
    BY DEF Sending
  <2>3. pendingIO' = pendingIO
    BY <1>3 DEF QuietStep, IoEnds
  <2> QED
    BY <1>1, <2>1, <2>2, <2>3, SessionEnds DEF SentToSession, GoesOn
<1>4. CASE TakeStep \/ Stop
  <2>1. dpc' # "send" /\ pendingIO' \subseteq pendingIO
    BY <1>4 DEF TakeStep, Wait, Poll, Stop, ioVars
  <2> QED
    BY <1>1, <2>1 DEF SentToSession
<1>5. CASE Complete
  <2>1. pendingIO' \subseteq pendingIO /\ UNCHANGED <<slot, session, cur>>
    BY <1>5, CompleteFacts
  <2>2. ASSUME dpc' = "send", GoesOn(cur.rd.req) PROVE to' = {cur.rd.req.cl}
    <3>1. /\ cur.kind = "io" /\ cur.rd.st \in UploadList
          /\ to' = {Owner(cur.rd.st)} /\ dpc = "complete" /\ InHand = {cur.rd}
      BY <1>5, <2>2, CompleteFacts
    <3>2. cur.rd \in pendingIO
      BY <3>1 DEF Known, Outstanding
    <3>3. slot[cur.rd.req.cl] = cur.rd.st /\ cur.rd.req.cl \in Client
      BY <2>2, <3>2, ReadTypes DEF SessionHasStruct
    <3>4. /\ Owner(cur.rd.st) \in Client /\ slot[Owner(cur.rd.st)] = cur.rd.st
          /\ cur.rd.st # NoAddr
      BY <3>1, OwnerFacts, DataAssumption DEF IInv
    <3>5. Owner(cur.rd.st) = cur.rd.req.cl
      BY <3>3, <3>4 DEF IInv, OneSlotEach
    <3> QED
      BY <3>1, <3>5
  <2> QED
    BY <1>1, <2>1, <2>2 DEF SentToSession, GoesOn
<1> QED
  BY PlaceSteps, <1>2, <1>3, <1>4, <1>5

(***************************************************************************)
(* However the heap uses addresses again and whoever leaves meanwhile: the *)
(* data read for a session that goes on goes to the client of that session *)
(* and to nobody else (ReadCompletionRoutine's lookup in the upload list). *)
(***************************************************************************)
THEOREM SessionGetsItsReads == Spec => []SessionKeepsReads
<1> DEFINE I == RInv /\ SessionHasStruct /\ SentToSession
<1>1. Init => I
  BY ReadsInit DEF Init, SessionHasStruct, SentToSession
<1>2. I /\ [Next]_vars => I'
  BY ReadsStep, SessionStep
<1>3. I => SessionKeepsReads
  <2> SUFFICES ASSUME I, NEW x \in pendingIO, GoesOn(x.req)
               PROVE  {c \in Client : slot[c] = x.st} = {x.req.cl}
    BY DEF SessionKeepsReads, SentToSession
  <2>1. x.req.cl \in Client /\ slot[x.req.cl] = x.st /\ x.st # NoAddr
    BY ReadTypes DEF RInv, SessionHasStruct, GoesOn
  <2>2. \A c \in Client : slot[c] = x.st => c = x.req.cl
    BY <2>1 DEF RInv, IInv, OneSlotEach
  <2> QED
    BY <2>1, <2>2
<1> QED
  BY <1>1, <1>2, <1>3, PTL DEF Spec

-------------------------------------------------------------------------------
(***************************************************************************)
(* The promise of BlockService                                             *)
(***************************************************************************)

\* the packets go to the client that asked for them
SentToRequester == dpc = "send" => to = {cur.rd.req.cl}

LEMMA SentStep ==
  ASSUME RInv, FoundIsRequester, SentToRequester, [Next]_vars
  PROVE  SentToRequester'
<1> USE DEF RInv
<1>1. CASE QuietStep
  BY <1>1 DEF QuietStep, SentToRequester
<1>2. CASE TakeStep \/ (ReadFile /\ ReadStarted) \/ Stop
  <2>1. dpc' # "send"
    BY <1>2 DEF TakeStep, Wait, Poll, ReadFile, ReadStarted, Stop
  <2> QED
    BY <2>1 DEF SentToRequester
<1>3. CASE Complete
  <2> SUFFICES ASSUME dpc' = "send" PROVE to' = {cur'.rd.req.cl}
    BY DEF SentToRequester
  <2>1. /\ cur.kind = "io" /\ cur' = cur /\ cur.rd.st \in UploadList
        /\ to' = {Owner(cur.rd.st)} /\ dpc = "complete" /\ InHand = {cur.rd}
    BY <1>3, CompleteFacts
  <2>2. cur.rd \in pendingIO
    BY <2>1 DEF Known, Outstanding
  <2>3. slot[cur.rd.req.cl] = cur.rd.st
    BY <2>1, <2>2 DEF FoundIsRequester
  <2>4. cur.rd.req.cl \in Client
    BY <2>2, ReadTypes
  <2>5. /\ Owner(cur.rd.st) \in Client /\ slot[Owner(cur.rd.st)] = cur.rd.st
        /\ cur.rd.st # NoAddr
    BY <2>1, OwnerFacts, DataAssumption DEF IInv
  <2>6. Owner(cur.rd.st) = cur.rd.req.cl
    BY <2>3, <2>4, <2>5 DEF IInv, OneSlotEach
  <2> QED
    BY <2>1, <2>6
<1>4. ASSUME NEW x \in inflight, IoEnds(x) PROVE SentToRequester'
  BY <1>4 DEF IoEnds, diskVars, SentToRequester
<1> QED
  BY PlaceSteps, <1>1, <1>2, <1>3, <1>4

\* r waits in the queue of a slot
Waits(r, sl, se, q) ==
  \E c \in Client : /\ sl[c] # NoAddr
                    /\ \E b \in ToSet(q[sl[c]]) :
                         r = [cl |-> c, ses |-> se[c], blk |-> b]

LEMMA AskedIs ==
  /\ \A r : r \in Asked <=> Waits(r, slot, session, queue)
  /\ \A r : r \in Asked' <=> Waits(r, slot', session', queue')
BY DEF Asked, Uploading, ReqOf, Waits

LEMMA AskedKept ==
  ASSUME UNCHANGED <<slot, session, queue>>
  PROVE  Asked' = Asked
BY DEF Asked, Uploading, ReqOf

\* Requests that are gained or lost with a slot.
LEMMA AskedSlots ==
  ASSUME IInv, NEW x \in Client
  PROVE  /\ AddUpNextClient(x) => Asked' = Asked
         /\ RemoveFromUploadQueue(x) => Asked' = {r \in Asked : r.cl # x}
<1>0. queue \in [Addr -> Seq(Block)] /\ slot \in [Client -> Addr \cup {NoAddr}]
  BY DEF IInv, TypeOK
<1>1. ASSUME AddUpNextClient(x) PROVE Asked' = Asked
  <2>1. PICK a \in Addr :
          /\ slot[x] = NoAddr /\ slot'[x] = a
          /\ queue' = [queue EXCEPT ![a] = <<>>]
          /\ a # NoAddr /\ \A y \in Client : slot[y] # a
          /\ \A y \in Client : y # x => slot'[y] = slot[y]
          /\ \A y \in Client : y # x => session'[y] = session[y]
    BY <1>1, ListsOfSlots
  <2>2. \A c \in Client : c # x /\ slot[c] # NoAddr =>
          queue'[slot'[c]] = queue[slot[c]]
    BY <1>0, <2>1
  <2>3. ToSet(queue'[slot'[x]]) = {}
    BY <1>0, <2>1, QueueReads
  <2>4. ASSUME NEW r
        PROVE  Waits(r, slot', session', queue') <=> Waits(r, slot, session, queue)
    BY <2>1, <2>2, <2>3 DEF Waits
  <2> QED
    BY <2>4, AskedIs
<1>2. ASSUME RemoveFromUploadQueue(x) PROVE Asked' = {r \in Asked : r.cl # x}
  <2>1. /\ slot[x] \in Addr /\ slot'[x] = NoAddr /\ session' = session
        /\ queue' = [queue EXCEPT ![slot[x]] = <<>>]
        /\ \A y \in Client : y # x => slot'[y] = slot[y]
    BY <1>2, ListsOfSlots
  <2>2. \A c \in Client : c # x /\ slot[c] # NoAddr => slot[c] # slot[x]
    BY <2>1 DEF IInv, OneSlotEach
  <2>3. \A c \in Client : c # x /\ slot[c] # NoAddr =>
          queue'[slot'[c]] = queue[slot[c]]
    BY <1>0, <2>1, <2>2
  <2>4. ASSUME NEW r
        PROVE  Waits(r, slot', session', queue')
                 <=> Waits(r, slot, session, queue) /\ r.cl # x
    BY <2>1, <2>3 DEF Waits
  <2> QED
    BY <2>4, AskedIs
<1> QED
  BY <1>1, <1>2

\* A request that AddReqBlock appends is neither waiting nor owed.
LEMMA AskedRequests ==
  ASSUME RInv, NEW x \in Client, NEW b \in Block, AddReqBlock(x, b)
  PROVE  \/ Asked' = Asked
         \/ /\ Asked' = Asked \cup {ReqOf(x, b)} /\ ReqOf(x, b) \in Request
            /\ ReqOf(x, b) \notin Asked \cup Owed
<1> USE DEF RInv
<1>1. CASE queue' = queue
  BY <1>1, RequestFacts, AskedKept
<1>2. CASE /\ slot[x] \in Addr /\ slot[x] # NoAddr
           /\ b \notin done[slot[x]] /\ b \notin ToSet(queue[slot[x]])
           /\ queue' = [queue EXCEPT ![slot[x]] = Append(queue[slot[x]], b)]
  <2> DEFINE a == slot[x]
             s == [cl |-> x, ses |-> session[x], blk |-> b]
  <2>0. queue \in [Addr -> Seq(Block)] /\ slot \in [Client -> Addr \cup {NoAddr}]
    BY DEF IInv, TypeOK
  <2>1. /\ \A c \in Client : c # x /\ slot[c] # NoAddr =>
             queue'[slot[c]] = queue[slot[c]]
        /\ ToSet(queue'[a]) = ToSet(queue[a]) \cup {b}
        /\ slot' = slot /\ session' = session
    <3>1. \A c \in Client : c # x /\ slot[c] # NoAddr => slot[c] # slot[x]
      BY <1>2 DEF IInv, OneSlotEach
    <3>2. queue'[a] = Append(queue[a], b)
      BY <1>2, <2>0
    <3>3. ToSet(queue'[a]) = ToSet(queue[a]) \cup {b}
      BY <1>2, <2>0, <3>2, QueueReads
    <3> QED
      BY <1>2, <2>0, <3>1, <3>3, RequestFacts
  <2>2. ASSUME NEW r
        PROVE  Waits(r, slot, session, queue') <=> Waits(r, slot, session, queue) \/ r = s
    BY <1>2, <2>1 DEF Waits
  <2>3. Asked' = Asked \cup {s}
    BY <2>1, <2>2, AskedIs
  <2>4. s \notin Asked
    <3>1. ~Waits(s, slot, session, queue)
      BY <1>2 DEF Waits
    <3> QED
      BY <3>1, AskedIs
  <2>5. s \notin Owed
    <3> SUFFICES ASSUME NEW y \in pendingIO \cup Sending, y.req = s PROVE FALSE
      BY DEF Owed, Sending
    <3> QED
      BY <1>2 DEF Taken
  <2>6. s \in Request
    <3>1. session[x] \in 1..MaxSession
      BY <1>2, SwitchesAssumption DEF IInv, OneSlotEach, TypeOK
    <3> QED
      BY <3>1 DEF Request
  <2> QED
    BY <2>3, <2>4, <2>5, <2>6 DEF ReqOf
<1> QED
  BY RequestFacts, <1>1, <1>2

\* ReadFile takes the first request of a slot, once.
LEMMA AskedTaken ==
  ASSUME RInv, ReadFile, ReadStarted
  PROVE  NewRead.req \in Asked /\ Asked' = Asked \ {NewRead.req}
<1> USE DEF RInv
<1> DEFINE c == Owner(at)
           b == Head(queue[at])
           s == [cl |-> c, ses |-> session[c], blk |-> b]
<1>1. /\ at \in Addr /\ at # NoAddr /\ c \in Client /\ slot[c] = at
      /\ queue[at] \in Seq(Block) /\ queue[at] # <<>>
      /\ queue' = [queue EXCEPT ![at] = Tail(queue[at])]
      /\ UNCHANGED <<slot, session>>
  BY StartFacts
<1>2. NewRead.req = s
  BY DEF NewRead, ReqOf
<1>3. queue'[at] = Tail(queue[at])
      /\ \A y \in Client : y # c /\ slot[y] # NoAddr => queue'[slot[y]] = queue[slot[y]]
  <2>1. \A y \in Client : y # c /\ slot[y] # NoAddr => slot[y] # at
    BY <1>1 DEF IInv, OneSlotEach
  <2> QED
    BY <1>1, <2>1 DEF IInv, TypeOK
<1>4. ToSet(queue[at]) = ToSet(queue'[at]) \cup {b} /\ b \notin ToSet(queue'[at])
  BY <1>1, <1>3, QueueReads DEF QueueIsFresh
<1> HIDE DEF c, b
<1>5. Waits(s, slot, session, queue)
  BY <1>1, <1>4 DEF Waits
<1>6. ASSUME NEW r
      PROVE  Waits(r, slot, session, queue') <=> Waits(r, slot, session, queue) /\ r # s
  BY <1>1, <1>3, <1>4 DEF Waits
<1> QED
  BY <1>1, <1>2, <1>5, <1>6, AskedIs

LEMMA OwedIs ==
  /\ Owed = {x.req : x \in pendingIO \cup Sending}
  /\ Owed' = {x.req : x \in (pendingIO' \cup Sending')}
BY DEF Owed, Sending

LEMMA OwedKept ==
  ASSUME UNCHANGED <<pendingIO, cur, dpc>>
  PROVE  Owed' = Owed
BY DEF Owed

\* The slots: a request is asked, or a client is given up.
LEMMA SlotsKeepPromise ==
  ASSUME RInv, NEW x \in Client
  PROVE  /\ AddUpNextClient(x) => UNCHANGED Promise!vars
         /\ RemoveFromUploadQueue(x) /\ UNCHANGED <<pendingIO, cur, dpc>> =>
              Promise!Close(x)
         /\ \A b \in Block : AddReqBlock(x, b) =>
              UNCHANGED Promise!vars \/ \E r \in Request : Promise!Ask(r)
         /\ LoseSocket(x) \/ SendFileData(x) => Promise!Send(x)
<1> USE DEF RInv
<1>1. ASSUME AddUpNextClient(x) PROVE UNCHANGED Promise!vars
  <2>1. Asked' = Asked /\ sockQ' = sockQ /\ Owed' = Owed
    BY <1>1, AskedSlots, ListsOfSlots, OwedKept
  <2> QED
    BY <2>1 DEF Promise!vars
<1>2. ASSUME RemoveFromUploadQueue(x), UNCHANGED <<pendingIO, cur, dpc>>
      PROVE  Promise!Close(x)
  <2>1. /\ Asked' = {r \in Asked : r.cl # x} /\ Owed' = Owed
        /\ sockQ' = [sockQ EXCEPT ![x] = {}]
    BY <1>2, AskedSlots, ListsOfSlots, OwedKept
  <2> QED
    BY <2>1 DEF Promise!Close
<1>3. ASSUME NEW b \in Block, AddReqBlock(x, b)
      PROVE  UNCHANGED Promise!vars \/ \E r \in Request : Promise!Ask(r)
  <2>1. Owed' = Owed /\ sockQ' = sockQ
    BY <1>3, RequestFacts, OwedKept
  <2>2. CASE Asked' = Asked
    BY <2>1, <2>2 DEF Promise!vars
  <2>3. CASE /\ Asked' = Asked \cup {ReqOf(x, b)} /\ ReqOf(x, b) \in Request
             /\ ReqOf(x, b) \notin Asked \cup Owed
    <3>1. Promise!Ask(ReqOf(x, b))
      BY <2>1, <2>3 DEF Promise!Ask
    <3> QED
      BY <2>3, <3>1
  <2> QED
    BY <1>3, <2>2, <2>3, AskedRequests
<1>4. ASSUME LoseSocket(x) \/ SendFileData(x) PROVE Promise!Send(x)
  <2>1. Asked' = Asked /\ Owed' = Owed
    <3>1. UNCHANGED <<slot, session, queue, pendingIO, cur, dpc>>
      BY <1>4 DEF LoseSocket, SendFileData, slotVars, ioVars, diskVars
    <3> QED
      BY <3>1, AskedKept, OwedKept
  <2>2. \E S \in SUBSET sockQ[x] : sockQ' = [sockQ EXCEPT ![x] = @ \ S]
    <3>1. CASE LoseSocket(x)
      <4>1. sockQ' = [sockQ EXCEPT ![x] = {}]
        BY <3>1 DEF LoseSocket
      <4>2. sockQ' = [sockQ EXCEPT ![x] = sockQ[x] \ sockQ[x]]
        BY <4>1
      <4> QED
        BY <4>2
    <3>2. CASE SendFileData(x)
      <4>1. PICK r \in sockQ[x] : sockQ' = [sockQ EXCEPT ![x] = @ \ {r}]
        BY <3>2 DEF SendFileData
      <4>2. {r} \in SUBSET sockQ[x]
        OBVIOUS
      <4> QED
        BY <4>1, <4>2
    <3> QED
      BY <1>4, <3>1, <3>2
  <2> QED
    BY <2>1, <2>2 DEF Promise!Send
<1> QED
  BY <1>1, <1>2, <1>3, <1>4

\* SendPackets: the data is delivered, or its client has no socket now.
LEMMA SendKeepsPromise ==
  ASSUME RInv, SentToRequester, SendPackets
  PROVE  \/ \E r \in Request : Promise!Deliver(r)
         \/ \E S \in SUBSET Owed : Promise!Drop(S)
<1> USE DEF RInv
<1> DEFINE r == cur.rd.req
<1>1. /\ dpc = "send" /\ to = {r.cl} /\ pendingIO' = pendingIO /\ dpc' = "poll"
      /\ UNCHANGED <<slot, session, queue>>
  BY DEF SendPackets, SentToRequester, slotVars, ioVars
<1>2. Asked' = Asked
  BY <1>1, AskedKept
<1>3. Sending = {cur.rd} /\ Sending' = {}
  BY <1>1 DEF Sending
<1>4. r \in Request /\ r.cl \in Client
  BY <1>3, ReadTypes
<1>5. \A x \in pendingIO : x.req # r
  BY <1>3 DEF DistinctReads
<1>6. r \in Owed /\ Owed' = Owed \ {r}
  <2>1. Owed' = {x.req : x \in pendingIO}
    BY <1>1, <1>3, OwedIs
  <2>2. Owed = {x.req : x \in pendingIO} \cup {r}
    BY <1>3, OwedIs
  <2> QED
    BY <1>5, <2>1, <2>2
<1>7. sockQ' = [c \in Client |-> IF c \in to /\ connected[c]
                                 THEN sockQ[c] \cup {r} ELSE sockQ[c]]
  BY DEF SendPackets
<1>8. sockQ = [c \in Client |-> sockQ[c]]
  BY DEF IInv, TypeOK
<1> HIDE DEF r
<1>9. CASE connected[r.cl]
  <2>1. sockQ' = [sockQ EXCEPT ![r.cl] = @ \cup {r}]
    BY <1>1, <1>4, <1>7, <1>8, <1>9
  <2>2. Promise!Deliver(r)
    BY <1>2, <1>6, <2>1 DEF Promise!Deliver
  <2> QED
    BY <1>4, <2>2
<1>10. CASE ~connected[r.cl]
  <2>1. sockQ' = sockQ
    BY <1>1, <1>7, <1>8, <1>10
  <2>2. Promise!Drop({r}) /\ {r} \in SUBSET Owed
    BY <1>2, <1>6, <2>1 DEF Promise!Drop
  <2> QED
    BY <2>2
<1> QED
  BY <1>9, <1>10

LEMMA PromiseStep ==
  ASSUME RInv, FoundIsRequester, SentToRequester, [Next]_vars
  PROVE  [Promise!Next]_(Promise!vars)
<1> USE DEF RInv
<1>0. Promise!Clients = Client
  BY DEF Promise!Clients, IInv, TypeOK
<1>1. ASSUME NEW x \in Client,
             \/ AddUpNextClient(x) \/ LoseSocket(x) \/ SendFileData(x)
             \/ RemoveFromUploadQueue(x) /\ UNCHANGED <<pendingIO, cur, dpc>>
             \/ \E b \in Block : AddReqBlock(x, b)
      PROVE  Promise!Next \/ UNCHANGED Promise!vars
  <2>1. \/ UNCHANGED Promise!vars
        \/ Promise!Close(x) \/ Promise!Send(x)
        \/ \E r \in Request : Promise!Ask(r)
    BY <1>1, SlotsKeepPromise
  <2> QED
    BY <1>0, <2>1 DEF Promise!Next
<1>2. CASE SendPackets
  BY <1>2, SendKeepsPromise DEF Promise!Next
<1>3. CASE ReadFile /\ ReadStarted
  <2>1. NewRead.req \in Asked /\ Asked' = Asked \ {NewRead.req}
    BY <1>3, AskedTaken
  <2>2. /\ pendingIO' = pendingIO \cup {NewRead} /\ NewRead \in Read /\ sockQ' = sockQ
        /\ Sending = {} /\ Sending' = {}
    BY <1>3, StartFacts DEF Sending
  <2>3. Owed' = Owed \cup {NewRead.req}
    BY <2>2, OwedIs
  <2>4. NewRead.req \in Request
    BY <2>2 DEF Read
  <2>5. Promise!Take(NewRead.req)
    BY <2>1, <2>2, <2>3 DEF Promise!Take
  <2> QED
    BY <2>4, <2>5 DEF Promise!Next
<1>4. CASE UNCHANGED <<SlotVars, sockQ>> /\ ~(ReadFile /\ ReadStarted)
  <2>1. Asked' = Asked /\ sockQ' = sockQ
    BY <1>4, AskedKept DEF SlotVars
  <2>2. Owed' \subseteq Owed
    BY <1>4, OwedReads, OwedIs
  <2>3. Promise!Drop(Owed \ Owed')
    BY <2>1, <2>2 DEF Promise!Drop
  <2> QED
    BY <2>3 DEF Promise!Next
<1> QED
  BY SlotSteps, <1>1, <1>2, <1>3, <1>4

\* What the environment may do is settled when the behaviour begins.
LEMMA SameScenario == [Next]_vars => UNCHANGED env
<1> SUFFICES ASSUME [Next]_vars PROVE UNCHANGED env
  OBVIOUS
<1>1. ASSUME NEW c \in Client, AddUpNextClient(c) \/ EndSession(c) \/ LoseSocket(c)
                                \/ DeleteClient(c) \/ Process(c)
      PROVE  UNCHANGED env
  BY <1>1 DEF AddUpNextClient, EndSession, LoseSocket, DeleteClient, Process
<1>2. ASSUME NEW c \in Client, NEW f \in File, AskForFile(c, f) PROVE UNCHANGED env
  BY <1>2 DEF AskForFile
<1>3. ASSUME NEW c \in Client, NEW b \in Block, AddReqBlock(c, b) PROVE UNCHANGED env
  BY <1>3 DEF AddReqBlock
<1>4. ASSUME NEW f \in File,
             Unshare(f) \/ PerformFileComplete(f) \/ PerformFileCompleteEnd(f)
      PROVE  UNCHANGED env
  BY <1>4 DEF Unshare, PerformFileComplete, PerformFileCompleteEnd
<1>5. CASE EndThread \/ Main
  BY <1>5 DEF EndThread, Main, WakeUpCall, MarkNewData, Join, ProcessHead, ProcessRemove
<1>6. CASE Throttler
  BY <1>6 DEF Throttler, SendFileData, NothingToSend, ThrottlerMarks
<1>7. CASE DiskThread
  BY <1>7 DEF DiskThread, CreatePort, Wait, LockList, ScanSlot, PickBlock, AssociateFile,
      ReadFile, ScanDone, Complete, SendPackets, Poll, Rest, Recheck, Stop
<1>8. ASSUME NEW x \in inflight, IoEnds(x) PROVE UNCHANGED env
  BY <1>8 DEF IoEnds
<1>9. CASE Closed \/ UNCHANGED vars
  BY <1>9 DEF Closed, vars
<1> QED
  BY <1>1, <1>2, <1>3, <1>4, <1>5, <1>6, <1>7, <1>8, <1>9 DEF Next

(***************************************************************************)
(* The threads serve the upload slots as BlockService promises: a request  *)
(* is accepted once in its session, read at most once, and its data is put *)
(* on the socket of the client that asked, at most once, or dropped        *)
(* (AddReqBlock, StartCreateNextBlockPackage, ReadCompletionRoutine).  The *)
(* property says itself that it leaves out the scenarios with the event    *)
(* reuse, in which the lookup by address may find a stranger.              *)
(***************************************************************************)
THEOREM ThreadKeepsPromise == Spec => ImplementsPromise
<1> DEFINE I == /\ RInv
                /\ NoReuse => FoundIsRequester /\ SentToRequester
<1>1. Init => I
  BY ReadsInit DEF Init, FoundIsRequester, SentToRequester
<1>2. I /\ [Next]_vars => I'
  <2> SUFFICES ASSUME I, [Next]_vars PROVE I'
    OBVIOUS
  <2>1. NoReuse' => NoReuse
    BY SameScenario DEF NoReuse
  <2>2. CASE NoReuse
    BY <2>2, ReadsStep, RequesterStep, SentStep DEF RInv
  <2> QED
    BY <2>1, <2>2, ReadsStep
<1>3. Init => Promise!Init
  <2> SUFFICES ASSUME Init PROVE Promise!Init
    OBVIOUS
  <2>1. Asked = {} /\ Owed = {}
    BY DEF Init, Asked, Uploading, Owed
  <2>2. \A c \in DOMAIN sockQ : sockQ[c] = {}
    BY DEF Init
  <2> QED
    BY <2>1, <2>2 DEF Promise!Init, Promise!Clients
<1>4. I /\ [Next]_vars => ["reuse" \in env.may \/ Promise!Next]_(Promise!vars)
  BY PromiseStep DEF NoReuse
<1> HIDE DEF I
<1> QED
  BY <1>1, <1>2, <1>3, <1>4, PTL DEF Spec, ImplementsPromise

===============================================================================
