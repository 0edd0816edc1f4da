----------------------- MODULE PartFileWriteThreadProofs -----------------------
(***************************************************************************)
(* Theorems about PartFileWriteThread, for every set of items, preference  *)
(* and set of faults.                                                      *)
(*                                                                         *)
(* The argument: a request that was handed over is in exactly one place (a *)
(* list, the system, the completion port, or the hands of the thread), an  *)
(* item in such a place is PENDING, and the main thread touches an item    *)
(* only when it is not PENDING.                                            *)
(***************************************************************************)
EXTENDS PartFileWriteThread, FiniteSetTheorems, SequenceTheorems, TLAPS

\* The extra byte is not handed over before the flush that allocates the file.
ExtraOnce == ~allocated => Extra \notin Held

\* A packet of a full write is about bytes that are in the file.
FullWrite(p) == p.kind = "io" /\ p.ok /\ p.of \in Item => p.of \in onDisk
FullWritesOnDisk ==
  /\ \A n \in DOMAIN port : FullWrite(port[n])
  /\ InHand # {} => FullWrite(cur)

\* Every write that was started and has no result yet is counted.
Outstanding == inflight \cup Queued \cup InHand
AllCounted == Cardinality(Outstanding) <= iWrites

IInv ==
  /\ TypeOK /\ HeldOnce /\ HeldIsPending /\ ExtraOnce
  /\ FullWritesOnDisk /\ WrittenIsOnDisk /\ AllCounted

-------------------------------------------------------------------------------
(***************************************************************************)
(* Lists and the completion port                                           *)
(***************************************************************************)

\* Appending adds the new element, and a list without it stays distinct.
LEMMA AppendElements ==
  ASSUME NEW S, NEW s \in Seq(S), NEW e \in S
  PROVE  /\ Append(s, e) \in Seq(S)
         /\ Elements(Append(s, e)) = Elements(s) \cup {e}
<1>1. /\ Append(s, e) \in Seq(S)
      /\ DOMAIN Append(s, e) = 1..(Len(s) + 1)
      /\ \A n \in 1..Len(s) : Append(s, e)[n] = s[n]
      /\ Append(s, e)[Len(s) + 1] = e
  OBVIOUS
<1>2. DOMAIN s = 1..Len(s) /\ Len(s) \in Nat
  OBVIOUS
<1>3. 1..(Len(s) + 1) = 1..Len(s) \cup {Len(s) + 1}
  BY <1>2
<1> QED
  BY <1>1, <1>2, <1>3 DEF Elements

\* Taking the head off a list leaves a distinct list without it.
LEMMA TailElements ==
  ASSUME NEW S, NEW s \in Seq(S), s # <<>>
  PROVE  /\ Tail(s) \in Seq(S) /\ Head(s) \in S
         /\ Elements(s) = {Head(s)} \cup Elements(Tail(s))
         /\ Distinct(s) => /\ Distinct(Tail(s))
                           /\ Head(s) \notin Elements(Tail(s))
<1>1. /\ Len(s) \in Nat /\ Len(s) > 0 /\ DOMAIN s = 1..Len(s)
      /\ Tail(s) \in Seq(S) /\ DOMAIN Tail(s) = 1..(Len(s) - 1)
      /\ \A n \in 1..(Len(s) - 1) : Tail(s)[n] = s[n + 1]
      /\ Head(s) = s[1] /\ Head(s) \in S
  OBVIOUS
<1>2. Elements(s) \subseteq {Head(s)} \cup Elements(Tail(s))
  <2> SUFFICES ASSUME NEW n \in 1..Len(s), n # 1
               PROVE  s[n] \in Elements(Tail(s))
    BY <1>1 DEF Elements
  <2>1. n - 1 \in 1..(Len(s) - 1) /\ Tail(s)[n - 1] = s[n]
    BY <1>1
  <2> QED
    BY <2>1, <1>1 DEF Elements
<1>3. Elements(Tail(s)) \subseteq Elements(s)
  <2> SUFFICES ASSUME NEW n \in 1..(Len(s) - 1)
               PROVE  s[n + 1] \in Elements(s)
    BY <1>1 DEF Elements
  <2>1. n + 1 \in 1..Len(s)
    BY <1>1
  <2> QED
    BY <2>1, <1>1 DEF Elements
<1>4. ASSUME Distinct(s) PROVE Distinct(Tail(s))
  BY <1>1, <1>4 DEF Distinct
<1>5. ASSUME Distinct(s) PROVE Head(s) \notin Elements(Tail(s))
  <2> SUFFICES ASSUME NEW n \in 1..(Len(s) - 1) PROVE s[n + 1] # s[1]
    BY <1>1 DEF Elements
  <2> QED
    BY <1>1, <1>5 DEF Distinct
<1> QED
  BY <1>1, <1>2, <1>3, <1>4, <1>5 DEF Elements

\* Two distinct lists with nothing in common make one distinct list.
LEMMA ConcatElements ==
  ASSUME NEW S, NEW s \in Seq(S), NEW t \in Seq(S)
  PROVE  /\ s \o t \in Seq(S)
         /\ Elements(s \o t) = Elements(s) \cup Elements(t)
         /\ /\ Distinct(s) /\ Distinct(t)
            /\ Elements(s) \cap Elements(t) = {}
            => Distinct(s \o t)
<1> DEFINE u == s \o t
<1>1. /\ Len(s) \in Nat /\ Len(t) \in Nat
      /\ DOMAIN s = 1..Len(s) /\ DOMAIN t = 1..Len(t)
      /\ u \in Seq(S) /\ DOMAIN u = 1..(Len(s) + Len(t))
      /\ \A n \in 1..Len(s) : u[n] = s[n]
      /\ \A n \in 1..Len(t) : u[n + Len(s)] = t[n]
  OBVIOUS
<1>2. \A n \in DOMAIN u : \/ n \in DOMAIN s /\ u[n] = s[n]
                          \/ n - Len(s) \in DOMAIN t /\ u[n] = t[n - Len(s)]
  <2> TAKE n \in DOMAIN u
  <2>1. CASE n <= Len(s)
    BY <1>1, <2>1
  <2>2. CASE n > Len(s)
    <3>1. n - Len(s) \in 1..Len(t) /\ (n - Len(s)) + Len(s) = n
      BY <1>1, <2>2
    <3> QED
      BY <1>1, <3>1
  <2> QED
    BY <1>1, <2>1, <2>2
<1>3. Elements(u) = Elements(s) \cup Elements(t)
  <2>1. Elements(u) \subseteq Elements(s) \cup Elements(t)
    BY <1>2 DEF Elements
  <2>2. Elements(s) \subseteq Elements(u)
    <3> SUFFICES ASSUME NEW n \in 1..Len(s) PROVE s[n] \in Elements(u)
      BY <1>1 DEF Elements
    <3>1. n \in DOMAIN u
      BY <1>1
    <3> QED
      BY <1>1, <3>1 DEF Elements
  <2>3. Elements(t) \subseteq Elements(u)
    <3> SUFFICES ASSUME NEW n \in 1..Len(t) PROVE t[n] \in Elements(u)
      BY <1>1 DEF Elements
    <3>1. n + Len(s) \in DOMAIN u
      BY <1>1
    <3> QED
      BY <1>1, <3>1 DEF Elements
  <2> QED
    BY <2>1, <2>2, <2>3
<1>4. ASSUME Distinct(s), Distinct(t), Elements(s) \cap Elements(t) = {}
      PROVE  Distinct(u)
  <2> SUFFICES ASSUME NEW m \in DOMAIN u, NEW n \in DOMAIN u, m # n
               PROVE  u[m] # u[n]
    BY DEF Distinct
  <2>1. CASE m \in DOMAIN s /\ u[m] = s[m] /\ n \in DOMAIN s /\ u[n] = s[n]
    BY <2>1, <1>4 DEF Distinct
  <2>2. CASE /\ m - Len(s) \in DOMAIN t /\ u[m] = t[m - Len(s)]
             /\ n - Len(s) \in DOMAIN t /\ u[n] = t[n - Len(s)]
    <3>1. m - Len(s) # n - Len(s)
      BY <1>1
    <3> QED
      BY <2>2, <3>1, <1>4 DEF Distinct
  <2>3. CASE u[m] \in Elements(s) /\ u[n] \in Elements(t)
    BY <2>3, <1>4
  <2>4. CASE u[n] \in Elements(s) /\ u[m] \in Elements(t)
    BY <2>4, <1>4
  <2> QED
    BY <1>2, <2>1, <2>2, <2>3, <2>4 DEF Elements
<1> QED
  BY <1>1, <1>3, <1>4

\* An empty list has no elements.
LEMMA EmptyElements == Elements(<<>>) = {}
BY DEF Elements

\* The last element of a list, and the others.
LEMMA LastElement ==
  ASSUME NEW S, NEW s \in Seq(S), s # <<>>
  PROVE  LET front == SubSeq(s, 1, Len(s) - 1)
             last  == s[Len(s)]
         IN /\ front \in Seq(S) /\ last \in S
            /\ Elements(s) = Elements(front) \cup {last}
            /\ Distinct(s) => Distinct(front) /\ last \notin Elements(front)
<1> DEFINE front == SubSeq(s, 1, Len(s) - 1)
<1>1. /\ Len(s) \in Nat /\ Len(s) > 0 /\ DOMAIN s = 1..Len(s)
      /\ front \in Seq(S) /\ DOMAIN front = 1..(Len(s) - 1)
      /\ \A n \in 1..(Len(s) - 1) : front[n] = s[n]
      /\ s[Len(s)] \in S
  OBVIOUS
<1>2. Elements(s) = Elements(front) \cup {s[Len(s)]}
  <2>1. \A n \in DOMAIN s : n = Len(s) \/ n \in DOMAIN front
    BY <1>1
  <2>2. \A n \in DOMAIN front : n \in DOMAIN s
    BY <1>1
  <2>3. Len(s) \in DOMAIN s
    BY <1>1
  <2> QED
    BY <1>1, <2>1, <2>2, <2>3 DEF Elements
<1>3. ASSUME Distinct(s) PROVE Distinct(front)
  BY <1>1, <1>3 DEF Distinct
<1>4. ASSUME Distinct(s) PROVE s[Len(s)] \notin Elements(front)
  <2>1. ASSUME NEW L \in Nat, NEW n \in 1..(L - 1)
        PROVE  n \in 1..L /\ L \in 1..L /\ n # L
    BY <2>1
  <2>2. \A n \in 1..(Len(s) - 1) : s[n] # s[Len(s)]
    BY <1>1, <1>4, <2>1 DEF Distinct
  <2> QED
    BY <1>1, <2>2 DEF Elements
<1> QED
  BY <1>1, <1>2, <1>3, <1>4

\* A list of one element.
LEMMA OneElement ==
  ASSUME NEW S, NEW e \in S
  PROVE  <<e>> \in Seq(S) /\ Elements(<<e>>) = {e} /\ Distinct(<<e>>)
BY DEF Elements, Distinct

\* One element, a list and another list, with nothing in common.
LEMMA Surround ==
  ASSUME NEW S, NEW x \in S, NEW s \in Seq(S), NEW t \in Seq(S),
         Distinct(s), Distinct(t), Elements(s) \cap Elements(t) = {},
         x \notin Elements(s) \cup Elements(t)
  PROVE  /\ <<x>> \o s \o t \in Seq(S) /\ Distinct(<<x>> \o s \o t)
         /\ Elements(<<x>> \o s \o t) = {x} \cup Elements(s) \cup Elements(t)
<1>1. PICK e \in Seq(S) : e = <<x>> /\ Elements(e) = {x} /\ Distinct(e)
  BY OneElement
<1>2. Elements(e) \cap Elements(s) = {}
  BY <1>1
<1>3. PICK u \in Seq(S) :
        u = e \o s /\ Elements(u) = Elements(e) \cup Elements(s) /\ Distinct(u)
  <2>1. Distinct(e)
    BY <1>1
  <2> QED
    BY <1>2, <2>1, ConcatElements
<1>4. Elements(u) \cap Elements(t) = {}
  BY <1>1, <1>3
<1>5. /\ u \o t \in Seq(S) /\ Distinct(u \o t)
      /\ Elements(u \o t) = Elements(u) \cup Elements(t)
  <2>1. Distinct(u)
    BY <1>3
  <2> QED
    BY <1>4, <2>1, ConcatElements
<1> QED
  BY <1>1, <1>3, <1>5

\* A function on 1..n is a list.
LEMMA FunctionIsSeq ==
  ASSUME NEW S, NEW T, S \subseteq T, NEW n \in Nat, NEW s \in [1..n -> S]
  PROVE  s \in Seq(T) /\ DOMAIN s = 1..n /\ \A k \in DOMAIN s : s[k] \in S
<1>1. DOMAIN s = 1..n /\ \A k \in 1..n : s[k] \in S
  OBVIOUS
<1>2. s \in [1..n -> T]
  BY <1>1
<1>3. s \in Seq(T)
  <2>1. Seq(T) = UNION {[1..k -> T] : k \in Nat}
    BY SeqDef
  <2>2. [1..n -> T] \in {[1..k -> T] : k \in Nat}
    BY Zenon
  <2> QED
    BY <1>2, <2>1, <2>2, Zenon
<1> QED
  BY <1>1, <1>3

\* A packet that is queued shows up in QueuedIn if it ends a write.
LEMMA AppendPacket ==
  ASSUME NEW q \in Seq(Packet), NEW p \in Packet
  PROVE  /\ Append(q, p) \in Seq(Packet)
         /\ QueuedIn(Append(q, p)) = IF Ended(p) THEN QueuedIn(q) \cup {p.of}
                                                 ELSE QueuedIn(q)
         /\ EndOnce(q) /\ (Ended(p) => p.of \notin QueuedIn(q))
              => EndOnce(Append(q, p))
         /\ \A n \in DOMAIN Append(q, p) :
              Append(q, p)[n] = p \/ (n \in DOMAIN q /\ Append(q, p)[n] = q[n])
<1>1. /\ Append(q, p) \in Seq(Packet)
      /\ DOMAIN Append(q, p) = 1..(Len(q) + 1)
      /\ DOMAIN q = 1..Len(q) /\ Len(q) \in Nat
      /\ \A n \in 1..Len(q) : Append(q, p)[n] = q[n]
      /\ Append(q, p)[Len(q) + 1] = p
  OBVIOUS
<1>2. Elements(Append(q, p)) = Elements(q) \cup {p}
  BY AppendElements
<1>3. QueuedIn(Append(q, p)) = IF Ended(p) THEN QueuedIn(q) \cup {p.of}
                                           ELSE QueuedIn(q)
  BY <1>2 DEF QueuedIn
<1>4. \A n \in DOMAIN Append(q, p) : n = Len(q) + 1 \/ n \in DOMAIN q
  BY <1>1
<1>5. \A n \in DOMAIN q : Ended(q[n]) => q[n].of \in QueuedIn(q)
  BY DEF QueuedIn, Elements
<1>6. ASSUME EndOnce(q), Ended(p) => p.of \notin QueuedIn(q)
      PROVE  EndOnce(Append(q, p))
  BY <1>1, <1>4, <1>5, <1>6 DEF EndOnce
<1> QED
  BY <1>1, <1>3, <1>4, <1>6

\* The packet that is taken from the port is gone from QueuedIn.
LEMMA TakePacket ==
  ASSUME NEW q \in Seq(Packet), q # <<>>
  PROVE  /\ Tail(q) \in Seq(Packet) /\ Head(q) \in Packet
         /\ QueuedIn(Tail(q)) \subseteq QueuedIn(q)
         /\ Ended(Head(q)) => Head(q).of \in QueuedIn(q)
         /\ EndOnce(q) => EndOnce(Tail(q))
         /\ EndOnce(q) /\ Ended(Head(q)) => Head(q).of \notin QueuedIn(Tail(q))
         /\ 1 \in DOMAIN q /\ Head(q) = q[1]
         /\ \A n \in DOMAIN Tail(q) : \E m \in DOMAIN q : Tail(q)[n] = q[m]
<1>1. /\ Len(q) \in Nat /\ Len(q) > 0 /\ DOMAIN q = 1..Len(q)
      /\ Tail(q) \in Seq(Packet) /\ DOMAIN Tail(q) = 1..(Len(q) - 1)
      /\ \A n \in 1..(Len(q) - 1) : n + 1 \in 1..Len(q) /\ Tail(q)[n] = q[n + 1]
      /\ Head(q) = q[1] /\ Head(q) \in Packet
  OBVIOUS
<1>2. Elements(q) = {Head(q)} \cup Elements(Tail(q))
  BY TailElements
<1>3. QueuedIn(Tail(q)) \subseteq QueuedIn(q)
  BY <1>2 DEF QueuedIn
<1>4. Ended(Head(q)) => Head(q).of \in QueuedIn(q)
  BY <1>2 DEF QueuedIn
<1>5. ASSUME EndOnce(q) PROVE EndOnce(Tail(q))
  BY <1>1, <1>5 DEF EndOnce
<1>6. ASSUME EndOnce(q), Ended(Head(q))
      PROVE  Head(q).of \notin QueuedIn(Tail(q))
  <2> SUFFICES ASSUME NEW n \in 1..(Len(q) - 1), Ended(q[n + 1])
               PROVE  q[n + 1].of # q[1].of
    BY <1>1 DEF QueuedIn, Elements
  <2>1. n + 1 \in DOMAIN q /\ 1 \in DOMAIN q /\ n + 1 # 1
    BY <1>1
  <2> QED
    BY <1>1, <1>6, <2>1 DEF EndOnce
<1>7. 1 \in DOMAIN q
  BY <1>1
<1> QED
  BY <1>1, <1>3, <1>4, <1>5, <1>6, <1>7
-------------------------------------------------------------------------------
(***************************************************************************)
(* The inductive invariant                                                 *)
(***************************************************************************)

\* Requests are finitely many, so what is outstanding can be counted.
LEMMA FiniteRequests ==
  /\ IsFiniteSet(Request)
  /\ \A S \in SUBSET Request : IsFiniteSet(S) /\ Cardinality(S) \in Nat
<1>1. IsFiniteSet(Item) /\ IsFiniteSet({Extra})
  BY ItemAssumption, FS_EmptySet, FS_Singleton
<1>2. IsFiniteSet(Request)
  BY <1>1, FS_Union DEF Request
<1> QED
  BY <1>2, FS_Subset, FS_CardinalityType

\* The places hold requests.
LEMMA HeldType == TypeOK => Outstanding \subseteq Request /\ Held \subseteq Request
<1> SUFFICES ASSUME TypeOK PROVE Outstanding \subseteq Request /\ Held \subseteq Request
  OBVIOUS
<1>1. Elements(flushList) \subseteq Request /\ Elements(listToWrite) \subseteq Request
  BY DEF TypeOK, Elements
<1>2. Elements(port) \subseteq Packet
  BY DEF TypeOK, Elements
<1>3. Queued \subseteq Request
  BY <1>2 DEF Queued, QueuedIn, Packet
<1>4. InHand \subseteq Request
  BY DEF InHand, TypeOK, Packet
<1> QED
  BY <1>1, <1>3, <1>4 DEF Held, Outstanding, TypeOK

(***************************************************************************)
(* A step that takes nothing into a place, and changes no item that is in  *)
(* one, keeps the invariant.                                               *)
(***************************************************************************)
LEMMA PlacesShrink ==
  ASSUME IInv, TypeOK',
         Distinct(flushList'), Distinct(listToWrite'), EndOnce(port'),
         Elements(flushList') \subseteq Elements(flushList),
         Elements(listToWrite') \subseteq Elements(listToWrite),
         inflight' \subseteq inflight, Queued' \subseteq Queued,
         InHand' \subseteq InHand,
         \A n \in DOMAIN port' : \/ ~Ended(port'[n])
                                 \/ \E m \in DOMAIN port : port'[n] = port[m],
         InHand' # {} => cur' = cur,
         allocated => allocated', onDisk' = onDisk, iWrites' = iWrites,
         \A i \in Item : \/ flushed'[i] = flushed[i]
                         \/ i \notin Held' /\ flushed'[i] # "WRITTEN"
  PROVE  IInv'
<1> USE DEF IInv
<1>1. Held' \subseteq Held
  BY DEF Held
<1>2. HeldOnce'
  BY DEF HeldOnce
<1>3. HeldIsPending'
  BY <1>1 DEF HeldIsPending
<1>4. ExtraOnce'
  BY <1>1 DEF ExtraOnce, TypeOK
<1>5. FullWritesOnDisk'
  BY DEF FullWritesOnDisk, FullWrite, Ended
<1>6. WrittenIsOnDisk'
  BY DEF WrittenIsOnDisk
<1>7. AllCounted'
  <2>1. Outstanding' \subseteq Outstanding
    BY DEF Outstanding
  <2>2. IsFiniteSet(Outstanding) /\ Cardinality(Outstanding) \in Nat
    BY HeldType, FiniteRequests
  <2>3. Cardinality(Outstanding') <= Cardinality(Outstanding)
        /\ Cardinality(Outstanding') \in Nat
    BY <2>1, <2>2, FS_Subset, FS_CardinalityType
  <2> QED
    BY <2>2, <2>3 DEF AllCounted, TypeOK
<1> QED
  BY <1>2, <1>3, <1>4, <1>5, <1>6, <1>7

\* The packets that are posted and queued; only those of a write end one.
LEMMA PacketTypes ==
  /\ Wakeup \in Packet /\ ~Ended(Wakeup)
  /\ Exit \in Packet /\ ~Ended(Exit)
  /\ \A x \in Request, ok \in BOOLEAN :
       /\ Io(x, ok) \in Packet /\ Io(x, ok).of = x /\ Ended(Io(x, ok))
       /\ Io(x, ok).ok = ok
  /\ \A x \in Request :
       /\ Failed(x) \in Packet /\ Failed(x).of = x /\ Ended(Failed(x))
       /\ ~Failed(x).ok /\ Failed(x).kind = "failed"
<1>1. Extra \in Request
  BY DEF Request
<1> QED
  BY <1>1 DEF Wakeup, Exit, Io, Failed, Packet, Ended

\* The initial state.
LEMMA InitInv == Init => IInv
<1> SUFFICES ASSUME Init PROVE IInv
  OBVIOUS
<1>1. TypeOK
  <2>1. <<>> \in Seq(Request) /\ <<>> \in Seq(Packet)
    OBVIOUS
  <2> QED
    BY <2>1, PacketTypes DEF Init, TypeOK, FlushState
<1>2. Elements(flushList) = {} /\ Elements(listToWrite) = {} /\ Elements(port) = {}
  BY DEF Init, Elements
<1>3. Queued = {} /\ InHand = {} /\ inflight = {}
  BY <1>2 DEF Init, Queued, QueuedIn, InHand
<1>4. Held = {} /\ Outstanding = {}
  BY <1>2, <1>3 DEF Held, Outstanding
<1>5. HeldOnce
  BY <1>2, <1>3 DEF Init, HeldOnce, Distinct, EndOnce
<1>6. HeldIsPending /\ ExtraOnce /\ WrittenIsOnDisk
  BY <1>4 DEF Init, HeldIsPending, ExtraOnce, WrittenIsOnDisk
<1>7. FullWritesOnDisk
  BY <1>3 DEF Init, FullWritesOnDisk
<1>8. AllCounted
  BY <1>4, FS_EmptySet DEF Init, AllCounted
<1> QED
  BY <1>1, <1>5, <1>6, <1>7, <1>8 DEF IInv
-------------------------------------------------------------------------------
(***************************************************************************)
(* Steps of the main thread                                                *)
(***************************************************************************)

\* Steps that neither touch an item nor queue a packet.
LEMMA QuietSteps ==
  ASSUME IInv,
         CheckFlushList \/ MarkNewData \/ ScanDone \/ Join \/ CreatePort
         \/ Rest \/ Closed \/ UNCHANGED vars
  PROVE  IInv'
<1> USE DEF vars, itemVars, fileVars, listVars, mainVars, threadVars
<1>1. TypeOK'
  <2>1. Buffered \subseteq Item
    BY DEF Buffered
  <2>2. CASE CheckFlushList
    BY <2>1, <2>2 DEF IInv, TypeOK, CheckFlushList
  <2>5. CASE MarkNewData
    BY <2>1, <2>5 DEF IInv, TypeOK, MarkNewData
  <2>6. CASE ScanDone \/ Join
    BY <2>6 DEF IInv, TypeOK, ScanDone, Join
  <2>3. CASE CreatePort \/ Rest
    BY <2>3 DEF IInv, TypeOK, CreatePort, Rest
  <2>4. CASE Closed \/ UNCHANGED vars
    BY <2>4 DEF IInv, TypeOK, Closed
  <2> QED
    BY <2>2, <2>3, <2>4, <2>5, <2>6
<1>2. /\ UNCHANGED <<flushed, onDisk, allocated, iWrites, flushList,
                     listToWrite, inflight, port, cur>>
      /\ InHand' \subseteq InHand
  BY DEF CheckFlushList, MarkNewData, ScanDone, Join, CreatePort, Rest, Closed,
         InHand
<1> QED
  BY <1>1, <1>2, PlacesShrink DEF IInv, HeldOnce, Queued

\* Steps that may queue a packet without a request, and touch no item.
LEMMA PostingSteps ==
  ASSUME IInv, WakeUpCall \/ EndThread \/ Recheck
  PROVE  IInv'
<1> USE DEF itemVars, fileVars, listVars, mainVars, threadVars
<1>1. PICK p \in {Wakeup, Exit} : port' = port \/ port' = Append(port, p)
  BY DEF WakeUpCall, EndThread, Recheck
<1>2. p \in Packet /\ ~Ended(p) /\ port \in Seq(Packet)
  BY PacketTypes DEF IInv, TypeOK
<1>3. /\ port' \in Seq(Packet) /\ QueuedIn(port') = QueuedIn(port)
      /\ EndOnce(port')
      /\ \A n \in DOMAIN port' : \/ ~Ended(port'[n])
                                 \/ \E m \in DOMAIN port : port'[n] = port[m]
  <2>1. EndOnce(port)
    BY DEF IInv, HeldOnce
  <2>2. CASE port' = port
    BY <1>2, <2>1, <2>2
  <2>3. CASE port' = Append(port, p)
    <3>1. /\ Append(port, p) \in Seq(Packet)
          /\ QueuedIn(Append(port, p)) = QueuedIn(port)
          /\ EndOnce(Append(port, p))
      BY <1>2, <2>1, AppendPacket
    <3>2. \A n \in DOMAIN Append(port, p) :
            Append(port, p)[n] = p
              \/ (n \in DOMAIN port /\ Append(port, p)[n] = port[n])
      BY <1>2, AppendPacket
    <3> QED
      BY <1>2, <2>3, <3>1, <3>2
  <2> QED
    BY <1>1, <2>2, <2>3
<1>4. TypeOK'
  <2>1. CASE WakeUpCall
    BY <1>3, <2>1 DEF IInv, TypeOK, WakeUpCall, Buffered
  <2>2. CASE EndThread
    BY <1>3, <2>2 DEF IInv, TypeOK, EndThread, Buffered
  <2>3. CASE Recheck
    BY <1>3, <2>3 DEF IInv, TypeOK, Recheck, Buffered
  <2> QED
    BY <2>1, <2>2, <2>3
<1>5. /\ UNCHANGED <<flushed, onDisk, allocated, iWrites, flushList,
                     listToWrite, inflight, cur>>
      /\ InHand' \subseteq InHand
  BY DEF WakeUpCall, EndThread, Recheck, InHand
<1> QED
  BY <1>3, <1>4, <1>5, PlacesShrink DEF IInv, HeldOnce, Queued

\* The scan changes only items the thread has reported on.
LEMMA ScanItemInv ==
  ASSUME IInv, NEW i \in Item, ScanItem(i)
  PROVE  IInv'
<1> USE DEF itemVars, fileVars, listVars, mainVars, threadVars
<1>1. /\ UNCHANGED <<onDisk, allocated, iWrites, flushList, listToWrite,
                     inflight, port, cur, wpc>>
      /\ InHand' = InHand
  BY DEF ScanItem, InHand
<1>2. /\ flushed' \in [Item -> FlushState]
      /\ \A j \in Item : \/ flushed'[j] = flushed[j]
                         \/ flushed[j] # "PENDING" /\ flushed'[j] # "WRITTEN"
  <2>1. flushed \in [Item -> FlushState]
    BY DEF IInv, TypeOK
  <2>2. \/ flushed' = [flushed EXCEPT ![i] = "NONE"] /\ flushed[i] = "WRITTEN"
        \/ flushed' = [flushed EXCEPT ![i] = "READY"] /\ flushed[i] = "ERROR"
        \/ flushed' = flushed
    BY DEF ScanItem
  <2> QED
    BY <2>1, <2>2 DEF FlushState
<1>3. TypeOK'
  <2>1. /\ todo' \subseteq Item /\ mpc' \in {mpc, "idle"}
        /\ fileError' \in BOOLEAN
    BY DEF IInv, TypeOK, ScanItem
  <2>2. UNCHANGED <<hWrite, pendingIO, freed, run, newData>>
    BY DEF ScanItem
  <2> QED
    BY <1>1, <1>2, <2>1, <2>2 DEF IInv, TypeOK
<1>4. Held' = Held
  BY <1>1 DEF Held, Queued
<1>5. \A j \in Item : \/ flushed'[j] = flushed[j]
                      \/ j \notin Held' /\ flushed'[j] # "WRITTEN"
  BY <1>2, <1>4 DEF IInv, HeldIsPending
<1> QED
  BY <1>1, <1>3, <1>5, PlacesShrink DEF IInv, HeldOnce, Queued

\* New data is for an item that is in no place.
LEMMA WriteToBufferInv ==
  ASSUME IInv, NEW i \in Item, WriteToBuffer(i)
  PROVE  IInv'
<1> USE DEF itemVars, fileVars, listVars, mainVars, threadVars
<1>1. /\ UNCHANGED <<allocated, iWrites, flushList, listToWrite, inflight,
                     port, cur, wpc>>
      /\ InHand' = InHand /\ Queued' = Queued
      /\ onDisk' = onDisk \ {i} /\ flushed[i] = "NONE"
      /\ flushed' = [flushed EXCEPT ![i] = "READY"]
  BY DEF WriteToBuffer, InHand, Queued
<1>2. TypeOK'
  BY <1>1 DEF IInv, TypeOK, WriteToBuffer, FlushState
<1>3. Held' = Held /\ Outstanding' = Outstanding
  BY <1>1 DEF Held, Outstanding
<1>4. i \notin Held
  BY <1>1 DEF IInv, HeldIsPending
<1>5. HeldOnce' /\ ExtraOnce' /\ AllCounted'
  BY <1>1, <1>3 DEF IInv, HeldOnce, ExtraOnce, AllCounted
<1>6. HeldIsPending' /\ WrittenIsOnDisk'
  BY <1>1, <1>3, <1>4 DEF IInv, HeldIsPending, WrittenIsOnDisk, TypeOK
<1>7. FullWritesOnDisk'
  <2>1. \A n \in DOMAIN port : Ended(port[n]) => port[n].of # i
    BY <1>4 DEF Held, Queued, QueuedIn, Elements
  <2>2. InHand # {} => cur.of # i
    BY <1>4 DEF Held, InHand
  <2> QED
    BY <1>1, <2>1, <2>2 DEF IInv, FullWritesOnDisk, FullWrite, Ended
<1> QED
  BY <1>2, <1>5, <1>6, <1>7 DEF IInv
-------------------------------------------------------------------------------
(***************************************************************************)
(* Steps that move a request from one place to the next                    *)
(***************************************************************************)

\* A move that takes in no new request and changes no item.
LEMMA PlacesMove ==
  ASSUME IInv, TypeOK', HeldOnce', FullWritesOnDisk',
         Held' \subseteq Held, Outstanding' \subseteq Outstanding,
         onDisk \subseteq onDisk',
         UNCHANGED <<flushed, allocated, iWrites>>
  PROVE  IInv'
<1> USE DEF IInv
<1>1. HeldIsPending' /\ ExtraOnce' /\ WrittenIsOnDisk'
  BY DEF HeldIsPending, ExtraOnce, WrittenIsOnDisk
<1>2. AllCounted'
  <2>1. IsFiniteSet(Outstanding) /\ Cardinality(Outstanding) \in Nat
    BY HeldType, FiniteRequests
  <2>2. Cardinality(Outstanding') <= Cardinality(Outstanding)
        /\ Cardinality(Outstanding') \in Nat
    BY <2>1, FS_Subset, FS_CardinalityType
  <2> QED
    BY <2>1, <2>2 DEF AllCounted, TypeOK
<1> QED
  BY <1>1, <1>2

\* A packet goes from the port into the hands of the thread.
LEMMA WaitInv ==
  ASSUME IInv, Wait
  PROVE  IInv'
<1> USE DEF itemVars, fileVars, listVars, mainVars, threadVars
<1> DEFINE p == Head(port)
<1>1. port \in Seq(Packet) /\ port # <<>> /\ port' = Tail(port) /\ EndOnce(port)
  BY DEF IInv, TypeOK, HeldOnce, Wait
<1>2. /\ Tail(port) \in Seq(Packet) /\ p \in Packet
      /\ QueuedIn(Tail(port)) \subseteq QueuedIn(port)
      /\ Ended(p) => p.of \in QueuedIn(port)
      /\ EndOnce(Tail(port))
      /\ Ended(p) => p.of \notin QueuedIn(Tail(port))
      /\ 1 \in DOMAIN port /\ p = port[1]
      /\ \A n \in DOMAIN Tail(port) : \E m \in DOMAIN port : Tail(port)[n] = port[m]
  BY <1>1, TakePacket
<1>3. /\ UNCHANGED <<flushed, onDisk, allocated, iWrites, flushList,
                     listToWrite, inflight>>
      /\ InHand = {} /\ Queued' \subseteq Queued
      /\ InHand' \subseteq {p.of} /\ (InHand' # {} => Ended(p) /\ cur' = p)
  BY <1>1, <1>2 DEF Wait, InHand, Queued, Ended
<1>4. TypeOK'
  BY <1>1, <1>2 DEF IInv, TypeOK, Wait
<1>5. InHand' \subseteq Queued /\ Queued' \cap InHand' = {}
  BY <1>1, <1>2, <1>3 DEF Queued
<1>6. Held' \subseteq Held /\ Outstanding' \subseteq Outstanding
  BY <1>3, <1>5 DEF Held, Outstanding
<1>7. HeldOnce'
  BY <1>1, <1>2, <1>3, <1>5 DEF IInv, HeldOnce
<1>8. FullWritesOnDisk'
  BY <1>1, <1>2, <1>3 DEF IInv, FullWritesOnDisk, FullWrite
<1> QED
  BY <1>3, <1>4, <1>6, <1>7, <1>8, PlacesMove

\* The next packet of the inner loop.
LEMMA PollInv ==
  ASSUME IInv, Poll
  PROVE  IInv'
<1> USE DEF itemVars, fileVars, listVars, mainVars, threadVars
<1>0. /\ UNCHANGED <<flushed, onDisk, allocated, iWrites, flushList,
                     listToWrite, inflight>>
      /\ InHand = {}
  BY DEF Poll, InHand
<1>1. CASE port = <<>>
  <2>1. TypeOK'
    BY <1>1 DEF IInv, TypeOK, Poll
  <2>2. InHand' = {} /\ port' = port
    BY <1>1 DEF Poll, InHand
  <2> QED
    BY <1>0, <2>1, <2>2, PlacesShrink DEF IInv, HeldOnce, Queued
<1>2. CASE port # <<>>
  <2> DEFINE p == Head(port)
  <2>1. port \in Seq(Packet) /\ port' = Tail(port) /\ EndOnce(port)
    BY <1>2 DEF IInv, TypeOK, HeldOnce, Poll
  <2>2. /\ Tail(port) \in Seq(Packet) /\ p \in Packet
        /\ QueuedIn(Tail(port)) \subseteq QueuedIn(port)
        /\ Ended(p) => p.of \in QueuedIn(port)
        /\ EndOnce(Tail(port))
        /\ Ended(p) => p.of \notin QueuedIn(Tail(port))
        /\ 1 \in DOMAIN port /\ p = port[1]
        /\ \A n \in DOMAIN Tail(port) : \E m \in DOMAIN port : Tail(port)[n] = port[m]
    BY <1>2, <2>1, TakePacket
  <2>3. /\ Queued' \subseteq Queued
        /\ InHand' \subseteq {p.of} /\ (InHand' # {} => Ended(p) /\ cur' = p)
    BY <1>2, <2>1, <2>2 DEF Poll, InHand, Queued, Ended
  <2>4. TypeOK'
    BY <1>2, <2>1, <2>2 DEF IInv, TypeOK, Poll
  <2>5. InHand' \subseteq Queued /\ Queued' \cap InHand' = {}
    BY <2>1, <2>2, <2>3 DEF Queued
  <2>6. Held' \subseteq Held /\ Outstanding' \subseteq Outstanding
    BY <1>0, <2>3, <2>5 DEF Held, Outstanding
  <2>7. HeldOnce'
    BY <1>0, <2>1, <2>2, <2>3, <2>5 DEF IInv, HeldOnce
  <2>8. FullWritesOnDisk'
    BY <1>0, <2>1, <2>2, <2>3 DEF IInv, FullWritesOnDisk, FullWrite
  <2> QED
    BY <1>0, <2>4, <2>6, <2>7, <2>8, PlacesMove
<1> QED
  BY <1>1, <1>2

\* The thread takes over the flush list.
LEMMA MoveFlushListInv ==
  ASSUME IInv, MoveFlushList
  PROVE  IInv'
<1> USE DEF itemVars, fileVars, listVars, mainVars, threadVars
<1>1. /\ UNCHANGED <<flushed, onDisk, allocated, iWrites, inflight, port, cur>>
      /\ InHand' = InHand
      /\ listToWrite' = listToWrite \o flushList /\ flushList' = <<>>
  BY DEF MoveFlushList, InHand
<1>2. /\ flushList \in Seq(Request) /\ listToWrite \in Seq(Request)
      /\ Distinct(flushList) /\ Distinct(listToWrite)
      /\ Elements(flushList) \cap Elements(listToWrite) = {}
  BY DEF IInv, TypeOK, HeldOnce
<1>3. /\ listToWrite' \in Seq(Request) /\ Distinct(listToWrite')
      /\ Elements(listToWrite') = Elements(listToWrite) \cup Elements(flushList)
  BY <1>1, <1>2, ConcatElements
<1>4. /\ flushList' \in Seq(Request) /\ Distinct(flushList')
      /\ Elements(flushList') = {}
  BY <1>1 DEF Distinct, Elements
<1>5. TypeOK'
  BY <1>1, <1>3, <1>4 DEF IInv, TypeOK, MoveFlushList
<1>6. Held' = Held /\ Outstanding' = Outstanding /\ Queued' = Queued
  BY <1>1, <1>3, <1>4 DEF Held, Outstanding, Queued
<1>7. HeldOnce'
  BY <1>1, <1>3, <1>4, <1>6 DEF IInv, HeldOnce
<1>8. FullWritesOnDisk'
  BY <1>1 DEF IInv, FullWritesOnDisk, FullWrite
<1> QED
  BY <1>1, <1>5, <1>6, <1>7, <1>8, PlacesMove

\* The end of the thread empties the port and m_listPendingIO.
LEMMA StopInv ==
  ASSUME IInv, Stop
  PROVE  IInv'
<1> USE DEF itemVars, fileVars, listVars, mainVars, threadVars
<1>1. /\ UNCHANGED <<flushed, onDisk, allocated, iWrites, flushList,
                     listToWrite, inflight>>
      /\ InHand' = {} /\ port' = <<>>
  BY DEF Stop, InHand
<1>2. /\ port' \in Seq(Packet) /\ EndOnce(port') /\ DOMAIN port' = {}
      /\ Elements(port') = {}
  BY <1>1 DEF EndOnce, Elements
<1>3. Queued' = {}
  BY <1>2 DEF Queued, QueuedIn
<1>4. TypeOK'
  BY <1>2 DEF IInv, TypeOK, Stop
<1> QED
  BY <1>1, <1>2, <1>3, <1>4, PlacesShrink DEF IInv, HeldOnce

\* The system finishes a write: its packet is queued, or it is dropped.
LEMMA IoEndsInv ==
  ASSUME IInv, NEW x \in Request, IoEnds(x)
  PROVE  IInv'
<1> USE DEF itemVars, fileVars, listVars, mainVars, threadVars
<1>1. PICK p \in {Io(x, TRUE), Io(x, FALSE), Failed(x)} :
        /\ onDisk' = IF p.ok /\ x \in Item THEN onDisk \cup {x} ELSE onDisk
        /\ port' = IF wpc = "ended" THEN port ELSE Append(port, p)
  BY DEF IoEnds
<1>2. /\ p \in Packet /\ Ended(p) /\ p.of = x
      /\ port \in Seq(Packet) /\ EndOnce(port)
  <2>1. p \in Packet /\ Ended(p) /\ p.of = x
    BY PacketTypes
  <2> QED
    BY <2>1 DEF IInv, TypeOK, HeldOnce
<1>3. /\ UNCHANGED <<flushed, allocated, iWrites, flushList, listToWrite, cur>>
      /\ InHand' = InHand /\ inflight' = inflight \ {x} /\ x \in inflight
  BY DEF IoEnds, InHand
<1>4. x \notin Queued
  BY <1>3 DEF IInv, HeldOnce
<1>5. /\ Append(port, p) \in Seq(Packet) /\ EndOnce(Append(port, p))
      /\ QueuedIn(Append(port, p)) = QueuedIn(port) \cup {x}
      /\ \A n \in DOMAIN Append(port, p) :
           \/ Append(port, p)[n] = p
           \/ n \in DOMAIN port /\ Append(port, p)[n] = port[n]
  BY <1>2, <1>4, AppendPacket DEF Queued
<1>6. /\ port' \in Seq(Packet) /\ EndOnce(port')
      /\ Queued' \subseteq Queued \cup {x}
      /\ \A n \in DOMAIN port' :
           port'[n] = p \/ (n \in DOMAIN port /\ port'[n] = port[n])
  BY <1>1, <1>2, <1>5 DEF Queued
<1>7. TypeOK'
  <2>1. onDisk' \subseteq Item /\ inflight' \subseteq Request
    BY <1>1, <1>3 DEF IInv, TypeOK
  <2>2. UNCHANGED <<hWrite, fileError, pendingIO, freed, run, newData, mpc,
                    todo, wpc>>
    BY DEF IoEnds
  <2> QED
    BY <1>3, <1>6, <2>1, <2>2 DEF IInv, TypeOK
<1>8. Held' \subseteq Held /\ Outstanding' \subseteq Outstanding
  BY <1>3, <1>6 DEF Held, Outstanding
<1>9. HeldOnce'
  BY <1>3, <1>6 DEF IInv, HeldOnce
<1>10. FullWritesOnDisk'
  BY <1>1, <1>2, <1>3, <1>6 DEF IInv, FullWritesOnDisk, FullWrite
<1> QED
  BY <1>1, <1>3, <1>7, <1>8, <1>9, <1>10, PlacesMove
\* One round of WriteBuffers, whatever comes of it.
LEMMA WriteBuffersInv ==
  ASSUME IInv, WriteBuffers
  PROVE  IInv'
<1> USE DEF itemVars, fileVars, listVars, mainVars, threadVars
<1>1. /\ UNCHANGED <<onDisk, allocated, flushList, freed, run, newData, port,
                     mpc, todo, cur>>
      /\ Queued' = Queued /\ InHand' = InHand
  BY DEF WriteBuffers, WriteNoFile, WriteStarted, WriteRefused, InHand, Queued
<1>2. CASE listToWrite = <<>> \/ ~IsRunning
  <2>1. UNCHANGED <<flushed, iWrites, listToWrite, inflight>>
    BY <1>2 DEF WriteBuffers
  <2>2. TypeOK'
    BY <1>1, <1>2 DEF IInv, TypeOK, WriteBuffers
  <2> QED
    BY <1>1, <2>1, <2>2, PlacesShrink DEF IInv, HeldOnce
<1>3. CASE listToWrite # <<>> /\ IsRunning
  <2> DEFINE x == Next1
  <2>1. /\ listToWrite \in Seq(Request) /\ listToWrite # <<>>
        /\ Distinct(listToWrite)
        /\ listToWrite' = Tail(listToWrite)
        /\ WriteNoFile \/ WriteStarted \/ WriteRefused
    BY <1>3 DEF IInv, TypeOK, HeldOnce, WriteBuffers
  <2>2. /\ Tail(listToWrite) \in Seq(Request) /\ x \in Request
        /\ Elements(listToWrite) = {x} \cup Elements(Tail(listToWrite))
        /\ Distinct(Tail(listToWrite))
        /\ x \notin Elements(Tail(listToWrite))
    BY <2>1, TailElements DEF Next1
  <2>3. /\ listToWrite' \in Seq(Request) /\ Distinct(listToWrite')
        /\ Elements(listToWrite') = Elements(listToWrite) \ {x}
        /\ x \in Elements(listToWrite)
    BY <2>1, <2>2
  <2>4. x \notin Elements(flushList) \cup inflight \cup Queued \cup InHand
    BY <2>3 DEF IInv, HeldOnce
  <2>5. CASE WriteNoFile
    <3>1. UNCHANGED <<flushed, iWrites, inflight>>
      BY <2>5 DEF WriteNoFile
    <3>2. TypeOK'
      BY <1>1, <2>3, <2>5 DEF IInv, TypeOK, WriteNoFile
    <3> QED
      BY <1>1, <2>3, <3>1, <3>2, PlacesShrink DEF IInv, HeldOnce
  <2>6. CASE WriteRefused
    <3>1. /\ UNCHANGED <<iWrites, inflight>>
          /\ flushed' = [i \in Item |-> IF i = x THEN "ERROR" ELSE flushed[i]]
      BY <2>6 DEF WriteRefused
    <3>2. TypeOK'
      <4>1. flushed' \in [Item -> FlushState]
        BY <3>1 DEF IInv, TypeOK, FlushState
      <4>2. /\ hWrite' = FALSE /\ wpc' = "complete"
            /\ UNCHANGED <<iWrites, fileError, pendingIO, inflight>>
        BY <2>6 DEF WriteRefused
      <4> QED
        BY <1>1, <2>3, <4>1, <4>2 DEF IInv, TypeOK
    <3>3. x \notin Held'
      BY <1>1, <2>3, <2>4, <3>1 DEF Held
    <3>4. \A i \in Item : \/ flushed'[i] = flushed[i]
                          \/ i \notin Held' /\ flushed'[i] # "WRITTEN"
      BY <3>1, <3>3
    <3> QED
      BY <1>1, <2>3, <3>1, <3>2, <3>4, PlacesShrink DEF IInv, HeldOnce
  <2>7. CASE WriteStarted
    <3>1. /\ UNCHANGED flushed
          /\ inflight' = inflight \cup {x} /\ iWrites' = iWrites + 1
      BY <2>7 DEF WriteStarted
    <3>2. TypeOK'
      <4>1. /\ hWrite' = TRUE /\ wpc' = "write" /\ UNCHANGED fileError
            /\ pendingIO' = pendingIO \cup {x}
        BY <2>7 DEF WriteStarted
      <4> QED
        BY <1>1, <2>2, <2>3, <3>1, <4>1 DEF IInv, TypeOK
    <3>3. Held' = Held /\ Outstanding' = Outstanding \cup {x}
      BY <1>1, <2>3, <3>1 DEF Held, Outstanding
    <3>4. HeldOnce'
      BY <1>1, <2>3, <2>4, <3>1 DEF IInv, HeldOnce
    <3>5. HeldIsPending' /\ ExtraOnce' /\ WrittenIsOnDisk'
      BY <1>1, <3>1, <3>3 DEF IInv, HeldIsPending, ExtraOnce, WrittenIsOnDisk
    <3>6. FullWritesOnDisk'
      BY <1>1 DEF IInv, FullWritesOnDisk, FullWrite
    <3>7. AllCounted'
      <4>1. IsFiniteSet(Outstanding) /\ Cardinality(Outstanding) \in Nat
        BY HeldType, FiniteRequests DEF IInv
      <4>2. x \notin Outstanding
        BY <2>4 DEF Outstanding
      <4>3. Cardinality(Outstanding \cup {x}) = Cardinality(Outstanding) + 1
        BY <4>1, <4>2, FS_AddElement
      <4> QED
        BY <3>1, <3>3, <4>1, <4>3 DEF IInv, AllCounted, TypeOK
    <3> QED
      BY <3>2, <3>4, <3>5, <3>6, <3>7 DEF IInv
  <2> QED
    BY <2>1, <2>5, <2>6, <2>7
<1> QED
  BY <1>2, <1>3

\* The completion routine reports on the request in hand, and only on it.
LEMMA CompleteInv ==
  ASSUME IInv, Complete
  PROVE  IInv'
<1> USE DEF itemVars, fileVars, listVars, mainVars, threadVars
<1>1. /\ UNCHANGED <<onDisk, allocated, fileError, flushList, listToWrite, run,
                     newData, port, inflight, mpc, todo, cur>>
      /\ Queued' = Queued /\ InHand' = {}
      /\ wpc' \in {"stop", "poll"}
  BY DEF Complete, InHand, Queued
<1>2. CASE cur.kind # "io" \/ ~IsRunning
  <2>1. UNCHANGED <<flushed, iWrites>>
    BY <1>2 DEF Complete, CompleteIo
  <2>2. TypeOK'
    <3>1. /\ hWrite' \in BOOLEAN /\ UNCHANGED pendingIO
          /\ freed' \subseteq Request
      BY <1>2 DEF Complete, CompleteIo, IInv, TypeOK, Packet
    <3> QED
      BY <1>1, <2>1, <3>1 DEF IInv, TypeOK
  <2> QED
    BY <1>1, <2>1, <2>2, PlacesShrink DEF IInv, HeldOnce
<1>3. CASE cur.kind = "io" /\ IsRunning
  <2> DEFINE x == cur.of
  <2>1. /\ pendingIO' = pendingIO \ {x} /\ UNCHANGED <<hWrite, freed>>
        /\ iWrites' = IF cur.ok THEN iWrites - 1 ELSE iWrites
        /\ flushed' = [i \in Item |->
                         IF i # x THEN flushed[i]
                         ELSE IF cur.ok THEN "WRITTEN" ELSE "ERROR"]
        /\ InHand = {x} /\ x \in Request
    BY <1>3 DEF Complete, CompleteIo, InHand, IInv, TypeOK, Packet
  <2>2. x \in Outstanding /\ Outstanding' = Outstanding \ {x}
    BY <1>1, <2>1 DEF Outstanding, IInv, HeldOnce
  <2>3. Held' = Held \ {x}
    BY <1>1, <2>1 DEF Held, IInv, HeldOnce
  <2>4. /\ IsFiniteSet(Outstanding) /\ Cardinality(Outstanding) \in Nat
        /\ Cardinality(Outstanding \ {x}) = Cardinality(Outstanding) - 1
        /\ Cardinality(Outstanding \ {x}) \in Nat
    <3>1. IsFiniteSet(Outstanding) /\ Cardinality(Outstanding) \in Nat
      BY HeldType, FiniteRequests DEF IInv
    <3>2. IsFiniteSet(Outstanding \ {x})
          /\ Cardinality(Outstanding \ {x}) = Cardinality(Outstanding) - 1
      BY <2>2, <3>1, FS_RemoveElement
    <3> QED
      BY <3>1, <3>2, FS_CardinalityType
  <2>5. iWrites' \in Nat /\ AllCounted'
    <3>1. iWrites \in Nat /\ Cardinality(Outstanding) <= iWrites
      BY DEF IInv, TypeOK, AllCounted
    <3>2. iWrites' = iWrites - 1 \/ iWrites' = iWrites
      BY <2>1
    <3> QED
      BY <2>2, <2>4, <3>1, <3>2 DEF AllCounted
  <2>6. TypeOK'
    <3>1. flushed' \in [Item -> FlushState]
      BY <2>1 DEF IInv, TypeOK, FlushState
    <3> QED
      BY <1>1, <2>1, <2>5, <3>1 DEF IInv, TypeOK
  <2>7. HeldOnce'
    BY <1>1 DEF IInv, HeldOnce
  <2>8. HeldIsPending' /\ ExtraOnce'
    BY <1>1, <2>1, <2>3 DEF IInv, HeldIsPending, ExtraOnce
  <2>9. WrittenIsOnDisk'
    <3>1. FullWrite(cur)
      BY <2>1 DEF IInv, FullWritesOnDisk
    <3> QED
      BY <1>1, <1>3, <2>1, <3>1 DEF IInv, WrittenIsOnDisk, FullWrite
  <2>10. FullWritesOnDisk'
    BY <1>1 DEF IInv, FullWritesOnDisk, FullWrite
  <2> QED
    BY <2>5, <2>6, <2>7, <2>8, <2>9, <2>10 DEF IInv
<1> QED
  BY <1>2, <1>3
\* The READY items in list order are a list of distinct items.
LEMMA ReadyList ==
  ASSUME NEW ready, ready = {i \in Item : flushed[i] = "READY"},
         NEW s \in [1..Cardinality(ready) -> ready], InOffsetOrder(s, ready)
  PROVE  /\ s \in Seq(Request) /\ Elements(s) = ready /\ Distinct(s)
         /\ ready \subseteq Item
<1>1. ready \subseteq Request /\ ready \subseteq Item
  BY DEF Request
<1>2. Cardinality(ready) \in Nat
  BY <1>1, FiniteRequests
<1>3. /\ s \in Seq(Request) /\ DOMAIN s = 1..Cardinality(ready)
      /\ \A k \in DOMAIN s : s[k] \in ready
  BY <1>1, <1>2, FunctionIsSeq
<1>4. ready \subseteq Int
  <2>1. Item \subseteq Int
    BY ItemAssumption
  <2> QED
    BY <2>1, <1>1
<1>5. \A k \in DOMAIN s : s[k] \in Int
  BY <1>4, <1>3, Zenon
<1>6. /\ Elements(s) = ready
      /\ \A m, n \in DOMAIN s : m < n => s[m] < s[n]
  BY DEF InOffsetOrder
<1>7. Distinct(s)
  <2> SUFFICES ASSUME NEW m \in DOMAIN s, NEW n \in DOMAIN s, m # n
               PROVE  s[m] # s[n]
    BY DEF Distinct
  <2>1. m \in Int /\ n \in Int
    BY <1>2, <1>3
  <2>2. m < n \/ n < m
    BY <2>1
  <2>3. s[m] < s[n] \/ s[n] < s[m]
    BY <1>6, <2>2
  <2> QED
    BY <1>5, <2>3
<1> QED
  BY <1>1, <1>3, <1>6, <1>7

\* What FlushBuffer hands over: the READY items, and the extra byte once.
LEMMA FlushedList ==
  ASSUME IInv, FlushBuffer, IsRunning,
         NEW ready, ready = {i \in Item : flushed[i] = "READY"}
  PROVE  /\ flushList' \in Seq(Request) /\ Distinct(flushList')
         /\ Elements(flushList')
              \subseteq Elements(flushList) \cup ready
                          \cup (IF ready # {} /\ ~allocated THEN {Extra} ELSE {})
<1>1. PICK s \in [1..Cardinality(ready) -> ready] :
        /\ InOffsetOrder(s, ready)
        /\ \/ flushList' = flushList \o s
           \/ /\ ready # {} /\ ~allocated
              /\ flushList' = <<Extra>> \o flushList \o s
           \/ /\ ready # {}
              /\ flushList' = <<s[Len(s)]>> \o flushList
                                \o SubSeq(s, 1, Len(s) - 1)
  BY DEF FlushBuffer
<1>2. /\ s \in Seq(Request) /\ Elements(s) = ready /\ Distinct(s)
      /\ ready \subseteq Item
  BY <1>1, ReadyList
<1>3. /\ flushList \in Seq(Request) /\ Distinct(flushList)
      /\ Elements(flushList) \cap ready = {}
  BY <1>2 DEF IInv, TypeOK, HeldOnce, HeldIsPending, Held
<1>4. CASE flushList' = flushList \o s
  BY <1>2, <1>3, <1>4, ConcatElements
<1>5. CASE ready # {} /\ ~allocated /\ flushList' = <<Extra>> \o flushList \o s
  <2>1. /\ Extra \in Request /\ Extra \notin ready
        /\ Extra \notin Elements(flushList)
    BY <1>2, <1>5, ItemAssumption DEF IInv, ExtraOnce, Held, Request, Extra
  <2> QED
    BY <1>2, <1>3, <1>5, <2>1, Surround
<1>6. CASE /\ ready # {}
           /\ flushList' = <<s[Len(s)]>> \o flushList
                             \o SubSeq(s, 1, Len(s) - 1)
  <2>1. s # <<>>
    BY <1>2, <1>6, EmptyElements
  <2>2. PICK front \in Seq(Request), last \in Request :
          /\ front = SubSeq(s, 1, Len(s) - 1) /\ last = s[Len(s)]
          /\ ready = Elements(front) \cup {last}
          /\ Distinct(front) /\ last \notin Elements(front)
    BY <1>2, <2>1, LastElement
  <2>3. /\ Elements(flushList) \cap Elements(front) = {}
        /\ last \notin Elements(flushList) \cup Elements(front)
    BY <1>3, <2>2
  <2>4. flushList' = <<last>> \o flushList \o front
    BY <1>6, <2>2
  <2>5. Distinct(flushList) /\ Distinct(front) /\ flushList \in Seq(Request)
    BY <1>3, <2>2
  <2>6. /\ <<last>> \o flushList \o front \in Seq(Request)
        /\ Distinct(<<last>> \o flushList \o front)
        /\ Elements(<<last>> \o flushList \o front)
             = {last} \cup Elements(flushList) \cup Elements(front)
    BY <2>3, <2>5, Surround
  <2> QED
    BY <2>2, <2>4, <2>6
<1> QED
  BY <1>1, <1>4, <1>5, <1>6

\* Handing over takes items that are in no place, and marks them PENDING.
LEMMA FlushBufferInv ==
  ASSUME IInv, FlushBuffer
  PROVE  IInv'
<1> USE DEF itemVars, fileVars, listVars, mainVars, threadVars
<1>1. /\ UNCHANGED <<onDisk, iWrites, hWrite, fileError, listToWrite, pendingIO,
                     freed, run, newData, port, inflight, cur, wpc>>
      /\ Queued' = Queued /\ InHand' = InHand /\ Outstanding' = Outstanding
      /\ allocated' = (allocated \/ Buffered # {})
  BY DEF FlushBuffer, InHand, Queued, Outstanding
<1>2. allocated' \in BOOLEAN /\ (allocated => allocated')
  BY <1>1 DEF IInv, TypeOK
<1>3. CASE ~IsRunning
  <2>1. UNCHANGED <<flushed, flushList>> /\ mpc' = "scan" /\ todo' \subseteq Item
    BY <1>3 DEF FlushBuffer, Buffered
  <2>2. TypeOK'
    BY <1>1, <1>2, <2>1 DEF IInv, TypeOK
  <2> QED
    BY <1>1, <1>2, <2>1, <2>2, PlacesShrink DEF IInv, HeldOnce
<1>4. CASE IsRunning
  <2> DEFINE ready == {i \in Item : flushed[i] = "READY"}
  <2>1. /\ flushed' = [i \in Item |->
                         IF i \in ready THEN "PENDING" ELSE flushed[i]]
        /\ mpc' = "check" /\ todo' = {}
    BY <1>4 DEF FlushBuffer
  <2>2. /\ flushList' \in Seq(Request) /\ Distinct(flushList')
        /\ Elements(flushList')
             \subseteq Elements(flushList) \cup ready
                         \cup (IF ready # {} /\ ~allocated THEN {Extra} ELSE {})
    BY <1>4, FlushedList
  <2>3. TypeOK'
    <3>1. flushed' \in [Item -> FlushState]
      BY <2>1 DEF IInv, TypeOK, FlushState
    <3> QED
      BY <1>1, <1>2, <2>1, <2>2, <3>1 DEF IInv, TypeOK
  <2>4. ready \cap Held = {} /\ Extra \notin ready
    BY ItemAssumption DEF IInv, HeldIsPending, Extra
  <2>5. ~allocated => Extra \notin Held
    BY DEF IInv, ExtraOnce
  <2>6. Held' \subseteq Held \cup ready
                 \cup (IF ready # {} /\ ~allocated THEN {Extra} ELSE {})
    BY <1>1, <2>2 DEF Held
  <2>7. HeldOnce'
    <3>1. Elements(flushList')
            \cap (Elements(listToWrite) \cup inflight \cup Queued \cup InHand) = {}
      BY <2>2, <2>4, <2>5 DEF IInv, HeldOnce, Held
    <3> QED
      BY <1>1, <2>2, <3>1 DEF IInv, HeldOnce
  <2>8. HeldIsPending'
    <3>1. Extra \notin Item
      BY ItemAssumption DEF Extra
    <3>2. \A i \in Item : i \in Held' => i \in Held \/ i \in ready
      BY <2>6, <3>1
    <3> QED
      BY <2>1, <3>2 DEF IInv, HeldIsPending
  <2>9. ExtraOnce'
    <3> SUFFICES ASSUME ~allocated' PROVE Extra \notin Held'
      BY DEF ExtraOnce
    <3>1. ~allocated /\ ready = {}
      BY <1>1 DEF Buffered
    <3> QED
      BY <2>5, <2>6, <3>1
  <2>10. FullWritesOnDisk'
    BY <1>1 DEF IInv, FullWritesOnDisk, FullWrite
  <2>11. WrittenIsOnDisk'
    BY <1>1, <2>1 DEF IInv, WrittenIsOnDisk
  <2>12. AllCounted'
    BY <1>1 DEF IInv, AllCounted
  <2> QED
    BY <2>3, <2>7, <2>8, <2>9, <2>10, <2>11, <2>12 DEF IInv
<1> QED
  BY <1>3, <1>4

\* Every step keeps the invariant.
LEMMA NextInv == IInv /\ [Next]_vars => IInv'
<1> SUFFICES ASSUME IInv, [Next]_vars PROVE IInv'
  OBVIOUS
<1>1. CASE \E i \in Item : WriteToBuffer(i)
  BY <1>1, WriteToBufferInv
<1>2. CASE FlushBuffer
  BY <1>2, FlushBufferInv
<1>3. CASE WakeUpCall \/ EndThread \/ Recheck
  BY <1>3, PostingSteps
<1>4. CASE \E i \in Item : ScanItem(i)
  BY <1>4, ScanItemInv
<1>5. CASE CheckFlushList \/ MarkNewData \/ ScanDone \/ Join \/ CreatePort
           \/ Rest \/ Closed \/ UNCHANGED vars
  BY <1>5, QuietSteps
<1>6. CASE Wait
  BY <1>6, WaitInv
<1>7. CASE MoveFlushList
  BY <1>7, MoveFlushListInv
<1>8. CASE WriteBuffers
  BY <1>8, WriteBuffersInv
<1>9. CASE Complete
  BY <1>9, CompleteInv
<1>10. CASE Poll
  BY <1>10, PollInv
<1>11. CASE Stop
  BY <1>11, StopInv
<1>12. CASE \E x \in Request : IoEnds(x)
  BY <1>12, IoEndsInv
<1> QED
  BY <1>1, <1>2, <1>3, <1>4, <1>5, <1>6, <1>7, <1>8, <1>9, <1>10, <1>11, <1>12
     DEF Next, Main, WriteThread
LEMMA InvariantHolds == Spec => []IInv
<1>1. Init => IInv
  BY InitInv
<1>2. IInv /\ [Next]_vars => IInv'
  BY NextInv
<1> QED
  BY <1>1, <1>2, PTL DEF Spec

(***************************************************************************)
(* Every variable has its type: m_iWrites in particular never falls below  *)
(* zero, whichever writes fail.                                            *)
(***************************************************************************)
THEOREM TypeCorrect == Spec => []TypeOK
<1>1. IInv => TypeOK
  BY DEF IInv
<1> QED
  BY <1>1, InvariantHolds, PTL

(***************************************************************************)
(* A request is in at most one of m_FlushList, m_listToWrite, the system's *)
(* hands, the completion port and the thread's hands.                      *)
(***************************************************************************)
THEOREM RequestsHeldOnce == Spec => []HeldOnce
<1>1. IInv => HeldOnce
  BY DEF IInv
<1> QED
  BY <1>1, InvariantHolds, PTL

(***************************************************************************)
(* The main thread never deletes or resends a buffer that the write thread *)
(* or the system still points to.                                          *)
(***************************************************************************)
THEOREM BuffersOutliveWrites == Spec => []HeldIsPending
<1>1. IInv => HeldIsPending
  BY DEF IInv
<1> QED
  BY <1>1, InvariantHolds, PTL

(***************************************************************************)
(* An item that is reported as written is in the part file.                *)
(***************************************************************************)
THEOREM WrittenIsWritten == Spec => []WrittenIsOnDisk
<1>1. IInv => WrittenIsOnDisk
  BY DEF IInv
<1> QED
  BY <1>1, InvariantHolds, PTL

-------------------------------------------------------------------------------
(***************************************************************************)
(* The thread keeps the promise of AsyncWrite                              *)
(***************************************************************************)

\* Every step of the thread is a step of the promise, or none.
LEMMA StepImplements == IInv /\ [Next]_vars => [Promise!Next]_(Promise!vars)
<1> SUFFICES ASSUME IInv, [Next]_vars
             PROVE  [Promise!Next]_(Promise!vars)
  OBVIOUS
<1> USE DEF itemVars, fileVars, listVars, mainVars, threadVars
<1>0. flushed \in [Item -> FlushState] /\ onDisk \subseteq Item
  BY DEF IInv, TypeOK
<1>1. CASE UNCHANGED <<flushed, onDisk>>
  BY <1>1 DEF Promise!vars
<1>2. ASSUME NEW i \in Item, WriteToBuffer(i) PROVE Promise!Next
  BY <1>2 DEF WriteToBuffer, Promise!Next, Promise!Buffer
<1>3. CASE FlushBuffer
  <2>1. CASE flushed' = flushed
    BY <1>3, <2>1 DEF FlushBuffer, Promise!vars
  <2>2. CASE flushed' # flushed
    <3>1. /\ UNCHANGED onDisk
          /\ flushed' = [i \in Item |-> IF flushed[i] = "READY"
                                        THEN "PENDING" ELSE flushed[i]]
      BY <1>3, <2>2 DEF FlushBuffer
    <3>2. \E i \in Item : flushed[i] = "READY"
      BY <1>0, <2>2, <3>1
    <3> QED
      BY <3>1, <3>2 DEF Promise!Next, Promise!HandOver
  <2> QED
    BY <2>1, <2>2
<1>4. ASSUME NEW i \in Item, ScanItem(i)
      PROVE  [Promise!Next]_(Promise!vars)
  <2>1. UNCHANGED onDisk
    BY <1>4 DEF ScanItem
  <2>2. CASE flushed[i] = "WRITTEN" /\ flushed' = [flushed EXCEPT ![i] = "NONE"]
    <3>1. /\ \A j \in {i} : flushed[j] = "WRITTEN"
          /\ flushed' = [j \in Item |-> IF j \in {i} THEN "NONE" ELSE flushed[j]]
      BY <1>0, <2>2
    <3>2. Promise!Collect({i})
      BY <2>1, <3>1 DEF Promise!Collect
    <3> QED
      BY <3>2 DEF Promise!Next
  <2>3. CASE flushed[i] = "ERROR" /\ flushed' = [flushed EXCEPT ![i] = "READY"]
    BY <2>1, <2>3 DEF Promise!Next, Promise!Retry
  <2>4. CASE flushed' = flushed
    BY <2>1, <2>4 DEF Promise!vars
  <2> QED
    BY <1>4, <2>2, <2>3, <2>4 DEF ScanItem
<1>5. CASE WriteBuffers
  <2>1. UNCHANGED onDisk
    BY <1>5 DEF WriteBuffers
  <2>2. CASE listToWrite # <<>> /\ WriteRefused
    <3>1. flushed' = [i \in Item |-> IF i = Next1 THEN "ERROR" ELSE flushed[i]]
      BY <2>2 DEF WriteRefused
    <3>2. Next1 \in Held
      BY <2>2, TailElements DEF IInv, TypeOK, Held, Next1
    <3>3. CASE Next1 \in Item
      <4>1. flushed[Next1] = "PENDING"
        BY <3>2, <3>3 DEF IInv, HeldIsPending
      <4>2. flushed' = [flushed EXCEPT ![Next1] = "ERROR"]
        BY <1>0, <3>1, <3>3
      <4>3. Promise!Report(Next1)
        BY <2>1, <4>1, <4>2 DEF Promise!Report
      <4> QED
        BY <3>3, <4>3 DEF Promise!Next
    <3>4. CASE Next1 \notin Item
      <4>1. flushed' = flushed
        BY <1>0, <3>1, <3>4
      <4> QED
        BY <2>1, <4>1 DEF Promise!vars
    <3> QED
      BY <3>3, <3>4
  <2>3. CASE flushed' = flushed
    BY <2>1, <2>3 DEF Promise!vars
  <2> QED
    BY <1>5, <2>2, <2>3 DEF WriteBuffers, WriteNoFile, WriteStarted
<1>6. CASE Complete
  <2> DEFINE x == cur.of
  <2>1. UNCHANGED onDisk
    BY <1>6 DEF Complete
  <2>2. CASE cur.kind = "io" /\ IsRunning
    <3>1. flushed' = [i \in Item |->
                        IF i # x THEN flushed[i]
                        ELSE IF cur.ok THEN "WRITTEN" ELSE "ERROR"]
      BY <1>6, <2>2 DEF Complete, CompleteIo
    <3>2. InHand = {x}
      BY <1>6, <2>2 DEF Complete, InHand
    <3>3. CASE x \in Item
      <4>1. flushed[x] = "PENDING"
        BY <3>2, <3>3 DEF IInv, HeldIsPending, Held
      <4>2. cur.ok => x \in onDisk
        BY <2>2, <3>2, <3>3 DEF IInv, FullWritesOnDisk, FullWrite
      <4>3. \/ cur.ok /\ flushed' = [flushed EXCEPT ![x] = "WRITTEN"]
            \/ flushed' = [flushed EXCEPT ![x] = "ERROR"]
        BY <1>0, <3>1, <3>3
      <4>4. Promise!Report(x)
        BY <2>1, <4>1, <4>2, <4>3 DEF Promise!Report
      <4> QED
        BY <3>3, <4>4 DEF Promise!Next
    <3>4. CASE x \notin Item
      <4>1. flushed' = flushed
        BY <1>0, <3>1, <3>4
      <4> QED
        BY <2>1, <4>1 DEF Promise!vars
    <3> QED
      BY <3>3, <3>4
  <2>3. CASE ~(cur.kind = "io" /\ IsRunning)
    <3>1. flushed' = flushed
      BY <1>6, <2>3 DEF Complete, CompleteIo
    <3> QED
      BY <2>1, <3>1 DEF Promise!vars
  <2> QED
    BY <2>2, <2>3
<1>7. ASSUME NEW x \in Request, IoEnds(x)
      PROVE  [Promise!Next]_(Promise!vars)
  <2>1. /\ UNCHANGED flushed /\ x \in inflight
        /\ onDisk' = onDisk \/ (x \in Item /\ onDisk' = onDisk \cup {x})
    BY <1>7 DEF IoEnds
  <2>2. CASE x \in Item /\ onDisk' = onDisk \cup {x}
    <3>1. flushed[x] = "PENDING"
      BY <2>1, <2>2 DEF IInv, HeldIsPending, Held
    <3>2. Promise!Persist(x)
      BY <2>1, <2>2, <3>1 DEF Promise!Persist
    <3> QED
      BY <2>2, <3>2 DEF Promise!Next
  <2>3. CASE onDisk' = onDisk
    BY <2>1, <2>3 DEF Promise!vars
  <2> QED
    BY <2>1, <2>2, <2>3
<1>8. CASE CheckFlushList \/ WakeUpCall \/ MarkNewData \/ ScanDone \/ Join
           \/ EndThread \/ Closed \/ UNCHANGED vars
  BY <1>1, <1>8 DEF CheckFlushList, WakeUpCall, MarkNewData, ScanDone, Join,
                    EndThread, Closed, vars
<1>9. CASE CreatePort \/ Wait \/ MoveFlushList \/ Poll \/ Rest \/ Recheck \/ Stop
  BY <1>1, <1>9 DEF CreatePort, Wait, MoveFlushList, Poll, Rest, Recheck, Stop
<1> QED
  BY <1>2, <1>3, <1>4, <1>5, <1>6, <1>7, <1>8, <1>9
     DEF Next, Main, WriteThread

(***************************************************************************)
(* The refinement: with its lists, wake-ups, failures and its end, the     *)
(* write thread does to the items nothing but what AsyncWrite allows.      *)
(***************************************************************************)
THEOREM KeepsThePromise == Spec => ImplementsPromise
<1>1. Init => Promise!Init
  BY DEF Init, Promise!Init
<1>2. IInv /\ [Next]_vars => [Promise!Next]_(Promise!vars)
  BY StepImplements
<1> QED
  BY <1>1, <1>2, InvariantHolds, PTL DEF Spec, ImplementsPromise, Promise!Spec

-------------------------------------------------------------------------------
(***************************************************************************)
(* The extra byte is handed over with an item, and before it               *)
(***************************************************************************)
LastIsItem(s) == s # <<>> => s[Len(s)] # Extra
ListsEndWithItems == LastIsItem(flushList) /\ LastIsItem(listToWrite)

LEMMA LastOfLists ==
  /\ LastIsItem(<<>>)
  /\ \A s \in Seq(Request) : Extra \notin Elements(s) => LastIsItem(s)
  /\ \A s, t \in Seq(Request) :
       LastIsItem(t) /\ (t # <<>> \/ LastIsItem(s)) => LastIsItem(s \o t)
  /\ \A s \in Seq(Request) : s # <<>> /\ LastIsItem(s) => LastIsItem(Tail(s))
<1>1. ASSUME NEW s \in Seq(Request), Extra \notin Elements(s), s # <<>>
      PROVE  s[Len(s)] # Extra
  <2>1. Len(s) \in DOMAIN s
    BY <1>1
  <2> QED
    BY <1>1, <2>1 DEF Elements
<1>2. ASSUME NEW s \in Seq(Request), NEW t \in Seq(Request),
             LastIsItem(t), t # <<>> \/ LastIsItem(s)
      PROVE  LastIsItem(s \o t)
  <2>1. CASE t = <<>>
    <3>1. s \o t = s
      BY <2>1
    <3> QED
      BY <1>2, <2>1, <3>1
  <2>2. CASE t # <<>>
    <3>1. (s \o t)[Len(s \o t)] = t[Len(t)]
      BY <2>2
    <3> QED
      BY <1>2, <2>2, <3>1 DEF LastIsItem
  <2> QED
    BY <2>1, <2>2
<1>3. ASSUME NEW s \in Seq(Request), s # <<>>, LastIsItem(s)
      PROVE  LastIsItem(Tail(s))
  <2>1. Tail(s) # <<>> => Tail(s)[Len(Tail(s))] = s[Len(s)]
    BY <1>3
  <2> QED
    BY <1>3, <2>1 DEF LastIsItem
<1> QED
  BY <1>1, <1>2, <1>3 DEF LastIsItem

LEMMA FlushedEndsWithItem ==
  ASSUME IInv, ListsEndWithItems, FlushBuffer, IsRunning
  PROVE  LastIsItem(flushList')
<1> DEFINE ready == {i \in Item : flushed[i] = "READY"}
<1>1. PICK s \in [1..Cardinality(ready) -> ready] :
        /\ InOffsetOrder(s, ready)
        /\ \/ flushList' = flushList \o s
           \/ ready # {} /\ flushList' = <<Extra>> \o flushList \o s
           \/ /\ ready # {}
              /\ flushList' = <<s[Len(s)]>> \o flushList
                                \o SubSeq(s, 1, Len(s) - 1)
  BY DEF FlushBuffer
<1>2. s \in Seq(Request) /\ Elements(s) = ready /\ ready \subseteq Item
  BY <1>1, ReadyList
<1>3. Extra \notin ready /\ Extra \in Request
  BY <1>2, ItemAssumption DEF Extra, Request
<1> HIDE DEF ready
<1>4. LastIsItem(s) /\ LastIsItem(flushList) /\ flushList \in Seq(Request)
  BY <1>2, <1>3, LastOfLists DEF ListsEndWithItems, IInv, TypeOK
<1>5. ready # {} => s # <<>>
  BY <1>2, EmptyElements
<1>6. CASE flushList' = flushList \o s
  BY <1>2, <1>4, <1>6, LastOfLists
<1>7. CASE ready # {} /\ flushList' = <<Extra>> \o flushList \o s
  <2>1. <<Extra>> \in Seq(Request)
    BY <1>3, OneElement
  <2>2. <<Extra>> \o flushList \in Seq(Request)
    BY <1>4, <2>1, ConcatElements
  <2> QED
    BY <1>2, <1>4, <1>5, <1>7, <2>2, LastOfLists
<1>8. CASE /\ ready # {}
           /\ flushList' = <<s[Len(s)]>> \o flushList
                             \o SubSeq(s, 1, Len(s) - 1)
  <2>1. PICK front \in Seq(Request), last \in Request :
          /\ front = SubSeq(s, 1, Len(s) - 1) /\ last = s[Len(s)]
          /\ ready = Elements(front) \cup {last}
    BY <1>2, <1>5, <1>8, LastElement
  <2>2. <<last>> \in Seq(Request) /\ Extra \notin Elements(<<last>>)
    BY <1>3, <2>1, OneElement
  <2>3. LastIsItem(<<last>>) /\ LastIsItem(front)
    BY <1>3, <2>1, <2>2, LastOfLists
  <2>4. <<last>> \o flushList \in Seq(Request) /\ LastIsItem(<<last>> \o flushList)
    BY <1>4, <2>2, <2>3, LastOfLists, ConcatElements
  <2>5. LastIsItem((<<last>> \o flushList) \o front)
    BY <2>1, <2>3, <2>4, LastOfLists
  <2> QED
    BY <1>8, <2>1, <2>5
<1> QED
  BY <1>1, <1>6, <1>7, <1>8

LEMMA ListsEndStep == IInv /\ ListsEndWithItems /\ [Next]_vars => ListsEndWithItems'
<1> SUFFICES ASSUME IInv, ListsEndWithItems, [Next]_vars PROVE ListsEndWithItems'
  OBVIOUS
<1>0. flushList \in Seq(Request) /\ listToWrite \in Seq(Request)
  BY DEF IInv, TypeOK
<1>1. CASE UNCHANGED <<flushList, listToWrite>>
  BY <1>1 DEF ListsEndWithItems, LastIsItem
<1>2. CASE FlushBuffer
  <2>1. listToWrite' = listToWrite /\ (~IsRunning => flushList' = flushList)
    BY <1>2 DEF FlushBuffer, listVars
  <2> QED
    BY <1>2, <2>1, FlushedEndsWithItem DEF ListsEndWithItems
<1>3. CASE MoveFlushList
  <2>1. listToWrite' = listToWrite \o flushList /\ flushList' = <<>>
    BY <1>3 DEF MoveFlushList
  <2> QED
    BY <1>0, <2>1, LastOfLists DEF ListsEndWithItems
<1>4. CASE WriteBuffers
  <2>1. /\ flushList' = flushList
        /\ listToWrite' = listToWrite
             \/ (listToWrite # <<>> /\ listToWrite' = Tail(listToWrite))
    BY <1>4 DEF WriteBuffers
  <2> QED
    BY <1>0, <2>1, LastOfLists DEF ListsEndWithItems
<1>5. ASSUME NEW i \in Item, WriteToBuffer(i) \/ ScanItem(i)
      PROVE  UNCHANGED <<flushList, listToWrite>>
  BY <1>5 DEF WriteToBuffer, ScanItem, listVars
<1>6. CASE CheckFlushList \/ WakeUpCall \/ MarkNewData \/ ScanDone \/ Join
           \/ EndThread \/ Closed \/ UNCHANGED vars
  BY <1>1, <1>6 DEF CheckFlushList, WakeUpCall, MarkNewData, ScanDone, Join,
                    EndThread, Closed, vars, listVars
<1>7. CASE CreatePort \/ Wait \/ Complete \/ Poll \/ Rest \/ Recheck \/ Stop
  BY <1>1, <1>7 DEF CreatePort, Wait, Complete, Poll, Rest, Recheck, Stop, listVars
<1>8. ASSUME NEW x \in Request, IoEnds(x) PROVE UNCHANGED <<flushList, listToWrite>>
  BY <1>8 DEF IoEnds, listVars
<1> QED
  BY <1>1, <1>2, <1>3, <1>4, <1>5, <1>6, <1>7, <1>8 DEF Next, Main, WriteThread

(***************************************************************************)
(* What FlushBuffer tests before CompleteFile (no buffered data left,      *)
(* m_iWrites <= 0) means that nothing of the file is queued or being       *)
(* written any more, whichever writes failed; the byte that allocates the  *)
(* file is covered too, for it is always queued before an item.            *)
(***************************************************************************)
THEOREM CompletedIsQuiet == Spec => []QuietWhenCompleted
<1>1. Init => ListsEndWithItems
  BY LastOfLists DEF Init, ListsEndWithItems
<1>2. IInv /\ ListsEndWithItems => QuietWhenCompleted
  <2> SUFFICES ASSUME IInv, ListsEndWithItems, Buffered = {}, iWrites <= 0
               PROVE  Held = {}
    BY DEF QuietWhenCompleted
  <2>1. Held \cap Item = {} /\ Held \subseteq Request
    BY HeldType DEF IInv, HeldIsPending, Buffered
  <2>2. Outstanding = {}
    <3>1. IsFiniteSet(Outstanding) /\ Cardinality(Outstanding) \in Nat
      BY HeldType, FiniteRequests DEF IInv
    <3>2. Cardinality(Outstanding) = 0
      BY <3>1 DEF IInv, AllCounted, TypeOK
    <3> QED
      BY <3>1, <3>2, FS_EmptySet
  <2>3. ASSUME NEW s \in Seq(Request), LastIsItem(s), Elements(s) \subseteq Held
        PROVE  s = <<>>
    <3> SUFFICES ASSUME s # <<>> PROVE FALSE
      OBVIOUS
    <3>1. Len(s) \in DOMAIN s
      OBVIOUS
    <3>2. s[Len(s)] \in Elements(s)
      BY <3>1 DEF Elements
    <3> QED
      BY <2>1, <2>3, <3>2 DEF LastIsItem, Request
  <2>4. flushList = <<>> /\ listToWrite = <<>>
    BY <2>3 DEF ListsEndWithItems, Held, IInv, TypeOK
  <2> QED
    BY <2>2, <2>4, EmptyElements DEF Held, Outstanding
<1> QED
  BY <1>1, <1>2, InvariantHolds, ListsEndStep, PTL DEF Spec

-------------------------------------------------------------------------------
(***************************************************************************)
(* m_iWrites and m_listPendingIO while no write is lost                    *)
(***************************************************************************)

\* Every write that is started completes in full, and the program is not
\* closed.  AddFile and WriteFile may fail.
NoWriteLost == Faults \cap {"short", "dequeue"} = {} /\ ~MayStop

\* a packet that neither ends the thread nor reports a failure
Plain(p) == p.kind \in {"wakeup", "io"} /\ p.ok

\* The thread goes on, and the pending list is what the system, the port and
\* the thread have.
AllPending ==
  /\ pendingIO = Outstanding
  /\ iWrites = Cardinality(Outstanding)
  /\ wpc # "create" => IsRunning
  /\ wpc \notin {"stop", "ended"} /\ mpc \notin {"join", "closed"}
  /\ \A n \in DOMAIN port : Plain(port[n])
  /\ Plain(cur)

LEMMA QueuedAfterTake ==
  ASSUME NEW q \in Seq(Packet), q # <<>>
  PROVE  QueuedIn(q) = QueuedIn(Tail(q)) \cup
                         (IF Ended(Head(q)) THEN {Head(q).of} ELSE {})
<1>1. Elements(q) = {Head(q)} \cup Elements(Tail(q))
  BY TailElements
<1> QED
  BY <1>1 DEF QueuedIn

\* What a step other than those below leaves alone.
LEMMA PendingSame ==
  ASSUME NoWriteLost, IInv, AllPending,
         UNCHANGED <<pendingIO, inflight, iWrites>>,
         Queued' = Queued, InHand' = InHand,
         \A n \in DOMAIN port' : Plain(port'[n]), Plain(cur'),
         wpc' \notin {"stop", "ended"}, mpc' \notin {"join", "closed"},
         wpc' # "create" => IsRunning'
  PROVE  AllPending'
<1>1. Outstanding' = Outstanding
  BY DEF Outstanding
<1> QED
  BY <1>1 DEF AllPending

LEMMA PendingPost ==
  ASSUME NoWriteLost, IInv, AllPending, WakeUpCall \/ Recheck
  PROVE  AllPending'
<1>1. /\ UNCHANGED <<pendingIO, inflight, iWrites, cur, run>>
      /\ port' = port \/ port' = Append(port, Wakeup)
      /\ mpc' \notin {"join", "closed"} /\ InHand' = InHand
      /\ wpc' # "stop" /\ wpc' # "ended" /\ (wpc' # "create" => wpc # "create")
  <2>1. CASE WakeUpCall
    BY <2>1 DEF WakeUpCall, fileVars, listVars, threadVars, InHand, AllPending
  <2>2. CASE Recheck
    BY <2>2 DEF Recheck, fileVars, listVars, mainVars, InHand, AllPending
  <2> QED
    BY <2>1, <2>2
<1>2. port \in Seq(Packet) /\ Wakeup \in Packet /\ ~Ended(Wakeup) /\ Plain(Wakeup)
  BY PacketTypes DEF IInv, TypeOK, Plain, Wakeup
<1>3. Queued' = Queued /\ \A n \in DOMAIN port' : Plain(port'[n])
  <2>1. CASE port' = port
    BY <2>1 DEF Queued, AllPending
  <2>2. CASE port' = Append(port, Wakeup)
    <3>1. /\ QueuedIn(port') = QueuedIn(port)
          /\ \A n \in DOMAIN port' :
               port'[n] = Wakeup \/ (n \in DOMAIN port /\ port'[n] = port[n])
      BY <1>2, <2>2, AppendPacket
    <3> QED
      BY <1>2, <3>1 DEF Queued, AllPending
  <2> QED
    BY <1>1, <2>1, <2>2
<1> QED
  BY <1>1, <1>3, PendingSame DEF AllPending, IsRunning

\* Wait and Poll: a packet of a write goes from the port to the thread.
LEMMA PendingTake ==
  ASSUME NoWriteLost, IInv, AllPending, Wait \/ (Poll /\ port # <<>>)
  PROVE  AllPending'
<1> DEFINE p == Head(port)
<1>1. port \in Seq(Packet) /\ port # <<>> /\ port' = Tail(port)
  BY DEF Wait, Poll, IInv, TypeOK
<1>2. /\ QueuedIn(port) = QueuedIn(port') \cup (IF Ended(p) THEN {p.of} ELSE {})
      /\ Plain(p) /\ \A n \in DOMAIN port' : Plain(port'[n])
  BY <1>1, TakePacket, QueuedAfterTake DEF AllPending
<1> HIDE DEF p
<1>3. /\ UNCHANGED <<pendingIO, inflight, iWrites, mpc>>
      /\ InHand = {} /\ cur' = p
      /\ wpc' \in {"move", "complete"} /\ run' # "STOP"
  BY <1>2 DEF p, Wait, Poll, fileVars, listVars, mainVars, InHand, Plain,
              AllPending, IsRunning
<1>4. InHand' = IF Ended(p) THEN {p.of} ELSE {}
  BY <1>2, <1>3 DEF InHand, Ended, Plain
<1>5. Outstanding' = Outstanding
  BY <1>2, <1>3, <1>4 DEF Outstanding, Queued
<1> QED
  BY <1>2, <1>3, <1>5 DEF AllPending, IsRunning

\* WriteBuffers: a write that is started is new, and is counted.
LEMMA PendingWrite ==
  ASSUME NoWriteLost, IInv, AllPending, WriteBuffers
  PROVE  AllPending'
<1>1. /\ UNCHANGED <<run, port, mpc, cur>> /\ wpc' \in {"write", "complete"}
      /\ wpc = "write" /\ Queued' = Queued /\ InHand' = InHand
  BY DEF WriteBuffers, WriteNoFile, WriteStarted, WriteRefused, InHand, Queued,
         mainVars
<1>2. CASE UNCHANGED <<pendingIO, inflight, iWrites>>
  BY <1>1, <1>2, PendingSame DEF AllPending, IsRunning
<1>3. CASE listToWrite # <<>> /\ WriteStarted
  <2>1. Next1 \in Elements(listToWrite)
    BY <1>3, TailElements DEF IInv, TypeOK, Next1
  <2>2. Next1 \notin Outstanding
    BY <2>1 DEF IInv, HeldOnce, Outstanding
  <2>3. /\ pendingIO' = pendingIO \cup {Next1} /\ iWrites' = iWrites + 1
        /\ Outstanding' = Outstanding \cup {Next1}
    BY <1>1, <1>3 DEF WriteStarted, Outstanding
  <2>4. Cardinality(Outstanding \cup {Next1}) = Cardinality(Outstanding) + 1
    BY <2>2, HeldType, FiniteRequests, FS_AddElement DEF IInv
  <2> HIDE DEF Next1
  <2> QED
    BY <1>1, <2>3, <2>4 DEF AllPending, IsRunning
<1> QED
  BY <1>2, <1>3 DEF WriteBuffers, WriteNoFile, WriteRefused

\* WriteCompletionRoutine: the write is counted off.
LEMMA PendingComplete ==
  ASSUME NoWriteLost, IInv, AllPending, Complete
  PROVE  AllPending'
<1>1. /\ UNCHANGED <<run, port, mpc, cur, inflight>> /\ wpc' = "poll"
      /\ wpc = "complete" /\ Queued' = Queued /\ InHand' = {} /\ IsRunning
  BY DEF Complete, InHand, Queued, mainVars, AllPending, Plain
<1>2. CASE cur.kind # "io"
  <2>1. UNCHANGED <<pendingIO, iWrites>> /\ InHand = {}
    BY <1>2 DEF Complete, InHand
  <2> QED
    BY <1>1, <2>1, PendingSame DEF AllPending, IsRunning
<1>3. CASE cur.kind = "io"
  <2> DEFINE x == cur.of
  <2>1. /\ pendingIO' = pendingIO \ {x} /\ iWrites' = iWrites - 1
        /\ InHand = {x}
    BY <1>1, <1>3 DEF Complete, CompleteIo, InHand, AllPending, Plain
  <2>2. x \in Outstanding /\ Outstanding' = Outstanding \ {x}
    BY <1>1, <2>1 DEF Outstanding, IInv, HeldOnce
  <2>3. Cardinality(Outstanding \ {x}) = Cardinality(Outstanding) - 1
    BY <2>2, HeldType, FiniteRequests, FS_RemoveElement DEF IInv
  <2> HIDE DEF x
  <2> QED
    BY <1>1, <2>1, <2>2, <2>3 DEF AllPending, IsRunning
<1> QED
  BY <1>2, <1>3

\* The system ends a write: its packet is queued.
LEMMA PendingIoEnds ==
  ASSUME NoWriteLost, IInv, AllPending, NEW x \in Request, IoEnds(x)
  PROVE  AllPending'
<1>1. /\ UNCHANGED <<pendingIO, iWrites, run, mpc, cur, wpc>>
      /\ InHand' = InHand /\ x \in inflight /\ inflight' = inflight \ {x}
      /\ port' = Append(port, Io(x, TRUE))
  BY DEF IoEnds, fileVars, listVars, mainVars, threadVars, InHand, NoWriteLost,
         AllPending
<1>2. /\ port \in Seq(Packet) /\ Io(x, TRUE) \in Packet /\ Ended(Io(x, TRUE))
      /\ Io(x, TRUE).of = x /\ Plain(Io(x, TRUE))
  <2>1. Plain(Io(x, TRUE))
    BY DEF Plain, Io
  <2> QED
    BY <2>1, PacketTypes DEF IInv, TypeOK
<1>3. /\ Queued' = Queued \cup {x}
      /\ \A n \in DOMAIN port' :
           port'[n] = Io(x, TRUE) \/ (n \in DOMAIN port /\ port'[n] = port[n])
  BY <1>1, <1>2, AppendPacket DEF Queued
<1>4. Outstanding' = Outstanding
  BY <1>1, <1>3 DEF Outstanding
<1>5. \A n \in DOMAIN port' : Plain(port'[n])
  BY <1>2, <1>3 DEF AllPending
<1> QED
  BY <1>1, <1>4, <1>5 DEF AllPending, IsRunning

LEMMA PendingStep ==
  ASSUME NoWriteLost, IInv, AllPending, [Next]_vars
  PROVE  AllPending'
<1>1. ASSUME UNCHANGED <<pendingIO, inflight, iWrites, port, cur>>,
             InHand' = InHand, wpc' \notin {"stop", "ended"},
             mpc' \notin {"join", "closed"}, wpc' # "create" => IsRunning'
      PROVE  AllPending'
  BY <1>1, PendingSame DEF AllPending, Queued
<1>2. ASSUME NEW i \in Item, WriteToBuffer(i) \/ ScanItem(i) PROVE AllPending'
  BY <1>1, <1>2 DEF WriteToBuffer, ScanItem, fileVars, listVars, mainVars,
                    threadVars, InHand, AllPending, IsRunning
<1>3. CASE FlushBuffer \/ CheckFlushList \/ MarkNewData \/ ScanDone
  BY <1>1, <1>3 DEF FlushBuffer, CheckFlushList, MarkNewData, ScanDone,
                    fileVars, listVars, threadVars, InHand, AllPending, IsRunning
<1>4. CASE EndThread \/ Join \/ Closed \/ Stop \/ UNCHANGED vars
  BY <1>1, <1>4 DEF EndThread, Join, Closed, Stop, NoWriteLost, vars, fileVars,
                    listVars, mainVars, threadVars, InHand, AllPending, IsRunning
<1>5. CASE CreatePort \/ MoveFlushList \/ Rest \/ (Poll /\ port = <<>>)
  BY <1>1, <1>5 DEF CreatePort, MoveFlushList, Rest, Poll, fileVars, listVars,
                    mainVars, InHand, AllPending, IsRunning
<1> QED
  BY <1>2, <1>3, <1>4, <1>5, PendingPost, PendingTake, PendingWrite,
     PendingComplete, PendingIoEnds DEF Next, Main, WriteThread

LEMMA PendingHolds ==
  ASSUME NoWriteLost
  PROVE  Spec => [](IInv /\ AllPending)
<1>1. Init => AllPending
  <2> SUFFICES ASSUME Init PROVE AllPending
    OBVIOUS
  <2>1. Outstanding = {}
    BY EmptyElements DEF Init, Outstanding, Queued, QueuedIn, InHand
  <2> QED
    BY <2>1, FS_EmptySet DEF Init, AllPending, Plain, Wakeup
<1>2. IInv /\ AllPending /\ [Next]_vars => AllPending'
  BY NoWriteLost, PendingStep
<1> QED
  BY <1>1, <1>2, InvariantHolds, PTL DEF Spec

(***************************************************************************)
(* "outstanding I/O counter" (PartFile.h): m_iWrites is the length of      *)
(* m_listPendingIO, as long as every write that is started completes in    *)
(* full and the program runs on; AddFile and WriteFile may fail.  (A short *)
(* write is taken off the list and stays counted.)                         *)
(***************************************************************************)
THEOREM WritesAreCounted ==
  ASSUME NoWriteLost
  PROVE  Spec => []CountsOutstanding
<1>1. IInv /\ AllPending => CountsOutstanding
  BY DEF AllPending, CountsOutstanding
<1> QED
  BY <1>1, PendingHolds, NoWriteLost, PTL

(***************************************************************************)
(* "pending I/O makes posting unnecessary" (WakeUpCall): a thread that     *)
(* sleeps with entries in m_listPendingIO has a packet to come, from the   *)
(* system or in the port already, so the call need not post one.           *)
(***************************************************************************)
THEOREM PendingWakesThread ==
  ASSUME NoWriteLost
  PROVE  Spec => []PendingIoWakes
<1>1. IInv /\ AllPending => PendingIoWakes
  BY EmptyElements DEF AllPending, PendingIoWakes, Outstanding, Queued, QueuedIn, InHand
<1> QED
  BY <1>1, PendingHolds, NoWriteLost, PTL
===============================================================================
