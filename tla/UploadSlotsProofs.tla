--------------------------- MODULE UploadSlotsProofs ---------------------------
(***************************************************************************)
(* The slots that UploadQueue opens, for any number of clients and sockets *)
(* and any bounds: how many there are, and that each is served.            *)
(*                                                                         *)
(* How many: an ordinary slot, one that was not opened for a collection,   *)
(* is added only by AddUpNextClient, one at a time, and only after a test  *)
(* of the whole list; every other operator takes slots away.  That a slot  *)
(* does not become ordinary while it is open needs that a client which     *)
(* asks for a file has none, and so the invariant of UploadQueueProofs.    *)
(***************************************************************************)
EXTENDS UploadQueueProofs, FiniteSetTheorems

Ordinary(s) == s.uploading \ s.coll
Bounded(s) == Cardinality(Ordinary(s)) <= MaxSlots + 1

\* client c may lose its slot from s to t, and has it for what it had it before;
\* it may get one
SameColl(s, t, c) ==
  /\ t \in QueueState
  /\ \A d \in Client : d # c => (d \in t.coll <=> d \in s.coll)
  /\ c \notin t.uploading \/ (c \in t.coll <=> c \in s.coll)
Frees(s, t, c) ==
  /\ SameColl(s, t, c)
  /\ \A d \in Client : d \in t.uploading => d \in s.uploading
Adds(s, t, c) ==
  /\ SameColl(s, t, c)
  /\ \A d \in Client : d # c /\ d \in t.uploading => d \in s.uploading

LEMMA FreesTwice ==
  ASSUME NEW s, NEW r, NEW t, NEW c \in Client, Frees(s, r, c), Frees(r, t, c)
  PROVE  Frees(s, t, c)
BY DEF Frees, SameColl

-------------------------------------------------------------------------------
(***************************************************************************)
(* Counting                                                                *)
(***************************************************************************)
LEMMA FewerKeeps ==
  ASSUME NEW s \in QueueState, NEW t \in QueueState, Bounded(s),
         \A d \in Client : d \in Ordinary(t) => d \in Ordinary(s)
  PROVE  Bounded(t)
<1>1. Ordinary(t) \in SUBSET Client /\ Ordinary(s) \in SUBSET Client
  BY DEF QueueState, Ordinary
<1>2. Ordinary(t) \in SUBSET Ordinary(s)
  BY <1>1
<1>3. IsFiniteSet(Ordinary(s)) /\ IsFiniteSet(Ordinary(t))
  BY <1>1, FS_Subset, QueueAssumption
<1>4. Cardinality(Ordinary(t)) <= Cardinality(Ordinary(s))
  BY <1>2, <1>3, FS_Subset
<1>5. Cardinality(Ordinary(t)) \in Nat /\ Cardinality(Ordinary(s)) \in Nat
  BY <1>3, FS_CardinalityType
<1> QED
  BY <1>4, <1>5, QueueAssumption DEF Bounded

LEMMA FreesKeeps ==
  ASSUME NEW s \in QueueState, NEW t, NEW c \in Client, Frees(s, t, c), Bounded(s)
  PROVE  Bounded(t)
<1>1. t \in QueueState
  BY DEF Frees, SameColl
<1>2. \A d \in Client : d \in Ordinary(t) => d \in Ordinary(s)
  BY DEF Frees, SameColl, Ordinary
<1> QED
  BY <1>1, <1>2, FewerKeeps

\* one more than the whole list, when that was tested
LEMMA OneMoreKeeps ==
  ASSUME NEW s \in QueueState, NEW t \in QueueState, NEW c \in Client,
         Cardinality(s.uploading) <= MaxSlots,
         \A d \in Client : d # c /\ d \in t.uploading => d \in s.uploading
  PROVE  Bounded(t)
<1>1. IsFiniteSet(s.uploading)
  BY FS_Subset, QueueAssumption DEF QueueState
<1>2. Cardinality(s.uploading) \in Nat
  BY <1>1, FS_CardinalityType
<1> DEFINE U == s.uploading \cup {c}
<1>3. IsFiniteSet(U) /\ Cardinality(U) <= Cardinality(s.uploading) + 1
  BY <1>1, <1>2, FS_AddElement
<1>4. Ordinary(t) \in SUBSET U
  BY DEF QueueState, Ordinary
<1> HIDE DEF U
<1>5. /\ Cardinality(Ordinary(t)) <= Cardinality(U)
      /\ IsFiniteSet(Ordinary(t))
  BY <1>3, <1>4, FS_Subset
<1>6. Cardinality(Ordinary(t)) \in Nat /\ Cardinality(U) \in Nat
  BY <1>3, <1>5, FS_CardinalityType
<1> QED
  BY <1>2, <1>3, <1>5, <1>6, QueueAssumption DEF Bounded

LEMMA ForceCounts ==
  ASSUME NEW s \in QueueState, NEW e, NEW a, ForceNewClient(s, e, a)
  PROVE  Cardinality(s.uploading) <= MaxSlots
<1>1. IsFiniteSet(s.uploading)
  BY FS_Subset, QueueAssumption DEF QueueState
<1>2. Cardinality(s.uploading) \in Nat
  BY <1>1, FS_CardinalityType
<1> QED
  BY <1>2, QueueAssumption DEF ForceNewClient, AcceptNewClient

LEMMA AddNextCounts ==
  ASSUME NEW s \in QueueState, NEW a, AcceptAddNext(s, a)
  PROVE  Cardinality(s.uploading) <= MaxSlots
<1>1. IsFiniteSet(s.uploading)
  BY FS_Subset, QueueAssumption DEF QueueState
<1>2. Cardinality(s.uploading) \in Nat
      /\ (s.uploading = {} => Cardinality(s.uploading) = 0)
  BY <1>1, FS_CardinalityType, FS_EmptySet
<1> QED
  BY <1>2, QueueAssumption DEF AcceptAddNext, AcceptNewClient

-------------------------------------------------------------------------------
(***************************************************************************)
(* What the operators do to the slots                                      *)
(***************************************************************************)
LEMMA RemoveUploadFrees ==
  ASSUME NEW s \in QueueState, NEW c \in Client, NEW t,
         t = RemoveFromUploadQueue(s, c)
  PROVE  Frees(s, t, c)
<1>1. Touches(s, t, c) /\ c \notin t.uploading
  BY RemoveUploadKeeps
<1>2. t.coll = IF c \in s.uploading THEN s.coll \ {c} ELSE s.coll
  BY DEF RemoveFromUploadQueue, QueueState
<1> QED
  BY <1>1, <1>2 DEF Frees, SameColl, Touches, SameFor

LEMMA RemoveWaitingFrees ==
  ASSUME NEW s \in QueueState, NEW c \in Client, NEW t,
         t = RemoveFromWaitingQueue(s, c)
  PROVE  Frees(s, t, c) /\ t.uploading = s.uploading /\ t.coll = s.coll
<1>1. /\ t \in QueueState
      /\ t.alive = s.alive /\ t.uploading = s.uploading
      /\ t.waiting = s.waiting \ {c}
      /\ t.conn = s.conn /\ t.connecting = s.connecting
      /\ t.state = IF c \in s.waiting THEN [s.state EXCEPT ![c] = "none"]
                   ELSE s.state
  BY RemoveWaitingFields
<1>2. t.coll = s.coll
  BY DEF RemoveFromWaitingQueue, QueueState
<1> QED
  BY <1>1, <1>2 DEF Frees, SameColl

LEMMA EstablishedFrees ==
  ASSUME NEW s \in QueueState, NEW c \in Client, NEW t,
         t = ConnectionEstablished(s, c)
  PROVE  Frees(s, t, c)
<1>1. /\ t \in QueueState
      /\ t.alive = s.alive /\ t.waiting = s.waiting
      /\ t.uploading = s.uploading /\ t.conn = s.conn
      /\ t.connecting = s.connecting \ {c}
      /\ t.state = [s.state EXCEPT
                     ![c] = IF @ = "connecting" /\ c \in s.uploading
                            THEN "uploading" ELSE @]
  BY EstablishedFields
<1>2. t.coll = s.coll
  BY DEF ConnectionEstablished, QueueState
<1> QED
  BY <1>1, <1>2 DEF Frees, SameColl

LEMMA NoConnectionFrees ==
  ASSUME NEW s \in QueueState, NEW c \in Client, NEW X \in SUBSET Client, NEW t,
         t = Unconnected(s, c, X)
  PROVE  Frees(s, t, c)
<1>1. /\ t \in QueueState
      /\ t.alive = s.alive /\ t.waiting = s.waiting
      /\ t.uploading = s.uploading /\ t.state = s.state
      /\ t.connecting = X
      /\ t.conn = [s.conn EXCEPT ![c] = "none"]
  BY NoConnectionFields
<1>2. t.coll = s.coll
  BY DEF Unconnected, QueueState
<1> QED
  BY <1>1, <1>2 DEF Frees, SameColl

LEMMA NewTryFrees ==
  ASSUME NEW s \in QueueState, NEW c \in Client, NEW t, t = NewTry(s, c),
         FreeSockets(s) # {}
  PROVE  Frees(s, t, c)
<1>1. t \in QueueState /\ t.uploading = s.uploading
  BY NewTryFields
<1>2. t.coll = s.coll
  BY DEF NewTry, QueueState
<1> QED
  BY <1>1, <1>2 DEF Frees, SameColl

LEMMA WithStateFrees ==
  ASSUME NEW s \in QueueState, NEW c \in Client, NEW x \in UploadState, NEW t,
         t = WithState(s, c, x)
  PROVE  Frees(s, t, c) /\ t.uploading = s.uploading /\ t.coll = s.coll
<1>1. t \in QueueState /\ t.uploading = s.uploading
  BY StateFields
<1>2. t.coll = s.coll
  BY DEF WithState, QueueState
<1> QED
  BY <1>1, <1>2 DEF Frees, SameColl

LEMMA InsertAdds ==
  ASSUME NEW s \in QueueState, NEW c \in Client, NEW t,
         t = InsertInUploadingList(s, c)
  PROVE  Adds(s, t, c) /\ t.coll = s.coll
<1>1. t \in QueueState /\ t.uploading = s.uploading \cup {c}
  BY InsertFields
<1>2. t.coll = s.coll
  BY DEF InsertInUploadingList, QueueState
<1> QED
  BY <1>1, <1>2 DEF Adds, SameColl

LEMMA DeleteFrees ==
  ASSUME NEW s \in QueueState, NEW c \in Client, NEW t,
         t = DeleteClient(s, c)
  PROVE  Frees(s, t, c)
<1> DEFINE u == RemoveFromUploadQueue(s, c)
           r == RemoveFromWaitingQueue(u, c)
<1>1. Frees(s, u, c) /\ u \in QueueState
  BY RemoveUploadFrees DEF Frees, SameColl
<1>2. /\ t \in QueueState
      /\ t.alive = s.alive \ {c} /\ t.waiting = s.waiting \ {c}
      /\ t.uploading = s.uploading \ {c}
      /\ t.conn = [s.conn EXCEPT ![c] = "none"]
      /\ t.connecting = s.connecting \ {c}
      /\ t.state = [s.state EXCEPT ![c] = "none"]
  BY DeleteFields
<1>3. t = [r EXCEPT !.alive = @ \ {c}, !.connecting = @ \ {c},
                    !.coll = @ \ {c}, !.addNext = @ \ {c},
                    !.state[c] = "none", !.conn[c] = "none"]
  BY DEF DeleteClient
<1> HIDE DEF u
<1>4. r \in QueueState /\ r.coll = u.coll
  BY <1>1, RemoveWaitingFrees DEF Frees, SameColl
<1> HIDE DEF r
<1>5. t.coll = r.coll \ {c}
  BY <1>3, <1>4 DEF QueueState
<1> QED
  BY <1>1, <1>2, <1>4, <1>5 DEF Frees, SameColl

LEMMA DisconnectFrees ==
  ASSUME NEW s \in QueueState, NEW c \in Client, NEW a, NEW t,
         t = Disconnect(s, c, a)
  PROVE  Frees(s, t, c)
<1> DEFINE r == LoseSlot(s, c)
           k == Unconnected(r, c, r.connecting)
           l == Unconnected(r, c, r.connecting \ {c})
<1>1. Frees(s, r, c)
  <2>1. r = RemoveFromUploadQueue(s, c) \/ r = s
    BY DEF LoseSlot
  <2>2. CASE r = s
    BY <2>2 DEF Frees, SameColl
  <2>3. CASE r = RemoveFromUploadQueue(s, c)
    BY <2>3, RemoveUploadFrees
  <2> QED
    BY <2>1, <2>2, <2>3
<1>2. r \in QueueState
  BY <1>1 DEF Frees, SameColl
<1> HIDE DEF r
<1>3. r.connecting \in SUBSET Client
  BY <1>2 DEF QueueState
<1>4. t = DeleteClient(k, c) \/ t = l
  <2>1. k = [r EXCEPT !.conn[c] = "none"]
    BY <1>2 DEF Unconnected, QueueState
  <2>2. l = [r EXCEPT !.conn[c] = "none", !.connecting = @ \ {c}]
    BY <1>2 DEF Unconnected, QueueState
  <2> HIDE DEF k, l
  <2> QED
    BY <2>1, <2>2 DEF Disconnect, r
<1>5. CASE t = l
  BY <1>1, <1>2, <1>3, <1>5, NoConnectionFrees, FreesTwice
<1>6. CASE t = DeleteClient(k, c)
  <2>1. Frees(r, k, c)
    BY <1>2, <1>3, NoConnectionFrees
  <2> HIDE DEF k
  <2>2. k \in QueueState
    BY <2>1 DEF Frees, SameColl
  <2>3. Frees(k, t, c)
    BY <1>6, <2>2, DeleteFrees
  <2> QED
    BY <1>1, <2>1, <2>3, FreesTwice
<1> QED
  BY <1>4, <1>5, <1>6

LEMMA TryFrees ==
  ASSUME NEW s \in QueueState, NEW c \in Client, NEW a, NEW t,
         t = TryToConnect(s, c, a), HalfOk(s, c),
         s.conn[c] = "none" => FreeSockets(s) # {}
  PROVE  Frees(s, t, c)
<1> DEFINE X == s.connecting \cup {c}
           r == Unconnected(s, c, X)
<1>1. CASE t = s
  BY <1>1 DEF Frees, SameColl
<1>2. CASE t = ConnectionEstablished(s, c)
  BY <1>2, EstablishedFrees
<1>3. CASE c \notin s.connecting /\ s.conn[c] \notin {"hello", "up"}
  <2>1. X \in SUBSET Client
    BY DEF QueueState
  <2>2. r = [s EXCEPT !.conn[c] = "none", !.connecting = @ \cup {c}]
    BY DEF Unconnected, QueueState
  <2>3. t = Disconnect(r, c, a) \/ t = NewTry(r, c) \/ t = r
    BY <1>3, <2>2 DEF TryToConnect, NewTry
  <2> HIDE DEF X
  <2>4. Frees(s, r, c)
    BY <2>1, NoConnectionFrees
  <2>5. /\ r \in QueueState /\ r.std = s.std /\ r.sock = s.sock
        /\ r.conn = [s.conn EXCEPT ![c] = "none"]
    BY <2>1, NoConnectionFields
  <2> HIDE DEF r
  <2>6. CASE t = Disconnect(r, c, a)
    BY <2>4, <2>5, <2>6, DisconnectFrees, FreesTwice
  <2>7. CASE t = NewTry(r, c)
    <3>1. s.conn[c] = "none" /\ s.conn \in [Client -> Connection]
      BY <1>3 DEF HalfOk, QueueState, Connection
    <3>2. FreeSockets(r) # {}
      BY <2>5, <3>1 DEF FreeSockets, HasSocket
    <3> QED
      BY <2>4, <2>5, <2>7, <3>2, NewTryFrees, FreesTwice
  <2>8. CASE t = r
    BY <2>4, <2>8
  <2> QED
    BY <2>3, <2>6, <2>7, <2>8
<1> QED
  BY <1>1, <1>2, <1>3 DEF TryToConnect
\* a client without a slot that is not deleted has the mark it had
LEMMA DisconnectMark ==
  ASSUME NEW s \in QueueState, NEW c \in Client, NEW a, NEW t,
         t = Disconnect(s, c, a), c \notin s.uploading, c \in t.alive
  PROVE  c \in t.coll <=> c \in s.coll
<1> DEFINE k == [s EXCEPT !.conn[c] = "none"]
           l == Unconnected(s, c, s.connecting \ {c})
<1>1. LoseSlot(s, c) = s
  BY DEF LoseSlot, RemoveFromUploadQueue
<1>2. l = [s EXCEPT !.conn[c] = "none", !.connecting = @ \ {c}]
  BY DEF Unconnected, QueueState
<1>3. t = DeleteClient(k, c) \/ t = l
  BY <1>1, <1>2 DEF Disconnect
<1>4. k = Unconnected(s, c, s.connecting) /\ s.connecting \in SUBSET Client
  BY DEF Unconnected, QueueState
<1> HIDE DEF k, l
<1>5. k \in QueueState
  BY <1>4, NoConnectionFrees DEF Frees, SameColl
<1>6. CASE t = DeleteClient(k, c)
  <2>1. /\ t \in QueueState
        /\ t.alive = k.alive \ {c} /\ t.waiting = k.waiting \ {c}
        /\ t.uploading = k.uploading \ {c}
        /\ t.conn = [k.conn EXCEPT ![c] = "none"]
        /\ t.connecting = k.connecting \ {c}
        /\ t.state = [k.state EXCEPT ![c] = "none"]
    BY <1>5, <1>6, DeleteFields
  <2> QED
    BY <2>1
<1>7. CASE t = l
  BY <1>7 DEF l, Unconnected, QueueState
<1> QED
  BY <1>3, <1>6, <1>7

LEMMA TryMark ==
  ASSUME NEW s \in QueueState, NEW c \in Client, NEW a, NEW t,
         t = TryToConnect(s, c, a), c \notin s.uploading, c \in t.alive
  PROVE  c \in t.coll <=> c \in s.coll
<1> DEFINE r == Unconnected(s, c, s.connecting \cup {c})
<1>1. CASE t = s
  BY <1>1
<1>2. CASE t = ConnectionEstablished(s, c)
  BY <1>2 DEF ConnectionEstablished, QueueState
<1>3. CASE c \notin s.connecting /\ s.conn[c] \notin {"hello", "up"}
  <2>1. s.connecting \cup {c} \in SUBSET Client
    BY DEF QueueState
  <2>2. r = [s EXCEPT !.conn[c] = "none", !.connecting = @ \cup {c}]
    BY DEF Unconnected, QueueState
  <2>3. t = Disconnect(r, c, a) \/ t = NewTry(r, c) \/ t = r
    BY <1>3, <2>2 DEF TryToConnect, NewTry
  <2>4. r.coll = s.coll
    BY DEF Unconnected, QueueState
  <2> HIDE DEF r
  <2>5. Frees(s, r, c)
    BY <2>1, NoConnectionFrees DEF r
  <2>6. r \in QueueState /\ c \notin r.uploading
    BY <2>5 DEF Frees, SameColl
  <2>7. CASE t = Disconnect(r, c, a)
    BY <2>4, <2>6, <2>7, DisconnectMark
  <2>8. CASE t = NewTry(r, c)
    BY <2>4, <2>6, <2>8 DEF NewTry, QueueState
  <2>9. CASE t = r
    BY <2>4, <2>9
  <2> QED
    BY <2>3, <2>7, <2>8, <2>9
<1> QED
  BY <1>1, <1>2, <1>3 DEF TryToConnect

LEMMA AddUpNextAdds ==
  ASSUME NEW s \in QueueState, NEW c \in Client, NEW a, NEW t,
         t = AddUpNextClient(s, c, a), HalfOk(s, c),
         s.conn[c] = "none" => FreeSockets(s) # {}
  PROVE  Adds(s, t, c)
<1> DEFINE r == RemoveFromWaitingQueue(s, c)
           up == WithState(r, c, "uploading")
           k == WithState(r, c, "connecting")
           u == TryToConnect(k, c, a)
<1>1. t = IF c \in r.uploading THEN r
          ELSE IF r.conn[c] = "up" THEN InsertInUploadingList(up, c)
          ELSE IF c \in u.alive THEN InsertInUploadingList(u, c) ELSE u
  BY DEF AddUpNextClient, WithState
<1> HIDE DEF r
<1>2. /\ Frees(s, r, c) /\ r.uploading = s.uploading /\ r.coll = s.coll
      /\ r \in QueueState
  BY RemoveWaitingFrees DEF r, Frees, SameColl
<1>3. HalfOk(r, c) /\ r.conn = s.conn /\ r.sock = s.sock /\ r.std = s.std
  BY RemoveWaitingKeeps DEF r
<1>4. CASE t = r
  BY <1>2, <1>4 DEF Frees, Adds
<1>5. CASE t = InsertInUploadingList(up, c)
  <2> HIDE DEF up
  <2>0. "uploading" \in UploadState
    BY DEF UploadState
  <2>1. Frees(r, up, c) /\ up.uploading = r.uploading /\ up.coll = r.coll
    BY <1>2, <2>0, WithStateFrees DEF up
  <2>3. up \in QueueState
    BY <2>1 DEF Frees, SameColl
  <2>2. Adds(up, t, c) /\ t.coll = up.coll
    BY <1>5, <2>3, InsertAdds
  <2> QED
    BY <1>2, <2>1, <2>2 DEF Adds, SameColl
<1>6. CASE /\ c \notin r.uploading
           /\ t = IF c \in u.alive THEN InsertInUploadingList(u, c) ELSE u
  <2> HIDE DEF k, u
  <2>0. "connecting" \in UploadState
    BY DEF UploadState
  <2>1. Frees(r, k, c) /\ k.uploading = r.uploading /\ k.coll = r.coll
    BY <1>2, <2>0, WithStateFrees DEF k
  <2>2. /\ k \in QueueState /\ Touches(r, k, c)
        /\ k.alive = r.alive /\ k.waiting = r.waiting
        /\ k.uploading = r.uploading /\ k.sock = r.sock /\ k.std = r.std
        /\ k.connecting = r.connecting /\ k.conn = r.conn
        /\ k.state[c] = "connecting"
    BY <1>2, StateFields DEF k, UploadState
  <2>3. HalfOk(k, c) /\ (k.conn[c] = "none" => FreeSockets(k) # {})
    BY <1>3, <2>2 DEF HalfOk, FreeSockets, HasSocket
  <2>4. Frees(k, u, c) /\ (c \in u.alive => (c \in u.coll <=> c \in k.coll))
    BY <1>6, <2>2, <2>3, TryFrees, TryMark DEF u
  <2>5. u \in QueueState
    BY <2>4 DEF Frees, SameColl
  <2>6. CASE c \in u.alive
    <3>1. Adds(u, t, c) /\ t.coll = u.coll
      BY <1>6, <2>5, <2>6, InsertAdds
    <3> QED
      BY <1>2, <2>1, <2>4, <2>6, <3>1 DEF Frees, Adds, SameColl
  <2>7. CASE c \notin u.alive
    BY <1>2, <1>6, <2>1, <2>4, <2>7 DEF Frees, Adds, SameColl
  <2> QED
    BY <2>6, <2>7
<1> QED
  BY <1>1, <1>4, <1>5, <1>6

\* a slot for a collection does not count
LEMMA AddsMarkedKeeps ==
  ASSUME NEW s \in QueueState, NEW t, NEW c \in Client, Adds(s, t, c),
         c \in s.coll, Bounded(s)
  PROVE  Bounded(t)
<1>1. t \in QueueState
  BY DEF Adds, SameColl
<1>2. \A d \in Client : d \in Ordinary(t) => d \in Ordinary(s)
  BY DEF Adds, SameColl, Ordinary
<1> QED
  BY <1>1, <1>2, FewerKeeps

LEMMA AddsCountedKeeps ==
  ASSUME NEW s \in QueueState, NEW t, NEW c \in Client, Adds(s, t, c),
         Cardinality(s.uploading) <= MaxSlots
  PROVE  Bounded(t)
<1>1. t \in QueueState
  BY DEF Adds, SameColl
<1> QED
  BY <1>1, OneMoreKeeps DEF Adds

-------------------------------------------------------------------------------
(***************************************************************************)
(* A request                                                               *)
(***************************************************************************)
LEMMA GiveWayFrees ==
  ASSUME NEW s \in QueueState, NEW c \in Client, NEW a, NEW t,
         t = GiveWay(s, c, a)
  PROVE  Frees(s, t, c)
<1> DEFINE r == RemoveFromWaitingQueue(s, c)
<1>1. t = r \/ t = Disconnect(r, c, a)
  BY DEF GiveWay
<1>2. Frees(s, r, c) /\ r \in QueueState
  BY RemoveWaitingFrees DEF Frees, SameColl
<1> HIDE DEF r
<1>3. CASE t = r
  BY <1>2, <1>3
<1>4. CASE t = Disconnect(r, c, a)
  BY <1>2, <1>4, DisconnectFrees, FreesTwice
<1> QED
  BY <1>1, <1>3, <1>4

LEMMA EnqueueBounded ==
  ASSUME NEW s \in QueueState, NEW c \in Client, NEW a, NEW r, NEW t,
         t = Enqueue(s, c, a, r), HalfOk(s, c), s.conn[c] # "none",
         c \notin s.uploading, Bounded(s)
  PROVE  Bounded(t)
<1> DEFINE X == s.coll \cup {c}
           Y == s.coll \ {c}
           k == WithColl(s, X)
           l == WithColl(s, Y)
<1>1. \/ t = AddUpNextClient(k, c, a)
      \/ t = l
      \/ ForceNewClient(l, TRUE, a) /\ t = AddUpNextClient(l, c, a)
      \/ t = Queued(l, c)
  <2>1. /\ k = [s EXCEPT !.coll = @ \cup {c}]
        /\ l = [s EXCEPT !.coll = @ \ {c}]
    BY DEF WithColl, QueueState
  <2> HIDE DEF k, l
  <2> QED
    BY <2>1 DEF Enqueue, Queued
<1>2. X \in SUBSET Client /\ Y \in SUBSET Client
  BY DEF QueueState
<1> HIDE DEF X, Y
<1>3. /\ k \in QueueState /\ k.uploading = s.uploading /\ k.coll = X
      /\ k.conn = s.conn /\ k.connecting = s.connecting
  BY <1>2 DEF QueueState, WithColl
<1>4. /\ l \in QueueState /\ l.uploading = s.uploading /\ l.coll = Y
      /\ l.conn = s.conn /\ l.connecting = s.connecting
  BY <1>2 DEF QueueState, WithColl
<1> HIDE DEF k, l
<1>5. Bounded(k) /\ c \in k.coll
  BY <1>3, FewerKeeps DEF Ordinary, X
<1>6. Bounded(l)
  BY <1>4, FewerKeeps DEF Ordinary, Y
<1>7. CASE t = AddUpNextClient(k, c, a)
  <2>1. HalfOk(k, c) /\ k.conn[c] # "none"
    BY <1>3 DEF HalfOk
  <2>2. Adds(k, t, c)
    BY <1>3, <1>7, <2>1, AddUpNextAdds
  <2> QED
    BY <1>3, <1>5, <2>2, AddsMarkedKeeps
<1>8. CASE t = l
  BY <1>6, <1>8
<1>9. CASE ForceNewClient(l, TRUE, a) /\ t = AddUpNextClient(l, c, a)
  <2>1. HalfOk(l, c) /\ l.conn[c] # "none"
    BY <1>4 DEF HalfOk
  <2>2. Adds(l, t, c)
    BY <1>4, <1>9, <2>1, AddUpNextAdds
  <2>3. Cardinality(l.uploading) <= MaxSlots
    BY <1>4, <1>9, ForceCounts
  <2> QED
    BY <1>4, <2>2, <2>3, AddsCountedKeeps
<1>10. CASE t = Queued(l, c)
  <2>1. Touches(l, t, c)
    BY <1>4, <1>10, QueuedKeeps
  <2>2. t.uploading = l.uploading /\ t.coll = l.coll
    BY <1>4, <1>10 DEF Queued, QueueState
  <2> QED
    BY <1>6, <2>1, <2>2 DEF Bounded, Ordinary
<1> QED
  BY <1>1, <1>7, <1>8, <1>9, <1>10

LEMMA AddClientBounded ==
  ASSUME NEW s, NEW c \in Client, NEW a, NEW r \in Requests(s, c), NEW t,
         t = AddClientToQueue(s, c, a, r), Typed(s), s.conn[c] # "none",
         c \in banned \/ c \notin s.uploading, Bounded(s)
  PROVE  Bounded(t)
<1> DEFINE u == IF r.twin = NoClient THEN s ELSE GiveWay(s, r.twin, a)
<1>0. s \in QueueState /\ HalfOk(s, c)
  BY DEF Typed
<1>1. \/ t = s \/ t = u \/ t = AskAgain(u, c, a)
      \/ c \notin banned /\ t = Enqueue(u, c, a, r)
  BY DEF AddClientToQueue
<1>2. r.twin = NoClient \/ (r.twin \in s.waiting /\ r.twin # c)
  BY DEF Requests, Same
<1>3. /\ u \in QueueState /\ SameFor(s, u, c) /\ Bounded(u)
  <2>1. CASE r.twin = NoClient
    BY <1>0, <2>1 DEF SameFor
  <2>2. CASE r.twin # NoClient
    <3>1. r.twin \in s.waiting /\ r.twin # c
      BY <1>2, <2>2
    <3>2. s.waiting \subseteq Client
      BY <1>0 DEF QueueState
    <3>3. PICK w \in Client : w = r.twin
      BY <3>1, <3>2
    <3>4. u = GiveWay(s, w, a)
      BY <2>2, <3>3
    <3> HIDE DEF u
    <3>5. HalfOk(s, w)
      BY DEF Typed
    <3>6. Touches(s, u, w)
      BY <1>0, <3>4, <3>5, GiveWayKeeps
    <3>7. SameFor(s, u, c) /\ u \in QueueState
      BY <3>1, <3>3, <3>6 DEF Touches
    <3>8. Bounded(u)
      BY <1>0, <3>4, GiveWayFrees, FreesKeeps
    <3> QED
      BY <3>7, <3>8
  <2> QED
    BY <2>1, <2>2
<1> HIDE DEF u
<1>4. /\ HalfOk(u, c) /\ u.conn[c] # "none"
      /\ c \in banned \/ c \notin u.uploading
  BY <1>0, <1>3 DEF SameFor, HalfOk
<1>5. CASE t = s
  BY <1>5
<1>6. CASE t = u
  BY <1>3, <1>6
<1>7. CASE t = AskAgain(u, c, a)
  <2>1. t = u \/ (AcceptAddNext(u, a) /\ t = AddUpNextClient(u, c, a))
    BY <1>7 DEF AskAgain
  <2>2. CASE AcceptAddNext(u, a) /\ t = AddUpNextClient(u, c, a)
    <3>1. Adds(u, t, c)
      BY <1>3, <1>4, <2>2, AddUpNextAdds
    <3>2. Cardinality(u.uploading) <= MaxSlots
      BY <1>3, <2>2, AddNextCounts
    <3> QED
      BY <1>3, <3>1, <3>2, AddsCountedKeeps
  <2> QED
    BY <1>6, <2>1, <2>2
<1>8. CASE c \notin banned /\ t = Enqueue(u, c, a, r)
  BY <1>3, <1>4, <1>8, EnqueueBounded
<1> QED
  BY <1>1, <1>5, <1>6, <1>7, <1>8

-------------------------------------------------------------------------------
(***************************************************************************)
(* The actions                                                             *)
(***************************************************************************)
NoUnban == \A e \in Scenarios : "unban" \notin e.may

LEMMA SameSlots ==
  ASSUME NEW s \in QueueState, NEW t,
         t.uploading = s.uploading, t.coll = s.coll, Bounded(s)
  PROVE  Bounded(t)
BY DEF Bounded, Ordinary

\* events that open no slot
LEMMA EventBounded ==
  ASSUME q \in QueueState, Bounded(q), NEW c \in Client,
         \/ ClientConnects(c) \/ OnConnect(c) \/ HelloAnswer(c)
         \/ SocketCloses(c) \/ ConnectTimeout(c) \/ CancelTransfer(c) \/ Ban(c)
         \/ UnBan(c)
  PROVE  Bounded(q')
<1>1. CASE ClientConnects(c)
  <2> DEFINE t == Connected(q, c, NewSocket(q))
  <2>1. NewSocket(q) \in 1..MaxSock
    BY <1>1, NewSocketIsOne DEF ClientConnects
  <2>2. Touches(q, t, c)
    BY <2>1, ConnectedFields
  <2>3. t.uploading = q.uploading /\ t.coll = q.coll
    BY DEF Connected, QueueState
  <2>4. q' = ConnectionEstablished(t, c)
    BY <1>1 DEF ClientConnects, Connected
  <2> HIDE DEF t
  <2>5. t \in QueueState /\ Bounded(t)
    BY <2>2, <2>3, SameSlots DEF Touches
  <2> QED
    BY <2>4, <2>5, EstablishedFrees, FreesKeeps
<1>2. CASE OnConnect(c)
  <2>1. q'.uploading = q.uploading /\ q'.coll = q.coll
    BY <1>2 DEF OnConnect, QueueState
  <2> QED
    BY <2>1, SameSlots
<1>3. CASE HelloAnswer(c)
  <2> DEFINE t == WithConnection(q, c, "up")
  <2>1. "up" \in Connection
    BY DEF Connection
  <2>2. Touches(q, t, c)
    BY <2>1, ConnectionFields
  <2>3. t.uploading = q.uploading /\ t.coll = q.coll
    BY DEF WithConnection, QueueState
  <2>4. q' = ConnectionEstablished(t, c)
    BY <1>3 DEF HelloAnswer, WithConnection
  <2> HIDE DEF t
  <2>5. t \in QueueState /\ Bounded(t)
    BY <2>2, <2>3, SameSlots DEF Touches
  <2> QED
    BY <2>4, <2>5, EstablishedFrees, FreesKeeps
<1>4. CASE SocketCloses(c)
  <2>1. PICK a \in Answers(c), closed \in BOOLEAN :
          q' = Disconnect([q EXCEPT !.std = IF closed THEN @ \ {q.sock[c]} ELSE @],
                          c, a)
    BY <1>4 DEF SocketCloses
  <2> DEFINE X == IF closed THEN q.std \ {q.sock[c]} ELSE q.std
             t == WithStandardList(q, X)
  <2>2. q' = Disconnect(t, c, a)
    BY <2>1 DEF WithStandardList, QueueState
  <2>3. X \in SUBSET (1..MaxSock)
    BY DEF QueueState
  <2> HIDE DEF X
  <2>4. t \in QueueState /\ t.uploading = q.uploading /\ t.coll = q.coll
    BY <2>3 DEF WithStandardList, QueueState
  <2> HIDE DEF t
  <2>5. Bounded(t)
    BY <2>4, SameSlots
  <2> QED
    BY <2>2, <2>4, <2>5, DisconnectFrees, FreesKeeps
<1>5. CASE ConnectTimeout(c)
  <2>1. PICK a : q' = Disconnect(q, c, a)
    BY <1>5 DEF ConnectTimeout
  <2> QED
    BY <2>1, DisconnectFrees, FreesKeeps
<1>6. CASE CancelTransfer(c)
  <2>1. q' = RemoveFromUploadQueue(q, c)
    BY <1>6 DEF CancelTransfer
  <2> QED
    BY <2>1, RemoveUploadFrees, FreesKeeps
<1>7. CASE Ban(c) \/ UnBan(c)
  <2>1. q'.uploading = q.uploading /\ q'.coll = q.coll
    BY <1>7 DEF Ban, UnBan, QueueState
  <2> QED
    BY <2>1, SameSlots
<1> QED
  BY <1>1, <1>2, <1>3, <1>4, <1>5, <1>6, <1>7

LEMMA AskBounded ==
  ASSUME IInv, Bounded(q), NEW c \in Client, AskForDownload(c)
  PROVE  Bounded(q')
<1>1. q \in QueueState /\ HalfOk(q, c)
  BY DEF IInv, TypeOK, Typed
<1>2. PICK a : q' = TryToConnect(q, c, a)
  BY DEF AskForDownload
<1>3. q.conn[c] = "none" => FreeSockets(q) # {}
  BY DEF AskForDownload, Room, HasSocket
<1> QED
  BY <1>1, <1>2, <1>3, TryFrees, FreesKeeps

\* a client that may ask has no slot, or is banned
LEMMA RequestBounded ==
  ASSUME IInv, ~May("unban"), ~May("again"), Bounded(q),
         NEW c \in Client, StartUploadReq(c)
  PROVE  Bounded(q')
<1>1. PICK a \in Answers(c), r \in Requests(q, c) : q' = AddClientToQueue(q, c, a, r)
  BY DEF StartUploadReq
<1>2. Typed(q) /\ q.conn[c] = "up" /\ q.state[c] # "uploading"
  BY DEF IInv, StartUploadReq
<1>3. c \in banned \/ c \notin q.uploading
  BY <1>2 DEF IInv, BansEnd, Lists, ClientOk
<1> QED
  BY <1>1, <1>2, <1>3, AddClientBounded

LEMMA ProcessBounded ==
  ASSUME IInv, Bounded(q), Process
  PROVE  Bounded(q')
<1>1. q \in QueueState /\ Typed(q)
  BY DEF IInv, TypeOK
<1>2. CASE q' = q
  BY <1>2
<1>3. ASSUME NEW b \in {NoClient} \cup q.waiting, NEW a,
             NEW gone \in SUBSET q.waiting, NEW late \in {NoClient} \cup q.waiting,
             ForceNewClient(q, FALSE, a),
             b # NoClient => Room(q, b),
             <<b, late>> \in FindBest(Purge(q, gone)),
             q' = OpenSlot(Purge(q, gone), a, b, late)
      PROVE  Bounded(q')
  <2> DEFINE X == Purge(q, gone).addNext \cup ({late} \ {NoClient})
             r == Found(q, gone, X)
  <2>1. Purge(q, gone).addNext = q.addNext \ gone
    BY <1>1 DEF Purge, QueueState
  <2>2. X \in SUBSET Client /\ gone \in SUBSET Client
    BY <1>1, <2>1 DEF QueueState
  <2>3. q' = r \/ (b # NoClient /\ q' = AddUpNextClient(r, b, a))
    <3>1. r = [Purge(q, gone) EXCEPT !.addNext = @ \cup ({late} \ {NoClient})]
      BY <1>1 DEF Found, Purge, QueueState
    <3> HIDE DEF r, X
    <3> QED
      BY <1>3, <3>1 DEF OpenSlot
  <2> HIDE DEF X
  <2>4. Typed(r)
    BY <1>1, <1>3, <2>2, FoundKeeps
  <2>5. r.conn = q.conn /\ r.sock = q.sock /\ r.std = q.std
    BY <1>1 DEF Found, Purge, QueueState
  <2>6. r.uploading = q.uploading /\ r.coll = q.coll
    BY <1>1 DEF Found, Purge, QueueState
  <2> HIDE DEF r
  <2>7. r \in QueueState
    BY <2>4 DEF Typed
  <2>8. CASE q' = r
    BY <1>1, <2>6, <2>8, SameSlots
  <2>9. CASE b # NoClient /\ q' = AddUpNextClient(r, b, a)
    <3>1. b \in Client /\ Room(q, b)
      BY <1>1, <1>3, <2>9 DEF QueueState
    <3>2. r.conn[b] = "none" => FreeSockets(r) # {}
      BY <2>5, <3>1 DEF Room, FreeSockets, HasSocket
    <3>3. HalfOk(r, b)
      BY <2>4, <3>1 DEF Typed
    <3>4. Adds(r, q', b)
      BY <2>7, <2>9, <3>1, <3>2, <3>3, AddUpNextAdds
    <3>5. Cardinality(r.uploading) <= MaxSlots
      BY <1>1, <1>3, <2>6, ForceCounts
    <3> QED
      BY <2>7, <3>1, <3>4, <3>5, AddsCountedKeeps
  <2> QED
    BY <2>3, <2>8, <2>9
<1> QED
  BY <1>2, <1>3 DEF Process

LEMMA ProcessSlotBounded ==
  ASSUME IInv, Bounded(q), ProcessSlot
  PROVE  Bounded(q')
<1> DEFINE s == RemoveFromUploadQueue(q, pos)
<1>1. q \in QueueState /\ Typed(q) /\ pos \in Client
  BY DEF IInv, TypeOK, ProcessSlot
<1>2. /\ Touches(q, s, pos) /\ pos \notin s.uploading
      /\ s.conn[pos] = q.conn[pos]
      /\ HalfOk(q, pos) => HalfOk(s, pos)
  BY <1>1, RemoveUploadKeeps
<1>3. /\ s \in QueueState
      /\ s.alive = q.alive /\ s.waiting = q.waiting
      /\ s.uploading = q.uploading \ {pos}
      /\ s.conn = q.conn /\ s.connecting = q.connecting
      /\ s.state = IF pos \in q.uploading
                   THEN [q.state EXCEPT ![pos] = "none"] ELSE q.state
  BY <1>1, RemoveUploadFields
<1>4. Bounded(s)
  BY <1>1, RemoveUploadFrees, FreesKeeps
<1>5. ASSUME NEW a, NEW event, q' = ServeSlot(q, pos, a, event)
      PROVE  Bounded(q')
  <2>1. q' = q \/ q' = s \/ q' = Disconnect(s, pos, a)
    BY <1>5 DEF ServeSlot
  <2> HIDE DEF s
  <2>2. CASE q' = Disconnect(s, pos, a)
    BY <1>1, <1>3, <1>4, <2>2, DisconnectFrees, FreesKeeps
  <2> QED
    BY <1>4, <2>1, <2>2
<1>6. ASSUME HasSocket(q, pos), NEW a, NEW r \in Requests(q, pos),
             q' = EndSession(q, pos, a, r)
      PROVE  Bounded(q')
  <2>1. q' = AddClientToQueue(s, pos, a, r)
    BY <1>6 DEF EndSession
  <2> HIDE DEF s
  <2>2. r \in Requests(s, pos)
    BY <1>3 DEF Requests
  <2>3. s.conn[pos] # "none"
    BY <1>2, <1>6 DEF HasSocket
  <2>4. HalfOk(s, pos)
    BY <1>1, <1>2 DEF Typed
  <2>5. Typed(s)
    BY <1>1, <1>2, <2>4, TouchesTyped
  <2> QED
    BY <1>1, <1>2, <1>4, <2>1, <2>2, <2>3, <2>5, AddClientBounded
<1> HIDE DEF s
<1> QED
  BY <1>5, <1>6 DEF ProcessSlot

LEMMA StepBounded ==
  ASSUME NoUnban, IInv, ~May("again"), Bounded(q), [Next]_vars
  PROVE  Bounded(q')
<1>1. ~May("unban") /\ q \in QueueState
  BY DEF NoUnban, IInv, TypeOK, May
<1>2. CASE q' = q
  BY <1>2
<1>3. ASSUME NEW c \in Client,
             \/ ClientConnects(c) \/ OnConnect(c) \/ HelloAnswer(c)
             \/ SocketCloses(c) \/ ConnectTimeout(c) \/ AskForDownload(c)
             \/ StartUploadReq(c) \/ CancelTransfer(c) \/ Ban(c) \/ UnBan(c)
      PROVE  Bounded(q')
  BY <1>1, <1>3, EventBounded, AskBounded, RequestBounded
<1>4. ASSUME NEW n \in 1..MaxSock, DeleteSocket(n) PROVE Bounded(q')
  <2>1. q'.uploading = q.uploading /\ q'.coll = q.coll
    BY <1>1, <1>4 DEF DeleteSocket, QueueState
  <2> QED
    BY <1>1, <2>1, SameSlots
<1>5. CASE Process
  BY <1>5, ProcessBounded
<1>6. CASE ProcessSlot
  BY <1>6, ProcessSlotBounded
<1>7. UNCHANGED vars \/ ProcessEnd => q' = q
  BY DEF vars, ProcessEnd
<1> QED
  BY <1>2, <1>3, <1>4, <1>5, <1>6, <1>7 DEF Next

(***************************************************************************)
(* Whichever of the four places opens them, and however the handlers nest, *)
(* at most one slot more than MaxSlots is open that is not one for a       *)
(* collection, if no ban is ended by the user and no client asks again     *)
(* while it is served.                                                     *)
(***************************************************************************)
THEOREM SlotsAreBounded ==
  ASSUME NoUnban
  PROVE  Spec => []SlotBound
<1>1. SlotBound <=> (May("again") \/ Bounded(q))
  BY DEF SlotBound, Bounded, Ordinary
<1>2. Init => SlotBound
  <2> SUFFICES ASSUME Init PROVE Bounded(q)
    BY <1>1
  <2>1. Ordinary(q) = {}
    BY DEF Init, Ordinary
  <2> QED
    BY <2>1, FS_EmptySet, QueueAssumption DEF Bounded
<1>3. IInv /\ SlotBound /\ [Next]_vars => SlotBound'
  <2> SUFFICES ASSUME IInv, SlotBound, [Next]_vars PROVE SlotBound'
    OBVIOUS
  <2>1. env' = env
    BY DEF vars, Next, ClientConnects, OnConnect, HelloAnswer, SocketCloses,
       ConnectTimeout, AskForDownload, StartUploadReq, CancelTransfer, Ban,
       UnBan, DeleteSocket, Process, ProcessSlot, ProcessEnd, Idle
  <2>2. CASE May("again")
    BY <2>1, <2>2 DEF SlotBound, May
  <2>3. CASE ~May("again")
    <3>1. Bounded(q')
      BY <1>1, <2>3, NoUnban, StepBounded
    <3> QED
      BY <3>1 DEF SlotBound, Bounded, Ordinary
  <2> QED
    BY <2>2, <2>3
<1> QED
  BY InitInv, StepInv, <1>2, <1>3, PTL DEF Spec

(***************************************************************************)
(* That a client with an upload slot is served: its socket is in the list  *)
(* on which the throttler calls send.                                      *)
(*                                                                         *)
(* InsertInUploadingList gives the throttler a socket, once, when the slot *)
(* is opened, and RemoveFromUploadQueue takes it back.  So a slot must be  *)
(* opened only for a client with a socket (AddUpNextClient tries to        *)
(* connect first, and a try that is refused deletes the client), and a     *)
(* client may lose its socket only together with its slot.  Disconnect     *)
(* takes a slot only if the client's state says so; that it does is the    *)
(* invariant of UploadQueueProofs.                                         *)
(***************************************************************************)

\* the throttler serves the socket of client c
Fed(s, c) == HasSocket(s, c) /\ s.sock[c] \in s.std
\* no two clients have one socket
Apart(s) ==
  \A c, d \in Client : c # d /\ HasSocket(s, c) /\ HasSocket(s, d)
                         => s.sock[c] # s.sock[d]
\* a client with a slot is served; a connection try has made a socket, unless
\* the client was asked to call back
ServedOk(s, c) ==
  /\ c \in s.uploading => Fed(s, c)
  /\ c \in s.connecting /\ c \notin env.low => HasSocket(s, c)
Served(s) == Apart(s) /\ \A c \in Client : ServedOk(s, c)

\* from s to t nothing changes but for client c, and who was served still is
Leaves(s, t, c) ==
  /\ Touches(s, t, c) /\ Apart(t)
  /\ \A d \in Client : d # c /\ Fed(s, d) => Fed(t, d)

\* scenarios in which a client with a slot keeps its socket
Plain == env.may \cap {"swap", "nosocket", "chat", "ban"} = {}

LEMMA LeavesTwice ==
  ASSUME NEW s, NEW r, NEW t, NEW c \in Client, Leaves(s, r, c), Leaves(r, t, c)
  PROVE  Leaves(s, t, c)
BY TouchesTwice DEF Leaves

LEMMA LeavesServed ==
  ASSUME NEW s, NEW t, NEW c \in Client, Served(s), Leaves(s, t, c), ServedOk(t, c)
  PROVE  Served(t)
BY DEF Served, Leaves, ServedOk, Touches, SameFor, HasSocket

\* the client gets no socket, and at most its own is taken off the list
LEMMA LeavesIf ==
  ASSUME NEW s, NEW t, NEW c \in Client, Apart(s), Touches(s, t, c),
         t.sock = s.sock, HasSocket(t, c) => HasSocket(s, c),
         \A n \in s.std : n \in t.std \/ (HasSocket(s, c) /\ n = s.sock[c])
  PROVE  Leaves(s, t, c)
<1>1. \A d \in Client : HasSocket(t, d) => HasSocket(s, d)
  BY DEF Touches, SameFor, HasSocket
<1>2. Apart(t)
  BY <1>1 DEF Apart
<1>3. ASSUME NEW d \in Client, d # c, Fed(s, d) PROVE Fed(t, d)
  <2>1. HasSocket(t, d)
    BY <1>3 DEF Fed, Touches, SameFor, HasSocket
  <2>2. s.sock[d] \in t.std
    BY <1>3 DEF Fed, Apart
  <2> QED
    BY <2>1, <2>2 DEF Fed
<1> QED
  BY <1>2, <1>3 DEF Leaves

-------------------------------------------------------------------------------
LEMMA RemoveUploadLeaves ==
  ASSUME NEW s \in QueueState, NEW c \in Client, NEW t, Apart(s),
         t = RemoveFromUploadQueue(s, c)
  PROVE  Leaves(s, t, c) /\ t.conn = s.conn /\ t.sock = s.sock
<1>1. /\ t \in QueueState
      /\ t.alive = s.alive /\ t.waiting = s.waiting
      /\ t.uploading = s.uploading \ {c}
      /\ t.conn = s.conn /\ t.sock = s.sock /\ t.connecting = s.connecting
      /\ t.state = IF c \in s.uploading THEN [s.state EXCEPT ![c] = "none"]
                   ELSE s.state
  BY RemoveUploadFields
<1>2. t.std = IF c \in s.uploading /\ HasSocket(s, c)
              THEN s.std \ {s.sock[c]} ELSE s.std
  BY DEF RemoveFromUploadQueue, QueueState
<1>3. Touches(s, t, c)
  BY RemoveUploadKeeps
<1> QED
  BY <1>1, <1>2, <1>3, LeavesIf DEF HasSocket

LEMMA RemoveWaitingLeaves ==
  ASSUME NEW s \in QueueState, NEW c \in Client, NEW t, Apart(s),
         t = RemoveFromWaitingQueue(s, c)
  PROVE  /\ Leaves(s, t, c) /\ t.conn = s.conn
         /\ ServedOk(s, c) => ServedOk(t, c)
<1>1. /\ t \in QueueState
      /\ t.alive = s.alive /\ t.uploading = s.uploading
      /\ t.waiting = s.waiting \ {c}
      /\ t.conn = s.conn /\ t.sock = s.sock /\ t.connecting = s.connecting
      /\ t.std = s.std
      /\ t.state = IF c \in s.waiting THEN [s.state EXCEPT ![c] = "none"]
                   ELSE s.state
  BY RemoveWaitingFields
<1>2. Touches(s, t, c)
  BY RemoveWaitingKeeps
<1>3. Leaves(s, t, c)
  BY <1>1, <1>2, LeavesIf DEF HasSocket
<1> QED
  BY <1>1, <1>3 DEF ServedOk, Fed, HasSocket

LEMMA EstablishedLeaves ==
  ASSUME NEW s \in QueueState, NEW c \in Client, NEW t, Apart(s),
         t = ConnectionEstablished(s, c), s.conn[c] = "up"
  PROVE  Leaves(s, t, c) /\ t.conn = s.conn /\ (ServedOk(s, c) => ServedOk(t, c))
<1>1. /\ t \in QueueState
      /\ t.alive = s.alive /\ t.waiting = s.waiting
      /\ t.uploading = s.uploading
      /\ t.conn = s.conn /\ t.sock = s.sock
      /\ t.connecting = s.connecting \ {c}
      /\ t.state = [s.state EXCEPT
                     ![c] = IF @ = "connecting" /\ c \in s.uploading
                            THEN "uploading" ELSE @]
  BY EstablishedFields
<1>2. t.std = s.std
  BY DEF ConnectionEstablished, QueueState
<1>3. Touches(s, t, c)
  BY EstablishedKeeps
<1>4. Leaves(s, t, c)
  BY <1>1, <1>2, <1>3, LeavesIf DEF HasSocket
<1> QED
  BY <1>1, <1>2, <1>4 DEF ServedOk, Fed, HasSocket

LEMMA NoConnectionLeaves ==
  ASSUME NEW s \in QueueState, NEW c \in Client, NEW X \in SUBSET Client, NEW t,
         Apart(s), t = Unconnected(s, c, X),
         \A d \in Client : d # c => (d \in X <=> d \in s.connecting)
  PROVE  Leaves(s, t, c) /\ t.conn[c] = "none"
<1>1. /\ t \in QueueState
      /\ t.alive = s.alive /\ t.waiting = s.waiting
      /\ t.uploading = s.uploading /\ t.state = s.state
      /\ t.connecting = X /\ t.std = s.std /\ t.sock = s.sock
      /\ t.conn = [s.conn EXCEPT ![c] = "none"]
  BY NoConnectionFields
<1>2. t.conn[c] = "none" /\ \A d \in Client : d # c => t.conn[d] = s.conn[d]
  BY <1>1 DEF QueueState
<1>3. Touches(s, t, c)
  BY <1>1, <1>2 DEF Touches, SameFor
<1> QED
  BY <1>1, <1>2, <1>3, LeavesIf DEF HasSocket

\* a socket that nobody has
LEMMA NewSocketIsNew ==
  ASSUME NEW s, FreeSockets(s) # {}
  PROVE  \A d \in Client : HasSocket(s, d) => s.sock[d] # NewSocket(s)
BY DEF NewSocket, FreeSockets

LEMMA NewTryLeaves ==
  ASSUME NEW s \in QueueState, NEW c \in Client, NEW t, Apart(s),
         t = NewTry(s, c), FreeSockets(s) # {}
  PROVE  Leaves(s, t, c) /\ t.conn[c] = "half"
<1>1. /\ t \in QueueState
      /\ t.alive = s.alive /\ t.waiting = s.waiting
      /\ t.uploading = s.uploading /\ t.state = s.state
      /\ t.connecting = s.connecting
      /\ t.conn = [s.conn EXCEPT ![c] = "half"]
  BY NewTryFields
<1>2. t.std = s.std /\ t.sock = [s.sock EXCEPT ![c] = NewSocket(s)]
  BY DEF NewTry, QueueState
<1>3. /\ t.conn[c] = "half" /\ t.sock[c] = NewSocket(s)
      /\ \A d \in Client : d # c => t.conn[d] = s.conn[d] /\ t.sock[d] = s.sock[d]
  BY <1>1, <1>2 DEF QueueState
<1>4. Touches(s, t, c)
  BY <1>1, <1>3 DEF Touches, SameFor
<1>5. Apart(t)
  BY <1>3, NewSocketIsNew DEF Apart, HasSocket
<1>6. \A d \in Client : d # c /\ Fed(s, d) => Fed(t, d)
  BY <1>2, <1>3 DEF Fed, HasSocket
<1> QED
  BY <1>3, <1>4, <1>5, <1>6 DEF Leaves

LEMMA StateLeaves ==
  ASSUME NEW s \in QueueState, NEW c \in Client, NEW x \in UploadState, NEW t,
         Apart(s), t = WithState(s, c, x)
  PROVE  Leaves(s, t, c)
<1>1. /\ t.conn = s.conn /\ t.sock = s.sock /\ t.std = s.std /\ Touches(s, t, c)
  BY StateFields
<1> QED
  BY <1>1, LeavesIf DEF HasSocket

\* a client with a socket is served when its slot is inserted
LEMMA InsertLeaves ==
  ASSUME NEW s \in QueueState, NEW c \in Client, NEW t, Apart(s),
         t = InsertInUploadingList(s, c), HasSocket(s, c)
  PROVE  Leaves(s, t, c) /\ ServedOk(t, c)
<1>1. /\ t \in QueueState
      /\ t.alive = s.alive /\ t.waiting = s.waiting
      /\ t.uploading = s.uploading \cup {c}
      /\ t.conn = s.conn /\ t.sock = s.sock /\ t.connecting = s.connecting
      /\ t.state = s.state
  BY InsertFields
<1>2. t.std = s.std \cup {s.sock[c]}
  BY DEF InsertInUploadingList, QueueState
<1>3. Touches(s, t, c)
  BY InsertKeeps
<1>4. Leaves(s, t, c)
  BY <1>1, <1>2, <1>3, LeavesIf DEF HasSocket
<1> QED
  BY <1>1, <1>2, <1>4 DEF ServedOk, Fed, HasSocket

LEMMA DeleteLeaves ==
  ASSUME NEW s \in QueueState, NEW c \in Client, NEW t, Apart(s),
         t = DeleteClient(s, c)
  PROVE  Leaves(s, t, c)
<1> DEFINE u == RemoveFromUploadQueue(s, c)
           r == RemoveFromWaitingQueue(u, c)
<1>1. Leaves(s, u, c) /\ u \in QueueState /\ Apart(u)
  BY RemoveUploadLeaves DEF Leaves, Touches
<1>2. /\ t \in QueueState
      /\ t.alive = s.alive \ {c} /\ t.waiting = s.waiting \ {c}
      /\ t.uploading = s.uploading \ {c}
      /\ t.conn = [s.conn EXCEPT ![c] = "none"]
      /\ t.connecting = s.connecting \ {c}
      /\ t.state = [s.state EXCEPT ![c] = "none"]
  BY DeleteFields
<1>3. t = [r EXCEPT !.alive = @ \ {c}, !.connecting = @ \ {c},
                    !.coll = @ \ {c}, !.addNext = @ \ {c},
                    !.state[c] = "none", !.conn[c] = "none"]
  BY DEF DeleteClient
<1> HIDE DEF u
<1>4. Leaves(u, r, c) /\ r \in QueueState /\ Apart(r)
  BY <1>1, RemoveWaitingLeaves DEF Leaves, Touches
<1> HIDE DEF r
<1>5. Leaves(s, r, c)
  BY <1>1, <1>4, LeavesTwice
<1>6. t.sock = r.sock /\ t.std = r.std
  BY <1>3, <1>4 DEF QueueState
<1>7. s.conn \in [Client -> Connection] /\ s.state \in [Client -> UploadState]
  BY DEF QueueState
<1>8. Touches(s, t, c) /\ t.conn[c] = "none"
  BY <1>2, <1>7 DEF Touches, SameFor
<1>9. \A d \in Client : d # c => SameFor(r, t, d)
  BY <1>5, <1>8 DEF Leaves, Touches, SameFor
<1>10. Touches(r, t, c)
  BY <1>8, <1>9 DEF Touches
<1>11. Leaves(r, t, c)
  BY <1>4, <1>6, <1>8, <1>10, LeavesIf DEF HasSocket
<1> QED
  BY <1>5, <1>11, LeavesTwice

-------------------------------------------------------------------------------
\* a client that is disconnected has no slot left if its state told that it had
LEMMA DisconnectServes ==
  ASSUME NEW s \in QueueState, NEW c \in Client, NEW a, NEW t, Apart(s),
         t = Disconnect(s, c, a),
         c \in s.uploading => s.state[c] \in {"uploading", "connecting"}
  PROVE  Leaves(s, t, c) /\ ServedOk(t, c) /\ c \notin t.uploading
<1> DEFINE r == LoseSlot(s, c)
           k == Unconnected(r, c, r.connecting)
           l == Unconnected(r, c, r.connecting \ {c})
<1>1. Leaves(s, r, c)
  <2>1. r = RemoveFromUploadQueue(s, c) \/ r = s
    BY DEF LoseSlot
  <2>2. CASE r = s
    BY <2>2 DEF Leaves, Touches, SameFor
  <2>3. CASE r = RemoveFromUploadQueue(s, c)
    <3> HIDE DEF r
    <3> QED
      BY <2>3, RemoveUploadLeaves
  <2> QED
    BY <2>1, <2>2, <2>3
<1>2. r \in QueueState /\ Apart(r)
  BY <1>1 DEF Leaves, Touches
<1>3. t = DeleteClient(k, c) \/ t = l
  <2>1. k = [r EXCEPT !.conn[c] = "none"]
    BY <1>2 DEF Unconnected, QueueState
  <2>2. l = [r EXCEPT !.conn[c] = "none", !.connecting = @ \ {c}]
    BY <1>2 DEF Unconnected, QueueState
  <2> HIDE DEF k, l
  <2> QED
    BY <2>1, <2>2 DEF Disconnect
<1> HIDE DEF r
<1>4. r.connecting \in SUBSET Client /\ r.connecting \ {c} \in SUBSET Client
  BY <1>2 DEF QueueState
<1>5. Leaves(s, t, c)
  <2>1. CASE t = l
    <3>1. Leaves(r, t, c)
      BY <1>2, <1>4, <2>1, NoConnectionLeaves
    <3> QED
      BY <1>1, <3>1, LeavesTwice
  <2>2. CASE t = DeleteClient(k, c)
    <3>1. Leaves(r, k, c)
      BY <1>2, <1>4, NoConnectionLeaves
    <3> HIDE DEF k
    <3>2. k \in QueueState /\ Apart(k)
      BY <3>1 DEF Leaves, Touches
    <3>3. Leaves(k, t, c)
      BY <2>2, <3>2, DeleteLeaves
    <3> QED
      BY <1>1, <3>1, <3>3, LeavesTwice
  <2> QED
    BY <1>3, <2>1, <2>2
<1>6. /\ t.conn[c] = "none" /\ c \notin t.connecting /\ c \notin t.uploading
  <2> HIDE DEF k, l
  <2> QED
    BY DisconnectCases
<1> QED
  BY <1>5, <1>6 DEF ServedOk

\* a client whose connection try is given up is deleted
LEMMA TriedIsDeleted ==
  ASSUME NEW s \in QueueState, NEW c \in Client, NEW a, NEW t, ~May("chat"),
         t = Disconnect(s, c, a), c \in s.connecting
  PROVE  c \notin t.alive
<1> DEFINE r == LoseSlot(s, c)
           k == [r EXCEPT !.conn[c] = "none"]
<1>1. r \in QueueState /\ c \in r.connecting
  <2>1. r = RemoveFromUploadQueue(s, c) \/ r = s
    BY DEF LoseSlot
  <2> HIDE DEF r
  <2> QED
    BY <2>1, RemoveUploadKeeps DEF Touches
<1>2. t = DeleteClient(k, c)
  BY <1>1 DEF Disconnect, Unneeded
<1> HIDE DEF r
<1>3. k = Unconnected(r, c, r.connecting) /\ r.connecting \in SUBSET Client
  BY <1>1 DEF Unconnected, QueueState
<1> HIDE DEF k
<1>4. k \in QueueState
  BY <1>1, <1>3, NoConnectionFields
<1>5. /\ t \in QueueState
      /\ t.alive = k.alive \ {c} /\ t.waiting = k.waiting \ {c}
      /\ t.uploading = k.uploading \ {c}
      /\ t.conn = [k.conn EXCEPT ![c] = "none"]
      /\ t.connecting = k.connecting \ {c}
      /\ t.state = [k.state EXCEPT ![c] = "none"]
  BY <1>2, <1>4, DeleteFields
<1> QED
  BY <1>5

\* after a connection try a client that can be reached, and is not deleted, has
\* a socket
LEMMA TryServes ==
  ASSUME NEW s \in QueueState, NEW c \in Client, NEW a \in Answers(c), NEW t,
         Apart(s), t = TryToConnect(s, c, a), HalfOk(s, c),
         s.conn[c] = "none" => FreeSockets(s) # {}, Plain, banned = {},
         c \in s.uploading => s.state[c] \in {"uploading", "connecting"},
         ServedOk(s, c)
  PROVE  /\ Leaves(s, t, c) /\ ServedOk(t, c)
         /\ c \in t.alive /\ (c \in env.low => HasSocket(s, c)) => HasSocket(t, c)
<1> DEFINE X == s.connecting \cup {c}
           r == Unconnected(s, c, X)
<1>1. CASE c \in s.connecting \/ s.conn[c] = "hello"
  <2>1. t = s
    BY <1>1 DEF TryToConnect
  <2>2. Leaves(s, t, c)
    BY <2>1 DEF Leaves, Touches, SameFor
  <2> QED
    BY <1>1, <2>1, <2>2 DEF ServedOk, HasSocket
<1>2. CASE c \notin s.connecting /\ s.conn[c] = "up"
  <2>1. t = ConnectionEstablished(s, c)
    BY <1>2 DEF TryToConnect
  <2>2. Leaves(s, t, c) /\ t.conn = s.conn /\ (ServedOk(s, c) => ServedOk(t, c))
    BY <1>2, <2>1, EstablishedLeaves
  <2> QED
    BY <1>2, <2>2 DEF HasSocket
<1>3. CASE c \notin s.connecting /\ s.conn[c] \notin {"hello", "up"}
  <2>1. X \in SUBSET Client /\ \A d \in Client : d # c => (d \in X <=> d \in s.connecting)
    BY DEF QueueState
  <2>2. r = [s EXCEPT !.conn[c] = "none", !.connecting = @ \cup {c}]
    BY DEF Unconnected, QueueState
  <2>3. \/ t = Disconnect(r, c, a)
        \/ a.connect = "half" /\ t = NewTry(r, c)
        \/ a.connect # "half" /\ a.connect # "refused" /\ t = r
    BY <1>3, <2>2 DEF TryToConnect, NewTry
  <2>4. a.connect \in {"half", "refused"} \/ c \in env.low
    BY DEF Answers, Plain, May
  <2>5. s.conn[c] = "none" /\ s.conn \in [Client -> Connection]
    BY <1>3 DEF HalfOk, QueueState, Connection
  <2>6. c \notin s.uploading
    BY <2>5 DEF ServedOk, Fed, HasSocket
  <2> HIDE DEF X
  <2>7. Leaves(s, r, c)
    BY <2>1, NoConnectionLeaves
  <2>8. /\ r \in QueueState /\ r.uploading = s.uploading
        /\ r.connecting = X /\ r.std = s.std /\ r.sock = s.sock
        /\ r.conn = [s.conn EXCEPT ![c] = "none"]
    BY <2>1, NoConnectionFields
  <2>9. r.conn = s.conn /\ c \in r.connecting /\ Apart(r)
    BY <2>5, <2>7, <2>8 DEF X, Leaves
  <2> HIDE DEF r
  <2>10. CASE t = Disconnect(r, c, a)
    <3>1. Leaves(r, t, c) /\ ServedOk(t, c)
      BY <2>6, <2>8, <2>9, <2>10, DisconnectServes
    <3>2. c \notin t.alive
      BY <2>8, <2>9, <2>10, TriedIsDeleted DEF Plain, May
    <3> QED
      BY <2>7, <3>1, <3>2, LeavesTwice
  <2>11. CASE t = NewTry(r, c)
    <3>1. FreeSockets(r) # {}
      BY <2>5, <2>8, <2>9 DEF FreeSockets, HasSocket
    <3>2. Leaves(r, t, c) /\ t.conn[c] = "half"
      BY <2>8, <2>9, <2>11, <3>1, NewTryLeaves
    <3>3. /\ t \in QueueState
          /\ t.alive = r.alive /\ t.waiting = r.waiting
          /\ t.uploading = r.uploading /\ t.state = r.state
          /\ t.connecting = r.connecting
          /\ t.conn = [r.conn EXCEPT ![c] = "half"]
      BY <2>8, <2>11, <3>1, NewTryFields
    <3>4. Leaves(s, t, c)
      BY <2>7, <3>2, LeavesTwice
    <3> QED
      BY <2>6, <2>8, <3>2, <3>3, <3>4 DEF ServedOk, HasSocket
  <2>12. CASE c \in env.low /\ t = r
    BY <2>5, <2>6, <2>7, <2>8, <2>12 DEF ServedOk, HasSocket
  <2> QED
    BY <2>3, <2>4, <2>10, <2>11, <2>12
<1> QED
  BY <1>1, <1>2, <1>3

LEMMA AddUpNextServes ==
  ASSUME NEW s \in QueueState, NEW c \in Client, NEW a \in Answers(c), NEW t,
         Apart(s), t = AddUpNextClient(s, c, a), HalfOk(s, c),
         s.conn[c] = "none" => FreeSockets(s) # {}, Plain, banned = {},
         c \in env.low => HasSocket(s, c), ServedOk(s, c)
  PROVE  Leaves(s, t, c) /\ ServedOk(t, c)
<1> DEFINE r == RemoveFromWaitingQueue(s, c)
           up == WithState(r, c, "uploading")
           k == WithState(r, c, "connecting")
           u == TryToConnect(k, c, a)
<1>1. t = IF c \in r.uploading THEN r
          ELSE IF r.conn[c] = "up" THEN InsertInUploadingList(up, c)
          ELSE IF c \in u.alive THEN InsertInUploadingList(u, c) ELSE u
  BY DEF AddUpNextClient, WithState
<1> HIDE DEF r
<1>2. Leaves(s, r, c) /\ ServedOk(r, c)
  BY RemoveWaitingLeaves DEF r
<1>3. /\ r \in QueueState /\ r.conn = s.conn /\ r.sock = s.sock /\ r.std = s.std
      /\ HalfOk(r, c) /\ Apart(r)
  BY <1>2, RemoveWaitingKeeps DEF r, Leaves, Touches
<1>4. CASE c \in r.uploading
  BY <1>1, <1>2, <1>4
<1>5. CASE c \notin r.uploading /\ r.conn[c] = "up"
  <2> HIDE DEF up
  <2>1. up \in QueueState /\ up.conn = r.conn
    BY <1>3, StateFields DEF up, UploadState
  <2>2. Leaves(r, up, c) /\ Apart(up)
    BY <1>3, StateLeaves DEF up, UploadState, Leaves
  <2>3. Leaves(up, t, c) /\ ServedOk(t, c)
    BY <1>1, <1>5, <2>1, <2>2, InsertLeaves DEF HasSocket
  <2> QED
    BY <1>2, <2>2, <2>3, LeavesTwice
<1>6. CASE c \notin r.uploading /\ r.conn[c] # "up"
  <2> HIDE DEF k, u
  <2>1. /\ k \in QueueState /\ k.uploading = r.uploading /\ k.conn = r.conn
        /\ k.sock = r.sock /\ k.std = r.std /\ k.connecting = r.connecting
    BY <1>3, StateFields DEF k, UploadState
  <2>2. Leaves(r, k, c) /\ Apart(k)
    BY <1>3, StateLeaves DEF k, UploadState, Leaves
  <2>3. /\ HalfOk(k, c) /\ (k.conn[c] = "none" => FreeSockets(k) # {})
        /\ ServedOk(k, c)
    BY <1>2, <1>3, <2>1 DEF HalfOk, FreeSockets, HasSocket, ServedOk, Fed
  <2>4. /\ Leaves(k, u, c) /\ ServedOk(u, c)
        /\ c \in u.alive /\ (c \in env.low => HasSocket(k, c)) => HasSocket(u, c)
    BY <1>6, <2>1, <2>2, <2>3, TryServes DEF u
  <2>5. Leaves(s, u, c) /\ u \in QueueState /\ Apart(u)
    BY <1>2, <2>2, <2>4, LeavesTwice DEF Leaves, Touches
  <2>6. CASE c \in u.alive
    <3>1. HasSocket(u, c)
      BY <1>3, <2>1, <2>4, <2>6 DEF HasSocket
    <3>2. Leaves(u, t, c) /\ ServedOk(t, c)
      BY <1>1, <1>6, <2>5, <2>6, <3>1, InsertLeaves
    <3> QED
      BY <2>5, <3>2, LeavesTwice
  <2>7. CASE c \notin u.alive
    BY <1>1, <1>6, <2>4, <2>5, <2>7
  <2> QED
    BY <2>6, <2>7
<1> QED
  BY <1>4, <1>5, <1>6

-------------------------------------------------------------------------------
LEMMA GiveWayServes ==
  ASSUME NEW s \in QueueState, NEW c \in Client, NEW a, NEW t, Apart(s),
         t = GiveWay(s, c, a), c \notin s.uploading, ServedOk(s, c)
  PROVE  Leaves(s, t, c) /\ ServedOk(t, c)
<1> DEFINE r == RemoveFromWaitingQueue(s, c)
<1>1. t = r \/ t = Disconnect(r, c, a)
  BY DEF GiveWay
<1>2. Leaves(s, r, c) /\ ServedOk(r, c)
  BY RemoveWaitingLeaves
<1>3. r \in QueueState /\ Apart(r) /\ c \notin r.uploading
  BY <1>2, RemoveWaitingKeeps DEF Leaves, Touches
<1> HIDE DEF r
<1>4. CASE t = r
  BY <1>2, <1>4
<1>5. CASE t = Disconnect(r, c, a)
  <2>1. Leaves(r, t, c) /\ ServedOk(t, c)
    BY <1>3, <1>5, DisconnectServes
  <2> QED
    BY <1>2, <2>1, LeavesTwice
<1> QED
  BY <1>1, <1>4, <1>5

\* the list of clients with a collection says nothing about service
LEMMA CollLeaves ==
  ASSUME NEW s \in QueueState, NEW c \in Client, NEW X \in SUBSET Client, NEW t,
         Apart(s), t = WithColl(s, X)
  PROVE  /\ Leaves(s, t, c) /\ t \in QueueState /\ Apart(t)
         /\ t.conn = s.conn /\ (HalfOk(s, c) => HalfOk(t, c))
         /\ ServedOk(s, c) => ServedOk(t, c)
<1>1. /\ t \in QueueState
      /\ t.uploading = s.uploading /\ t.conn = s.conn
      /\ t.connecting = s.connecting
      /\ Touches(s, t, c) /\ (HalfOk(s, c) => HalfOk(t, c))
  BY CollFields
<1>2. t.sock = s.sock /\ t.std = s.std
  BY DEF WithColl, QueueState
<1>3. Leaves(s, t, c)
  BY <1>1, <1>2, LeavesIf DEF HasSocket
<1> QED
  BY <1>1, <1>2, <1>3 DEF Leaves, ServedOk, Fed, HasSocket

LEMMA EnqueueServes ==
  ASSUME NEW s \in QueueState, NEW c \in Client, NEW a \in Answers(c), NEW r, NEW t,
         Apart(s), t = Enqueue(s, c, a, r), HalfOk(s, c), HasSocket(s, c),
         Plain, banned = {}, ServedOk(s, c)
  PROVE  Leaves(s, t, c) /\ ServedOk(t, c)
<1> DEFINE X == s.coll \cup {c}
           Y == s.coll \ {c}
           k == WithColl(s, X)
           l == WithColl(s, Y)
<1>1. \/ t = AddUpNextClient(k, c, a)
      \/ t = l
      \/ t = AddUpNextClient(l, c, a)
      \/ t = Queued(l, c)
  <2>1. /\ k = [s EXCEPT !.coll = @ \cup {c}]
        /\ l = [s EXCEPT !.coll = @ \ {c}]
    BY DEF WithColl, QueueState
  <2> HIDE DEF k, l
  <2> QED
    BY <2>1 DEF Enqueue, Queued
<1>2. X \in SUBSET Client /\ Y \in SUBSET Client
  BY DEF QueueState
<1> HIDE DEF X, Y
<1>3. /\ Leaves(s, k, c) /\ k \in QueueState /\ Apart(k)
      /\ k.conn = s.conn /\ HalfOk(k, c) /\ ServedOk(k, c)
  BY <1>2, CollLeaves
<1>4. /\ Leaves(s, l, c) /\ l \in QueueState /\ Apart(l)
      /\ l.conn = s.conn /\ HalfOk(l, c) /\ ServedOk(l, c)
  BY <1>2, CollLeaves
<1> HIDE DEF k, l
<1>5. CASE t = AddUpNextClient(k, c, a)
  <2>1. Leaves(k, t, c) /\ ServedOk(t, c)
    BY <1>3, <1>5, AddUpNextServes DEF HasSocket
  <2> QED
    BY <1>3, <2>1, LeavesTwice
<1>6. CASE t = l
  BY <1>4, <1>6
<1>7. CASE t = AddUpNextClient(l, c, a)
  <2>1. Leaves(l, t, c) /\ ServedOk(t, c)
    BY <1>4, <1>7, AddUpNextServes DEF HasSocket
  <2> QED
    BY <1>4, <2>1, LeavesTwice
<1>8. CASE t = Queued(l, c)
  <2>1. Touches(l, t, c)
    BY <1>4, <1>8, QueuedKeeps
  <2>2. /\ t.uploading = l.uploading /\ t.connecting = l.connecting
        /\ t.conn = l.conn /\ t.sock = l.sock /\ t.std = l.std
    BY <1>4, <1>8 DEF Queued, QueueState
  <2>3. Leaves(l, t, c)
    BY <1>4, <2>1, <2>2, LeavesIf DEF HasSocket
  <2>4. ServedOk(t, c)
    BY <1>4, <2>2 DEF ServedOk, Fed, HasSocket
  <2> QED
    BY <1>4, <2>3, <2>4, LeavesTwice
<1> QED
  BY <1>1, <1>5, <1>6, <1>7, <1>8

LEMMA AddClientServes ==
  ASSUME NEW s, NEW c \in Client, NEW a \in Answers(c), NEW r \in Requests(s, c),
         NEW t, t = AddClientToQueue(s, c, a, r), Typed(s), Lists(s, banned),
         HasSocket(s, c), Plain, banned = {}, Served(s)
  PROVE  Served(t)
<1> DEFINE u == IF r.twin = NoClient THEN s ELSE GiveWay(s, r.twin, a)
<1>0. s \in QueueState /\ HalfOk(s, c) /\ Apart(s)
  BY DEF Typed, Served
<1>1. \/ t = s \/ t = u \/ t = AskAgain(u, c, a)
      \/ t = Enqueue(u, c, a, r)
  BY DEF AddClientToQueue
<1>2. r.twin = NoClient \/ (r.twin \in s.waiting /\ r.twin # c)
  BY DEF Requests, Same
<1>3. u \in QueueState /\ SameFor(s, u, c) /\ Served(u)
  <2>1. CASE r.twin = NoClient
    BY <1>0, <2>1 DEF SameFor
  <2>2. CASE r.twin # NoClient
    <3>1. r.twin \in s.waiting /\ r.twin # c
      BY <1>2, <2>2
    <3>2. s.waiting \subseteq Client
      BY <1>0 DEF QueueState
    <3>3. PICK w \in Client : w = r.twin
      BY <3>1, <3>2
    <3>4. u = GiveWay(s, w, a)
      BY <2>2, <3>3
    <3> HIDE DEF u
    <3>5. w \notin s.uploading /\ ServedOk(s, w)
      BY <3>1, <3>3 DEF Lists, ClientOk, ListsOk, Served
    <3>6. Leaves(s, u, w) /\ ServedOk(u, w)
      BY <1>0, <3>4, <3>5, GiveWayServes
    <3>7. SameFor(s, u, c) /\ u \in QueueState
      BY <3>1, <3>3, <3>6 DEF Leaves, Touches
    <3>8. Served(u)
      BY <3>6, LeavesServed
    <3> QED
      BY <3>7, <3>8
  <2> QED
    BY <2>1, <2>2
<1> HIDE DEF u
<1>4. HalfOk(u, c) /\ HasSocket(u, c) /\ Apart(u) /\ ServedOk(u, c)
  BY <1>0, <1>3 DEF SameFor, HalfOk, HasSocket, Served
<1>5. ASSUME t = AddUpNextClient(u, c, a) PROVE Served(t)
  <2>1. Leaves(u, t, c) /\ ServedOk(t, c)
    BY <1>3, <1>4, <1>5, AddUpNextServes DEF HasSocket
  <2> QED
    BY <1>3, <2>1, LeavesServed
<1>6. CASE t = AskAgain(u, c, a)
  <2>1. t = u \/ t = AddUpNextClient(u, c, a)
    BY <1>6 DEF AskAgain
  <2> QED
    BY <1>3, <1>5, <2>1
<1>7. CASE t = Enqueue(u, c, a, r)
  <2>1. Leaves(u, t, c) /\ ServedOk(t, c)
    BY <1>3, <1>4, <1>7, EnqueueServes
  <2> QED
    BY <1>3, <2>1, LeavesServed
<1> QED
  BY <1>1, <1>3, <1>6, <1>7

-------------------------------------------------------------------------------
\* in such a scenario the lists and states agree, and nobody is banned
LEMMA PlainLists ==
  ASSUME IInv, Plain
  PROVE  /\ banned = {} /\ Lists(q, banned) /\ Typed(q) /\ q \in QueueState
         /\ ~May("swap") /\ ~May("ban")
         /\ \A c \in Client : c \in q.uploading
                                => q.state[c] \in {"uploading", "connecting"}
<1>1. ~May("ban") /\ ~May("swap")
  BY DEF Plain, May
<1>2. banned = {} /\ Lists(q, banned) /\ Typed(q) /\ q \in QueueState
  BY <1>1 DEF IInv, BansEnd, TypeOK
<1> QED
  BY <1>1, <1>2 DEF Lists, ClientOk, ListsOk

\* a client without a socket, and so without a slot, connects
LEMMA ConnectsServes ==
  ASSUME IInv, Plain, Served(q), NEW c \in Client, ClientConnects(c)
  PROVE  Served(q')
<1> DEFINE n == NewSocket(q)
           t == Connected(q, c, n)
<1>1. q \in QueueState /\ ~HasSocket(q, c) /\ FreeSockets(q) # {}
  BY PlainLists DEF ClientConnects
<1>2. n \in 1..MaxSock /\ \A d \in Client : HasSocket(q, d) => q.sock[d] # n
  BY <1>1, NewSocketIsOne, NewSocketIsNew
<1> HIDE DEF n
<1>3. /\ Touches(q, t, c)
      /\ c \in t.alive /\ t.conn[c] = "up"
      /\ t.waiting = q.waiting /\ t.uploading = q.uploading
      /\ t.connecting = q.connecting /\ t.state = q.state
  BY <1>1, <1>2, ConnectedFields
<1>4. t.std = q.std /\ t.sock = [q.sock EXCEPT ![c] = n]
  BY <1>1, <1>2 DEF Connected, QueueState
<1>5. q' = ConnectionEstablished(t, c)
  BY DEF ClientConnects, Connected, n
<1> HIDE DEF t
<1>6. t.sock[c] = n /\ \A d \in Client : d # c => t.sock[d] = q.sock[d]
  BY <1>1, <1>2, <1>4 DEF QueueState
<1>7. \A d \in Client : d # c => t.conn[d] = q.conn[d]
  BY <1>3 DEF Touches, SameFor
<1>8. Apart(t)
  BY <1>2, <1>6, <1>7 DEF Apart, Served, HasSocket
<1>9. \A d \in Client : d # c /\ Fed(q, d) => Fed(t, d)
  BY <1>4, <1>6, <1>7 DEF Fed, HasSocket
<1>10. Leaves(q, t, c) /\ t \in QueueState
  BY <1>3, <1>8, <1>9 DEF Leaves, Touches
<1>11. ServedOk(t, c)
  BY <1>1, <1>3 DEF Served, ServedOk, Fed, HasSocket
<1>12. Leaves(t, q', c) /\ ServedOk(q', c)
  BY <1>3, <1>5, <1>8, <1>10, <1>11, EstablishedLeaves
<1> QED
  BY <1>10, <1>11, <1>12, LeavesServed

\* our own connection goes from one state to the next on the same socket
LEMMA ConnectionLeaves ==
  ASSUME NEW s \in QueueState, NEW c \in Client, NEW x \in Connection, NEW t,
         Served(s), t = WithConnection(s, c, x), HasSocket(s, c), x # "none"
  PROVE  Leaves(s, t, c) /\ ServedOk(t, c) /\ t \in QueueState
<1>1. /\ Touches(s, t, c) /\ t.conn[c] = x
      /\ t.uploading = s.uploading /\ t.connecting = s.connecting
  BY ConnectionFields
<1>2. t.std = s.std /\ t.sock = s.sock
  BY DEF WithConnection, QueueState
<1>3. Leaves(s, t, c)
  BY <1>1, <1>2, LeavesIf DEF Served
<1> QED
  BY <1>1, <1>2, <1>3 DEF Touches, Served, ServedOk, Fed, HasSocket

LEMMA EventServes ==
  ASSUME IInv, Plain, Served(q), NEW c \in Client,
         \/ OnConnect(c) \/ HelloAnswer(c) \/ SocketCloses(c)
         \/ ConnectTimeout(c) \/ AskForDownload(c) \/ StartUploadReq(c)
         \/ CancelTransfer(c) \/ Ban(c) \/ UnBan(c)
  PROVE  Served(q')
<1>1. /\ banned = {} /\ Lists(q, banned) /\ Typed(q) /\ q \in QueueState
      /\ ~May("swap") /\ ~May("ban")
      /\ c \in q.uploading => q.state[c] \in {"uploading", "connecting"}
  BY PlainLists
<1>2. Apart(q) /\ ServedOk(q, c) /\ HalfOk(q, c)
  BY <1>1 DEF Served, Typed
<1>3. CASE OnConnect(c)
  <2>1. /\ q' = WithConnection(q, c, "hello") /\ HasSocket(q, c)
        /\ "hello" \in Connection
    BY <1>3 DEF OnConnect, WithConnection, HasSocket, Connection
  <2>2. Leaves(q, q', c) /\ ServedOk(q', c)
    BY <1>1, <2>1, ConnectionLeaves
  <2> QED
    BY <2>2, LeavesServed
<1>4. CASE HelloAnswer(c)
  <2> DEFINE t == WithConnection(q, c, "up")
  <2>1. /\ q' = ConnectionEstablished(t, c) /\ HasSocket(q, c)
        /\ "up" \in Connection
    BY <1>4 DEF HelloAnswer, WithConnection, HasSocket, Connection
  <2>2. /\ Touches(q, t, c) /\ t.conn[c] = "up"
        /\ t.alive = q.alive /\ t.waiting = q.waiting
        /\ t.uploading = q.uploading /\ t.connecting = q.connecting
        /\ t.state = q.state
    BY <1>1, <2>1, ConnectionFields
  <2>3. Leaves(q, t, c) /\ ServedOk(t, c) /\ t \in QueueState
    BY <1>1, <2>1, ConnectionLeaves
  <2> HIDE DEF t
  <2>4. Leaves(t, q', c) /\ ServedOk(q', c)
    BY <2>1, <2>2, <2>3, EstablishedLeaves DEF Leaves
  <2> QED
    BY <2>3, <2>4, LeavesServed
<1>5. CASE SocketCloses(c)
  <2>1. PICK a \in Answers(c), closed \in BOOLEAN :
          q' = Disconnect([q EXCEPT !.std = IF closed THEN @ \ {q.sock[c]} ELSE @],
                          c, a)
    BY <1>5 DEF SocketCloses
  <2> DEFINE X == IF closed THEN q.std \ {q.sock[c]} ELSE q.std
             t == WithStandardList(q, X)
  <2>2. q' = Disconnect(t, c, a)
    BY <1>1, <2>1 DEF WithStandardList, QueueState
  <2>3. X \in SUBSET (1..MaxSock) /\ \A n \in q.std : n \in X \/ n = q.sock[c]
    BY <1>1 DEF QueueState
  <2> HIDE DEF X
  <2>4. /\ t \in QueueState
        /\ t.alive = q.alive /\ t.waiting = q.waiting
        /\ t.uploading = q.uploading /\ t.connecting = q.connecting
        /\ t.state = q.state /\ t.conn = q.conn
    BY <1>1, <2>3, StandardListFields
  <2>5. t.std = X /\ t.sock = q.sock
    BY <1>1 DEF WithStandardList, QueueState
  <2> HIDE DEF t
  <2>6. HasSocket(q, c) /\ Touches(q, t, c)
    BY <1>5, <2>4 DEF SocketCloses, Touches, SameFor
  <2>7. Leaves(q, t, c) /\ Apart(t)
    BY <1>2, <2>3, <2>4, <2>5, <2>6, LeavesIf DEF Leaves, HasSocket
  <2>8. Leaves(t, q', c) /\ ServedOk(q', c)
    BY <1>1, <2>2, <2>4, <2>7, DisconnectServes
  <2>9. Leaves(q, q', c)
    BY <2>7, <2>8, LeavesTwice
  <2> QED
    BY <2>8, <2>9, LeavesServed
<1>6. CASE ConnectTimeout(c)
  <2>1. PICK a : q' = Disconnect(q, c, a)
    BY <1>6 DEF ConnectTimeout
  <2>2. Leaves(q, q', c) /\ ServedOk(q', c)
    BY <1>1, <1>2, <2>1, DisconnectServes
  <2> QED
    BY <2>2, LeavesServed
<1>7. CASE AskForDownload(c)
  <2>1. PICK a \in Answers(c) : q' = TryToConnect(q, c, a)
    BY <1>7 DEF AskForDownload
  <2>2. q.conn[c] = "none" => FreeSockets(q) # {}
    BY <1>7 DEF AskForDownload, Room, HasSocket
  <2>3. Leaves(q, q', c) /\ ServedOk(q', c)
    BY <1>1, <1>2, <2>1, <2>2, TryServes
  <2> QED
    BY <2>3, LeavesServed
<1>8. CASE StartUploadReq(c)
  <2>1. PICK a \in Answers(c), r \in Requests(q, c) : q' = AddClientToQueue(q, c, a, r)
    BY <1>8 DEF StartUploadReq
  <2>2. HasSocket(q, c)
    BY <1>8 DEF StartUploadReq, HasSocket
  <2> QED
    BY <1>1, <2>1, <2>2, AddClientServes
<1>9. CASE CancelTransfer(c)
  <2>1. q' = RemoveFromUploadQueue(q, c)
    BY <1>9 DEF CancelTransfer
  <2>2. Leaves(q, q', c) /\ q'.conn = q.conn
    BY <1>1, <1>2, <2>1, RemoveUploadLeaves
  <2>3. c \notin q'.uploading /\ (c \in q'.connecting <=> c \in q.connecting)
    BY <1>1, <2>1, RemoveUploadKeeps
  <2>4. ServedOk(q', c)
    BY <1>2, <2>2, <2>3 DEF ServedOk, HasSocket
  <2> QED
    BY <2>2, <2>4, LeavesServed
<1>10. ~Ban(c) /\ ~UnBan(c)
  BY <1>1 DEF Ban, UnBan
<1> QED
  BY <1>3, <1>4, <1>5, <1>6, <1>7, <1>8, <1>9, <1>10

\* only a socket that no client has is deleted
LEMMA DeleteSocketServes ==
  ASSUME q \in QueueState, Served(q), NEW n \in 1..MaxSock, DeleteSocket(n)
  PROVE  Served(q')
<1>1. /\ q'.uploading = q.uploading /\ q'.connecting = q.connecting
      /\ q'.conn = q.conn /\ q'.sock = q.sock /\ q'.std = q.std \ {n}
  BY DEF DeleteSocket, QueueState
<1>2. \A c \in Client : HasSocket(q, c) => q.sock[c] # n
  BY DEF DeleteSocket
<1> QED
  BY <1>1, <1>2 DEF Served, Apart, ServedOk, Fed, HasSocket

LEMMA ProcessServes ==
  ASSUME IInv, Plain, Served(q), Process
  PROVE  Served(q')
<1>1. banned = {} /\ Typed(q) /\ q \in QueueState
  BY PlainLists
<1>2. CASE q' = q
  BY <1>2
<1>3. ASSUME NEW b \in {NoClient} \cup q.waiting, NEW a \in Answers(b),
             NEW gone \in SUBSET q.waiting, NEW late \in {NoClient} \cup q.waiting,
             b # NoClient => Room(q, b),
             <<b, late>> \in FindBest(Purge(q, gone)),
             q' = OpenSlot(Purge(q, gone), a, b, late)
      PROVE  Served(q')
  <2> DEFINE X == Purge(q, gone).addNext \cup ({late} \ {NoClient})
             r == Found(q, gone, X)
  <2>1. Purge(q, gone).addNext = q.addNext \ gone /\ Purge(q, gone).conn = q.conn
    BY <1>1 DEF Purge, QueueState
  <2>2. X \in SUBSET Client /\ gone \in SUBSET Client
    BY <1>1, <2>1 DEF QueueState
  <2>3. q' = r \/ (b # NoClient /\ q' = AddUpNextClient(r, b, a))
    <3>1. r = [Purge(q, gone) EXCEPT !.addNext = @ \cup ({late} \ {NoClient})]
      BY <1>1 DEF Found, Purge, QueueState
    <3> HIDE DEF r, X
    <3> QED
      BY <1>3, <3>1 DEF OpenSlot
  <2>4. b # NoClient => (b \in env.low => IsConnected(Purge(q, gone), b))
    BY <1>3 DEF FindBest, Ready
  <2> HIDE DEF X
  <2>5. Typed(r)
    BY <1>1, <1>3, <2>2, FoundKeeps
  <2>6. /\ r.conn = q.conn /\ r.sock = q.sock /\ r.std = q.std
        /\ r.uploading = q.uploading /\ r.connecting = q.connecting
    BY <1>1 DEF Found, Purge, QueueState
  <2> HIDE DEF r
  <2>7. r \in QueueState
    BY <2>5 DEF Typed
  <2>8. Served(r)
    BY <2>6 DEF Served, Apart, ServedOk, Fed, HasSocket
  <2>9. CASE b # NoClient /\ q' = AddUpNextClient(r, b, a)
    <3>1. b \in Client /\ Room(q, b)
      BY <1>1, <1>3, <2>9 DEF QueueState
    <3>2. r.conn[b] = "none" => FreeSockets(r) # {}
      BY <2>6, <3>1 DEF Room, FreeSockets, HasSocket
    <3>3. HalfOk(r, b) /\ Apart(r) /\ ServedOk(r, b)
      BY <2>5, <2>8, <3>1 DEF Typed, Served
    <3>4. b \in env.low => HasSocket(r, b)
      BY <2>1, <2>4, <2>6, <2>9 DEF IsConnected, HasSocket
    <3>5. Leaves(r, q', b) /\ ServedOk(q', b)
      BY <1>1, <1>3, <2>7, <2>9, <3>1, <3>2, <3>3, <3>4, AddUpNextServes
    <3> QED
      BY <2>8, <3>1, <3>5, LeavesServed
  <2> QED
    BY <2>3, <2>8, <2>9
<1> QED
  BY <1>2, <1>3 DEF Process

LEMMA ProcessSlotServes ==
  ASSUME IInv, Plain, Served(q), ProcessSlot
  PROVE  Served(q')
<1> DEFINE s == RemoveFromUploadQueue(q, pos)
<1>1. /\ banned = {} /\ Lists(q, banned) /\ Typed(q) /\ q \in QueueState
      /\ pos \in Client
  BY PlainLists DEF ProcessSlot, IInv, TypeOK
<1>2. Apart(q) /\ ServedOk(q, pos)
  BY <1>1 DEF Served
<1>3. /\ Touches(q, s, pos) /\ pos \notin s.uploading
      /\ pos \in s.connecting <=> pos \in q.connecting
      /\ HalfOk(q, pos) => HalfOk(s, pos)
      /\ ClientOk(q, pos, banned) => ClientOk(s, pos, banned)
  BY <1>1, RemoveUploadKeeps
<1>4. Leaves(q, s, pos) /\ s.conn = q.conn
  BY <1>1, <1>2, RemoveUploadLeaves
<1>5. s.waiting = q.waiting
  BY <1>1, RemoveUploadFields
<1> HIDE DEF s
<1>6. ServedOk(s, pos)
  BY <1>2, <1>3, <1>4 DEF ServedOk, HasSocket
<1>7. Served(s) /\ s \in QueueState /\ Apart(s)
  BY <1>1, <1>4, <1>6, LeavesServed DEF Leaves, Touches
<1>8. ASSUME NEW a, NEW event, q' = ServeSlot(q, pos, a, event)
      PROVE  Served(q')
  <2>1. q' = q \/ q' = s \/ q' = Disconnect(s, pos, a)
    BY <1>8 DEF ServeSlot, s
  <2>2. CASE q' = Disconnect(s, pos, a)
    <3>1. Leaves(s, q', pos) /\ ServedOk(q', pos)
      BY <1>1, <1>3, <1>7, <2>2, DisconnectServes
    <3> QED
      BY <1>1, <1>7, <3>1, LeavesServed
  <2> QED
    BY <1>7, <2>1, <2>2
<1>9. ASSUME HasSocket(q, pos), NEW a \in Answers(pos), NEW r \in Requests(q, pos),
             q' = EndSession(q, pos, a, r)
      PROVE  Served(q')
  <2>1. q' = AddClientToQueue(s, pos, a, r)
    BY <1>9 DEF EndSession, s
  <2>2. r \in Requests(s, pos)
    BY <1>5, <1>9 DEF Requests
  <2>3. HasSocket(s, pos)
    BY <1>4, <1>9 DEF HasSocket
  <2>4. Typed(s)
    BY <1>1, <1>3, TouchesTyped DEF Typed
  <2>5. ClientOk(s, pos, banned)
    BY <1>1, <1>3 DEF Lists
  <2>6. Lists(s, banned)
    BY <1>1, <1>3, <2>5, TouchesLists
  <2> QED
    BY <1>1, <1>7, <1>9, <2>1, <2>2, <2>3, <2>4, <2>6, AddClientServes
<1> QED
  BY <1>8, <1>9 DEF ProcessSlot

LEMMA StepServes ==
  ASSUME IInv, Plain, Served(q), [Next]_vars
  PROVE  Served(q')
<1>1. q \in QueueState
  BY DEF IInv, TypeOK
<1>2. CASE q' = q
  BY <1>2
<1>3. ASSUME NEW c \in Client,
             \/ ClientConnects(c) \/ OnConnect(c) \/ HelloAnswer(c)
             \/ SocketCloses(c) \/ ConnectTimeout(c) \/ AskForDownload(c)
             \/ StartUploadReq(c) \/ CancelTransfer(c) \/ Ban(c) \/ UnBan(c)
      PROVE  Served(q')
  BY <1>3, ConnectsServes, EventServes
<1>4. ASSUME NEW n \in 1..MaxSock, DeleteSocket(n) PROVE Served(q')
  BY <1>1, <1>4, DeleteSocketServes
<1>5. CASE Process
  BY <1>5, ProcessServes
<1>6. CASE ProcessSlot
  BY <1>6, ProcessSlotServes
<1>7. UNCHANGED vars \/ ProcessEnd => q' = q
  BY DEF vars, ProcessEnd
<1> QED
  BY <1>2, <1>3, <1>4, <1>5, <1>6, <1>7 DEF Next

(***************************************************************************)
(* "The main thread will continuously call send on these sockets"          *)
(* (UploadBandwidthThrottler.cpp:85): whoever has a slot has a socket, and *)
(* the throttler has it in its list, whichever handlers open the slot and  *)
(* lose connections meanwhile, as long as no client is given another       *)
(* socket, can be created none, is kept as a chat partner or is banned.    *)
(***************************************************************************)
THEOREM SlotsStayServed == Spec => []ServedUnlessReplaced
<1> DEFINE S == Plain => Served(q)
<1>1. Init => S
  BY DEF Init, Served, Apart, ServedOk, HasSocket
<1>2. IInv /\ S /\ [Next]_vars => S'
  <2> SUFFICES ASSUME IInv, S, [Next]_vars PROVE S'
    OBVIOUS
  <2>1. env' = env
    BY DEF vars, Next, ClientConnects, OnConnect, HelloAnswer, SocketCloses,
       ConnectTimeout, AskForDownload, StartUploadReq, CancelTransfer, Ban,
       UnBan, DeleteSocket, Process, ProcessSlot, ProcessEnd, Idle
  <2>2. CASE Plain
    <3>1. Served(q')
      BY <2>2, StepServes
    <3> QED
      BY <2>1, <3>1 DEF Served, Apart, ServedOk, Fed, HasSocket
  <2>3. CASE ~Plain
    BY <2>1, <2>3 DEF Plain
  <2> QED
    BY <2>2, <2>3
<1>3. IInv /\ S => ServedUnlessReplaced
  <2> SUFFICES ASSUME IInv, Plain, Served(q) PROVE SlotsAreServed
    BY DEF Plain, ServedUnlessReplaced
  <2>1. q.uploading \subseteq Client
    BY DEF IInv, TypeOK, QueueState
  <2> QED
    BY <2>1 DEF Served, ServedOk, Fed, SlotsAreServed
<1> HIDE DEF S
<1> QED
  BY InitInv, StepInv, <1>1, <1>2, <1>3, PTL DEF Spec
===============================================================================
