--------------------------- MODULE UploadQueueProofs ---------------------------
(***************************************************************************)
(* Theorems about UploadQueue, for any number of clients, sockets and      *)
(* slots and every scenario.                                               *)
(*                                                                         *)
(* The argument: a handler is a chain of operators on the record q.  Each  *)
(* operator keeps Typed and, but for the client it is about in the middle  *)
(* of AddUpNextClient, Lists; an action is one such chain.                 *)
(***************************************************************************)
EXTENDS UploadQueue, TLAPS

\* a socket that is connecting was made by a connection try that goes on
HalfOk(s, c) == s.conn[c] = "half" => c \in s.connecting
Typed(s) == s \in QueueState /\ \A c \in Client : HalfOk(s, c)

\* the lists, the state and the connection of client c agree; B: the banned
ListsOk(s, c, B) ==
  /\ ~(c \in s.waiting /\ c \in s.uploading)
  /\ c \in s.waiting \/ c \in s.uploading \/ c \in s.connecting => c \in s.alive
  /\ s.conn[c] # "none" => c \in s.alive
  /\ s.state[c] = "onqueue" => c \in s.waiting
  /\ s.state[c] \in {"uploading", "connecting"} => c \in s.uploading
  /\ c \in s.uploading /\ c \notin B => s.state[c] \in {"uploading", "connecting"}
ClientOk(s, c, B) ==
  /\ ListsOk(s, c, B)
  /\ c \in s.uploading /\ c \notin B /\ s.conn[c] = "up"
       => s.state[c] = "uploading"
Lists(s, B) == \A c \in Client : ClientOk(s, c, B)

\* the loop of Process is at a client it has left, or at its end
LoopIsAt ==
  /\ pos \in todo \cup {NoClient}
  /\ pos = NoClient => todo = {}
  /\ mpc = "idle" => pos = NoClient

\* a ban ends, which leaves a client without the state its list calls for
BansEnd == May("ban") /\ May("unban")

IInv ==
  /\ TypeOK /\ Typed(q) /\ LoopIsAt
  /\ May("ban") \/ banned = {}
  /\ BansEnd \/ (Lists(q, banned) /\ todo \subseteq q.uploading)

\* from s to t nothing changes for client d; nothing but for client c
SameFor(s, t, d) ==
  /\ d \in t.alive <=> d \in s.alive
  /\ d \in t.waiting <=> d \in s.waiting
  /\ d \in t.uploading <=> d \in s.uploading
  /\ d \in t.connecting <=> d \in s.connecting
  /\ t.state[d] = s.state[d] /\ t.conn[d] = s.conn[d]
Touches(s, t, c) ==
  /\ t \in QueueState
  /\ \A d \in Client : d # c => SameFor(s, t, d)

-------------------------------------------------------------------------------
(***************************************************************************)
(* What the operators on the lists do to each field                        *)
(***************************************************************************)
LEMMA RemoveUploadFields ==
  ASSUME NEW s \in QueueState, NEW c \in Client, NEW t,
         t = RemoveFromUploadQueue(s, c)
  PROVE  /\ t \in QueueState
         /\ t.alive = s.alive /\ t.waiting = s.waiting
         /\ t.uploading = s.uploading \ {c}
         /\ t.conn = s.conn /\ t.sock = s.sock /\ t.connecting = s.connecting
         /\ t.state = IF c \in s.uploading THEN [s.state EXCEPT ![c] = "none"]
                      ELSE s.state
BY DEF RemoveFromUploadQueue, QueueState, UploadState, Connection

LEMMA RemoveWaitingFields ==
  ASSUME NEW s \in QueueState, NEW c \in Client, NEW t,
         t = RemoveFromWaitingQueue(s, c)
  PROVE  /\ t \in QueueState
         /\ t.alive = s.alive /\ t.uploading = s.uploading
         /\ t.waiting = s.waiting \ {c}
         /\ t.conn = s.conn /\ t.sock = s.sock /\ t.connecting = s.connecting
         /\ t.std = s.std
         /\ t.state = IF c \in s.waiting THEN [s.state EXCEPT ![c] = "none"]
                      ELSE s.state
BY DEF RemoveFromWaitingQueue, QueueState, UploadState, Connection

LEMMA InsertFields ==
  ASSUME NEW s \in QueueState, NEW c \in Client, NEW t,
         t = InsertInUploadingList(s, c)
  PROVE  /\ t \in QueueState
         /\ t.alive = s.alive /\ t.waiting = s.waiting
         /\ t.uploading = s.uploading \cup {c}
         /\ t.conn = s.conn /\ t.sock = s.sock /\ t.connecting = s.connecting
         /\ t.state = s.state
<1> DEFINE new == IF HasSocket(s, c) THEN s.std \cup {s.sock[c]} ELSE s.std
           up == s.uploading \cup {c}
           add == s.addNext \ {c}
<1>1. t = [s EXCEPT !.uploading = up, !.addNext = add, !.std = new]
  BY DEF InsertInUploadingList, QueueState
<1>2. new \in SUBSET (1..MaxSock)
  <2>1. s.sock[c] \in 1..MaxSock /\ s.std \subseteq 1..MaxSock
    BY DEF QueueState
  <2> QED
    BY <2>1
<1>3. up \in SUBSET Client /\ add \in SUBSET Client
  BY DEF QueueState
<1> HIDE DEF new, up, add
<1>4. /\ t \in QueueState
      /\ t.alive = s.alive /\ t.waiting = s.waiting /\ t.uploading = up
      /\ t.conn = s.conn /\ t.sock = s.sock /\ t.connecting = s.connecting
      /\ t.state = s.state
  BY <1>1, <1>2, <1>3 DEF QueueState
<1> QED
  BY <1>4 DEF up

LEMMA EstablishedFields ==
  ASSUME NEW s \in QueueState, NEW c \in Client, NEW t,
         t = ConnectionEstablished(s, c)
  PROVE  /\ t \in QueueState
         /\ t.alive = s.alive /\ t.waiting = s.waiting
         /\ t.uploading = s.uploading
         /\ t.conn = s.conn /\ t.sock = s.sock
         /\ t.connecting = s.connecting \ {c}
         /\ t.state = [s.state EXCEPT
                        ![c] = IF @ = "connecting" /\ c \in s.uploading
                               THEN "uploading" ELSE @]
BY DEF ConnectionEstablished, QueueState, UploadState, Connection

LEMMA DeleteFields ==
  ASSUME NEW s \in QueueState, NEW c \in Client, NEW t,
         t = DeleteClient(s, c)
  PROVE  /\ t \in QueueState
         /\ t.alive = s.alive \ {c} /\ t.waiting = s.waiting \ {c}
         /\ t.uploading = s.uploading \ {c}
         /\ t.conn = [s.conn EXCEPT ![c] = "none"]
         /\ t.connecting = s.connecting \ {c}
         /\ t.state = [s.state EXCEPT ![c] = "none"]
<1> DEFINE u == RemoveFromUploadQueue(s, c)
           r == RemoveFromWaitingQueue(u, c)
<1>1. /\ u \in QueueState
      /\ u.alive = s.alive /\ u.waiting = s.waiting
      /\ u.uploading = s.uploading \ {c}
      /\ u.conn = s.conn /\ u.connecting = s.connecting
      /\ u.state = IF c \in s.uploading THEN [s.state EXCEPT ![c] = "none"]
                   ELSE s.state
  BY RemoveUploadFields
<1>2. /\ r \in QueueState
      /\ r.alive = u.alive /\ r.waiting = u.waiting \ {c}
      /\ r.uploading = u.uploading
      /\ r.conn = u.conn /\ r.connecting = u.connecting
      /\ r.state = IF c \in u.waiting THEN [u.state EXCEPT ![c] = "none"]
                   ELSE u.state
  BY <1>1, RemoveWaitingFields
<1>3. t = [r EXCEPT !.alive = @ \ {c}, !.connecting = @ \ {c},
                    !.coll = @ \ {c}, !.addNext = @ \ {c},
                    !.state[c] = "none", !.conn[c] = "none"]
  BY DEF DeleteClient
<1> HIDE DEF u, r
<1>4. /\ t \in QueueState
      /\ t.alive = r.alive \ {c} /\ t.waiting = r.waiting
      /\ t.uploading = r.uploading
      /\ t.conn = [r.conn EXCEPT ![c] = "none"]
      /\ t.connecting = r.connecting \ {c}
      /\ t.state = [r.state EXCEPT ![c] = "none"]
  <2> DEFINE st == [r.state EXCEPT ![c] = "none"]
             cn == [r.conn EXCEPT ![c] = "none"]
             al == r.alive \ {c}
             tr == r.connecting \ {c}
             co == r.coll \ {c}
             ad == r.addNext \ {c}
  <2>1. st \in [Client -> UploadState] /\ cn \in [Client -> Connection]
    BY <1>2 DEF QueueState, UploadState, Connection
  <2>2. t = [r EXCEPT !.alive = al, !.connecting = tr, !.coll = co,
                      !.addNext = ad, !.state = st, !.conn = cn]
    BY <1>2, <1>3 DEF QueueState
  <2>3. /\ al \in SUBSET Client /\ tr \in SUBSET Client
        /\ co \in SUBSET Client /\ ad \in SUBSET Client
    BY <1>2 DEF QueueState
  <2>0. r \in QueueState
    BY <1>2
  <2> HIDE DEF st, cn, al, tr, co, ad
  <2>4. t \in QueueState
    BY <2>0, <2>1, <2>2, <2>3 DEF QueueState
  <2>5. /\ t.alive = al /\ t.waiting = r.waiting
        /\ t.uploading = r.uploading /\ t.conn = cn
        /\ t.connecting = tr /\ t.state = st
    BY <2>0, <2>2 DEF QueueState
  <2> QED
    BY <2>4, <2>5 DEF st, cn, al, tr
<1>5. [r.state EXCEPT ![c] = "none"] = [s.state EXCEPT ![c] = "none"]
  <2>1. s.state \in [Client -> UploadState]
    BY DEF QueueState
  <2> QED
    BY <2>1, <1>1, <1>2
<1> QED
  BY <1>1, <1>2, <1>4, <1>5

-------------------------------------------------------------------------------
(***************************************************************************)
(* An operator that touches one client keeps what holds of the others      *)
(***************************************************************************)
LEMMA TouchesTyped ==
  ASSUME NEW s, NEW t, NEW c \in Client, Typed(s), Touches(s, t, c), HalfOk(t, c)
  PROVE  Typed(t)
BY DEF Typed, Touches, SameFor, HalfOk

LEMMA TouchesLists ==
  ASSUME NEW s, NEW t, NEW c \in Client, NEW B,
         Lists(s, B), Touches(s, t, c), ClientOk(t, c, B)
  PROVE  Lists(t, B)
BY DEF Lists, Touches, SameFor, ClientOk, ListsOk

LEMMA TouchesTwice ==
  ASSUME NEW s, NEW r, NEW t, NEW c \in Client, Touches(s, r, c), Touches(r, t, c)
  PROVE  Touches(s, t, c)
BY DEF Touches, SameFor

LEMMA RemoveUploadKeeps ==
  ASSUME NEW s \in QueueState, NEW c \in Client, NEW t, NEW B,
         t = RemoveFromUploadQueue(s, c)
  PROVE  /\ Touches(s, t, c) /\ c \notin t.uploading
         /\ c \in t.alive <=> c \in s.alive
         /\ c \in t.waiting <=> c \in s.waiting
         /\ c \in t.connecting <=> c \in s.connecting
         /\ t.conn[c] = s.conn[c]
         /\ t.state[c] = IF c \in s.uploading THEN "none" ELSE s.state[c]
         /\ HalfOk(s, c) => HalfOk(t, c)
         /\ ClientOk(s, c, B) => ClientOk(t, c, B)
<1>1. s.state \in [Client -> UploadState]
  BY DEF QueueState
<1>2. /\ t \in QueueState
      /\ t.alive = s.alive /\ t.waiting = s.waiting
      /\ t.uploading = s.uploading \ {c}
      /\ t.conn = s.conn /\ t.connecting = s.connecting
      /\ t.state = IF c \in s.uploading THEN [s.state EXCEPT ![c] = "none"]
                   ELSE s.state
  BY RemoveUploadFields
<1>3. Touches(s, t, c)
  BY <1>1, <1>2 DEF Touches, SameFor
<1>4. t.state[c] = IF c \in s.uploading THEN "none" ELSE s.state[c]
  BY <1>1, <1>2
<1>5. HalfOk(s, c) => HalfOk(t, c)
  BY <1>2 DEF HalfOk
<1>6. ClientOk(s, c, B) => ClientOk(t, c, B)
  BY <1>2, <1>4 DEF ClientOk, ListsOk
<1> QED
  BY <1>2, <1>3, <1>4, <1>5, <1>6

LEMMA RemoveWaitingKeeps ==
  ASSUME NEW s \in QueueState, NEW c \in Client, NEW t, NEW B,
         t = RemoveFromWaitingQueue(s, c)
  PROVE  /\ Touches(s, t, c) /\ c \notin t.waiting
         /\ c \in t.alive <=> c \in s.alive
         /\ c \in t.uploading <=> c \in s.uploading
         /\ c \in t.connecting <=> c \in s.connecting
         /\ t.conn[c] = s.conn[c]
         /\ t.conn = s.conn /\ t.sock = s.sock /\ t.std = s.std
         /\ t.state[c] = IF c \in s.waiting THEN "none" ELSE s.state[c]
         /\ HalfOk(s, c) => HalfOk(t, c)
         /\ ClientOk(s, c, B) => ClientOk(t, c, B)
<1>1. s.state \in [Client -> UploadState]
  BY DEF QueueState
<1>2. /\ t \in QueueState
      /\ t.alive = s.alive /\ t.uploading = s.uploading
      /\ t.waiting = s.waiting \ {c}
      /\ t.conn = s.conn /\ t.connecting = s.connecting
      /\ t.sock = s.sock /\ t.std = s.std
      /\ t.state = IF c \in s.waiting THEN [s.state EXCEPT ![c] = "none"]
                   ELSE s.state
  BY RemoveWaitingFields
<1>3. Touches(s, t, c)
  BY <1>1, <1>2 DEF Touches, SameFor
<1>4. t.state[c] = IF c \in s.waiting THEN "none" ELSE s.state[c]
  BY <1>1, <1>2
<1>5. HalfOk(s, c) => HalfOk(t, c)
  BY <1>2 DEF HalfOk
<1>6. ClientOk(s, c, B) => ClientOk(t, c, B)
  BY <1>2, <1>4 DEF ClientOk, ListsOk
<1> QED
  BY <1>2, <1>3, <1>4, <1>5, <1>6

LEMMA EstablishedKeeps ==
  ASSUME NEW s \in QueueState, NEW c \in Client, NEW t, NEW B,
         t = ConnectionEstablished(s, c), s.conn[c] = "up"
  PROVE  /\ Touches(s, t, c) /\ HalfOk(t, c)
         /\ ListsOk(s, c, B) => ClientOk(t, c, B)
         /\ c \in t.uploading <=> c \in s.uploading
<1>1. s.state \in [Client -> UploadState]
  BY DEF QueueState
<1>2. /\ t \in QueueState
      /\ t.alive = s.alive /\ t.waiting = s.waiting
      /\ t.uploading = s.uploading /\ t.conn = s.conn
      /\ t.connecting = s.connecting \ {c}
      /\ t.state = [s.state EXCEPT
                     ![c] = IF @ = "connecting" /\ c \in s.uploading
                            THEN "uploading" ELSE @]
  BY EstablishedFields
<1>3. Touches(s, t, c)
  BY <1>1, <1>2 DEF Touches, SameFor
<1>4. t.state[c] = IF s.state[c] = "connecting" /\ c \in s.uploading
                   THEN "uploading" ELSE s.state[c]
  BY <1>1, <1>2
<1>5. HalfOk(t, c)
  BY <1>2 DEF HalfOk
<1>6. ListsOk(s, c, B) => ClientOk(t, c, B)
  BY <1>2, <1>4 DEF ClientOk, ListsOk
<1> QED
  BY <1>2, <1>3, <1>5, <1>6

-------------------------------------------------------------------------------
(***************************************************************************)
(* Connections                                                             *)
(***************************************************************************)
Unconnected(s, c, X) == [s EXCEPT !.conn[c] = "none", !.connecting = X]

LEMMA NoConnectionFields ==
  ASSUME NEW s \in QueueState, NEW c \in Client, NEW X \in SUBSET Client, NEW t,
         t = Unconnected(s, c, X)
  PROVE  /\ t \in QueueState
         /\ t.alive = s.alive /\ t.waiting = s.waiting
         /\ t.uploading = s.uploading /\ t.state = s.state
         /\ t.connecting = X /\ t.std = s.std /\ t.sock = s.sock
         /\ t.conn = [s.conn EXCEPT ![c] = "none"]
<1> DEFINE cn == [s.conn EXCEPT ![c] = "none"]
<1>1. cn \in [Client -> Connection]
  BY DEF QueueState, Connection
<1>2. t = [s EXCEPT !.conn = cn, !.connecting = X]
  BY DEF QueueState, Unconnected
<1> HIDE DEF cn
<1>3. /\ t \in QueueState
      /\ t.alive = s.alive /\ t.waiting = s.waiting
      /\ t.uploading = s.uploading /\ t.state = s.state
      /\ t.connecting = X /\ t.std = s.std /\ t.sock = s.sock
      /\ t.conn = cn
  BY <1>1, <1>2 DEF QueueState
<1> QED
  BY <1>3 DEF cn

\* the client is deleted, or it loses its slot if its state says it has one
LEMMA DisconnectCases ==
  ASSUME NEW s \in QueueState, NEW c \in Client, NEW a, NEW t,
         t = Disconnect(s, c, a)
  PROVE  /\ Touches(s, t, c)
         /\ t.conn[c] = "none" /\ c \notin t.connecting
         /\ \/ /\ c \notin t.alive /\ c \notin t.waiting /\ c \notin t.uploading
               /\ t.state[c] = "none"
            \/ /\ c \in t.alive <=> c \in s.alive
               /\ c \in t.waiting <=> c \in s.waiting
               /\ IF s.state[c] \in {"uploading", "connecting"} /\ c \in s.uploading
                  THEN c \notin t.uploading /\ t.state[c] = "none"
                  ELSE /\ c \in t.uploading <=> c \in s.uploading
                       /\ t.state[c] = s.state[c]
<1> DEFINE r == LoseSlot(s, c)
           k == [r EXCEPT !.conn[c] = "none"]
           d == DeleteClient(k, c)
           l == [r EXCEPT !.conn[c] = "none", !.connecting = @ \ {c}]
<1>1. t = d \/ t = l
  BY DEF Disconnect
<1>2. /\ r \in QueueState /\ Touches(s, r, c)
      /\ c \in r.alive <=> c \in s.alive
      /\ c \in r.waiting <=> c \in s.waiting
      /\ IF s.state[c] \in {"uploading", "connecting"} /\ c \in s.uploading
         THEN c \notin r.uploading /\ r.state[c] = "none"
         ELSE /\ c \in r.uploading <=> c \in s.uploading
              /\ r.state[c] = s.state[c]
  <2>1. CASE s.state[c] \in {"uploading", "connecting"}
    <3>1. r = RemoveFromUploadQueue(s, c)
      BY <2>1 DEF LoseSlot
    <3> HIDE DEF r
    <3> QED
      BY <2>1, <3>1, RemoveUploadKeeps DEF Touches
  <2>2. CASE s.state[c] \notin {"uploading", "connecting"}
    <3>1. r = s
      BY <2>2 DEF LoseSlot
    <3> HIDE DEF r
    <3> QED
      BY <2>2, <3>1 DEF Touches, SameFor
  <2> QED
    BY <2>1, <2>2
<1> HIDE DEF r
<1>3. r.conn \in [Client -> Connection] /\ r.connecting \in SUBSET Client
      /\ r.state \in [Client -> UploadState]
  BY <1>2 DEF QueueState
<1>4. ASSUME t = d
      PROVE  /\ Touches(r, t, c) /\ t.conn[c] = "none"
             /\ c \notin t.connecting
             /\ c \notin t.alive /\ c \notin t.waiting /\ c \notin t.uploading
             /\ t.state[c] = "none"
  <2>1. k = Unconnected(r, c, r.connecting)
    BY <1>2 DEF QueueState, Unconnected
  <2>4. r \in QueueState /\ r.connecting \in SUBSET Client
    BY <1>2, <1>3
  <2> HIDE DEF k
  <2>2. /\ k \in QueueState
        /\ k.alive = r.alive /\ k.waiting = r.waiting
        /\ k.uploading = r.uploading /\ k.state = r.state
        /\ k.connecting = r.connecting
        /\ k.conn = [r.conn EXCEPT ![c] = "none"]
    BY <2>1, <2>4, NoConnectionFields
  <2>5. t = DeleteClient(k, c)
    BY <1>4
  <2>6. k \in QueueState
    BY <2>2
  <2>3. /\ t \in QueueState
        /\ t.alive = k.alive \ {c} /\ t.waiting = k.waiting \ {c}
        /\ t.uploading = k.uploading \ {c}
        /\ t.conn = [k.conn EXCEPT ![c] = "none"]
        /\ t.connecting = k.connecting \ {c}
        /\ t.state = [k.state EXCEPT ![c] = "none"]
    BY <2>5, <2>6, DeleteFields, SMTT(30)
  <2> QED
    BY <1>3, <2>2, <2>3 DEF Touches, SameFor
<1>5. ASSUME t = l
      PROVE  /\ Touches(r, t, c) /\ t.conn[c] = "none"
             /\ c \notin t.connecting
             /\ c \in t.alive <=> c \in r.alive
             /\ c \in t.waiting <=> c \in r.waiting
             /\ c \in t.uploading <=> c \in r.uploading
             /\ t.state[c] = r.state[c]
  <2>1. t = Unconnected(r, c, r.connecting \ {c})
    BY <1>5, <1>2 DEF QueueState, Unconnected
  <2>3. r \in QueueState /\ r.connecting \ {c} \in SUBSET Client
    BY <1>2, <1>3
  <2>2. /\ t \in QueueState
        /\ t.alive = r.alive /\ t.waiting = r.waiting
        /\ t.uploading = r.uploading /\ t.state = r.state
        /\ t.connecting = r.connecting \ {c}
        /\ t.conn = [r.conn EXCEPT ![c] = "none"]
    BY <2>1, <2>3, NoConnectionFields
  <2> QED
    BY <1>3, <2>2 DEF Touches, SameFor
<1> HIDE DEF k, d, l
<1>6. Touches(s, t, c)
  BY <1>1, <1>2, <1>4, <1>5, TouchesTwice
<1> QED
  BY <1>1, <1>2, <1>4, <1>5, <1>6

LEMMA DisconnectKeeps ==
  ASSUME NEW s \in QueueState, NEW c \in Client, NEW a, NEW t, NEW B,
         t = Disconnect(s, c, a)
  PROVE  /\ Touches(s, t, c) /\ HalfOk(t, c) /\ t.conn[c] = "none"
         /\ ListsOk(s, c, B) => ClientOk(t, c, B)
<1> HIDE DEF Disconnect
<1> QED
  BY DisconnectCases DEF HalfOk, ListsOk, ClientOk

\* a new socket is among the sockets
LEMMA NewSocketIsOne ==
  ASSUME NEW s, FreeSockets(s) # {}
  PROVE  NewSocket(s) \in 1..MaxSock
BY DEF NewSocket, FreeSockets

\* a connection try starts: there is a socket, or the client is asked to call
NewTry(s, c) == [s EXCEPT !.conn[c] = "half", !.sock[c] = NewSocket(s)]

LEMMA NewTryFields ==
  ASSUME NEW s \in QueueState, NEW c \in Client, NEW t, t = NewTry(s, c),
         FreeSockets(s) # {}
  PROVE  /\ t \in QueueState
         /\ t.alive = s.alive /\ t.waiting = s.waiting
         /\ t.uploading = s.uploading /\ t.state = s.state
         /\ t.connecting = s.connecting
         /\ t.conn = [s.conn EXCEPT ![c] = "half"]
<1> DEFINE cn == [s.conn EXCEPT ![c] = "half"]
           so == [s.sock EXCEPT ![c] = NewSocket(s)]
<1>1. cn \in [Client -> Connection]
  BY DEF QueueState, Connection
<1>2. so \in [Client -> 1..MaxSock]
  BY NewSocketIsOne DEF QueueState
<1>3. t = [s EXCEPT !.conn = cn, !.sock = so]
  BY DEF QueueState, NewTry
<1> HIDE DEF cn, so
<1>4. /\ t \in QueueState
      /\ t.alive = s.alive /\ t.waiting = s.waiting
      /\ t.uploading = s.uploading /\ t.state = s.state
      /\ t.connecting = s.connecting /\ t.conn = cn
  BY <1>1, <1>2, <1>3 DEF QueueState
<1> QED
  BY <1>4 DEF cn

LEMMA TryCases ==
  ASSUME NEW s \in QueueState, NEW c \in Client, NEW a, NEW t,
         t = TryToConnect(s, c, a), HalfOk(s, c),
         s.conn[c] = "none" => FreeSockets(s) # {}
  PROVE  \/ t = s
         \/ s.conn[c] = "up" /\ t = ConnectionEstablished(s, c)
         \/ \E r \in QueueState :
              /\ t = Disconnect(r, c, a) /\ Touches(s, r, c)
              /\ r.conn[c] = "none"
              /\ c \in r.alive <=> c \in s.alive
              /\ c \in r.waiting <=> c \in s.waiting
              /\ c \in r.uploading <=> c \in s.uploading
              /\ c \in r.connecting
              /\ r.state[c] = s.state[c]
         \/ /\ Touches(s, t, c) /\ t.conn[c] \in {"none", "half"}
            /\ c \in t.alive <=> c \in s.alive
            /\ c \in t.waiting <=> c \in s.waiting
            /\ c \in t.uploading <=> c \in s.uploading
            /\ c \in t.connecting
            /\ t.state[c] = s.state[c]
<1> DEFINE r == Unconnected(s, c, s.connecting \cup {c})
           h == NewTry(r, c)
<1>1. CASE c \in s.connecting \/ s.conn[c] = "hello"
  BY <1>1 DEF TryToConnect
<1>2. CASE s.conn[c] = "up"
  BY <1>2 DEF TryToConnect
<1>3. CASE c \notin s.connecting /\ s.conn[c] \notin {"hello", "up"}
  <2>1. s.conn[c] = "none" /\ s.conn \in [Client -> Connection]
    BY <1>3 DEF QueueState, Connection, HalfOk
  <2>2. r = [s EXCEPT !.conn[c] = "none", !.connecting = @ \cup {c}]
    BY DEF Unconnected, QueueState
  <2>3. t = Disconnect(r, c, a) \/ t = h \/ t = r
    BY <1>3, <2>2 DEF TryToConnect, NewTry
  <2>4. s.connecting \cup {c} \in SUBSET Client
    BY DEF QueueState
  <2> HIDE DEF r
  <2>5. /\ r \in QueueState
        /\ r.alive = s.alive /\ r.waiting = s.waiting
        /\ r.uploading = s.uploading /\ r.state = s.state
        /\ r.connecting = s.connecting \cup {c}
        /\ r.std = s.std /\ r.sock = s.sock
        /\ r.conn = [s.conn EXCEPT ![c] = "none"]
    BY <2>4, NoConnectionFields DEF r
  <2>6. r.conn = s.conn /\ r.conn[c] = "none"
    BY <2>1, <2>5
  <2>7. Touches(s, r, c) /\ c \in r.connecting
    BY <2>5, <2>6 DEF Touches, SameFor
  <2>8. CASE t = Disconnect(r, c, a)
    BY <2>5, <2>6, <2>7, <2>8
  <2>9. CASE t = h
    <3>1. FreeSockets(r) # {}
      BY <2>1, <2>5, <2>6 DEF FreeSockets, HasSocket
    <3>2. /\ t \in QueueState
          /\ t.alive = r.alive /\ t.waiting = r.waiting
          /\ t.uploading = r.uploading /\ t.state = r.state
          /\ t.connecting = r.connecting
          /\ t.conn = [r.conn EXCEPT ![c] = "half"]
      BY <2>5, <2>9, <3>1, NewTryFields
    <3>3. Touches(s, t, c) /\ t.conn[c] = "half"
      BY <2>1, <2>5, <2>6, <3>2 DEF Touches, SameFor
    <3> QED
      BY <2>5, <2>7, <3>2, <3>3
  <2>10. CASE t = r
    BY <2>5, <2>6, <2>7, <2>10
  <2> QED
    BY <2>3, <2>8, <2>9, <2>10
<1> QED
  BY <1>1, <1>2, <1>3

LEMMA TryKeeps ==
  ASSUME NEW s \in QueueState, NEW c \in Client, NEW a, NEW t, NEW B,
         t = TryToConnect(s, c, a), HalfOk(s, c),
         s.conn[c] = "none" => FreeSockets(s) # {}
  PROVE  /\ Touches(s, t, c) /\ HalfOk(t, c)
         /\ ClientOk(s, c, B) /\ c \in s.alive => ClientOk(t, c, B)
<1> HIDE DEF TryToConnect, Disconnect
<1>1. CASE t = s
  BY <1>1 DEF Touches, SameFor
<1>2. CASE s.conn[c] = "up" /\ t = ConnectionEstablished(s, c)
  BY <1>2, EstablishedKeeps DEF ClientOk
<1>3. ASSUME NEW r \in QueueState,
             t = Disconnect(r, c, a), Touches(s, r, c), r.conn[c] = "none",
             c \in r.alive <=> c \in s.alive,
             c \in r.waiting <=> c \in s.waiting,
             c \in r.uploading <=> c \in s.uploading,
             c \in r.connecting, r.state[c] = s.state[c]
      PROVE  /\ Touches(s, t, c) /\ HalfOk(t, c)
             /\ ClientOk(s, c, B) /\ c \in s.alive => ClientOk(t, c, B)
  <2>1. Touches(r, t, c) /\ HalfOk(t, c) /\ (ListsOk(r, c, B) => ClientOk(t, c, B))
    BY <1>3, DisconnectKeeps
  <2>2. Touches(s, t, c)
    BY <1>3, <2>1, TouchesTwice
  <2>3. ClientOk(s, c, B) /\ c \in s.alive => ListsOk(r, c, B)
    BY <1>3 DEF ClientOk, ListsOk
  <2> QED
    BY <2>1, <2>2, <2>3
<1>4. CASE /\ Touches(s, t, c) /\ t.conn[c] \in {"none", "half"}
           /\ c \in t.alive <=> c \in s.alive
           /\ c \in t.waiting <=> c \in s.waiting
           /\ c \in t.uploading <=> c \in s.uploading
           /\ c \in t.connecting
           /\ t.state[c] = s.state[c]
  BY <1>4 DEF HalfOk, ClientOk, ListsOk
<1> QED
  BY <1>1, <1>2, <1>3, <1>4, TryCases

(***************************************************************************)
(* AddUpNextClient: in its middle the state of the client says CONNECTING  *)
(* and it is in neither list.                                              *)
(***************************************************************************)
LEMMA TakenKeeps ==
  ASSUME NEW s \in QueueState, NEW c \in Client, NEW a, NEW t, NEW B,
         t = TryToConnect(s, c, a), HalfOk(s, c),
         s.conn[c] = "none" => FreeSockets(s) # {},
         c \notin s.uploading, s.conn[c] # "up"
  PROVE  /\ Touches(s, t, c) /\ HalfOk(t, c)
         /\ \/ /\ c \notin t.alive /\ c \notin t.waiting /\ c \notin t.uploading
               /\ t.state[c] = "none" /\ t.conn[c] = "none"
               /\ c \notin t.connecting
            \/ /\ c \in t.alive <=> c \in s.alive
               /\ c \in t.waiting <=> c \in s.waiting
               /\ c \notin t.uploading /\ t.state[c] = s.state[c]
               /\ t.conn[c] # "up"
<1> HIDE DEF TryToConnect, Disconnect
<1>1. CASE t = s
  BY <1>1 DEF Touches, SameFor
<1>2. ASSUME NEW r \in QueueState,
             t = Disconnect(r, c, a), Touches(s, r, c), r.conn[c] = "none",
             c \in r.alive <=> c \in s.alive,
             c \in r.waiting <=> c \in s.waiting,
             c \in r.uploading <=> c \in s.uploading,
             c \in r.connecting, r.state[c] = s.state[c]
      PROVE  /\ Touches(s, t, c) /\ HalfOk(t, c)
             /\ \/ /\ c \notin t.alive /\ c \notin t.waiting
                   /\ c \notin t.uploading
                   /\ t.state[c] = "none" /\ t.conn[c] = "none"
                   /\ c \notin t.connecting
                \/ /\ c \in t.alive <=> c \in s.alive
                   /\ c \in t.waiting <=> c \in s.waiting
                   /\ c \notin t.uploading /\ t.state[c] = s.state[c]
                   /\ t.conn[c] # "up"
  <2>1. /\ Touches(r, t, c)
        /\ t.conn[c] = "none" /\ c \notin t.connecting
        /\ \/ /\ c \notin t.alive /\ c \notin t.waiting /\ c \notin t.uploading
              /\ t.state[c] = "none"
           \/ /\ c \in t.alive <=> c \in r.alive
              /\ c \in t.waiting <=> c \in r.waiting
              /\ c \in t.uploading <=> c \in r.uploading
              /\ t.state[c] = r.state[c]
    BY <1>2, DisconnectCases
  <2>2. Touches(s, t, c)
    BY <1>2, <2>1, TouchesTwice
  <2> QED
    BY <1>2, <2>1, <2>2 DEF HalfOk
<1>3. CASE /\ Touches(s, t, c) /\ t.conn[c] \in {"none", "half"}
           /\ c \in t.alive <=> c \in s.alive
           /\ c \in t.waiting <=> c \in s.waiting
           /\ c \in t.uploading <=> c \in s.uploading
           /\ c \in t.connecting
           /\ t.state[c] = s.state[c]
  BY <1>3 DEF HalfOk
<1> QED
  BY <1>1, <1>2, <1>3, TryCases

WithState(s, c, x) == [s EXCEPT !.state[c] = x]

LEMMA StateFields ==
  ASSUME NEW s \in QueueState, NEW c \in Client, NEW x \in UploadState, NEW t,
         t = WithState(s, c, x)
  PROVE  /\ t \in QueueState
         /\ t.alive = s.alive /\ t.waiting = s.waiting
         /\ t.uploading = s.uploading /\ t.conn = s.conn /\ t.sock = s.sock
         /\ t.connecting = s.connecting /\ t.std = s.std
         /\ t.state[c] = x /\ Touches(s, t, c)
<1> DEFINE st == [s.state EXCEPT ![c] = x]
<1>1. st \in [Client -> UploadState] /\ st[c] = x
      /\ \A d \in Client : d # c => st[d] = s.state[d]
  BY DEF QueueState
<1>2. t = [s EXCEPT !.state = st]
  BY DEF QueueState, WithState
<1> HIDE DEF st
<1>3. /\ t \in QueueState
      /\ t.alive = s.alive /\ t.waiting = s.waiting
      /\ t.uploading = s.uploading /\ t.conn = s.conn /\ t.sock = s.sock
      /\ t.connecting = s.connecting /\ t.std = s.std
      /\ t.state = st
  BY <1>1, <1>2 DEF QueueState
<1> QED
  BY <1>1, <1>3 DEF Touches, SameFor

LEMMA InsertKeeps ==
  ASSUME NEW s \in QueueState, NEW c \in Client, NEW t,
         t = InsertInUploadingList(s, c)
  PROVE  /\ Touches(s, t, c) /\ c \in t.uploading
         /\ c \in t.alive <=> c \in s.alive
         /\ c \in t.waiting <=> c \in s.waiting
         /\ c \in t.connecting <=> c \in s.connecting
         /\ t.conn[c] = s.conn[c] /\ t.state[c] = s.state[c]
<1>1. /\ t \in QueueState
      /\ t.alive = s.alive /\ t.waiting = s.waiting
      /\ t.uploading = s.uploading \cup {c}
      /\ t.conn = s.conn /\ t.connecting = s.connecting
      /\ t.state = s.state
  BY InsertFields
<1> QED
  BY <1>1 DEF Touches, SameFor

LEMMA AddUpNextKeeps ==
  ASSUME NEW s \in QueueState, NEW c \in Client, NEW a, NEW t, NEW B,
         t = AddUpNextClient(s, c, a), HalfOk(s, c),
         s.conn[c] = "none" => FreeSockets(s) # {}
  PROVE  /\ Touches(s, t, c) /\ HalfOk(t, c)
         /\ ClientOk(s, c, B) /\ c \in s.alive => ClientOk(t, c, B)
<1> DEFINE r == RemoveFromWaitingQueue(s, c)
           up == WithState(r, c, "uploading")
           k == WithState(r, c, "connecting")
           u == TryToConnect(k, c, a)
<1>1. t = IF c \in r.uploading THEN r
          ELSE IF r.conn[c] = "up" THEN InsertInUploadingList(up, c)
          ELSE IF c \in u.alive THEN InsertInUploadingList(u, c) ELSE u
  BY DEF AddUpNextClient, WithState
<1> HIDE DEF r
<1>2. /\ Touches(s, r, c) /\ c \notin r.waiting
      /\ c \in r.alive <=> c \in s.alive
      /\ c \in r.uploading <=> c \in s.uploading
      /\ c \in r.connecting <=> c \in s.connecting
      /\ r.conn[c] = s.conn[c]
      /\ HalfOk(r, c)
      /\ ClientOk(s, c, B) => ClientOk(r, c, B)
  BY RemoveWaitingKeeps DEF r
<1>3. r \in QueueState /\ r.conn = s.conn /\ r.sock = s.sock /\ r.std = s.std
  BY RemoveWaitingKeeps DEF r, Touches
<1>4. CASE c \in r.uploading
  BY <1>1, <1>2, <1>4
<1>5. CASE c \notin r.uploading /\ r.conn[c] = "up"
  <2> HIDE DEF up
  <2>1. /\ up \in QueueState /\ Touches(r, up, c)
        /\ up.alive = r.alive /\ up.waiting = r.waiting
        /\ up.connecting = r.connecting /\ up.conn = r.conn
        /\ up.state[c] = "uploading"
    BY <1>3, StateFields DEF up, UploadState
  <2>2. t = InsertInUploadingList(up, c)
    BY <1>1, <1>5
  <2>3. /\ Touches(up, t, c) /\ c \in t.uploading
        /\ c \in t.alive <=> c \in up.alive
        /\ c \in t.waiting <=> c \in up.waiting
        /\ c \in t.connecting <=> c \in up.connecting
        /\ t.conn[c] = up.conn[c] /\ t.state[c] = up.state[c]
    BY <2>1, <2>2, InsertKeeps
  <2>4. Touches(s, t, c)
    BY <1>2, <2>1, <2>3, TouchesTwice
  <2> QED
    BY <1>2, <1>5, <2>1, <2>3, <2>4 DEF HalfOk, ClientOk, ListsOk
<1>6. CASE c \notin r.uploading /\ r.conn[c] # "up"
  <2> HIDE DEF k, u
  <2>1. /\ k \in QueueState /\ Touches(r, k, c)
        /\ k.alive = r.alive /\ k.waiting = r.waiting
        /\ k.uploading = r.uploading /\ k.sock = r.sock /\ k.std = r.std
        /\ k.connecting = r.connecting /\ k.conn = r.conn
        /\ k.state[c] = "connecting"
    BY <1>3, StateFields DEF k, UploadState
  <2>2. HalfOk(k, c) /\ (k.conn[c] = "none" => FreeSockets(k) # {})
    BY <1>2, <1>3, <2>1 DEF HalfOk, FreeSockets, HasSocket
  <2>3. /\ Touches(k, u, c) /\ HalfOk(u, c)
        /\ \/ /\ c \notin u.alive /\ c \notin u.waiting /\ c \notin u.uploading
              /\ u.state[c] = "none" /\ u.conn[c] = "none"
              /\ c \notin u.connecting
           \/ /\ c \in u.alive <=> c \in k.alive
              /\ c \in u.waiting <=> c \in k.waiting
              /\ c \notin u.uploading /\ u.state[c] = k.state[c]
              /\ u.conn[c] # "up"
    BY <1>6, <2>1, <2>2, TakenKeeps DEF u
  <2>4. Touches(s, u, c) /\ u \in QueueState
    BY <1>2, <2>1, <2>3, TouchesTwice DEF Touches
  <2>5. CASE c \in u.alive
    <3>1. t = InsertInUploadingList(u, c)
      BY <1>1, <1>6, <2>5
    <3>2. /\ Touches(u, t, c) /\ c \in t.uploading
          /\ c \in t.alive <=> c \in u.alive
          /\ c \in t.waiting <=> c \in u.waiting
          /\ c \in t.connecting <=> c \in u.connecting
          /\ t.conn[c] = u.conn[c] /\ t.state[c] = u.state[c]
      BY <2>4, <3>1, InsertKeeps
    <3>3. Touches(s, t, c)
      BY <2>4, <3>2, TouchesTwice
    <3> QED
      BY <1>2, <2>1, <2>3, <2>5, <3>2, <3>3 DEF HalfOk, ClientOk, ListsOk
  <2>6. CASE c \notin u.alive
    <3>1. t = u
      BY <1>1, <1>6, <2>6
    <3> QED
      BY <1>2, <2>1, <2>3, <2>4, <2>6, <3>1 DEF ClientOk, ListsOk
  <2> QED
    BY <2>5, <2>6
<1> QED
  BY <1>4, <1>5, <1>6

-------------------------------------------------------------------------------
(***************************************************************************)
(* AddClientToQueue                                                        *)
(***************************************************************************)
LEMMA GiveWayKeeps ==
  ASSUME NEW s \in QueueState, NEW c \in Client, NEW a, NEW t, NEW B,
         t = GiveWay(s, c, a), HalfOk(s, c)
  PROVE  /\ Touches(s, t, c) /\ HalfOk(t, c)
         /\ ClientOk(s, c, B) => ClientOk(t, c, B)
<1> DEFINE r == RemoveFromWaitingQueue(s, c)
<1>1. t = r \/ t = Disconnect(r, c, a)
  BY DEF GiveWay
<1>2. /\ Touches(s, r, c) /\ r \in QueueState /\ HalfOk(r, c)
      /\ ClientOk(s, c, B) => ClientOk(r, c, B)
  BY RemoveWaitingKeeps DEF Touches
<1> HIDE DEF r
<1>3. CASE t = r
  BY <1>2, <1>3
<1>4. CASE t = Disconnect(r, c, a)
  <2>1. /\ Touches(r, t, c) /\ HalfOk(t, c)
        /\ ListsOk(r, c, B) => ClientOk(t, c, B)
    BY <1>2, <1>4, DisconnectKeeps
  <2> QED
    BY <1>2, <2>1, TouchesTwice DEF ClientOk
<1> QED
  BY <1>1, <1>3, <1>4

WithColl(s, X) == [s EXCEPT !.coll = X]

LEMMA CollFields ==
  ASSUME NEW s \in QueueState, NEW c \in Client, NEW X \in SUBSET Client, NEW t,
         NEW B, t = WithColl(s, X)
  PROVE  /\ t \in QueueState
         /\ t.alive = s.alive /\ t.waiting = s.waiting
         /\ t.uploading = s.uploading /\ t.conn = s.conn
         /\ t.connecting = s.connecting /\ t.state = s.state
         /\ Touches(s, t, c) /\ (HalfOk(s, c) => HalfOk(t, c))
         /\ ClientOk(s, c, B) => ClientOk(t, c, B)
<1>1. /\ t \in QueueState
      /\ t.alive = s.alive /\ t.waiting = s.waiting
      /\ t.uploading = s.uploading /\ t.conn = s.conn
      /\ t.connecting = s.connecting /\ t.state = s.state
  BY DEF QueueState, WithColl
<1> QED
  BY <1>1 DEF Touches, SameFor, HalfOk, ClientOk, ListsOk

Queued(s, c) == [s EXCEPT !.waiting = @ \cup {c}, !.state[c] = "onqueue"]

LEMMA QueuedKeeps ==
  ASSUME NEW s \in QueueState, NEW c \in Client, NEW t, NEW B,
         t = Queued(s, c)
  PROVE  /\ Touches(s, t, c) /\ (HalfOk(s, c) => HalfOk(t, c))
         /\ c \notin s.uploading /\ c \in s.alive /\ ClientOk(s, c, B)
              => ClientOk(t, c, B)
<1> DEFINE wa == s.waiting \cup {c}
           st == [s.state EXCEPT ![c] = "onqueue"]
<1>1. /\ st \in [Client -> UploadState] /\ st[c] = "onqueue"
      /\ \A d \in Client : d # c => st[d] = s.state[d]
  BY DEF QueueState, UploadState
<1>2. wa \in SUBSET Client
  BY DEF QueueState
<1>3. t = [s EXCEPT !.waiting = wa, !.state = st]
  BY DEF QueueState, Queued
<1> HIDE DEF wa, st
<1>4. /\ t \in QueueState
      /\ t.alive = s.alive /\ t.waiting = wa
      /\ t.uploading = s.uploading /\ t.conn = s.conn
      /\ t.connecting = s.connecting /\ t.state = st
  BY <1>1, <1>2, <1>3 DEF QueueState
<1>5. \A d \in Client : d # c => (d \in wa <=> d \in s.waiting)
  BY DEF wa
<1> QED
  BY <1>1, <1>4, <1>5 DEF wa, Touches, SameFor, HalfOk, ClientOk, ListsOk

LEMMA EnqueueKeeps ==
  ASSUME NEW s \in QueueState, NEW c \in Client, NEW a, NEW r, NEW t,
         t = Enqueue(s, c, a, r), HalfOk(s, c), s.conn[c] # "none",
         s.conn[c] = "up" \/ c \notin s.uploading, c \notin banned
  PROVE  /\ Touches(s, t, c) /\ HalfOk(t, c)
         /\ ClientOk(s, c, banned) => ClientOk(t, c, banned)
<1> DEFINE k == WithColl(s, s.coll \cup {c})
           l == WithColl(s, s.coll \ {c})
<1>1. \/ t = AddUpNextClient(k, c, a)
      \/ t = l
      \/ t = AddUpNextClient(l, c, a)
      \/ l.state[c] # "uploading" /\ t = Queued(l, c)
  <2>1. /\ k = [s EXCEPT !.coll = @ \cup {c}]
        /\ l = [s EXCEPT !.coll = @ \ {c}]
    BY DEF WithColl, QueueState
  <2> HIDE DEF k, l
  <2> QED
    BY <2>1 DEF Enqueue, Queued
<1>2. s.coll \cup {c} \in SUBSET Client /\ s.coll \ {c} \in SUBSET Client
  BY DEF QueueState
<1>3. /\ k \in QueueState /\ k.alive = s.alive /\ k.conn = s.conn
      /\ Touches(s, k, c) /\ HalfOk(k, c)
      /\ ClientOk(s, c, banned) => ClientOk(k, c, banned)
  BY <1>2, CollFields
<1>4. /\ l \in QueueState /\ l.alive = s.alive /\ l.conn = s.conn
      /\ l.uploading = s.uploading
      /\ Touches(s, l, c) /\ HalfOk(l, c)
      /\ ClientOk(s, c, banned) => ClientOk(l, c, banned)
  BY <1>2, CollFields
<1> HIDE DEF k, l
<1>5. ClientOk(s, c, banned) => c \in s.alive
  BY DEF ClientOk, ListsOk
<1>6. CASE t = AddUpNextClient(k, c, a)
  <2>1. /\ Touches(k, t, c) /\ HalfOk(t, c)
        /\ ClientOk(k, c, banned) /\ c \in k.alive => ClientOk(t, c, banned)
    BY <1>3, <1>6, AddUpNextKeeps
  <2> QED
    BY <1>3, <1>5, <2>1, TouchesTwice
<1>7. CASE t = l
  BY <1>4, <1>7
<1>8. CASE t = AddUpNextClient(l, c, a)
  <2>1. /\ Touches(l, t, c) /\ HalfOk(t, c)
        /\ ClientOk(l, c, banned) /\ c \in l.alive => ClientOk(t, c, banned)
    BY <1>4, <1>8, AddUpNextKeeps
  <2> QED
    BY <1>4, <1>5, <2>1, TouchesTwice
<1>9. CASE l.state[c] # "uploading" /\ t = Queued(l, c)
  <2>1. /\ Touches(l, t, c) /\ HalfOk(t, c)
        /\ c \notin l.uploading /\ c \in l.alive /\ ClientOk(l, c, banned)
             => ClientOk(t, c, banned)
    BY <1>4, <1>9, QueuedKeeps
  <2>2. ClientOk(l, c, banned) => c \notin l.uploading
    BY <1>4, <1>9 DEF ClientOk
  <2> QED
    BY <1>4, <1>5, <2>1, <2>2, TouchesTwice
<1> QED
  BY <1>1, <1>6, <1>7, <1>8, <1>9

LEMMA AddClientKeeps ==
  ASSUME NEW s, NEW c \in Client, NEW a, NEW r \in Requests(s, c), NEW t,
         t = AddClientToQueue(s, c, a, r), Typed(s), s.conn[c] # "none",
         s.conn[c] = "up" \/ c \notin s.uploading
  PROVE  /\ Typed(t)
         /\ Lists(s, banned) =>
              /\ Lists(t, banned)
              /\ \A d \in Client : d # c /\ d \in s.uploading => d \in t.uploading
<1> DEFINE u == IF r.twin = NoClient THEN s ELSE GiveWay(s, r.twin, a)
<1>1. \/ t = s \/ t = u \/ t = AskAgain(u, c, a)
      \/ c \notin banned /\ t = Enqueue(u, c, a, r)
  BY DEF AddClientToQueue
<1>2. r.twin = NoClient \/ (r.twin \in s.waiting /\ r.twin # c)
  BY DEF Requests, Same
<1>3. /\ Typed(u) /\ (Lists(s, banned) => Lists(u, banned)) /\ SameFor(s, u, c)
      /\ Lists(s, banned) =>
           \A d \in Client : d \in s.uploading => d \in u.uploading
  <2>1. CASE r.twin = NoClient
    BY <2>1 DEF SameFor
  <2>2. CASE r.twin # NoClient
    <3>1. r.twin \in s.waiting /\ r.twin # c
      BY <1>2, <2>2
    <3>2. s \in QueueState /\ s.waiting \subseteq Client
      BY DEF Typed, QueueState
    <3>3. PICK w \in Client : w = r.twin
      BY <3>1, <3>2
    <3>4. u = GiveWay(s, w, a)
      BY <2>2, <3>3
    <3> HIDE DEF u
    <3>5. HalfOk(s, w)
      BY DEF Typed
    <3>6. /\ Touches(s, u, w) /\ HalfOk(u, w)
          /\ ClientOk(s, w, banned) => ClientOk(u, w, banned)
      BY <3>2, <3>4, <3>5, GiveWayKeeps
    <3>7. Typed(u)
      BY <3>6, TouchesTyped
    <3>8. Lists(s, banned) => Lists(u, banned)
      <4> SUFFICES ASSUME Lists(s, banned) PROVE Lists(u, banned)
        OBVIOUS
      <4>1. ClientOk(u, w, banned)
        BY <3>6 DEF Lists
      <4> QED
        BY <3>6, <4>1, TouchesLists
    <3>9. SameFor(s, u, c)
      BY <3>1, <3>3, <3>6 DEF Touches
    <3>10. Lists(s, banned) =>
             \A d \in Client : d \in s.uploading => d \in u.uploading
      <4> SUFFICES ASSUME Lists(s, banned), NEW d \in Client, d \in s.uploading
                   PROVE  d \in u.uploading
        OBVIOUS
      <4>1. d # w
        BY <3>1, <3>3 DEF Lists, ClientOk, ListsOk
      <4> QED
        BY <3>6, <4>1 DEF Touches, SameFor
    <3> QED
      BY <3>7, <3>8, <3>9, <3>10
  <2> QED
    BY <2>1, <2>2
<1> HIDE DEF u
<1>4. /\ u \in QueueState /\ HalfOk(u, c) /\ u.conn[c] # "none"
      /\ u.conn[c] = "up" \/ c \notin u.uploading
      /\ Lists(u, banned) => ClientOk(u, c, banned)
  BY <1>3 DEF Typed, SameFor, Lists
<1>5. CASE t = s
  BY <1>5
<1>6. CASE t = u
  BY <1>3, <1>6
<1>7. ASSUME Touches(u, t, c), HalfOk(t, c),
             ClientOk(u, c, banned) => ClientOk(t, c, banned)
      PROVE  /\ Typed(t)
             /\ Lists(s, banned) =>
                  /\ Lists(t, banned)
                  /\ \A d \in Client : d # c /\ d \in s.uploading => d \in t.uploading
  <2>1. Typed(t)
    BY <1>3, <1>7, TouchesTyped
  <2>2. ASSUME Lists(s, banned) PROVE Lists(t, banned)
    BY <1>3, <1>4, <1>7, <2>2, TouchesLists
  <2>3. ASSUME Lists(s, banned), NEW d \in Client, d # c, d \in s.uploading
        PROVE  d \in t.uploading
    BY <1>3, <1>7, <2>3 DEF Touches, SameFor
  <2> QED
    BY <2>1, <2>2, <2>3
<1>8. CASE t = AskAgain(u, c, a)
  <2>1. t = AddUpNextClient(u, c, a) \/ t = u
    BY <1>8 DEF AskAgain
  <2>2. CASE t = AddUpNextClient(u, c, a)
    <3>1. /\ Touches(u, t, c) /\ HalfOk(t, c)
          /\ ClientOk(u, c, banned) /\ c \in u.alive => ClientOk(t, c, banned)
      BY <1>4, <2>2, AddUpNextKeeps
    <3>2. ClientOk(u, c, banned) => c \in u.alive
      BY <1>4 DEF ClientOk, ListsOk
    <3> QED
      BY <1>7, <3>1, <3>2
  <2> QED
    BY <1>6, <2>1, <2>2
<1>9. CASE c \notin banned /\ t = Enqueue(u, c, a, r)
  BY <1>4, <1>7, <1>9, EnqueueKeeps
<1> QED
  BY <1>1, <1>5, <1>6, <1>8, <1>9

-------------------------------------------------------------------------------
(***************************************************************************)
(* The actions                                                             *)
(***************************************************************************)

\* an event of the message loop that does not ban anybody
LEMMA EventKeeps ==
  ASSUME IInv, Idle, UNCHANGED banned, Typed(q'),
         Lists(q, banned) => Lists(q', banned)
  PROVE  IInv'
<1>1. todo = {} /\ todo' = {} /\ pos' = pos /\ mpc' = mpc /\ env' = env
  BY DEF IInv, LoopIsAt, Idle
<1>2. TypeOK'
  BY <1>1 DEF IInv, TypeOK, Typed
<1>3. LoopIsAt'
  BY <1>1 DEF IInv, LoopIsAt
<1>4. /\ (May("ban") \/ banned = {})'
      /\ BansEnd' \/ (Lists(q', banned') /\ todo' \subseteq q'.uploading)
  BY <1>1 DEF IInv, BansEnd, May
<1>5. Typed(q)'
  OBVIOUS
<1> QED
  BY <1>2, <1>3, <1>4, <1>5 DEF IInv

\* ... and touches only client c
LEMMA TouchKeeps ==
  ASSUME IInv, Idle, UNCHANGED banned, NEW c \in Client,
         Touches(q, q', c), HalfOk(q', c),
         Lists(q, banned) => ClientOk(q', c, banned)
  PROVE  IInv'
<1>1. Typed(q')
  BY TouchesTyped DEF IInv
<1>2. Lists(q, banned) => Lists(q', banned)
  BY TouchesLists
<1> QED
  BY <1>1, <1>2, EventKeeps

\* the client has socket n, on which the hello is answered
Connected(s, c, n) ==
  [s EXCEPT !.alive = @ \cup {c}, !.conn[c] = "up", !.sock[c] = n]

LEMMA ConnectedFields ==
  ASSUME NEW s \in QueueState, NEW c \in Client, NEW n \in 1..MaxSock, NEW t,
         t = Connected(s, c, n)
  PROVE  /\ Touches(s, t, c)
         /\ c \in t.alive /\ t.conn[c] = "up"
         /\ t.waiting = s.waiting /\ t.uploading = s.uploading
         /\ t.connecting = s.connecting /\ t.state = s.state
<1> DEFINE al == s.alive \cup {c}
           cn == [s.conn EXCEPT ![c] = "up"]
           so == [s.sock EXCEPT ![c] = n]
<1>1. /\ cn \in [Client -> Connection] /\ cn[c] = "up"
      /\ \A d \in Client : d # c => cn[d] = s.conn[d]
  BY DEF QueueState, Connection
<1>2. so \in [Client -> 1..MaxSock]
  BY DEF QueueState
<1>3. /\ al \in SUBSET Client /\ c \in al
      /\ \A d \in Client : d # c => (d \in al <=> d \in s.alive)
  BY DEF QueueState
<1>4. t = [s EXCEPT !.alive = al, !.conn = cn, !.sock = so]
  BY DEF QueueState, Connected
<1> HIDE DEF al, cn, so
<1>5. /\ t \in QueueState
      /\ t.alive = al /\ t.waiting = s.waiting
      /\ t.uploading = s.uploading /\ t.state = s.state
      /\ t.connecting = s.connecting /\ t.conn = cn
  BY <1>1, <1>2, <1>3, <1>4 DEF QueueState
<1> QED
  BY <1>1, <1>3, <1>5 DEF Touches, SameFor

LEMMA ClientConnectsStep ==
  ASSUME IInv, NEW c \in Client, ClientConnects(c)
  PROVE  IInv'
<1> DEFINE t == Connected(q, c, NewSocket(q))
<1>1. q \in QueueState
  BY DEF IInv, TypeOK
<1>2. NewSocket(q) \in 1..MaxSock
  BY NewSocketIsOne DEF ClientConnects
<1>3. /\ Touches(q, t, c)
      /\ c \in t.alive /\ t.conn[c] = "up"
      /\ t.waiting = q.waiting /\ t.uploading = q.uploading
      /\ t.connecting = q.connecting /\ t.state = q.state
  BY <1>1, <1>2, ConnectedFields
<1>4. q' = ConnectionEstablished(t, c)
  BY DEF ClientConnects, Connected
<1> HIDE DEF t
<1>5. t \in QueueState
  BY <1>3 DEF Touches
<1>6. /\ Touches(t, q', c) /\ HalfOk(q', c)
      /\ ListsOk(t, c, banned) => ClientOk(q', c, banned)
  BY <1>3, <1>4, <1>5, EstablishedKeeps
<1>7. Lists(q, banned) => ListsOk(t, c, banned)
  BY <1>3 DEF Lists, ClientOk, ListsOk
<1>8. Touches(q, q', c)
  BY <1>3, <1>6, TouchesTwice
<1> QED
  BY <1>6, <1>7, <1>8, TouchKeeps DEF ClientConnects

WithConnection(s, c, x) == [s EXCEPT !.conn[c] = x]

LEMMA ConnectionFields ==
  ASSUME NEW s \in QueueState, NEW c \in Client, NEW x \in Connection, NEW t,
         t = WithConnection(s, c, x)
  PROVE  /\ Touches(s, t, c) /\ t.conn[c] = x
         /\ t.alive = s.alive /\ t.waiting = s.waiting
         /\ t.uploading = s.uploading /\ t.connecting = s.connecting
         /\ t.state = s.state
<1> DEFINE cn == [s.conn EXCEPT ![c] = x]
<1>1. /\ cn \in [Client -> Connection] /\ cn[c] = x
      /\ \A d \in Client : d # c => cn[d] = s.conn[d]
  BY DEF QueueState
<1>2. t = [s EXCEPT !.conn = cn]
  BY DEF QueueState, WithConnection
<1> HIDE DEF cn
<1>3. /\ t \in QueueState
      /\ t.alive = s.alive /\ t.waiting = s.waiting
      /\ t.uploading = s.uploading /\ t.state = s.state
      /\ t.connecting = s.connecting /\ t.conn = cn
  BY <1>1, <1>2 DEF QueueState
<1> QED
  BY <1>1, <1>3 DEF Touches, SameFor

LEMMA OnConnectStep ==
  ASSUME IInv, NEW c \in Client, OnConnect(c)
  PROVE  IInv'
<1>1. q \in QueueState /\ "hello" \in Connection
  BY DEF IInv, TypeOK, Connection
<1>2. q' = WithConnection(q, c, "hello")
  BY DEF OnConnect, WithConnection
<1>3. /\ Touches(q, q', c) /\ q'.conn[c] = "hello"
      /\ q'.alive = q.alive /\ q'.waiting = q.waiting
      /\ q'.uploading = q.uploading /\ q'.connecting = q.connecting
      /\ q'.state = q.state
  BY <1>1, <1>2, ConnectionFields
<1>4. q.conn[c] = "half"
  BY DEF OnConnect
<1>5. HalfOk(q', c) /\ (Lists(q, banned) => ClientOk(q', c, banned))
  BY <1>3, <1>4 DEF HalfOk, Lists, ClientOk, ListsOk
<1> QED
  BY <1>3, <1>5, TouchKeeps DEF OnConnect

LEMMA HelloAnswerStep ==
  ASSUME IInv, NEW c \in Client, HelloAnswer(c)
  PROVE  IInv'
<1> DEFINE t == WithConnection(q, c, "up")
<1>1. q \in QueueState /\ "up" \in Connection
  BY DEF IInv, TypeOK, Connection
<1>2. q' = ConnectionEstablished(t, c) /\ q.conn[c] = "hello"
  BY DEF HelloAnswer, WithConnection
<1>3. /\ Touches(q, t, c) /\ t.conn[c] = "up"
      /\ t.alive = q.alive /\ t.waiting = q.waiting
      /\ t.uploading = q.uploading /\ t.connecting = q.connecting
      /\ t.state = q.state
  BY <1>1, ConnectionFields
<1> HIDE DEF t
<1>4. t \in QueueState
  BY <1>3 DEF Touches
<1>5. /\ Touches(t, q', c) /\ HalfOk(q', c)
      /\ ListsOk(t, c, banned) => ClientOk(q', c, banned)
  BY <1>2, <1>3, <1>4, EstablishedKeeps
<1>6. Lists(q, banned) => ListsOk(t, c, banned)
  BY <1>2, <1>3 DEF Lists, ClientOk, ListsOk
<1>7. Touches(q, q', c)
  BY <1>3, <1>5, TouchesTwice
<1> QED
  BY <1>5, <1>6, <1>7, TouchKeeps DEF HelloAnswer

WithStandardList(s, X) == [s EXCEPT !.std = X]

LEMMA StandardListFields ==
  ASSUME NEW s \in QueueState, NEW X \in SUBSET (1..MaxSock), NEW t,
         t = WithStandardList(s, X)
  PROVE  /\ t \in QueueState
         /\ t.alive = s.alive /\ t.waiting = s.waiting
         /\ t.uploading = s.uploading /\ t.connecting = s.connecting
         /\ t.state = s.state /\ t.conn = s.conn
BY DEF QueueState, WithStandardList

LEMMA SocketClosesStep ==
  ASSUME IInv, NEW c \in Client, SocketCloses(c)
  PROVE  IInv'
<1>1. q \in QueueState
  BY DEF IInv, TypeOK
<1>2. PICK a \in Answers(c), closed \in BOOLEAN :
        q' = Disconnect([q EXCEPT !.std = IF closed THEN @ \ {q.sock[c]} ELSE @],
                        c, a)
  BY DEF SocketCloses
<1> DEFINE X == IF closed THEN q.std \ {q.sock[c]} ELSE q.std
           t == WithStandardList(q, X)
<1>3. q' = Disconnect(t, c, a)
  BY <1>1, <1>2 DEF WithStandardList, QueueState
<1>4. X \in SUBSET (1..MaxSock)
  BY <1>1 DEF QueueState
<1> HIDE DEF X
<1>5. /\ t \in QueueState
      /\ t.alive = q.alive /\ t.waiting = q.waiting
      /\ t.uploading = q.uploading /\ t.connecting = q.connecting
      /\ t.state = q.state /\ t.conn = q.conn
  BY <1>1, <1>4, StandardListFields
<1> HIDE DEF t
<1>6. /\ Touches(t, q', c) /\ HalfOk(q', c)
      /\ ListsOk(t, c, banned) => ClientOk(q', c, banned)
  BY <1>3, <1>5, DisconnectKeeps
<1>7. Touches(q, t, c) /\ (Lists(q, banned) => ListsOk(t, c, banned))
  BY <1>5 DEF Touches, SameFor, Lists, ClientOk, ListsOk
<1>8. Touches(q, q', c)
  BY <1>6, <1>7, TouchesTwice
<1> QED
  BY <1>6, <1>7, <1>8, TouchKeeps DEF SocketCloses

LEMMA DeleteSocketStep ==
  ASSUME IInv, NEW n \in 1..MaxSock, DeleteSocket(n)
  PROVE  IInv'
<1>1. q \in QueueState
  BY DEF IInv, TypeOK
<1>2. q' = WithStandardList(q, q.std \ {n})
  BY <1>1 DEF DeleteSocket, WithStandardList, QueueState
<1>3. q.std \ {n} \in SUBSET (1..MaxSock)
  BY <1>1 DEF QueueState
<1>4. /\ q' \in QueueState
      /\ q'.alive = q.alive /\ q'.waiting = q.waiting
      /\ q'.uploading = q.uploading /\ q'.connecting = q.connecting
      /\ q'.state = q.state /\ q'.conn = q.conn
  BY <1>1, <1>2, <1>3, StandardListFields
<1>5. Typed(q')
  BY <1>4 DEF IInv, Typed, HalfOk
<1>6. Lists(q, banned) => Lists(q', banned)
  BY <1>4 DEF Lists, ClientOk, ListsOk
<1> QED
  BY <1>5, <1>6, EventKeeps DEF DeleteSocket

LEMMA ConnectTimeoutStep ==
  ASSUME IInv, NEW c \in Client, ConnectTimeout(c)
  PROVE  IInv'
<1>1. q \in QueueState
  BY DEF IInv, TypeOK
<1>2. PICK a : q' = Disconnect(q, c, a)
  BY DEF ConnectTimeout
<1>3. /\ Touches(q, q', c) /\ HalfOk(q', c)
      /\ ListsOk(q, c, banned) => ClientOk(q', c, banned)
  BY <1>1, <1>2, DisconnectKeeps
<1> QED
  BY <1>3, TouchKeeps DEF ConnectTimeout, Lists, ClientOk

LEMMA AskForDownloadStep ==
  ASSUME IInv, NEW c \in Client, AskForDownload(c)
  PROVE  IInv'
<1>1. q \in QueueState /\ HalfOk(q, c)
  BY DEF IInv, TypeOK, Typed
<1>2. PICK a : q' = TryToConnect(q, c, a)
  BY DEF AskForDownload
<1>3. q.conn[c] = "none" => FreeSockets(q) # {}
  BY DEF AskForDownload, Room, HasSocket
<1>4. /\ Touches(q, q', c) /\ HalfOk(q', c)
      /\ ClientOk(q, c, banned) /\ c \in q.alive => ClientOk(q', c, banned)
  BY <1>1, <1>2, <1>3, TryKeeps
<1> QED
  BY <1>4, TouchKeeps DEF AskForDownload, Lists

LEMMA StartUploadReqStep ==
  ASSUME IInv, NEW c \in Client, StartUploadReq(c)
  PROVE  IInv'
<1>1. PICK a \in Answers(c), r \in Requests(q, c) : q' = AddClientToQueue(q, c, a, r)
  BY DEF StartUploadReq
<1>2. Typed(q) /\ q.conn[c] = "up"
  BY DEF IInv, StartUploadReq
<1>3. Typed(q') /\ (Lists(q, banned) => Lists(q', banned))
  BY <1>1, <1>2, AddClientKeeps
<1> QED
  BY <1>3, EventKeeps DEF StartUploadReq

LEMMA CancelTransferStep ==
  ASSUME IInv, NEW c \in Client, CancelTransfer(c)
  PROVE  IInv'
<1>1. q \in QueueState /\ HalfOk(q, c)
  BY DEF IInv, TypeOK, Typed
<1>2. q' = RemoveFromUploadQueue(q, c)
  BY DEF CancelTransfer
<1>3. /\ Touches(q, q', c) /\ HalfOk(q', c)
      /\ ClientOk(q, c, banned) => ClientOk(q', c, banned)
  BY <1>1, <1>2, RemoveUploadKeeps
<1> QED
  BY <1>3, TouchKeeps DEF CancelTransfer, Lists

LEMMA BanStep ==
  ASSUME IInv, NEW c \in Client, Ban(c)
  PROVE  IInv'
<1>1. q \in QueueState /\ "banned" \in UploadState
  BY DEF IInv, TypeOK, UploadState
<1>2. q' = WithState(q, c, "banned") /\ banned' = banned \cup {c}
  BY DEF Ban, WithState
<1>3. /\ q' \in QueueState
      /\ q'.alive = q.alive /\ q'.waiting = q.waiting
      /\ q'.uploading = q.uploading /\ q'.conn = q.conn
      /\ q'.connecting = q.connecting
      /\ q'.state[c] = "banned" /\ Touches(q, q', c)
  BY <1>1, <1>2, StateFields
<1>4. Typed(q')
  BY <1>3 DEF IInv, Typed, HalfOk
<1>5. Lists(q, banned) => Lists(q', banned')
  BY <1>2, <1>3 DEF Lists, ClientOk, ListsOk, Touches, SameFor
<1>6. todo = {} /\ todo' = {} /\ pos' = pos /\ mpc' = mpc /\ env' = env
  BY DEF IInv, LoopIsAt, Ban, Idle
<1>7. TypeOK'
  BY <1>2, <1>3, <1>6 DEF IInv, TypeOK
<1>8. LoopIsAt'
  BY <1>6 DEF IInv, LoopIsAt
<1>9. May("ban")' /\ (BansEnd' \/ (Lists(q', banned') /\ todo' \subseteq q'.uploading))
  BY <1>5, <1>6 DEF IInv, BansEnd, Ban, May
<1>10. Typed(q)'
  BY <1>4
<1> QED
  BY <1>7, <1>8, <1>9, <1>10 DEF IInv

\* the one event after which only the types are known
LEMMA UnBanStep ==
  ASSUME IInv, NEW c \in Client, UnBan(c)
  PROVE  IInv'
<1>1. q \in QueueState /\ "none" \in UploadState
  BY DEF IInv, TypeOK, UploadState
<1>2. q' = WithState(q, c, "none") /\ banned' = banned \ {c}
  BY DEF UnBan, WithState
<1>3. /\ q' \in QueueState /\ q'.conn = q.conn /\ q'.connecting = q.connecting
  BY <1>1, <1>2, StateFields
<1>4. Typed(q')
  BY <1>3 DEF IInv, Typed, HalfOk
<1>5. todo = {} /\ todo' = {} /\ pos' = pos /\ mpc' = mpc /\ env' = env
  BY DEF IInv, LoopIsAt, UnBan, Idle
<1>6. TypeOK'
  BY <1>2, <1>3, <1>5 DEF IInv, TypeOK
<1>7. LoopIsAt'
  BY <1>5 DEF IInv, LoopIsAt
<1>8. May("ban")' /\ BansEnd'
  BY <1>5 DEF IInv, UnBan, BansEnd, May
<1>9. Typed(q)'
  BY <1>4
<1> QED
  BY <1>6, <1>7, <1>8, <1>9 DEF IInv

\* the loop goes on to clients that are in the upload list
LEMMA VisitKeeps ==
  ASSUME IInv, env' = env, banned' = banned, mpc' = "slots",
         NEW left \in SUBSET Client, Visit(left), Typed(q'),
         BansEnd \/ (Lists(q', banned) /\ left \subseteq q'.uploading)
  PROVE  IInv'
<1>1. /\ todo' = left
      /\ pos' \in left \cup {NoClient} /\ (pos' = NoClient => left = {})
  BY QueueAssumption DEF Visit
<1>2. TypeOK'
  BY <1>1 DEF IInv, TypeOK, Typed
<1>3. LoopIsAt'
  BY <1>1 DEF LoopIsAt
<1>4. /\ (May("ban") \/ banned = {})'
      /\ BansEnd' \/ (Lists(q', banned') /\ todo' \subseteq q'.uploading)
  BY <1>1 DEF IInv, BansEnd, May
<1>5. Typed(q)'
  OBVIOUS
<1> QED
  BY <1>2, <1>3, <1>4, <1>5 DEF IInv

\* FindBestClientInQueue takes clients out of the waiting list and marks one
Found(s, gone, X) == [Purge(s, gone) EXCEPT !.addNext = X]

LEMMA FoundFields ==
  ASSUME NEW s \in QueueState, NEW gone,
         NEW X \in SUBSET Client, NEW t, t = Found(s, gone, X)
  PROVE  /\ t \in QueueState
         /\ t.alive = s.alive
         /\ \A d \in Client :
              d \in t.waiting <=> d \in s.waiting /\ d \notin gone
         /\ t.uploading = s.uploading /\ t.conn = s.conn
         /\ t.connecting = s.connecting /\ t.sock = s.sock /\ t.std = s.std
         /\ \A d \in Client : d \in gone => t.state[d] = "none"
         /\ \A d \in Client : d \notin gone => t.state[d] = s.state[d]
<1> DEFINE st == [c \in Client |-> IF c \in gone THEN "none" ELSE s.state[c]]
           wa == s.waiting \ gone
<1>1. /\ st \in [Client -> UploadState]
      /\ \A d \in Client : st[d] = IF d \in gone THEN "none" ELSE s.state[d]
  BY DEF QueueState, UploadState
<1>2. wa \in SUBSET Client
  BY DEF QueueState
<1>3. t = [s EXCEPT !.waiting = wa, !.addNext = X, !.state = st]
  BY DEF QueueState, Purge, Found
<1> HIDE DEF st, wa
<1>4. /\ t \in QueueState
      /\ t.alive = s.alive /\ t.waiting = wa
      /\ t.uploading = s.uploading /\ t.conn = s.conn
      /\ t.connecting = s.connecting /\ t.sock = s.sock /\ t.std = s.std
      /\ t.state = st
  BY <1>2, <1>3, <1>1 DEF QueueState
<1> QED
  BY <1>1, <1>4 DEF wa

LEMMA FoundKeeps ==
  ASSUME NEW s \in QueueState, NEW gone \in SUBSET Client,
         NEW X \in SUBSET Client, NEW t,
         t = Found(s, gone, X), gone \subseteq s.waiting, Typed(s)
  PROVE  Typed(t) /\ (Lists(s, banned) => Lists(t, banned))
<1>1. /\ t \in QueueState
      /\ t.alive = s.alive
      /\ \A d \in Client :
           d \in t.waiting <=> d \in s.waiting /\ d \notin gone
      /\ t.uploading = s.uploading /\ t.conn = s.conn
      /\ t.connecting = s.connecting
      /\ \A d \in Client : d \in gone => t.state[d] = "none"
      /\ \A d \in Client : d \notin gone => t.state[d] = s.state[d]
  BY FoundFields
<1>2. Typed(t)
  BY <1>1 DEF Typed, HalfOk
<1>3. Lists(s, banned) => Lists(t, banned)
  BY <1>1 DEF Lists, ClientOk, ListsOk
<1> QED
  BY <1>2, <1>3

LEMMA ProcessStep ==
  ASSUME IInv, Process
  PROVE  IInv'
<1>1. q \in QueueState /\ Typed(q)
  BY DEF IInv, TypeOK
<1>2. Typed(q') /\ (Lists(q, banned) => Lists(q', banned))
  <2>1. CASE q' = q
    BY <1>1, <2>1
  <2>2. ASSUME NEW b \in {NoClient} \cup q.waiting, NEW a,
               NEW gone \in SUBSET q.waiting, NEW late \in {NoClient} \cup q.waiting,
               b # NoClient => Room(q, b),
               <<b, late>> \in FindBest(Purge(q, gone)),
               q' = OpenSlot(Purge(q, gone), a, b, late)
        PROVE  Typed(q') /\ (Lists(q, banned) => Lists(q', banned))
    <3> DEFINE X == Purge(q, gone).addNext \cup ({late} \ {NoClient})
               r == Found(q, gone, X)
    <3>1. Purge(q, gone).addNext = q.addNext \ gone
      BY <1>1 DEF Purge, QueueState
    <3>2. X \in SUBSET Client
      BY <1>1, <3>1 DEF QueueState
    <3>3. q' = r \/ (b # NoClient /\ q' = AddUpNextClient(r, b, a))
      <4>1. r = [Purge(q, gone) EXCEPT !.addNext = @ \cup ({late} \ {NoClient})]
        BY <1>1 DEF Found, Purge, QueueState
      <4> HIDE DEF r, X
      <4> QED
        BY <2>2, <4>1 DEF OpenSlot
    <3> HIDE DEF X
    <3>0. gone \in SUBSET Client
      BY <1>1, <2>2 DEF QueueState
    <3>4. Typed(r) /\ (Lists(q, banned) => Lists(r, banned))
      BY <1>1, <2>2, <3>0, <3>2, FoundKeeps
    <3>5. /\ r \in QueueState /\ r.alive = q.alive /\ r.conn = q.conn
          /\ r.sock = q.sock /\ r.std = q.std
      BY <1>1, <3>0, <3>2, FoundFields
    <3> HIDE DEF r
    <3>6. CASE q' = r
      BY <3>4, <3>6
    <3>7. CASE b # NoClient /\ q' = AddUpNextClient(r, b, a)
      <4>1. b \in q.waiting /\ b \in Client /\ Room(q, b)
        BY <1>1, <2>2, <3>7 DEF QueueState
      <4>2. r.conn[b] = "none" => FreeSockets(r) # {}
        BY <3>5, <4>1 DEF Room, FreeSockets, HasSocket
      <4>3. HalfOk(r, b)
        BY <3>4, <4>1 DEF Typed
      <4>4. /\ Touches(r, q', b) /\ HalfOk(q', b)
            /\ ClientOk(r, b, banned) /\ b \in r.alive => ClientOk(q', b, banned)
        BY <3>5, <3>7, <4>1, <4>2, <4>3, AddUpNextKeeps
      <4>5. Typed(q')
        BY <3>4, <4>1, <4>4, TouchesTyped
      <4>6. ASSUME Lists(q, banned) PROVE Lists(q', banned)
        <5>1. b \in r.alive
          BY <3>5, <4>1, <4>6 DEF Lists, ClientOk, ListsOk
        <5>2. ClientOk(r, b, banned)
          BY <3>4, <4>1, <4>6 DEF Lists
        <5> QED
          BY <3>4, <4>1, <4>4, <4>6, <5>1, <5>2, TouchesLists
      <4> QED
        BY <4>5, <4>6
    <3> QED
      BY <3>3, <3>6, <3>7
  <2> QED
    BY <2>1, <2>2 DEF Process
<1>3. q'.uploading \in SUBSET Client
  BY <1>2 DEF Typed, QueueState
<1>4. BansEnd \/ Lists(q', banned)
  BY <1>2 DEF IInv
<1> QED
  BY <1>2, <1>3, <1>4, VisitKeeps DEF Process

LEMMA ProcessSlotStep ==
  ASSUME IInv, ProcessSlot
  PROVE  IInv'
<1> DEFINE left == (todo \ {pos}) \cap q.uploading
           s == RemoveFromUploadQueue(q, pos)
<1>1. q \in QueueState /\ Typed(q) /\ pos \in Client /\ left \in SUBSET Client
  BY DEF IInv, TypeOK, ProcessSlot
<1>2. /\ Touches(q, s, pos) /\ pos \notin s.uploading
      /\ s.conn[pos] = q.conn[pos]
      /\ HalfOk(q, pos) => HalfOk(s, pos)
      /\ ClientOk(q, pos, banned) => ClientOk(s, pos, banned)
  BY <1>1, RemoveUploadKeeps
<1>3. /\ s \in QueueState
      /\ s.alive = q.alive /\ s.waiting = q.waiting
      /\ s.uploading = q.uploading \ {pos}
      /\ s.conn = q.conn /\ s.connecting = q.connecting
      /\ s.state = IF pos \in q.uploading
                   THEN [q.state EXCEPT ![pos] = "none"] ELSE q.state
  BY <1>1, RemoveUploadFields
<1> DEFINE ok == /\ Typed(q')
                 /\ Lists(q, banned) =>
                      Lists(q', banned) /\ left \subseteq q'.uploading
<1>4. ASSUME Touches(q, q', pos), HalfOk(q', pos),
             ClientOk(q, pos, banned) => ClientOk(q', pos, banned)
      PROVE  ok
  <2>1. Typed(q')
    BY <1>1, <1>4, TouchesTyped
  <2>2. Lists(q, banned) => Lists(q', banned)
    BY <1>1, <1>4, TouchesLists DEF Lists
  <2>3. left \subseteq q'.uploading
    BY <1>1, <1>4 DEF Touches, SameFor
  <2> QED
    BY <2>1, <2>2, <2>3
<1>5. ASSUME NEW a, NEW event, q' = ServeSlot(q, pos, a, event)
      PROVE  ok
  <2>1. q' = q \/ q' = s \/ q' = Disconnect(s, pos, a)
    BY <1>5 DEF ServeSlot
  <2>2. HalfOk(q, pos)
    BY <1>1 DEF Typed
  <2> HIDE DEF s, ok
  <2>3. CASE q' = q
    <3>1. Touches(q, q', pos)
      BY <1>1, <2>3 DEF Touches, SameFor
    <3> QED
      BY <1>4, <2>2, <2>3, <3>1
  <2>4. CASE q' = s
    BY <1>2, <1>4, <2>2, <2>4
  <2>5. CASE q' = Disconnect(s, pos, a)
    <3>1. /\ Touches(s, q', pos) /\ HalfOk(q', pos)
          /\ ListsOk(s, pos, banned) => ClientOk(q', pos, banned)
      BY <1>1, <1>3, <2>5, DisconnectKeeps
    <3>2. Touches(q, q', pos)
      BY <1>1, <1>2, <3>1, TouchesTwice
    <3> QED
      BY <1>2, <1>4, <3>1, <3>2 DEF ClientOk
  <2> QED
    BY <2>1, <2>3, <2>4, <2>5
<1>6. ASSUME HasSocket(q, pos), NEW a, NEW r \in Requests(q, pos),
             q' = EndSession(q, pos, a, r)
      PROVE  ok
  <2>1. q' = AddClientToQueue(s, pos, a, r)
    BY <1>6 DEF EndSession
  <2> HIDE DEF s
  <2>2. r \in Requests(s, pos)
    BY <1>3 DEF Requests
  <2>3. s.conn[pos] # "none"
    BY <1>2, <1>6 DEF HasSocket
  <2>4. HalfOk(s, pos)
    BY <1>1, <1>2 DEF Typed
  <2>5. Typed(s)
    BY <1>1, <1>2, <2>4, TouchesTyped
  <2>6. /\ Typed(q')
        /\ Lists(s, banned) =>
             /\ Lists(q', banned)
             /\ \A d \in Client : d # pos /\ d \in s.uploading => d \in q'.uploading
    BY <1>1, <1>2, <2>1, <2>2, <2>3, <2>5, AddClientKeeps
  <2>7. ASSUME Lists(q, banned)
        PROVE  Lists(q', banned) /\ left \subseteq q'.uploading
    <3>1. ClientOk(s, pos, banned)
      BY <1>1, <1>2, <2>7 DEF Lists
    <3>2. Lists(s, banned)
      BY <1>1, <1>2, <2>7, <3>1, TouchesLists
    <3>3. \A d \in left : d \in Client /\ d # pos /\ d \in s.uploading
      BY <1>1, <1>2 DEF Touches, SameFor
    <3> QED
      BY <2>6, <3>2, <3>3
  <2> QED
    BY <2>6, <2>7
<1>7. ok /\ Visit(left)
  <2> HIDE DEF ok, s
  <2> QED
    BY <1>5, <1>6 DEF ProcessSlot
<1>8. BansEnd \/ (Lists(q', banned) /\ left \subseteq q'.uploading)
  BY <1>7 DEF IInv
<1>9. Typed(q') /\ Visit(left) /\ mpc' = "slots" /\ env' = env /\ banned' = banned
  BY <1>7 DEF ProcessSlot
<1> HIDE DEF left, ok, s
<1> QED
  BY <1>1, <1>8, <1>9, VisitKeeps

LEMMA ProcessEndStep ==
  ASSUME IInv, ProcessEnd
  PROVE  IInv'
BY DEF ProcessEnd, IInv, TypeOK, LoopIsAt, BansEnd, May

-------------------------------------------------------------------------------
(***************************************************************************)
(* The theorems                                                            *)
(***************************************************************************)
LEMMA InitInv == Init => IInv
<1> SUFFICES ASSUME Init PROVE IInv
  OBVIOUS
<1>1. \A c \in Client : q.state[c] = "none" /\ q.conn[c] = "none"
  BY DEF Init
<1>2. /\ q.alive = {} /\ q.waiting = {} /\ q.uploading = {}
      /\ q.connecting = {}
  BY DEF Init
<1>3. q \in QueueState
  <2>1. 1 \in 1..MaxSock
    BY QueueAssumption
  <2> QED
    BY <2>1 DEF Init, QueueState, UploadState, Connection
<1>4. Typed(q)
  BY <1>1, <1>3 DEF Typed, HalfOk
<1>5. Lists(q, banned)
  BY <1>1, <1>2 DEF Lists, ClientOk, ListsOk
<1>6. TypeOK /\ LoopIsAt /\ todo = {} /\ banned = {}
  BY <1>3 DEF Init, TypeOK, LoopIsAt
<1> QED
  BY <1>4, <1>5, <1>6 DEF IInv

LEMMA StepInv == IInv /\ [Next]_vars => IInv'
<1> SUFFICES ASSUME IInv, [Next]_vars PROVE IInv'
  OBVIOUS
<1>1. CASE UNCHANGED vars
  BY <1>1 DEF vars, IInv, TypeOK, LoopIsAt, BansEnd, May
<1>2. ASSUME NEW c \in Client,
             \/ ClientConnects(c) \/ OnConnect(c) \/ HelloAnswer(c)
             \/ SocketCloses(c) \/ ConnectTimeout(c) \/ AskForDownload(c)
             \/ StartUploadReq(c) \/ CancelTransfer(c) \/ Ban(c) \/ UnBan(c)
      PROVE  IInv'
  BY <1>2, ClientConnectsStep, OnConnectStep, HelloAnswerStep,
     SocketClosesStep, ConnectTimeoutStep, AskForDownloadStep,
     StartUploadReqStep, CancelTransferStep, BanStep, UnBanStep
<1>3. ASSUME NEW n \in 1..MaxSock, DeleteSocket(n) PROVE IInv'
  BY <1>3, DeleteSocketStep
<1>4. CASE Process
  BY <1>4, ProcessStep
<1>5. CASE ProcessSlot
  BY <1>5, ProcessSlotStep
<1>6. CASE ProcessEnd
  BY <1>6, ProcessEndStep
<1> QED
  BY <1>1, <1>2, <1>3, <1>4, <1>5, <1>6 DEF Next

(***************************************************************************)
(* Every handler leaves the queue, its clients and the throttler's list    *)
(* well typed: in particular a new socket is one that exists, and the      *)
(* position Process has saved is a client or the end of the list.          *)
(***************************************************************************)
THEOREM TypeCorrect == Spec => []TypeOK
<1>1. IInv => TypeOK
  BY DEF IInv
<1> QED
  BY <1>1, InitInv, StepInv, PTL DEF Spec

(***************************************************************************)
(* However the handlers call each other, no client is in the waiting and   *)
(* in the upload list, no list holds a deleted client, the upload state    *)
(* agrees with the list a client is in, and the position Process has saved *)
(* is in the upload list, unless the user ends a ban.                      *)
(***************************************************************************)
THEOREM QueueListsMatch == Spec => []ListsMatchStates
<1>1. IInv => ListsMatchStates
  <2> SUFFICES ASSUME IInv, ~May("unban")
               PROVE  /\ ListsAreDisjoint /\ ListsAreAlive
                      /\ StatesAgree /\ PositionIsListed
    BY DEF ListsMatchStates
  <2>1. Lists(q, banned) /\ todo \subseteq q.uploading /\ q \in QueueState
    BY DEF IInv, BansEnd, TypeOK
  <2>2. \A c \in Client : ListsOk(q, c, banned)
    BY <2>1 DEF Lists, ClientOk
  <2>3. /\ q.waiting \subseteq Client /\ q.uploading \subseteq Client
        /\ q.connecting \subseteq Client
    BY <2>1 DEF QueueState
  <2>4. ListsAreDisjoint
    BY <2>2, <2>3 DEF ListsOk, ListsAreDisjoint
  <2>5. ListsAreAlive
    BY <2>2, <2>3 DEF ListsOk, ListsAreAlive
  <2>6. StatesAgree
    BY <2>2 DEF ListsOk, StatesAgree
  <2>7. PositionIsListed
    BY <2>1 DEF IInv, LoopIsAt, PositionIsListed
  <2> QED
    BY <2>4, <2>5, <2>6, <2>7
<1> QED
  BY <1>1, InitInv, StepInv, PTL DEF Spec
===============================================================================
