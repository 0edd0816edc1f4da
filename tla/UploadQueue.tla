------------------------------ MODULE UploadQueue ------------------------------
(***************************************************************************)
(* CUploadQueue: the waiting list, the upload list, the upload states and  *)
(* connections of the clients in them, and the list of sockets the upload  *)
(* bandwidth throttler serves.                                             *)
(*                                                                         *)
(* Everything here runs in the main thread.  A handler calls others that   *)
(* change the same objects, so what the code keeps in its members is one   *)
(* record, q, and a function of the code is an operator from such a record *)
(* to the next; an action is one event of the message loop.  Process is    *)
(* one action per element it visits: what a handler does to the lists it   *)
(* walks is what can go wrong.                                             *)
(*                                                                         *)
(* The lists are sets: their order decides only which socket is served     *)
(* first.                                                                  *)
(***************************************************************************)
EXTENDS Integers, FiniteSets

CONSTANTS Client, NoClient,
          MaxSock,    \* bound: sockets that exist at once are 1..MaxSock
          MinSlots,   \* slots that are opened whatever the data rate
          SureSlots,  \* slots that are accepted whatever the data rate
          MaxSlots,   \* slots after which no further one is accepted
          QueueLimit, \* length of the waiting list that is not exceeded
          Scenarios

EventKinds == {
  "ask",      \* we connect to a client for a download of ours
  "kept",     \* a disconnected client is still a source of a download
  "refused",  \* a check before connecting fails
  "nosocket", \* no socket can be created
  "chat",     \* a client is a chat partner
  "swap",     \* a client connects while it still has a socket
  "same",     \* two clients have the same user hash
  "coll",     \* a client asks for a collection
  "again",    \* a client asks for a file while it is served
  "over",     \* an upload session ends by time or score
  "error",    \* a block cannot be read, a requested file is unshared
  "purge",    \* a waiting client has not been heard of for an hour
  "ban", "unban"}

ASSUME QueueAssumption ==
  /\ IsFiniteSet(Client) /\ NoClient \notin Client
  /\ MaxSock \in Nat \ {0} /\ QueueLimit \in Nat
  /\ MinSlots \in Nat /\ SureSlots \in Nat /\ MaxSlots \in Nat
  /\ MinSlots <= SureSlots /\ SureSlots <= MaxSlots
  /\ Scenarios \subseteq [may : SUBSET EventKinds, who : SUBSET Client,
                          low : SUBSET Client]

VARIABLES
  env,     \* the events .may this behaviour admits, the clients .who that
           \* connect to us, those .low with a low ID (constant)
  banned,  \* clients whose address CClientList::IsBannedClient finds
  q,       \* the queue, its clients and the throttler's standard list
  mpc,     \* main thread: "idle" or inside the loop of Process
  todo,    \* clients the loop has left
  pos      \* the client at the position the loop will visit next

vars == <<env, banned, q, mpc, todo, pos>>

May(e) == e \in env.may

UploadState == {"none", "onqueue", "connecting", "uploading", "banned"}
\* no socket, one that is connecting, one whose hello is not answered, usable
Connection == {"none", "half", "hello", "up"}

QueueState ==
  [alive : SUBSET Client,       \* CClientList::list
   waiting : SUBSET Client,     \* waitinglist
   uploading : SUBSET Client,   \* uploadinglist
   state : [Client -> UploadState],      \* m_eUploadState
   conn : [Client -> Connection],        \* CUpDownClient::socket
   sock : [Client -> 1..MaxSock],        \* which one it is
   connecting : SUBSET Client,  \* m_eConnectingState # CCS_NONE
   addNext : SUBSET Client,     \* m_bAddNextConnect
   coll : SUBSET Client,        \* m_bCollectionUploadSlot
   std : SUBSET (1..MaxSock)]   \* m_StandardOrder_list

Maybe(e) == IF May(e) THEN BOOLEAN ELSE {FALSE}

\* what the world answers about client c while a handler runs
Answers(c) ==
  [connect : (IF c \in env.low THEN {"callback"} ELSE {"half"})
             \cup (IF May("refused") THEN {"refused"} ELSE {})
             \cup (IF May("nosocket") /\ c \notin env.low THEN {"nosocket"} ELSE {}),
   kept : Maybe("kept"),  \* the download state keeps a disconnected client
   force : BOOLEAN]       \* data rates ask for another slot

(***************************************************************************)
(* A request for a file: twin is a waiting client with the same hash that  *)
(* the scan of the waiting list meets before the client itself, or         *)
(* NoClient; who of them is identified; whether a collection is asked for; *)
(* and what the counts per address and the soft queue limit say.           *)
(***************************************************************************)
Same(c, d) == May("same") /\ c # d   \* CUpDownClient::Compare
Requests(s, c) ==
  LET twins == {d \in s.waiting : Same(c, d)} IN
  {r \in [twin : twins \cup {NoClient}, twinIdent : Maybe("same"),
          ident : BOOLEAN, coll : Maybe("coll"),
          admit : {"yes", "address", "limit"}] :
     IF r.twin = NoClient THEN /\ r.ident /\ ~r.twinIdent
                               /\ c \in s.waiting \/ twins = {}
                          ELSE TRUE}

Init ==
  /\ env \in Scenarios
  /\ banned = {}
  /\ q = [alive |-> {}, waiting |-> {}, uploading |-> {},
          state |-> [c \in Client |-> "none"],
          conn |-> [c \in Client |-> "none"],
          sock |-> [c \in Client |-> 1],
          connecting |-> {}, addNext |-> {}, coll |-> {}, std |-> {}]
  /\ mpc = "idle" /\ todo = {} /\ pos = NoClient

-------------------------------------------------------------------------------
(***************************************************************************)
(* Lists and slots                                                         *)
(***************************************************************************)
HasSocket(s, c) == s.conn[c] # "none"
IsConnected(s, c) == s.conn[c] \in {"hello", "up"}

RemoveFromWaitingQueue(s, c) ==
  IF c \in s.waiting
  THEN [s EXCEPT !.waiting = @ \ {c}, !.addNext = @ \ {c},
                 !.state[c] = "none"]
  ELSE s

\* a mistake: the upload state of the client is not reset
RemoveKeepsState(s, c) ==
  IF c \in s.uploading
  THEN [s EXCEPT !.uploading = @ \ {c}, !.addNext = @ \ {c},
                 !.coll = @ \ {c},
                 !.std = IF HasSocket(s, c) THEN @ \ {s.sock[c]} ELSE @]
  ELSE s

\* RemoveFromStandardList finds the socket the client has now
RemoveFromUploadQueue(s, c) ==
  IF c \in s.uploading
  THEN [s EXCEPT !.uploading = @ \ {c}, !.addNext = @ \ {c},
                 !.coll = @ \ {c}, !.state[c] = "none",
                 !.std = IF HasSocket(s, c) THEN @ \ {s.sock[c]} ELSE @]
  ELSE s

\* AddToStandardList does nothing for a client without a socket
InsertInUploadingList(s, c) ==
  [s EXCEPT !.uploading = @ \cup {c}, !.addNext = @ \ {c},
            !.std = IF HasSocket(s, c) THEN @ \cup {s.sock[c]} ELSE @]

(***************************************************************************)
(* May a slot be opened?  The data rates answer between the bounds.        *)
(***************************************************************************)
AcceptNewClient(slots, a) ==
  slots < SureSlots \/ (slots < MaxSlots /\ a.force)

ForceNewClient(s, allowEmptyWaitingQueue, a) ==
  LET slots == Cardinality(s.uploading) IN
  /\ allowEmptyWaitingQueue \/ s.waiting # {}
  /\ slots < MinSlots \/ (a.force /\ AcceptNewClient(slots, a))

\* a mistake: a low ID client that missed its turn is always accepted
AcceptAddNextAlways(s, a) == AcceptNewClient(0, a)

\* one extra slot for a low ID client that missed its turn
AcceptAddNext(s, a) ==
  AcceptNewClient(Cardinality(s.uploading)
                    - (IF s.uploading # {} THEN 1 ELSE 0), a)

-------------------------------------------------------------------------------
(***************************************************************************)
(* Connections                                                             *)
(***************************************************************************)

\* a new socket is one that nobody has and the throttler has forgotten
FreeSockets(s) ==
  (1..MaxSock) \ (s.std \cup {s.sock[c] : c \in {d \in Client : HasSocket(s, d)}})
\* bound: a client without a socket finds a free one
Room(s, c) == HasSocket(s, c) \/ FreeSockets(s) # {}
NewSocket(s) == CHOOSE n \in FreeSockets(s) : TRUE

(***************************************************************************)
(* Disconnected: the client loses its slot, its socket and the timer of    *)
(* its connection try.  Its answer, that the object is to be deleted, is   *)
(* Unneeded; a client that we tried to connect to is a dead source.        *)
(***************************************************************************)
Unneeded(s, c, a) ==
  /\ ~May("chat")
  /\ c \in s.connecting \/ (s.state[c] # "onqueue" /\ ~a.kept)

LoseSlot(s, c) == IF s.state[c] \in {"uploading", "connecting"}
                  THEN RemoveFromUploadQueue(s, c) ELSE s

\* ~CUpDownClient takes the client out of every list (RemoveClient)
DeleteClient(s, c) ==
  LET r == RemoveFromWaitingQueue(RemoveFromUploadQueue(s, c), c) IN
  [r EXCEPT !.alive = @ \ {c}, !.connecting = @ \ {c}, !.coll = @ \ {c},
            !.addNext = @ \ {c}, !.state[c] = "none", !.conn[c] = "none"]

Disconnect(s, c, a) ==
  LET r == LoseSlot(s, c) IN
  IF Unneeded(r, c, a)
  THEN DeleteClient([r EXCEPT !.conn[c] = "none"], c)
  ELSE [r EXCEPT !.conn[c] = "none", !.connecting = @ \ {c}]

\* a client that waits for its slot to be announced gets it now
ConnectionEstablished(s, c) ==
  [s EXCEPT !.connecting = @ \ {c},
            !.state[c] = IF @ = "connecting" /\ c \in s.uploading
                         THEN "uploading" ELSE @]

(***************************************************************************)
(* TryToConnect; its result, that the client still exists, is c \in alive. *)
(* A socket that is there but not connected is given up.                   *)
(***************************************************************************)
TryToConnect(s, c, a) ==
  IF c \in s.connecting \/ s.conn[c] = "hello" THEN s
  ELSE IF s.conn[c] = "up" THEN ConnectionEstablished(s, c)
  ELSE LET r == [s EXCEPT !.conn[c] = "none", !.connecting = @ \cup {c}] IN
       CASE a.connect = "refused" \/ c \in banned -> Disconnect(r, c, a)
         [] a.connect = "half" /\ c \notin banned ->
              [r EXCEPT !.conn[c] = "half", !.sock[c] = NewSocket(r)]
         [] OTHER -> r

\* a mistake: the slot is inserted before the connection is tried
InsertThenConnect(s, c, a) ==
  LET r == RemoveFromWaitingQueue(s, c) IN
  IF c \in r.uploading THEN r
  ELSE IF r.conn[c] = "up"
  THEN InsertInUploadingList([r EXCEPT !.state[c] = "uploading"], c)
  ELSE TryToConnect(
         InsertInUploadingList([r EXCEPT !.state[c] = "connecting"], c), c, a)

(***************************************************************************)
(* AddUpNextClient for a client that was chosen.                           *)
(***************************************************************************)
AddUpNextClient(s, c, a) ==
  LET r == RemoveFromWaitingQueue(s, c) IN
  IF c \in r.uploading THEN r
  ELSE IF r.conn[c] = "up"
  THEN InsertInUploadingList([r EXCEPT !.state[c] = "uploading"], c)
  ELSE LET t == TryToConnect([r EXCEPT !.state[c] = "connecting"], c, a) IN
       IF c \in t.alive THEN InsertInUploadingList(t, c) ELSE t

-------------------------------------------------------------------------------
(***************************************************************************)
(* AddClientToQueue                                                        *)
(***************************************************************************)

\* cur, which waits, gives way to a client with its hash
GiveWay(s, cur, a) ==
  LET r == RemoveFromWaitingQueue(s, cur) IN
  IF HasSocket(r, cur) THEN r ELSE Disconnect(r, cur, a)

\* the client waits already: a low ID client that missed its turn is served
AskAgain(s, c, a) ==
  IF c \in s.addNext /\ AcceptAddNext(s, a) THEN AddUpNextClient(s, c, a)
  ELSE s

\* the client passes every check: it is told, served at once, or it waits
Enqueue(s, c, a, r) ==
  IF r.coll /\ s.state[c] # "uploading" /\ IsConnected(s, c)
  THEN AddUpNextClient([s EXCEPT !.coll = @ \cup {c}], c, a)
  ELSE LET t == [s EXCEPT !.coll = @ \ {c}] IN
       IF Cardinality(t.waiting) >= QueueLimit \/ r.admit = "limit" THEN t
       ELSE IF t.state[c] = "uploading" THEN t
       ELSE IF t.waiting = {} /\ ForceNewClient(t, TRUE, a)
       THEN AddUpNextClient(t, c, a)
       ELSE [t EXCEPT !.waiting = @ \cup {c}, !.state[c] = "onqueue"]

\* a request r of client c; the waiting list is scanned for its twin first
AddClientToQueue(s, c, a, r) ==
  LET t == IF r.twin = NoClient THEN s ELSE GiveWay(s, r.twin, a) IN
  IF c \in banned \/ r.twinIdent THEN s
  ELSE IF ~r.ident THEN t
  ELSE IF c \in t.waiting THEN AskAgain(t, c, a)
  ELSE IF r.admit = "address" THEN t
  ELSE Enqueue(t, c, a, r)

-------------------------------------------------------------------------------
(***************************************************************************)
(* Events of the message loop                                              *)
(***************************************************************************)
Idle == mpc = "idle" /\ UNCHANGED <<env, mpc, todo, pos>>

(***************************************************************************)
(* OP_HELLO on a connection a client has made.  AttachToAlreadyKnown gives *)
(* a known client the new socket; one it has already is given up.          *)
(***************************************************************************)
ClientConnects(c) ==
  /\ Idle /\ c \in env.who \ banned /\ UNCHANGED banned
  /\ HasSocket(q, c) => May("swap")
  /\ FreeSockets(q) # {}
  /\ q' = ConnectionEstablished([q EXCEPT !.alive = @ \cup {c},
                                          !.conn[c] = "up",
                                          !.sock[c] = NewSocket(q)], c)

\* our own connection is made, and the hello on it is answered
OnConnect(c) ==
  /\ Idle /\ q.conn[c] = "half" /\ UNCHANGED banned
  /\ q' = [q EXCEPT !.conn[c] = "hello"]
HelloAnswer(c) ==
  /\ Idle /\ q.conn[c] = "hello" /\ UNCHANGED banned
  /\ q' = ConnectionEstablished([q EXCEPT !.conn[c] = "up"], c)

(***************************************************************************)
(* CClientReqSocket::Disconnect, after the socket timed out or, and then   *)
(* it has left the throttler's lists, after it was closed.                 *)
(***************************************************************************)
SocketCloses(c) ==
  /\ Idle /\ HasSocket(q, c) /\ UNCHANGED banned
  /\ \E a \in Answers(c), closed \in BOOLEAN :
       q' = Disconnect([q EXCEPT !.std = IF closed THEN @ \ {q.sock[c]}
                                         ELSE @], c, a)

\* a socket that was given up is deleted, ten seconds later
DeleteSocket(n) ==
  /\ Idle /\ n \in q.std /\ UNCHANGED banned
  /\ \A c \in Client : HasSocket(q, c) => q.sock[c] # n
  /\ q' = [q EXCEPT !.std = @ \ {n}]

\* ProcessConnectingClientsList: a connection try is 45 seconds old
ConnectTimeout(c) ==
  /\ Idle /\ c \in q.connecting /\ UNCHANGED banned
  /\ \E a \in Answers(c) : q' = Disconnect(q, c, a)

\* AskForDownload
AskForDownload(c) ==
  /\ Idle /\ May("ask") /\ c \in q.alive /\ UNCHANGED banned
  /\ Room(q, c)
  /\ \E a \in Answers(c) : q' = TryToConnect(q, c, a)

\* OP_STARTUPLOADREQ
StartUploadReq(c) ==
  /\ Idle /\ q.conn[c] = "up" /\ UNCHANGED banned
  /\ q.state[c] = "uploading" => May("again")
  /\ \E a \in Answers(c), r \in Requests(q, c) :
       q' = AddClientToQueue(q, c, a, r)

\* OP_CANCELTRANSFER, OP_END_OF_DOWNLOAD
CancelTransfer(c) ==
  /\ Idle /\ IsConnected(q, c) /\ c \notin banned /\ UNCHANGED banned
  /\ q' = RemoveFromUploadQueue(q, c)

\* Ban, for floods of requests or corrupt data; UnBan, by the user
Ban(c) ==
  /\ Idle /\ May("ban") /\ c \in q.alive
  /\ banned' = banned \cup {c}
  /\ q' = [q EXCEPT !.state[c] = "banned"]
UnBan(c) ==
  /\ Idle /\ May("unban") /\ c \in q.alive \cap banned
  /\ banned' = banned \ {c}
  /\ q' = [q EXCEPT !.state[c] = "none"]

-------------------------------------------------------------------------------
(***************************************************************************)
(* Process, every 100 ms                                                   *)
(***************************************************************************)

\* FindBestClientInQueue: whom it may choose, by score
Ready(s) == {c \in s.waiting : c \notin banned /\ (c \in env.low => IsConnected(s, c))}
Missing(s) == {c \in s.waiting : /\ c \notin banned \cup s.addNext
                                 /\ c \in env.low /\ ~IsConnected(s, c)}

(***************************************************************************)
(* ... it drops the clients in gone, who have not asked for an hour, and   *)
(* marks late, a low ID client with a higher score that is not connected.  *)
(***************************************************************************)
Purge(s, gone) ==
  [s EXCEPT !.waiting = @ \ gone, !.addNext = @ \ gone,
            !.state = [c \in Client |-> IF c \in gone THEN "none" ELSE @[c]]]

FindBest(s) ==
  {p \in (Ready(s) \cup {NoClient}) \X (Missing(s) \cup {NoClient}) :
     /\ p[1] = NoClient => Ready(s) = {}
     /\ p[2] = NoClient => Missing(s) = {} \/ p[1] # NoClient}

OpenSlot(s, a, best, late) ==
  LET r == [s EXCEPT !.addNext = @ \cup ({late} \ {NoClient})] IN
  IF best = NoClient THEN r ELSE AddUpNextClient(r, best, a)

(***************************************************************************)
(* The loop goes on to a client that is left.  One that it inserts itself  *)
(* is left to the next round: its session has just begun.                  *)
(***************************************************************************)
Visit(left) ==
  /\ todo' = left
  /\ pos' \in IF left = {} THEN {NoClient} ELSE left

Process ==
  /\ mpc = "idle" /\ mpc' = "slots"
  /\ UNCHANGED <<env, banned>>
  /\ \E b \in {NoClient} \cup q.waiting : \E a \in Answers(b) :
       IF ForceNewClient(q, FALSE, a)
       THEN \E gone \in SUBSET q.waiting :
              /\ gone # {} => May("purge")
              /\ b # NoClient => Room(q, b)
              /\ \E late \in {NoClient} \cup q.waiting :
                   LET r == Purge(q, gone) IN
                   /\ <<b, late>> \in FindBest(r)
                   /\ q' = OpenSlot(r, a, b, late)
       ELSE b = NoClient /\ q' = q
  /\ Visit(q'.uploading)

\* a mistake: clients without a socket are left alone
ServeIfConnected(s, c, a, event) ==
  IF HasSocket(s, c) /\ event = "error" THEN RemoveFromUploadQueue(s, c) ELSE s

(***************************************************************************)
(* One turn of the loop, for the client at pos.  The position that follows *)
(* is read before the client is handled.                                   *)
(***************************************************************************)
ServeSlot(s, c, a, event) ==
  CASE ~HasSocket(s, c) -> Disconnect(RemoveFromUploadQueue(s, c), c, a)
    [] HasSocket(s, c) /\ event = "error" -> RemoveFromUploadQueue(s, c)
    [] OTHER -> s

\* a session is over: the client is sent back to the waiting list
EndSession(s, c, a, r) ==
  AddClientToQueue(RemoveFromUploadQueue(s, c), c, a, r)

ProcessSlot ==
  /\ mpc = "slots" /\ pos # NoClient
  /\ UNCHANGED <<env, banned, mpc>>
  /\ LET left == (todo \ {pos}) \cap q.uploading IN
     \E a \in Answers(pos) :
       \/ \E event \in {"none", "error"} :
            /\ event = "error" => May("error")
            /\ q' = ServeSlot(q, pos, a, event)
            /\ Visit(left)
       \/ /\ May("over") /\ q.waiting # {} /\ HasSocket(q, pos)
          /\ \E r \in Requests(q, pos) : q' = EndSession(q, pos, a, r)
          /\ Visit(left)

ProcessEnd ==
  /\ mpc = "slots" /\ pos = NoClient /\ mpc' = "idle"
  /\ UNCHANGED <<env, banned, q, todo, pos>>

Next ==
  \/ \E c \in Client :
       \/ ClientConnects(c) \/ OnConnect(c) \/ HelloAnswer(c)
       \/ SocketCloses(c) \/ ConnectTimeout(c) \/ AskForDownload(c)
       \/ StartUploadReq(c) \/ CancelTransfer(c) \/ Ban(c) \/ UnBan(c)
  \/ \E n \in 1..MaxSock : DeleteSocket(n)
  \/ Process \/ ProcessSlot \/ ProcessEnd

Spec == Init /\ [][Next]_vars

\* the upload timer drives both Process and the client list's timeouts
FairSpec == /\ Spec
            /\ WF_vars(Process) /\ WF_vars(ProcessSlot) /\ WF_vars(ProcessEnd)
            /\ \A c \in Client : SF_vars(ConnectTimeout(c))

-------------------------------------------------------------------------------
TypeOK ==
  /\ env \in Scenarios /\ banned \subseteq Client
  /\ q \in QueueState
  /\ mpc \in {"idle", "slots"}
  /\ todo \subseteq Client /\ pos \in Client \cup {NoClient}

ListsAreDisjoint == q.waiting \cap q.uploading = {}
ListsAreAlive == q.waiting \cup q.uploading \cup q.connecting \subseteq q.alive
StatesAgree ==
  \A c \in Client :
    /\ q.state[c] = "onqueue" => c \in q.waiting
    /\ q.state[c] \in {"uploading", "connecting"} => c \in q.uploading
PositionIsListed == pos # NoClient => pos \in q.uploading

(***************************************************************************)
(* No client is in both lists, no list holds a deleted client, the state   *)
(* of a client, by which AddClientToQueue and Disconnected decide, agrees  *)
(* with the list it is in, and the position Process has saved is in the    *)
(* list.  UnBan, which sets the state of a client that may have a slot,    *)
(* breaks it.                                                              *)
(***************************************************************************)
ListsMatchStates ==
  May("unban") \/ (ListsAreDisjoint /\ ListsAreAlive /\ StatesAgree /\ PositionIsListed)

(***************************************************************************)
(* The throttler serves the socket of every client in the upload list that *)
(* has one (UploadBandwidthThrottler.cpp:85: "The main thread will         *)
(* continuously call send on these sockets").                              *)
(***************************************************************************)
SlotsAreServed ==
  \A c \in q.uploading : HasSocket(q, c) => q.sock[c] \in q.std

\* ... as long as a client in the list is never given another socket
ServedUnlessReplaced ==
  env.may \cap {"swap", "nosocket", "chat", "ban"} = {} => SlotsAreServed

(***************************************************************************)
(* One slot more than the data rates allow, for low ID clients that missed *)
(* their turn, and those of clients that asked for a collection.  (A       *)
(* client that asks again while it is served loses the mark.)              *)
(***************************************************************************)
SlotBound ==
  May("again") \/ Cardinality(q.uploading \ q.coll) <= MaxSlots + 1

(***************************************************************************)
(* A slot that waits for a connection to its client is given to it or      *)
(* taken back.                                                             *)
(***************************************************************************)
ConnectingEnds ==
  \A c \in Client : q.state[c] = "connecting" ~> q.state[c] # "connecting"
===============================================================================
