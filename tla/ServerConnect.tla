----------------------------- MODULE ServerConnect -----------------------------
(***************************************************************************)
(* CServerConnect and CServerSocket: the connections to ed2k servers that  *)
(* are being tried, the one that is established, and when the program      *)
(* tries again.                                                            *)
(*                                                                         *)
(* Everything runs in the main thread, in callbacks of the sockets and of  *)
(* two timers; the callbacks call each other's functions deeply, and a     *)
(* callback of a socket may run functions that destroy sockets.  As in     *)
(* UploadQueue, the members are one record, sc, and a function of the code *)
(* is an operator from a record to the set of records it may leave: the    *)
(* choice is what the server list and the network answer meanwhile.        *)
(*                                                                         *)
(* A member of Socket is an address: a CServerSocket that was deleted can  *)
(* be followed by another one at the same place.                           *)
(***************************************************************************)
EXTENDS Integers, FiniteSets

CONSTANTS Socket, NoSocket,
          Scenarios

EventKinds == {
  "fatal",   \* a connection fails with an error that is not the server's
  "refuse",  \* Connect fails at once
  "filter",  \* the address of a server is filtered once it is resolved
  "error",   \* OnError: a bad header, or an error code of the network layer
  "packet",  \* a packet of the server cannot be processed
  "batch",   \* the packet after such a one comes in the same read
  "batchLive", \* also when the connection was established
  "tick",    \* two attempts start in the same tick of the clock
  "static",  \* only static servers are used, and not all are
  "empty"}   \* no server is left in the list

ASSUME ServerAssumption ==
  /\ NoSocket \notin Socket
  /\ Scenarios \subseteq [may : SUBSET EventKinds, safe : BOOLEAN,
                          reconnect : BOOLEAN, prefer : BOOLEAN,
                          require : BOOLEAN]

VARIABLES
  env,  \* the events .may this behaviour admits, and the preferences: .safe
        \* connecting, .reconnect, obfuscation .prefer and .require (constant)
  sc,    \* CServerConnect and its sockets
  wanted \* history: the user wants a connection, to whichever server

vars == <<env, sc, wanted>>

May(e) == e \in env.may
Maybe(e) == IF May(e) THEN BOOLEAN ELSE {FALSE}

\* CS_*; "dead" stands for SERVERDEAD, SERVERFULL, ERROR and NOTCONNECTED,
\* which ConnectionFailed treats alike
States == {"connecting", "login", "connected", "dead", "fatal", "lost"}

Servers ==
  [alive : SUBSET Socket,     \* m_lstOpenSockets: not deleted
   open : SUBSET Socket,      \* callbacks can still come
   marked : SUBSET Socket,    \* m_bIsDeleting
   state : [Socket -> States],
   crypt : SUBSET Socket,     \* IsServerCryptEnabledConnection
   attempts : SUBSET Socket,  \* the values of connectionattempts
   old : SUBSET Socket,       \* those whose key is 25 seconds ago
   current : Socket \cup {NoSocket},  \* connectedsocket
   connected : BOOLEAN, connecting : BOOLEAN, single : BOOLEAN,
   timer : BOOLEAN,           \* m_idRetryTimer
   obfuscated : BOOLEAN,      \* m_bTryObfuscated
   freed : BOOLEAN]           \* memory that was freed has been used

Init ==
  /\ env \in Scenarios
  /\ sc = [alive |-> {}, open |-> {}, marked |-> {},
           state |-> [x \in Socket |-> "connecting"], crypt |-> {},
           attempts |-> {}, old |-> {}, current |-> NoSocket,
           connected |-> FALSE, connecting |-> FALSE, single |-> FALSE,
           timer |-> FALSE, obfuscated |-> FALSE, freed |-> FALSE]
  /\ wanted = FALSE

-------------------------------------------------------------------------------
\* one function of the code after the other
Then(outcomes, Op(_)) == UNION {Op(t) : t \in outcomes}

(***************************************************************************)
(* Ending connections                                                      *)
(***************************************************************************)
DestroyAll(s, X) ==
  [s EXCEPT !.alive = @ \ X, !.open = @ \ X, !.marked = @ \ X, !.crypt = @ \ X,
            !.state = [x \in Socket |-> IF x \in X THEN "connecting" ELSE @[x]],
            !.freed = @ \/ ~(X \subseteq s.alive)]

DestroySocket(s, x) == DestroyAll(s, {x})

\* a mistake: the server we are connected to is not spared
StopSparesNothing(s) ==
  DestroyAll([s EXCEPT !.attempts = {}, !.old = {}, !.connecting = FALSE,
                       !.single = FALSE, !.timer = FALSE],
             s.alive \ s.marked)

\* a mistake: the attempts are forgotten, but their sockets stay
StopForgets(s) ==
  [s EXCEPT !.attempts = {}, !.old = {}, !.connecting = FALSE,
            !.single = FALSE, !.timer = FALSE]

StopConnectionTry(s) ==
  DestroyAll([s EXCEPT !.attempts = {}, !.old = {}, !.connecting = FALSE,
                       !.single = FALSE, !.timer = FALSE],
             s.alive \ (s.marked \cup {s.current}))

Disconnect(s) ==
  IF s.connected /\ s.current # NoSocket
  THEN DestroySocket([s EXCEPT !.connected = FALSE, !.current = NoSocket],
                     s.current)
  ELSE s

(***************************************************************************)
(* Starting connections                                                    *)
(***************************************************************************)
SetTimer(s) == [s EXCEPT !.timer = TRUE]

\* a mistake: whether to try again is decided after the members are reset
FatalThenAsk(s, x) ==
  LET stopped == StopConnectionTry([s EXCEPT !.state[x] = "fatal",
                                             !.marked = @ \cup {x}])
  IN  IF env.reconnect /\ stopped.connecting THEN SetTimer(stopped) ELSE stopped

\* ConnectionFailed with CS_FATALERROR
FatalFailure(s, x) ==
  LET stopped == StopConnectionTry([s EXCEPT !.state[x] = "fatal",
                                             !.marked = @ \cup {x}])
  IN  IF env.reconnect /\ s.connecting /\ ~s.single
      THEN SetTimer(stopped) ELSE stopped

\* a new socket x, and what its Connect, which may fail at once, makes of it
Opened(s, x, multi, crypt) ==
  [s EXCEPT !.connecting = TRUE, !.single = ~multi,
            !.alive = @ \cup {x}, !.open = @ \cup {x},
            !.state[x] = "connecting",
            !.crypt = IF crypt THEN @ \cup {x} ELSE @]

Tried(s, x) ==
  {s} \cup (IF May("refuse")
            THEN {FatalFailure([s EXCEPT !.open = @ \ {x}], x)} ELSE {})

\* a mistake: the map has room for the latest attempt only
EnteredAlone(s, x) == {[s EXCEPT !.attempts = {x}]}

\* it is entered in the map, where it replaces one with the same tick as its key
Entered(s, x) ==
  {[s EXCEPT !.attempts = (IF same THEN @ \cap s.old ELSE @) \cup {x}] :
     same \in Maybe("tick")}

Attempt(s, x, multi, crypt) ==
  Then(Tried(Opened(s, x, multi, crypt), x), LAMBDA u : Entered(u, x))

Crypts(noCrypt) == IF env.prefer /\ ~noCrypt THEN BOOLEAN ELSE {FALSE}

ConnectToServer(s, multi, noCrypt) ==
  LET t == IF multi THEN s ELSE Disconnect(StopConnectionTry(s))
  IN  Then(Socket \ t.alive, LAMBDA x :
             Then(Crypts(noCrypt), LAMBDA e : Attempt(t, x, multi, e)))

StartOver(s, obfuscated) ==
  [Disconnect(StopConnectionTry(s)) EXCEPT
     !.connecting = TRUE, !.single = FALSE, !.obfuscated = obfuscated]

NoServers(s) ==
  IF May("empty") THEN {[s EXCEPT !.connecting = FALSE]} ELSE {}

\* GetNextServer has found a server
UseServer(s) ==
  ConnectToServer(s, TRUE, ~s.obfuscated)
    \cup (IF May("static") THEN {s} ELSE {})

\* ConnectToAnyServer(0, true, true, true)
ConnectWithoutCrypt(s) ==
  Then({StartOver(s, FALSE)}, LAMBDA t : NoServers(t) \cup UseServer(t))

\* GetNextServer has come to the end of the list
OutOfServers(s) ==
  IF s.attempts # {} THEN {s}
  ELSE IF s.obfuscated /\ ~env.require THEN ConnectWithoutCrypt(s)
  ELSE {SetTimer(s)}

Limit == IF env.safe THEN 1 ELSE 2

\* a mistake: one attempt more than the preferences allow
TryOneMore(s) ==
  IF Cardinality(s.attempts) <= Limit
  THEN UseServer(s) \cup OutOfServers(s)
  ELSE {s}

TryAnotherConnectionRequest(s) ==
  IF Cardinality(s.attempts) < Limit
  THEN UseServer(s) \cup OutOfServers(s)
  ELSE {s}

ConnectToAnyServer(s) ==
  Then({StartOver(s, env.prefer)},
       LAMBDA t : NoServers(t) \cup TryAnotherConnectionRequest(t))

-------------------------------------------------------------------------------
(***************************************************************************)
(* What becomes of a connection                                            *)
(***************************************************************************)
\* CS_DISCONNECTED, whichever socket it is: the connection we have is closed
Lost(s) ==
  Then({[s EXCEPT !.connected = FALSE, !.current = NoSocket,
                  !.open = @ \ {s.current}]}, LAMBDA t :
    IF env.reconnect /\ ~t.connecting THEN ConnectToAnyServer(t) ELSE {t})

\* CS_SERVERDEAD, CS_SERVERFULL, CS_ERROR and CS_NOTCONNECTED
TryNext(s, x) ==
  IF ~s.connecting THEN {s}
  ELSE IF s.single
  THEN {StopConnectionTry(s)}
       \cup (IF x \in s.crypt /\ ~env.require
             THEN ConnectToServer(s, FALSE, TRUE) ELSE {})
  ELSE TryAnotherConnectionRequest([s EXCEPT !.attempts = @ \ {x},
                                             !.old = @ \ {x}])

\* a mistake: the socket is not marked before others are destroyed
FailUnmarked(s, x, state) ==
  LET t == [s EXCEPT !.state[x] = state]
  IN  IF ~s.connecting /\ x # s.current THEN {t}
      ELSE CASE state = "fatal" -> {FatalFailure(t, x)}
             [] state = "lost" -> Lost(t)
             [] OTHER -> TryNext(t, x)

\* SetConnectionState with a state below CS_CONNECTING
ConnectionFailed(s, x, state) ==
  LET t == [s EXCEPT !.state[x] = state]
      m == [t EXCEPT !.marked = @ \cup {x}]
  IN  IF ~s.connecting /\ x # s.current THEN {t}
      ELSE CASE state = "fatal" -> {FatalFailure(t, x)}
             [] state = "lost" -> Lost(m)
             [] OTHER -> TryNext(m, x)

\* SetConnectionState with CS_WAITFORLOGIN or CS_CONNECTED
ConnectionEstablished(s, x, state) ==
  LET t == [s EXCEPT !.state[x] = state]
  IN  IF ~s.connecting THEN DestroySocket(t, x)
      ELSE IF state = "connected"
      THEN StopConnectionTry([t EXCEPT !.connected = TRUE, !.current = x])
      ELSE t

\* a callback that ends with DestroySocket(this)
FailAndDestroy(s, x, state) ==
  Then(ConnectionFailed(s, x, state), LAMBDA t : {DestroySocket(t, x)})

-------------------------------------------------------------------------------
(***************************************************************************)
(* The message loop: users, callbacks of the sockets, timers               *)
(***************************************************************************)
\* what happens after freed memory was used is not modelled
Becomes(outcomes) ==
  /\ ~sc.freed
  /\ sc' \in outcomes /\ UNCHANGED env

\* once connected, the program is to stay so, though it was to try one server only
Leaves(outcomes) == Becomes(outcomes) /\ wanted' = (wanted \/ sc'.connected)

UserConnects == Becomes(ConnectToAnyServer(sc)) /\ wanted' = TRUE
UserConnectsTo == Becomes(ConnectToServer(sc, FALSE, FALSE)) /\ wanted' = FALSE
UserStops == Becomes({StopConnectionTry(sc)}) /\ wanted' = sc.connected
UserDisconnects ==
  Becomes({Disconnect(sc)}) /\ wanted' = (wanted /\ ~sc.connected)

Filtered(x) ==  \* OnHostNameResolved
  /\ May("filter") /\ x \in sc.open /\ sc.state[x] = "connecting"
  /\ Leaves(FailAndDestroy([sc EXCEPT !.marked = @ \cup {x}], x, "dead"))

OnConnect(x) ==
  /\ x \in sc.open /\ sc.state[x] = "connecting"
  /\ \/ Leaves({ConnectionEstablished(sc, x, "login")})
     \/ \E state \in {"dead"} \cup (IF May("fatal") THEN {"fatal"} ELSE {}) :
          Leaves(FailAndDestroy([sc EXCEPT !.marked = @ \cup {x}], x, state))

\* the connection has been made: data can come
Talks(x) == x \in sc.open /\ sc.state[x] # "connecting"

\* OnReceive destroys a socket nobody waits for
LateData(x) ==
  /\ Talks(x) /\ sc.state[x] # "connected" /\ ~sc.connecting
  /\ Leaves({DestroySocket(sc, x)})

Receives(x) == Talks(x) /\ (sc.state[x] = "connected" \/ sc.connecting)

\* OP_IDCHANGE; ProcessPacket uses the socket after SetConnectionState
Login(s, x) ==
  IF s.state[x] = "connected" THEN s
  ELSE [ConnectionEstablished(s, x, "connected") EXCEPT
          !.freed = @ \/ ~s.connecting]

LoggedIn(x) == Receives(x) /\ Leaves({Login(sc, x)})

PacketFails(x) ==
  /\ May("packet") /\ Receives(x)
  /\ Leaves(ConnectionFailed(sc, x, "lost"))

\* PacketReceived returns TRUE whatever ProcessPacket does, and OnReceive goes
\* on with what it has read
PacketFailsThenLogin(x) ==
  /\ May("batch") /\ Receives(x)
  /\ sc.state[x] = "connected" => May("batchLive")
  /\ Leaves(Then(ConnectionFailed(sc, x, "lost"), LAMBDA t : {Login(t, x)}))

OnError(x) ==
  /\ May("error") /\ Talks(x)
  /\ Leaves(ConnectionFailed(sc, x, "lost"))

OnClose(x) ==
  /\ Talks(x)
  /\ Leaves(FailAndDestroy(sc, x, IF sc.state[x] = "connected" THEN "lost"
                                  ELSE "dead"))

RetryConnectTimer ==
  /\ sc.timer
  /\ Leaves(Then({StopConnectionTry(sc)}, LAMBDA t :
                 IF t.connected THEN {t} ELSE ConnectToAnyServer(t)))

(***************************************************************************)
(* The timer of the upload queue looks at the attempts every second.  The  *)
(* loop over the map reads the position of the next entry before it deals  *)
(* with one; when it is told to stop meanwhile, the entries are freed.     *)
(***************************************************************************)
Visit(s, x) ==
  IF x \notin s.old THEN {s}
  ELSE Then({DestroySocket([s EXCEPT !.attempts = @ \ {x}, !.old = @ \ {x}], x)},
            LAMBDA t : IF t.single THEN {StopConnectionTry(t)}
                       ELSE TryAnotherConnectionRequest(t))

VisitNext(s, rest) ==
  IF rest = {} THEN {s}
  ELSE IF ~s.connecting THEN {[s EXCEPT !.freed = TRUE]}
  ELSE UNION {Visit(s, y) : y \in rest}

CheckForTimeout(s) ==
  IF s.attempts = {} THEN {s}
  ELSE UNION {Then(Visit(s, x), LAMBDA t : VisitNext(t, s.attempts \ {x})) :
                x \in s.attempts}

\* a mistake: only a single connection is watched
OneSecondSingle ==
  /\ sc.connecting
  /\ Leaves(Then(IF sc.single THEN {sc} ELSE TryAnotherConnectionRequest(sc),
                 LAMBDA t : IF t.single THEN CheckForTimeout(t) ELSE {t}))

OneSecond ==
  /\ sc.connecting
  /\ Leaves(Then(IF sc.single THEN {sc} ELSE TryAnotherConnectionRequest(sc),
                 LAMBDA t : IF t.connecting THEN CheckForTimeout(t) ELSE {t}))

TimePasses(x) ==
  /\ x \in sc.attempts \ sc.old
  /\ Leaves({[sc EXCEPT !.old = @ \cup {x}]})

Next ==
  \/ UserConnects \/ UserConnectsTo \/ UserStops \/ UserDisconnects
  \/ RetryConnectTimer \/ OneSecond
  \/ \E x \in Socket :
       \/ Filtered(x) \/ OnConnect(x) \/ LateData(x) \/ LoggedIn(x)
       \/ PacketFails(x) \/ PacketFailsThenLogin(x) \/ OnError(x)
       \/ OnClose(x) \/ TimePasses(x)

Spec == Init /\ [][Next]_vars

\* time passes, and timers are served
FairSpec ==
  /\ Spec
  /\ WF_vars(OneSecond) /\ WF_vars(RetryConnectTimer)
  /\ \A x \in Socket : WF_vars(TimePasses(x))

-------------------------------------------------------------------------------
(***************************************************************************)
(* Properties                                                              *)
(***************************************************************************)
\* The members stay in their types; no more attempts are entered than the
\* preferences allow, but for what is counted while a handler runs.
TypeOK ==
  /\ env \in Scenarios
  /\ sc \in Servers /\ wanted \in BOOLEAN
  /\ Cardinality(sc.attempts) <= Limit

\* IsConnected() is true exactly while there is a socket SendPacket can use: one
\* that is logged in and whose end the program would hear of; and then nothing
\* else is being tried.
ConnectedIsOpen ==
  /\ sc.connected <=> sc.current # NoSocket
  /\ sc.connected =>
       /\ sc.current \in sc.alive \cap sc.open
       /\ sc.state[sc.current] = "connected"
       /\ ~sc.connecting /\ sc.attempts = {} /\ ~sc.timer

\* No callback or timer touches a socket, or an entry of the map of attempts,
\* that a function it called has freed: no socket is destroyed twice, and
\* CheckForTimeout does not go on in a map that was emptied.
NoUseAfterFree == ~sc.freed

\* Each socket that will not delete itself is the one we are connected to, or
\* servers are still tried: none is left behind when another one wins, when an
\* attempt is given up or when the user stops.
NoneLeftBehind ==
  \A x \in sc.alive \ sc.marked : x = sc.current \/ sc.connecting

\* And while servers are tried, each such socket is an attempt that CheckForTimeout
\* looks at.  Not so with two attempts in one tick of the clock: their entries in
\* connectionattempts have one key, and the first has no time-out.
SocketsAreWatched ==
  ~May("tick") =>
    \A x \in sc.alive \ sc.marked : x = sc.current \/ x \in sc.attempts

\* "it will delete itself after this function": a socket that was marked so is
\* gone when the callback returns.
MarkedIsDeleted == sc.marked = {}

\* Unless the user has asked for something else, a program that is to reconnect is
\* connected, tries servers or waits for its next round: a failure of whatever kind,
\* wherever it happens, leads to another attempt, now or when the timer fires.
KeepsTrying ==
  wanted /\ env.reconnect /\ ~May("empty") =>
    sc.connected \/ (sc.connecting /\ ~sc.single) \/ sc.timer

\* While servers are tried, an attempt whose time is over does not stay for ever: it
\* ends by a callback or by CheckForTimeout, also when others are started and fail in between.
AttemptEnds ==
  \A x \in Socket : (sc.connecting /\ x \in sc.old) ~> x \notin sc.old
===============================================================================
