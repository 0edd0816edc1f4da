-------------------------- MODULE ServerConnectProofs --------------------------
(***************************************************************************)
(* The connection to a server, for any number of sockets, any preferences  *)
(* and any mix of failures.                                                *)
(*                                                                         *)
(* The argument: the callbacks call each other's functions, so that what a *)
(* function needs and leaves is stated of the record between two calls,    *)
(* not of the state between two steps.  Sound holds between any two        *)
(* functions, in every scenario; Steady as well, unless packets are        *)
(* handled after the one that cost the connection.  A function that is     *)
(* called by a callback of a socket may destroy other sockets: Follows     *)
(* says that it spares those which a function still under way is about     *)
(* to destroy itself, so that none is destroyed twice.                     *)
(***************************************************************************)
EXTENDS ServerConnect, FiniteSetTheorems, TLAPS

\* what holds between any two functions of the code, in every scenario
Sound(s) ==
  /\ s \in Servers
  /\ s.connected <=> s.current # NoSocket
  /\ s.connecting => ~s.connected
  /\ s.old \subseteq s.attempts
  /\ s.single => \A x, y \in s.attempts : x = y
  /\ IsFiniteSet(s.attempts) /\ Cardinality(s.attempts) <= Limit
  /\ \A x \in s.alive \ s.marked :
       x = s.current \/ (s.connecting /\ (x \in s.attempts \/ May("tick")))

\* ... and if no packet is handled after one that cost the connection
Steady(s) ==
  /\ s.open \subseteq s.alive /\ s.attempts \subseteq s.alive
  /\ s.connected => /\ s.current \in s.open
                    /\ s.state[s.current] = "connected"
                    /\ s.attempts = {} /\ ~s.timer
  /\ ~s.connecting => s.attempts \cap s.open = {}
  /\ \A x \in s.attempts : s.state[x] # "connected"
Sure(s) == May("batchLive") \/ Steady(s)

\* the program goes on by itself, and is not limited to one server
Pursues(s) ==
  /\ s.connected \/ s.connecting \/ s.timer
  /\ ~(s.connecting /\ s.single)
Keen == env.reconnect /\ ~May("empty")

\* TLC refutes NoUseAfterFree in the other scenarios
Calm == ~May("batchLive") /\ (May("refuse") => env.safe)

IInv ==
  /\ env \in Scenarios /\ wanted \in BOOLEAN
  /\ Sound(sc) /\ Sure(sc)
  /\ Keen /\ wanted => Pursues(sc)
  /\ Calm => ~sc.freed

\* what Stop needs: the connection there is can be kept
Kept(s) ==
  /\ s \in Servers /\ (s.connected <=> s.current # NoSocket)
  /\ \/ May("batchLive")
     \/ /\ s.open \subseteq s.alive
        /\ s.connected => s.current \in s.open /\ s.state[s.current] = "connected"

Good(s) == Sound(s) /\ Sure(s)

\* a socket that the function which runs is about to destroy
Spared(s, x) == x \in s.alive \cap s.marked /\ x \notin s.attempts /\ x # s.current
\* ... or by a function that gives all attempts up
Doomed(s, x) == x \in s.alive \cap s.marked /\ x # s.current
Follows(s, t) ==
  /\ \A x \in Socket : Spared(s, x) => Spared(t, x)
  /\ May("batchLive") \/ t.freed = s.freed

LEMMA FollowsTwice ==
  ASSUME NEW s, NEW r, NEW t, Follows(s, r), Follows(r, t)
  PROVE  Follows(s, t)
BY DEF Follows

LEMMA DestroyFields ==
  ASSUME NEW s \in Servers, NEW X \in SUBSET Socket, NEW t, t = DestroyAll(s, X)
  PROVE  /\ t \in Servers
         /\ t.alive = s.alive \ X /\ t.open = s.open \ X
         /\ t.marked = s.marked \ X
         /\ t.attempts = s.attempts /\ t.old = s.old
         /\ t.current = s.current /\ t.connected = s.connected
         /\ t.connecting = s.connecting /\ t.single = s.single
         /\ t.timer = s.timer /\ t.obfuscated = s.obfuscated
         /\ \A x \in Socket : t.state[x] = IF x \in X THEN "connecting" ELSE s.state[x]
         /\ X \subseteq s.alive => t.freed = s.freed
<1>1. /\ t.alive = s.alive \ X /\ t.open = s.open \ X
      /\ t.marked = s.marked \ X /\ t.crypt = s.crypt \ X
      /\ t.attempts = s.attempts /\ t.old = s.old
      /\ t.current = s.current /\ t.connected = s.connected
      /\ t.connecting = s.connecting /\ t.single = s.single
      /\ t.timer = s.timer /\ t.obfuscated = s.obfuscated
      /\ t.state = [x \in Socket |-> IF x \in X THEN "connecting" ELSE s.state[x]]
      /\ t.freed = (s.freed \/ ~(X \subseteq s.alive))
  BY DEF DestroyAll, Servers
<1>2. t.state \in [Socket -> States]
  BY <1>1 DEF Servers, States
<1>3. t \in Servers
  BY <1>2 DEF DestroyAll, Servers
<1>4. t.freed \in BOOLEAN /\ s.freed \in BOOLEAN
  BY <1>1 DEF Servers
<1> QED
  BY <1>1, <1>3, <1>4

LEMMA StopFields ==
  ASSUME NEW s \in Servers, NEW t, t = StopConnectionTry(s)
  PROVE  /\ t \in Servers
         /\ t.alive = s.alive \cap (s.marked \cup {s.current})
         /\ t.open = s.open \ (s.alive \ (s.marked \cup {s.current}))
         /\ t.marked = s.marked
         /\ t.attempts = {} /\ t.old = {}
         /\ t.current = s.current /\ t.connected = s.connected
         /\ ~t.connecting /\ ~t.single /\ ~t.timer /\ t.obfuscated = s.obfuscated
         /\ \A x \in s.marked \cup {s.current} : x \in Socket => t.state[x] = s.state[x]
         /\ t.freed = s.freed
<1> DEFINE r == [s EXCEPT !.attempts = {}, !.old = {}, !.connecting = FALSE,
                          !.single = FALSE, !.timer = FALSE]
           X == s.alive \ (s.marked \cup {s.current})
<1>1. /\ r \in Servers
      /\ r.alive = s.alive /\ r.open = s.open /\ r.marked = s.marked
      /\ r.state = s.state /\ r.current = s.current
      /\ r.connected = s.connected /\ r.freed = s.freed
      /\ r.obfuscated = s.obfuscated
      /\ r.attempts = {} /\ r.old = {}
      /\ r.connecting = FALSE /\ r.single = FALSE /\ r.timer = FALSE
  BY DEF Servers
<1>2. t = DestroyAll(r, X)
  BY DEF StopConnectionTry
<1>3. X \in SUBSET Socket /\ X \subseteq r.alive
  BY <1>1 DEF Servers
<1> HIDE DEF r
<1>4. /\ t \in Servers
      /\ t.alive = r.alive \ X /\ t.open = r.open \ X
      /\ t.marked = r.marked \ X
      /\ t.attempts = r.attempts /\ t.old = r.old
      /\ t.current = r.current /\ t.connected = r.connected
      /\ t.connecting = r.connecting /\ t.single = r.single
      /\ t.timer = r.timer /\ t.obfuscated = r.obfuscated
      /\ \A x \in Socket : t.state[x] = IF x \in X THEN "connecting" ELSE r.state[x]
      /\ t.freed = r.freed
  BY <1>1, <1>2, <1>3, DestroyFields
<1> QED
  BY <1>1, <1>4

LEMMA StopIsGood ==
  ASSUME NEW s, Kept(s), NEW t, t = StopConnectionTry(s)
  PROVE  /\ Good(t) /\ Follows(s, t)
         /\ t.attempts = {} /\ ~t.connecting /\ ~t.single /\ ~t.timer
         /\ t.connected = s.connected /\ t.current = s.current
         /\ t.marked = s.marked
         /\ \A x \in s.alive \cap s.marked : x \in t.alive
         /\ \A x \in Socket : x \in s.marked => t.state[x] = s.state[x]
         /\ t.open \subseteq s.open
         /\ t.freed = s.freed
<1>1. s \in Servers
  BY DEF Kept
<1>2. /\ t \in Servers
      /\ t.alive = s.alive \cap (s.marked \cup {s.current})
      /\ t.open = s.open \ (s.alive \ (s.marked \cup {s.current}))
      /\ t.marked = s.marked
      /\ t.attempts = {} /\ t.old = {}
      /\ t.current = s.current /\ t.connected = s.connected
      /\ ~t.connecting /\ ~t.single /\ ~t.timer
      /\ \A x \in s.marked \cup {s.current} : x \in Socket => t.state[x] = s.state[x]
      /\ t.freed = s.freed
  BY <1>1, StopFields
<1>3. IsFiniteSet(t.attempts) /\ Cardinality(t.attempts) <= Limit
  BY <1>2, FS_EmptySet DEF Limit
<1>4. Sound(t)
  BY <1>2, <1>3 DEF Sound, Kept
<1>5. Sure(t)
  <2>1. CASE ~May("batchLive")
    <3>1. t.open \subseteq t.alive
      BY <1>2, <2>1 DEF Kept
    <3>2. t.connected => s.current \in Socket /\ s.current \in t.open
      BY <1>1, <1>2, <2>1, ServerAssumption DEF Kept, Servers
    <3> QED
      BY <1>2, <2>1, <3>1, <3>2 DEF Kept, Sure, Steady
  <2> QED
    BY <2>1 DEF Sure
<1> QED
  BY <1>2, <1>4, <1>5 DEF Good, Follows, Spared

LEMMA GoodIsKept ==
  ASSUME NEW s, Good(s)
  PROVE  Kept(s)
BY DEF Good, Sound, Sure, Steady, Kept

LEMMA DisconnectIsGood ==
  ASSUME NEW s, Good(s), NEW t, t = Disconnect(s)
  PROVE  /\ Good(t) /\ Follows(s, t) /\ ~t.connected
         /\ t.attempts = s.attempts /\ t.connecting = s.connecting
         /\ t.single = s.single /\ t.timer = s.timer
         /\ ~s.connected => t = s
<1>1. CASE ~s.connected
  BY <1>1 DEF Disconnect, Follows
<1>2. CASE s.connected
  <2> DEFINE r == [s EXCEPT !.connected = FALSE, !.current = NoSocket]
             x == s.current
  <2>1. s \in Servers /\ x # NoSocket /\ ~s.connecting
    BY <1>2 DEF Good, Sound
  <2>2. x \in Socket
    BY <2>1 DEF Servers
  <2>3. /\ r \in Servers
        /\ r.alive = s.alive /\ r.open = s.open /\ r.marked = s.marked
        /\ r.state = s.state /\ r.freed = s.freed
        /\ r.attempts = s.attempts /\ r.old = s.old /\ r.timer = s.timer
        /\ r.connecting = s.connecting /\ r.single = s.single
        /\ r.connected = FALSE /\ r.current = NoSocket
    BY <2>1 DEF Servers
  <2>4. t = DestroyAll(r, {x})
    BY <1>2, <2>1 DEF Disconnect, DestroySocket
  <2> HIDE DEF r, x
  <2>5. /\ t \in Servers
        /\ t.alive = r.alive \ {x} /\ t.open = r.open \ {x}
        /\ t.marked = r.marked \ {x}
        /\ t.attempts = r.attempts /\ t.old = r.old
        /\ t.current = r.current /\ t.connected = r.connected
        /\ t.connecting = r.connecting /\ t.single = r.single
        /\ t.timer = r.timer
        /\ {x} \subseteq r.alive => t.freed = r.freed
    BY <2>2, <2>3, <2>4, DestroyFields
  <2>6. Sound(t)
    BY <2>1, <2>3, <2>5 DEF Good, Sound, x
  <2>7. May("batchLive") \/ (Steady(t) /\ t.freed = s.freed)
    BY <1>2, <2>1, <2>3, <2>5 DEF Good, Sure, Steady, x
  <2>8. \A y \in Socket : Spared(s, y) => Spared(t, y)
    BY <2>3, <2>5, ServerAssumption DEF Spared, x
  <2> QED
    BY <1>2, <2>3, <2>5, <2>6, <2>7, <2>8 DEF Good, Sure, Follows
<1> QED
  BY <1>1, <1>2

LEMMA TimerFields ==
  ASSUME NEW s, Good(s), ~s.connected, NEW t, t = SetTimer(s)
  PROVE  /\ Good(t) /\ Follows(s, t) /\ t.timer
         /\ t.alive = s.alive /\ t.marked = s.marked /\ t.attempts = s.attempts
         /\ t.connecting = s.connecting /\ t.single = s.single
         /\ t.connected = s.connected /\ t.current = s.current
         /\ t.open = s.open /\ t.state = s.state /\ t.freed = s.freed
<1>1. /\ t.alive = s.alive /\ t.open = s.open /\ t.marked = s.marked
      /\ t.state = s.state /\ t.attempts = s.attempts /\ t.old = s.old
      /\ t.current = s.current /\ t.connected = s.connected
      /\ t.connecting = s.connecting /\ t.single = s.single
      /\ t.timer = TRUE /\ t.freed = s.freed /\ t \in Servers
  BY DEF SetTimer, Good, Sound, Servers
<1>2. Sound(t)
  BY <1>1 DEF Good, Sound
<1>3. Sure(t)
  BY <1>1 DEF Good, Sure, Steady
<1> QED
  BY <1>1, <1>2, <1>3 DEF Good, Follows, Spared

LEMMA FatalIsGood ==
  ASSUME NEW s, Kept(s), s.connecting => ~s.connected, NEW x \in Socket,
         May("batchLive") \/ x # s.current, NEW t, t = FatalFailure(s, x)
  PROVE  /\ Good(t) /\ Follows(s, t)
         /\ t.attempts = {} /\ ~t.connecting /\ ~t.single
         /\ t.connected = s.connected /\ t.current = s.current
         /\ x \in t.marked /\ (x \in s.alive => x \in t.alive)
         /\ t.open \subseteq s.open /\ t.state[x] = "fatal"
         /\ env.reconnect /\ s.connecting /\ ~s.single => t.timer
         /\ t.freed = s.freed
<1> DEFINE r == [s EXCEPT !.state[x] = "fatal", !.marked = @ \cup {x}]
           u == StopConnectionTry(r)
<1>1. s \in Servers /\ "fatal" \in States
  BY DEF Kept, States
<1>2. /\ r \in Servers
      /\ r.alive = s.alive /\ r.open = s.open /\ r.marked = s.marked \cup {x}
      /\ r.state = [s.state EXCEPT ![x] = "fatal"]
      /\ r.attempts = s.attempts /\ r.current = s.current
      /\ r.connected = s.connected /\ r.freed = s.freed
  BY <1>1 DEF Servers
<1>3. t = IF env.reconnect /\ s.connecting /\ ~s.single THEN SetTimer(u) ELSE u
  BY DEF FatalFailure
<1> HIDE DEF r
<1> x \in r.marked /\ r.state[x] = "fatal"
  BY <1>1, <1>2 DEF Servers
<1>4. Kept(r)
  BY <1>1, <1>2, ServerAssumption DEF Kept, Servers
<1>5. Follows(s, r)
  BY <1>2 DEF Follows, Spared
<1>6. /\ Good(u) /\ Follows(r, u)
      /\ u.attempts = {} /\ ~u.connecting /\ ~u.single /\ ~u.timer
      /\ u.connected = r.connected /\ u.current = r.current
      /\ u.marked = r.marked
      /\ \A y \in r.alive \cap r.marked : y \in u.alive
      /\ \A y \in Socket : y \in r.marked => u.state[y] = r.state[y]
      /\ u.open \subseteq r.open
      /\ u.freed = r.freed
  BY <1>4, StopIsGood
<1> HIDE DEF u
<1>7. Follows(s, u)
  BY <1>5, <1>6, FollowsTwice
<1>8. CASE t = SetTimer(u) /\ s.connecting
  <2>1. ~u.connected
    BY <1>2, <1>6, <1>8
  <2>2. /\ Good(t) /\ Follows(u, t) /\ t.timer
        /\ t.alive = u.alive /\ t.marked = u.marked /\ t.attempts = u.attempts
        /\ t.connecting = u.connecting /\ t.single = u.single
        /\ t.connected = u.connected /\ t.current = u.current
        /\ t.open = u.open /\ t.state = u.state /\ t.freed = u.freed
    BY <1>6, <1>8, <2>1, TimerFields
  <2>3. Follows(s, t)
    BY <1>7, <2>2, FollowsTwice
  <2> QED
    BY <1>2, <1>6, <2>2, <2>3
<1>9. CASE t = u /\ ~(env.reconnect /\ s.connecting /\ ~s.single)
  BY <1>2, <1>6, <1>7, <1>9
<1>10. (t = SetTimer(u) /\ s.connecting) \/ (t = u /\ ~(env.reconnect /\ s.connecting /\ ~s.single))
  BY <1>3, Zenon
<1> QED
  BY <1>8, <1>9, <1>10

\* the sets of sockets and the two values that a handler assigns
LEMMA AssignedIsRecord ==
  ASSUME NEW s \in Servers, NEW X \in SUBSET Socket, NEW b \in BOOLEAN
  PROVE  /\ [s EXCEPT !.alive = X] \in Servers
         /\ [s EXCEPT !.open = X] \in Servers
         /\ [s EXCEPT !.crypt = X] \in Servers
         /\ [s EXCEPT !.connected = b, !.current = NoSocket] \in Servers
         /\ [s EXCEPT !.connecting = TRUE, !.single = b] \in Servers
<1>1. [s EXCEPT !.alive = X] \in Servers
  BY DEF Servers
<1>2. [s EXCEPT !.open = X] \in Servers
  BY DEF Servers
<1>3. [s EXCEPT !.crypt = X] \in Servers
  BY DEF Servers
<1>4. [s EXCEPT !.connected = b, !.current = NoSocket] \in Servers
  BY DEF Servers
<1>5. [s EXCEPT !.connecting = TRUE, !.single = b] \in Servers
  BY DEF Servers
<1> QED
  BY <1>1, <1>2, <1>3, <1>4, <1>5

LEMMA OpenedIsKept ==
  ASSUME NEW s, Good(s), ~s.connected, NEW x \in Socket \ s.alive,
         NEW multi \in BOOLEAN, NEW crypt, NEW t, t = Opened(s, x, multi, crypt)
  PROVE  /\ Kept(t) /\ Follows(s, t) /\ t \in Servers
         /\ t.alive = s.alive \cup {x} /\ t.open = s.open \cup {x}
         /\ t.marked = s.marked
         /\ t.state = [s.state EXCEPT ![x] = "connecting"]
         /\ t.attempts = s.attempts /\ t.old = s.old
         /\ t.current = s.current /\ t.connected = s.connected
         /\ t.connecting /\ t.single = ~multi
         /\ t.timer = s.timer /\ t.freed = s.freed
<1>1. s \in Servers /\ s.current = NoSocket
  BY DEF Good, Sound
<1>2. /\ t.alive = s.alive \cup {x} /\ t.open = s.open \cup {x}
      /\ t.marked = s.marked
      /\ t.state = [s.state EXCEPT ![x] = "connecting"]
      /\ t.attempts = s.attempts /\ t.old = s.old
      /\ t.current = s.current /\ t.connected = s.connected
      /\ t.connecting = TRUE /\ t.single = ~multi
      /\ t.timer = s.timer /\ t.freed = s.freed
  BY <1>1 DEF Opened, Servers
<1>3. t \in Servers
  <2> DEFINE Z == IF crypt THEN s.crypt \cup {x} ELSE s.crypt
  <2>1. Z \in SUBSET Socket
    BY <1>1 DEF Servers
  <2>2. "connecting" \in States
    BY DEF States
  <2>3. (~multi) \in BOOLEAN
    <3>1. CASE multi
      BY <3>1
    <3>2. CASE ~multi
      BY <3>2
    <3> QED
      BY <3>1, <3>2
  <2>4. /\ s.alive \cup {x} \in SUBSET Socket /\ s.open \cup {x} \in SUBSET Socket
        /\ [s.state EXCEPT ![x] = "connecting"] \in [Socket -> States]
    BY <1>1, <2>2 DEF Servers
  <2> DEFINE u == [s EXCEPT !.connecting = TRUE, !.single = ~multi]
             v == [u EXCEPT !.state = [s.state EXCEPT ![x] = "connecting"]]
             w == [v EXCEPT !.alive = s.alive \cup {x}]
             y == [w EXCEPT !.open = s.open \cup {x}]
  <2>5. u \in Servers
    BY <1>1, <2>3, AssignedIsRecord
  <2>6. t = [y EXCEPT !.crypt = Z]
    BY <1>1 DEF Opened, Servers
  <2> HIDE DEF u
  <2>7. v \in Servers
    BY <2>4, <2>5 DEF Servers
  <2> HIDE DEF v
  <2>8. w \in Servers
    BY <2>4, <2>7, AssignedIsRecord
  <2> HIDE DEF w
  <2>9. y \in Servers
    BY <2>4, <2>8, AssignedIsRecord
  <2> HIDE DEF y, Z
  <2> QED
    BY <2>1, <2>6, <2>9, AssignedIsRecord
<1>4. Kept(t)
  BY <1>1, <1>2, <1>3 DEF Good, Sound, Sure, Steady, Kept
<1> QED
  BY <1>2, <1>3, <1>4 DEF Follows, Spared

\* what an attempt may be made from, and what it leaves; the program goes on
\* after it unless it was to be the only one
Room(s) == Good(s) /\ ~s.connected /\ Cardinality(s.attempts) < Limit

LEMMA EnteredIsGood ==
  ASSUME NEW s, Room(s), NEW multi \in BOOLEAN, ~multi => s.attempts = {},
         NEW x \in Socket \ s.alive, NEW crypt,
         NEW t \in Entered(Opened(s, x, multi, crypt), x)
  PROVE  /\ Good(t) /\ Follows(s, t) /\ ~t.connected
         /\ t.connecting /\ t.single = ~multi
<1> DEFINE o == Opened(s, x, multi, crypt)
<1>1. /\ Follows(s, o) /\ o \in Servers
      /\ o.alive = s.alive \cup {x} /\ o.open = s.open \cup {x}
      /\ o.marked = s.marked
      /\ o.state = [s.state EXCEPT ![x] = "connecting"]
      /\ o.attempts = s.attempts /\ o.old = s.old
      /\ o.current = s.current /\ o.connected = s.connected
      /\ o.connecting /\ o.single = ~multi
      /\ o.timer = s.timer /\ o.freed = s.freed
  BY OpenedIsKept DEF Room
<1>2. PICK A \in {o.attempts, o.attempts \cap o.old} :
         /\ t = [o EXCEPT !.attempts = A \cup {x}]
         /\ A = o.attempts \/ May("tick")
  BY DEF Entered, Maybe
<1> HIDE DEF o
<1>3. /\ t.alive = o.alive /\ t.open = o.open /\ t.marked = o.marked
      /\ t.state = o.state /\ t.attempts = A \cup {x} /\ t.old = o.old
      /\ t.current = o.current /\ t.connected = o.connected
      /\ t.connecting = o.connecting /\ t.single = o.single
      /\ t.timer = o.timer /\ t.freed = o.freed
  BY <1>1, <1>2 DEF Servers
<1>4. t \in Servers /\ t.old \subseteq t.attempts
  BY <1>1, <1>2, <1>3 DEF Servers, Room, Good, Sound
<1>5. A \subseteq s.attempts
  BY <1>1, <1>2
<1>6. IsFiniteSet(t.attempts) /\ Cardinality(t.attempts) <= Limit
  <2>1. IsFiniteSet(s.attempts) /\ IsFiniteSet(A) /\ Cardinality(A) <= Cardinality(s.attempts)
    BY <1>5, FS_Subset DEF Room, Good, Sound
  <2>2. /\ IsFiniteSet(A \cup {x})
        /\ Cardinality(A \cup {x}) = Cardinality(A) \/ Cardinality(A \cup {x}) = Cardinality(A) + 1
    BY <2>1, FS_AddElement
  <2>3. Cardinality(A) \in Nat /\ Cardinality(s.attempts) \in Nat /\ Limit \in Nat
    BY <2>1, FS_CardinalityType DEF Limit
  <2> QED
    BY <1>3, <2>1, <2>2, <2>3 DEF Room
<1>7. t.single => \A y, z \in t.attempts : y = z
  BY <1>1, <1>3, <1>5
<1>8. Sound(t)
  BY <1>1, <1>2, <1>3, <1>4, <1>6, <1>7 DEF Room, Good, Sound
<1>9. Sure(t)
  <2>1. CASE May("batchLive")
    BY <2>1 DEF Sure
  <2>2. CASE Steady(s)
    <3>1. t.open \subseteq t.alive /\ t.attempts \subseteq t.alive
      BY <1>1, <1>3, <1>5, <2>2 DEF Steady
    <3>2. ~t.connected /\ t.connecting
      BY <1>1, <1>3 DEF Room
    <3>3. \A y \in t.attempts : t.state[y] # "connected"
      BY <1>1, <1>3, <1>5, <2>2 DEF Steady, Room, Good, Sound, Servers
    <3> QED
      BY <3>1, <3>2, <3>3 DEF Sure, Steady
  <2> QED
    BY <2>1, <2>2 DEF Room, Good, Sure
<1>10. Follows(s, t)
  BY <1>1, <1>3, <1>5 DEF Follows, Spared
<1> QED
  BY <1>1, <1>3, <1>8, <1>9, <1>10 DEF Good, Room

\* a socket that failed at once, or is given up, is entered all the same
LEMMA RefusedIsGood ==
  ASSUME NEW s, Room(s), NEW multi \in BOOLEAN,
         NEW x \in Socket \ s.alive, NEW crypt, NEW o,
         o = Opened(s, x, multi, crypt),
         NEW t \in Entered(FatalFailure([o EXCEPT !.open = @ \ {x}], x), x)
  PROVE  /\ Good(t) /\ Follows(s, t) /\ ~t.connected
         /\ ~t.connecting /\ (env.reconnect /\ multi => t.timer)
<1> DEFINE c == [o EXCEPT !.open = @ \ {x}]
           f == FatalFailure(c, x)
<1>1. /\ Kept(o) /\ Follows(s, o) /\ o \in Servers
      /\ o.alive = s.alive \cup {x} /\ o.open = s.open \cup {x}
      /\ o.marked = s.marked
      /\ o.state = [s.state EXCEPT ![x] = "connecting"]
      /\ o.attempts = s.attempts /\ o.old = s.old
      /\ o.current = s.current /\ o.connected = s.connected
      /\ o.connecting /\ o.single = ~multi
      /\ o.timer = s.timer /\ o.freed = s.freed
  BY OpenedIsKept DEF Room
<1>2. /\ c \in Servers
      /\ c.alive = o.alive /\ c.open = o.open \ {x} /\ c.marked = o.marked
      /\ c.state = o.state /\ c.attempts = o.attempts
      /\ c.current = o.current /\ c.connected = o.connected
      /\ c.connecting = o.connecting /\ c.single = o.single
      /\ c.freed = o.freed
  <2>1. o \in Servers /\ o.open \ {x} \in SUBSET Socket
    BY <1>1 DEF Servers
  <2> HIDE DEF f
  <2>2. c \in Servers /\ c.open = o.open \ {x}
    BY <2>1 DEF Servers
  <2>3. /\ c.alive = o.alive /\ c.marked = o.marked
        /\ c.state = o.state /\ c.attempts = o.attempts
    BY <2>1 DEF Servers
  <2>4. /\ c.current = o.current /\ c.connected = o.connected
        /\ c.connecting = o.connecting /\ c.single = o.single
        /\ c.freed = o.freed
    BY <2>1 DEF Servers
  <2> QED
    BY <2>2, <2>3, <2>4
<1>3. PICK A \in {f.attempts, f.attempts \cap f.old} :
         t = [f EXCEPT !.attempts = A \cup {x}]
  BY DEF Entered, Maybe
<1> HIDE DEF c
<1>4. ~s.connected /\ s.current = NoSocket /\ NoSocket \notin Socket
  BY ServerAssumption DEF Room, Good, Sound
<1>5. Kept(c) /\ Follows(o, c)
  BY <1>1, <1>2, <1>4 DEF Kept, Follows, Spared
<1>6. /\ Good(f) /\ Follows(c, f)
      /\ f.attempts = {} /\ ~f.connecting /\ ~f.single
      /\ f.connected = c.connected /\ f.current = c.current
      /\ x \in f.marked /\ (x \in c.alive => x \in f.alive)
      /\ f.open \subseteq c.open /\ f.state[x] = "fatal"
      /\ env.reconnect /\ c.connecting /\ ~c.single => f.timer
      /\ f.freed = c.freed
  <2>1. (c.connecting => ~c.connected) /\ x # c.current /\ x \in Socket
    BY <1>1, <1>2, <1>4
  <2> QED
    BY <1>5, <2>1, FatalIsGood
<1> HIDE DEF f
<1>7. f \in Servers /\ f.old = {}
  BY <1>6 DEF Good, Sound
<1>8. /\ t.alive = f.alive /\ t.open = f.open /\ t.marked = f.marked
      /\ t.state = f.state /\ t.attempts = {x} /\ t.old = {}
      /\ t.current = f.current /\ t.connected = f.connected
      /\ t.connecting = f.connecting /\ t.single = f.single
      /\ t.timer = f.timer /\ t.freed = f.freed /\ t \in Servers
  BY <1>3, <1>6, <1>7 DEF Servers
<1>9. IsFiniteSet(t.attempts) /\ Cardinality(t.attempts) <= Limit
  <2>1. IsFiniteSet({x}) /\ Cardinality({x}) = 1
    BY FS_Singleton
  <2>2. 1 <= Limit
    BY DEF Limit
  <2> QED
    BY <1>8, <2>1, <2>2
<1>10. Sound(t)
  BY <1>6, <1>8, <1>9 DEF Good, Sound
<1>11. Sure(t)
  BY <1>1, <1>2, <1>4, <1>6, <1>8 DEF Good, Sure, Steady
<1>12. Follows(s, f)
  BY <1>1, <1>5, <1>6, FollowsTwice
<1>13. Follows(s, t)
  BY <1>8, <1>12 DEF Follows, Spared
<1> QED
  BY <1>1, <1>2, <1>4, <1>6, <1>8, <1>10, <1>11, <1>13 DEF Good

LEMMA AttemptIsGood ==
  ASSUME NEW s, Room(s), NEW multi \in BOOLEAN, ~multi => s.attempts = {},
         NEW x \in Socket \ s.alive, NEW crypt,
         NEW t \in Attempt(s, x, multi, crypt)
  PROVE  /\ Good(t) /\ Follows(s, t) /\ ~t.connected
         /\ Keen /\ multi => Pursues(t)
         /\ ~May("refuse") => t.connecting
<1> DEFINE o == Opened(s, x, multi, crypt)
           c == [o EXCEPT !.open = @ \ {x}]
<1>1. PICK u \in Tried(o, x) : t \in Entered(u, x)
  BY DEF Attempt, Then
<1>2. u = o \/ (May("refuse") /\ u = FatalFailure(c, x))
  BY <1>1 DEF Tried
<1> HIDE DEF o
<1>3. CASE u = o
  <2>1. t \in Entered(Opened(s, x, multi, crypt), x)
    BY <1>1, <1>3 DEF o
  <2> QED
    BY <2>1, EnteredIsGood DEF Pursues
<1>4. CASE May("refuse") /\ u = FatalFailure(c, x)
  <2>1. /\ Good(t) /\ Follows(s, t) /\ ~t.connected
        /\ ~t.connecting /\ (env.reconnect /\ multi => t.timer)
    BY <1>1, <1>4, RefusedIsGood DEF o
  <2> QED
    BY <1>4, <2>1 DEF Pursues, Keen
<1> QED
  BY <1>2, <1>3, <1>4

LEMMA ConnectIsAttempt ==
  ASSUME NEW s, NEW multi, NEW noCrypt, NEW r,
         r = IF multi THEN s ELSE Disconnect(StopConnectionTry(s)),
         NEW t \in ConnectToServer(s, multi, noCrypt)
  PROVE  \E x \in Socket \ r.alive, e \in Crypts(noCrypt) :
           t \in Attempt(r, x, multi, e)
BY DEF ConnectToServer, Then

\* another server, besides those that are tried
LEMMA AnotherIsGood ==
  ASSUME NEW s, Room(s), NEW noCrypt, NEW t \in ConnectToServer(s, TRUE, noCrypt)
  PROVE  /\ Good(t) /\ Follows(s, t) /\ ~t.connected
         /\ Keen => Pursues(t)
         /\ ~May("refuse") => t.connecting
<1>1. PICK x \in Socket \ s.alive, e \in Crypts(noCrypt) : t \in Attempt(s, x, TRUE, e)
  BY ConnectIsAttempt
<1> QED
  BY <1>1, AttemptIsGood

LEMMA SweptIsGood ==
  ASSUME NEW s, Good(s), NEW t, t = Disconnect(StopConnectionTry(s))
  PROVE  /\ Room(t) /\ Follows(s, t) /\ t.attempts = {} /\ ~t.timer
         /\ ~t.connecting /\ ~t.single
         /\ \A x \in Socket : Doomed(s, x) => Spared(t, x)
<1> DEFINE u == StopConnectionTry(s)
<1>1. /\ Good(u) /\ Follows(s, u)
      /\ u.attempts = {} /\ ~u.connecting /\ ~u.single /\ ~u.timer
  BY GoodIsKept, StopIsGood
<1>2. t = Disconnect(u)
  OBVIOUS
<1>5. \A x \in Socket : Doomed(s, x) => Spared(u, x)
  BY GoodIsKept, StopIsGood DEF Doomed, Spared
<1> HIDE DEF u
<1>3. /\ Good(t) /\ Follows(u, t) /\ ~t.connected
      /\ t.attempts = u.attempts /\ t.connecting = u.connecting
      /\ t.single = u.single /\ t.timer = u.timer
  BY <1>1, <1>2, DisconnectIsGood
<1>4. Cardinality(t.attempts) < Limit
  BY <1>1, <1>3, FS_EmptySet DEF Limit
<1> QED
  BY <1>1, <1>3, <1>4, <1>5, FollowsTwice DEF Room, Follows

\* one server and no other
LEMMA OnlyOneIsGood ==
  ASSUME NEW s, Good(s), NEW noCrypt, NEW t \in ConnectToServer(s, FALSE, noCrypt)
  PROVE  /\ Good(t) /\ Follows(s, t) /\ ~t.connected
         /\ \A x \in Socket : Doomed(s, x) => Spared(t, x)
<1> DEFINE u == Disconnect(StopConnectionTry(s))
<1>1. PICK x \in Socket \ u.alive, e \in Crypts(noCrypt) : t \in Attempt(u, x, FALSE, e)
  BY ConnectIsAttempt
<1>2. /\ Room(u) /\ Follows(s, u) /\ u.attempts = {}
      /\ \A y \in Socket : Doomed(s, y) => Spared(u, y)
  BY SweptIsGood
<1> HIDE DEF u
<1>3. Good(t) /\ Follows(u, t) /\ ~t.connected
  BY <1>1, <1>2, AttemptIsGood
<1> QED
  BY <1>2, <1>3, FollowsTwice DEF Follows

LEMMA StartOverIsGood ==
  ASSUME NEW s, Good(s), NEW obfuscated \in BOOLEAN, NEW t,
         t = StartOver(s, obfuscated)
  PROVE  /\ Room(t) /\ Follows(s, t) /\ t.attempts = {}
         /\ t.connecting /\ ~t.single
         /\ t.alive \ t.marked \subseteq {t.current}
<1> DEFINE u == Disconnect(StopConnectionTry(s))
<1>1. /\ Room(u) /\ Follows(s, u) /\ u.attempts = {} /\ ~u.timer
      /\ ~u.connecting /\ ~u.single
  BY SweptIsGood
<1>2. t = [u EXCEPT !.connecting = TRUE, !.single = FALSE, !.obfuscated = obfuscated]
  BY DEF StartOver
<1> HIDE DEF u
<1>3. u \in Servers
  BY <1>1 DEF Room, Good, Sound
<1>4. /\ t.alive = u.alive /\ t.open = u.open /\ t.marked = u.marked
      /\ t.state = u.state /\ t.attempts = u.attempts /\ t.old = u.old
      /\ t.current = u.current /\ t.connected = u.connected
      /\ t.connecting = TRUE /\ t.single = FALSE
      /\ t.timer = u.timer /\ t.freed = u.freed /\ t \in Servers
  BY <1>2, <1>3 DEF Servers
<1>5. Sound(t) /\ t.alive \ t.marked \subseteq {t.current}
  BY <1>1, <1>4 DEF Room, Good, Sound
<1>6. Sure(t)
  BY <1>1, <1>4 DEF Room, Good, Sure, Steady
<1>7. Follows(u, t)
  BY <1>4 DEF Follows, Spared
<1> QED
  BY <1>1, <1>4, <1>5, <1>6, <1>7, FollowsTwice DEF Room, Good

LEMMA UseServerIsGood ==
  ASSUME NEW s, Room(s), NEW t \in UseServer(s)
  PROVE  /\ Good(t) /\ Follows(s, t) /\ ~t.connected
         /\ Keen /\ Pursues(s) => Pursues(t)
         /\ ~May("refuse") /\ s.connecting => t.connecting
<1>1. CASE t = s
  BY <1>1 DEF Room, Follows
<1>2. CASE t \in ConnectToServer(s, TRUE, ~s.obfuscated)
  BY <1>2, AnotherIsGood
<1> QED
  BY <1>1, <1>2 DEF UseServer

LEMMA NoServersIsGood ==
  ASSUME NEW s, Room(s), s.attempts = {}, s.alive \ s.marked \subseteq {s.current},
         NEW t \in NoServers(s)
  PROVE  Good(t) /\ Follows(s, t) /\ ~t.connected /\ ~Keen
<1>1. May("empty") /\ t = [s EXCEPT !.connecting = FALSE]
  BY DEF NoServers
<1>2. /\ t.alive = s.alive /\ t.open = s.open /\ t.marked = s.marked
      /\ t.state = s.state /\ t.attempts = s.attempts /\ t.old = s.old
      /\ t.current = s.current /\ t.connected = s.connected
      /\ t.connecting = FALSE /\ t.single = s.single
      /\ t.timer = s.timer /\ t.freed = s.freed /\ t \in Servers
  BY <1>1 DEF Room, Good, Sound, Servers
<1>3. Sound(t) /\ Sure(t)
  BY <1>2 DEF Room, Good, Sound, Sure, Steady
<1> QED
  BY <1>1, <1>2, <1>3 DEF Good, Room, Follows, Spared, Keen

LEMMA WithoutCryptIsGood ==
  ASSUME NEW s, Good(s), NEW t \in ConnectWithoutCrypt(s)
  PROVE  /\ Good(t) /\ Follows(s, t) /\ ~t.connected
         /\ Keen => Pursues(t)
<1> DEFINE u == StartOver(s, FALSE)
<1>1. t \in NoServers(u) \/ t \in UseServer(u)
  BY DEF ConnectWithoutCrypt, Then
<1>2. /\ Room(u) /\ Follows(s, u) /\ u.attempts = {}
      /\ u.connecting /\ ~u.single
      /\ u.alive \ u.marked \subseteq {u.current}
  BY StartOverIsGood
<1> HIDE DEF u
<1>3. CASE t \in NoServers(u)
  BY <1>2, <1>3, NoServersIsGood, FollowsTwice
<1>4. CASE t \in UseServer(u)
  BY <1>2, <1>4, UseServerIsGood, FollowsTwice DEF Pursues
<1> QED
  BY <1>1, <1>3, <1>4

LEMMA OutOfServersIsGood ==
  ASSUME NEW s, Good(s), ~s.connected, NEW t \in OutOfServers(s)
  PROVE  /\ Good(t) /\ Follows(s, t) /\ ~t.connected
         /\ Keen /\ Pursues(s) => Pursues(t)
         /\ s.attempts # {} => t = s
<1>1. CASE s.attempts # {}
  BY <1>1 DEF OutOfServers, Follows
<1>2. CASE s.attempts = {} /\ t \in ConnectWithoutCrypt(s)
  BY <1>2, WithoutCryptIsGood
<1>3. CASE s.attempts = {} /\ t = SetTimer(s)
  BY <1>3, TimerFields DEF Pursues
<1> QED
  BY <1>1, <1>2, <1>3, Zenon DEF OutOfServers

LEMMA TryAnotherIsGood ==
  ASSUME NEW s, Good(s), ~s.connected, NEW t \in TryAnotherConnectionRequest(s)
  PROVE  /\ Good(t) /\ Follows(s, t) /\ ~t.connected
         /\ Keen /\ Pursues(s) => Pursues(t)
         /\ ~May("refuse") /\ s.attempts # {} /\ s.connecting => t.connecting
<1>1. CASE Room(s) /\ t \in UseServer(s)
  BY <1>1, UseServerIsGood
<1>2. CASE t \in OutOfServers(s)
  BY <1>2, OutOfServersIsGood
<1>3. CASE t = s
  BY <1>3 DEF Follows
<1> QED
  BY <1>1, <1>2, <1>3 DEF TryAnotherConnectionRequest, Room

LEMMA ConnectToAnyIsGood ==
  ASSUME NEW s, Good(s), NEW t \in ConnectToAnyServer(s), env \in Scenarios
  PROVE  /\ Good(t) /\ Follows(s, t) /\ ~t.connected
         /\ Keen => Pursues(t)
<1> DEFINE u == StartOver(s, env.prefer)
<1>1. t \in NoServers(u) \/ t \in TryAnotherConnectionRequest(u)
  BY DEF ConnectToAnyServer, Then
<1>2. env.prefer \in BOOLEAN
  BY ServerAssumption
<1>3. /\ Room(u) /\ Follows(s, u) /\ u.attempts = {}
      /\ u.connecting /\ ~u.single
      /\ u.alive \ u.marked \subseteq {u.current}
  BY <1>2, StartOverIsGood
<1> HIDE DEF u
<1>4. CASE t \in NoServers(u)
  BY <1>3, <1>4, NoServersIsGood, FollowsTwice
<1>5. CASE t \in TryAnotherConnectionRequest(u)
  BY <1>3, <1>5, TryAnotherIsGood, FollowsTwice DEF Pursues, Room
<1> QED
  BY <1>1, <1>4, <1>5

\* the state of a socket that is not the one we are connected to, and its mark
Mark(s, x, state, M) == [s EXCEPT !.state = [@ EXCEPT ![x] = state], !.marked = M]

LEMMA MarkIsGood ==
  ASSUME NEW s, Good(s), NEW x \in Socket, May("batchLive") \/ x # s.current,
         NEW state \in States, state # "connected",
         NEW M \in {s.marked, s.marked \cup {x}}, NEW t,
         t = Mark(s, x, state, M)
  PROVE  Good(t) /\ Follows(s, t)
<1>1. s \in Servers
  BY DEF Good, Sound
<1>2. /\ t.alive = s.alive /\ t.open = s.open /\ t.marked = M
      /\ t.state = [s.state EXCEPT ![x] = state]
      /\ t.attempts = s.attempts /\ t.old = s.old
      /\ t.current = s.current /\ t.connected = s.connected
      /\ t.connecting = s.connecting /\ t.single = s.single
      /\ t.timer = s.timer /\ t.freed = s.freed
  BY <1>1 DEF Servers, Mark
<1>3. t \in Servers
  BY <1>1 DEF Servers, Mark
<1>4. Sound(t)
  BY <1>2, <1>3 DEF Good, Sound
<1>5. Sure(t)
  <2>1. CASE May("batchLive")
    BY <2>1 DEF Sure
  <2>2. CASE Steady(s) /\ x # s.current
    <3>1. \A y \in Socket : y # x => t.state[y] = s.state[y]
      BY <1>1, <1>2 DEF Servers
    <3>2. t.state[x] # "connected"
      BY <1>1, <1>2 DEF Servers
    <3>3. s.attempts \subseteq Socket /\ (s.connected => s.current \in Socket)
      BY <1>1 DEF Servers, Good, Sound
    <3> QED
      BY <1>2, <2>2, <3>1, <3>2, <3>3 DEF Sure, Steady
  <2> QED
    BY <2>1, <2>2 DEF Good, Sure
<1> QED
  BY <1>2, <1>4, <1>5 DEF Good, Follows, Spared

LEMMA LostIsGood ==
  ASSUME NEW s, Good(s), env \in Scenarios, NEW x \in Socket,
         s.connecting \/ x = s.current, NEW m,
         m = Mark(s, x, "lost", s.marked \cup {x}),
         NEW t \in Lost(m)
  PROVE  /\ Good(t) /\ (May("batchLive") \/ t.freed = s.freed)
         /\ x \in s.alive /\ x \notin s.attempts => Spared(t, x)
         /\ Keen /\ Pursues(s) => Pursues(t)
         /\ s.connecting => /\ t.connecting /\ t.state[x] = "lost"
                            /\ t.open = s.open
<1> DEFINE u == [m EXCEPT !.connected = FALSE, !.current = NoSocket,
                          !.open = @ \ {m.current}]
<1>1. s \in Servers /\ "lost" \in States
  BY DEF Good, Sound, States
<1>2. /\ m.alive = s.alive /\ m.open = s.open /\ m.marked = s.marked \cup {x}
      /\ m.state = [s.state EXCEPT ![x] = "lost"]
      /\ m.attempts = s.attempts /\ m.old = s.old
      /\ m.current = s.current
      /\ m.connecting = s.connecting /\ m.single = s.single
      /\ m.timer = s.timer /\ m.freed = s.freed /\ m \in Servers
  BY <1>1 DEF Servers, Mark
<1>3. /\ u.alive = m.alive /\ u.open = m.open \ {m.current} /\ u.marked = m.marked
      /\ u.state = m.state /\ u.attempts = m.attempts /\ u.old = m.old
      /\ u.current = NoSocket /\ u.connected = FALSE
      /\ u.connecting = m.connecting /\ u.single = m.single
      /\ u.timer = m.timer /\ u.freed = m.freed
  BY <1>2 DEF Servers
<1> u \in Servers
  <2>1. m.open \ {m.current} \in SUBSET Socket /\ NoSocket \in Socket \cup {NoSocket}
    BY <1>2 DEF Servers
  <2> DEFINE v == [m EXCEPT !.open = m.open \ {m.current}]
  <2>2. v \in Servers
    BY <1>2, <2>1, AssignedIsRecord
  <2>3. u = [v EXCEPT !.connected = FALSE, !.current = NoSocket]
    BY <1>2 DEF Servers
  <2> HIDE DEF v, u
  <2> QED
    BY <2>1, <2>2, <2>3, AssignedIsRecord
<1>4. \/ t = u /\ ~(env.reconnect /\ ~u.connecting)
      \/ t \in ConnectToAnyServer(u) /\ ~u.connecting
  <2>0. Lost(m) = UNION {IF env.reconnect /\ ~v.connecting
                         THEN ConnectToAnyServer(v) ELSE {v} : v \in {u}}
    BY Zenon DEF Lost, Then
  <2>1. t \in IF env.reconnect /\ ~u.connecting THEN ConnectToAnyServer(u) ELSE {u}
    <3> HIDE DEF u
    <3> QED
      BY <2>0
  <2> HIDE DEF u
  <2> QED
    BY <2>1, Zenon
<1> HIDE DEF u
<1>5. Sound(u)
  BY <1>2, <1>3 DEF Good, Sound
<1>6. Sure(u)
  <2>1. CASE May("batchLive")
    BY <2>1 DEF Sure
  <2>2. CASE Steady(s)
    <3>1. \A y \in Socket : s.state[y] # "connected" => u.state[y] # "connected"
      BY <1>1, <1>2, <1>3 DEF Servers
    <3>2. s.attempts \subseteq Socket
      BY <1>1 DEF Servers
    <3> QED
      BY <1>2, <1>3, <2>2, <3>1, <3>2 DEF Sure, Steady
  <2> QED
    BY <2>1, <2>2 DEF Good, Sure
<1>7. x \in s.alive /\ x \notin s.attempts => Spared(u, x)
  BY <1>2, <1>3, ServerAssumption DEF Spared
<1>8. CASE t = u /\ ~(env.reconnect /\ ~u.connecting)
  <2>1. s.connecting => t.connecting /\ t.state[x] = "lost" /\ t.open = s.open
    <3>1. m.state[x] = "lost"
      BY <1>1, <1>2 DEF Servers
    <3>2. s.connecting => s.current = NoSocket
      BY DEF Good, Sound
    <3>3. s.open \ {NoSocket} = s.open
      BY <1>1, ServerAssumption DEF Servers
    <3>4. s.connecting => u.open = s.open
      BY <1>2, <1>3, <3>2, <3>3
    <3> QED
      BY <1>2, <1>3, <1>8, <3>1, <3>4
  <2>2. Keen /\ Pursues(s) => Pursues(t)
    BY <1>2, <1>3, <1>8 DEF Keen, Pursues
  <2> QED
    BY <1>2, <1>3, <1>5, <1>6, <1>7, <1>8, <2>1, <2>2 DEF Good
<1>9. CASE t \in ConnectToAnyServer(u) /\ ~u.connecting
  <2>1. /\ Good(t) /\ Follows(u, t) /\ ~t.connected
        /\ Keen => Pursues(t)
    BY <1>5, <1>6, <1>9, ConnectToAnyIsGood DEF Good
  <2> QED
    BY <1>2, <1>3, <1>7, <1>9, <2>1 DEF Follows
<1> QED
  BY <1>4, <1>8, <1>9

LEMMA TryNextIsGood ==
  ASSUME NEW s, Good(s), NEW x \in Socket, x \in s.marked,
         NEW t \in TryNext(s, x)
  PROVE  /\ Good(t) /\ (May("batchLive") \/ t.freed = s.freed)
         /\ s.connecting /\ x \in s.alive => Spared(t, x)
         /\ Keen /\ Pursues(s) => Pursues(t)
<1> DEFINE u == StopConnectionTry(s)
           d == [s EXCEPT !.attempts = @ \ {x}, !.old = @ \ {x}]
<1>1. \/ ~s.connecting /\ t = s
      \/ /\ s.connecting /\ s.single
         /\ t = u \/ t \in ConnectToServer(s, FALSE, TRUE)
      \/ s.connecting /\ ~s.single /\ t \in TryAnotherConnectionRequest(d)
  BY DEF TryNext
<1> HIDE DEF u
<1>2. CASE ~s.connecting /\ t = s
  BY <1>2
<1>3. s.connecting => x # s.current /\ ~s.connected
  BY ServerAssumption DEF Good, Sound
<1>4. CASE s.connecting /\ s.single /\ t = u
  <2>1. /\ Good(t) /\ Follows(s, t) /\ t.attempts = {} /\ t.current = s.current
        /\ t.marked = s.marked /\ \A y \in s.alive \cap s.marked : y \in t.alive
    BY <1>4, GoodIsKept, StopIsGood DEF u
  <2> QED
    BY <1>3, <1>4, <2>1 DEF Follows, Spared, Pursues
<1>5. CASE s.connecting /\ s.single /\ t \in ConnectToServer(s, FALSE, TRUE)
  BY <1>3, <1>5, OnlyOneIsGood DEF Follows, Doomed, Pursues
<1>6. CASE s.connecting /\ ~s.single /\ t \in TryAnotherConnectionRequest(d)
  <2>1. s \in Servers
    BY DEF Good, Sound
  <2>2. /\ d.alive = s.alive /\ d.open = s.open /\ d.marked = s.marked
        /\ d.state = s.state
        /\ d.attempts = s.attempts \ {x} /\ d.old = s.old \ {x}
        /\ d.current = s.current /\ d.connected = s.connected
        /\ d.connecting = s.connecting /\ d.single = s.single
        /\ d.timer = s.timer /\ d.freed = s.freed /\ d \in Servers
    BY <2>1 DEF Servers
  <2> HIDE DEF d
  <2>3. IsFiniteSet(d.attempts) /\ Cardinality(d.attempts) <= Limit
    <3>1. IsFiniteSet(s.attempts) /\ Cardinality(s.attempts) <= Limit
      BY DEF Good, Sound
    <3>2. /\ IsFiniteSet(d.attempts) /\ Cardinality(d.attempts) \in Nat
          /\ Cardinality(s.attempts) \in Nat
          /\ Cardinality(d.attempts) <= Cardinality(s.attempts)
      BY <2>2, <3>1, FS_Subset, FS_CardinalityType
    <3> QED
      BY <3>1, <3>2 DEF Limit
  <2>4. Sound(d)
    BY <1>6, <2>2, <2>3 DEF Good, Sound
  <2>5. Sure(d)
    BY <2>2 DEF Good, Sure, Steady
  <2>6. /\ Good(t) /\ Follows(d, t) /\ Keen /\ Pursues(d) => Pursues(t)
    BY <1>3, <1>6, <2>2, <2>4, <2>5, TryAnotherIsGood DEF Good
  <2>7. s.connecting /\ x \in s.alive => Spared(d, x)
    BY <1>3, <2>2 DEF Spared
  <2> QED
    BY <1>6, <2>2, <2>4, <2>5, <2>6, <2>7, TryAnotherIsGood, <1>3 DEF Good, Follows, Pursues
<1> QED
  BY <1>1, <1>2, <1>4, <1>5, <1>6

\* nothing is said of a socket that is destroyed
Disposable(s, x) == x \in s.alive /\ x \notin s.attempts /\ x # s.current

LEMMA DestroyIsGood ==
  ASSUME NEW s, Good(s), NEW x \in Socket,
         May("batchLive") \/ Disposable(s, x),
         NEW r \in Servers,
         /\ r.alive = s.alive /\ r.open = s.open /\ r.marked = s.marked
         /\ r.attempts = s.attempts /\ r.old = s.old
         /\ r.current = s.current /\ r.connected = s.connected
         /\ r.connecting = s.connecting /\ r.single = s.single
         /\ r.timer = s.timer /\ r.freed = s.freed
         /\ \A y \in Socket : y # x => r.state[y] = s.state[y],
         NEW t, t = DestroySocket(r, x)
  PROVE  /\ Good(t) /\ (May("batchLive") \/ t.freed = s.freed)
         /\ Pursues(s) => Pursues(t)
<1>1. t = DestroyAll(r, {x}) /\ {x} \in SUBSET Socket
  BY DEF DestroySocket
<1>2. /\ t \in Servers
      /\ t.alive = r.alive \ {x} /\ t.open = r.open \ {x}
      /\ t.marked = r.marked \ {x}
      /\ t.attempts = r.attempts /\ t.old = r.old
      /\ t.current = r.current /\ t.connected = r.connected
      /\ t.connecting = r.connecting /\ t.single = r.single
      /\ t.timer = r.timer
      /\ \A y \in Socket : t.state[y] = IF y \in {x} THEN "connecting" ELSE r.state[y]
      /\ {x} \subseteq r.alive => t.freed = r.freed
  BY <1>1, DestroyFields
<1>3. Sound(t)
  BY <1>2 DEF Good, Sound
<1>4. May("batchLive") \/ (Steady(t) /\ t.freed = s.freed)
  <2>1. CASE Steady(s) /\ Disposable(s, x)
    <3>1. s.attempts \subseteq Socket /\ (s.connected => s.current \in Socket)
      BY DEF Servers, Good, Sound
    <3>2. \A y \in Socket : y # x => t.state[y] = s.state[y]
      BY <1>2
    <3> QED
      BY <1>2, <2>1, <3>1, <3>2 DEF Steady, Disposable
  <2> QED
    BY <2>1 DEF Good, Sure
<1> QED
  BY <1>2, <1>3, <1>4 DEF Good, Sure, Pursues

LEMMA EstablishedIsGood ==
  ASSUME NEW s, Good(s), NEW x \in Socket,
         May("batchLive") \/ (x \in s.open /\ s.state[x] # "connected"),
         NEW state \in {"login", "connected"},
         NEW t, t = ConnectionEstablished(s, x, state)
  PROVE  /\ Good(t) /\ (May("batchLive") \/ t.freed = s.freed)
         /\ Pursues(s) => Pursues(t)
<1> DEFINE r == [s EXCEPT !.state[x] = state]
           u == [r EXCEPT !.connected = TRUE, !.current = x]
<1>1. s \in Servers /\ state \in States
  BY DEF Good, Sound, States
<1>2. /\ r.alive = s.alive /\ r.open = s.open /\ r.marked = s.marked
      /\ r.attempts = s.attempts /\ r.old = s.old
      /\ r.current = s.current /\ r.connected = s.connected
      /\ r.connecting = s.connecting /\ r.single = s.single
      /\ r.timer = s.timer /\ r.freed = s.freed
      /\ r.state = [s.state EXCEPT ![x] = state]
      /\ r \in Servers
  BY <1>1 DEF Servers
<1>3. \/ ~s.connecting /\ t = DestroySocket(r, x)
      \/ s.connecting /\ state = "connected" /\ t = StopConnectionTry(u)
      \/ s.connecting /\ state = "login" /\ t = r
  BY DEF ConnectionEstablished
<1>4. CASE ~s.connecting /\ t = DestroySocket(r, x)
  <2>1. May("batchLive") \/ Disposable(s, x)
    BY <1>4, ServerAssumption DEF Good, Sound, Sure, Steady, Disposable
  <2>2. \A y \in Socket : y # x => r.state[y] = s.state[y]
    BY <1>1, <1>2 DEF Servers
  <2>3. /\ r \in Servers /\ r.alive = s.alive /\ r.open = s.open
        /\ r.marked = s.marked /\ r.attempts = s.attempts /\ r.old = s.old
        /\ r.current = s.current /\ r.connected = s.connected
        /\ r.connecting = s.connecting /\ r.single = s.single
        /\ r.timer = s.timer /\ r.freed = s.freed
    BY <1>2
  <2> HIDE DEF r
  <2> QED
    BY <1>4, <2>1, <2>2, <2>3, DestroyIsGood
<1>5. CASE s.connecting /\ state = "connected" /\ t = StopConnectionTry(u)
  <2>1. /\ u \in Servers /\ u.current = x /\ u.connected = TRUE
        /\ u.open = s.open /\ u.alive = s.alive /\ u.freed = s.freed
        /\ u.state = r.state
    BY <1>2 DEF Servers
  <2>2. u.state[x] = "connected"
    BY <1>1, <1>2, <1>5, <2>1 DEF Servers
  <2> HIDE DEF u
  <2>3. Kept(u)
    BY <2>1, <2>2, ServerAssumption DEF Kept, Good, Sure, Steady
  <2> QED
    BY <1>5, <2>1, <2>3, StopIsGood DEF Pursues
<1>6. CASE s.connecting /\ state = "login" /\ t = r
  <2>1. x # s.current
    BY <1>6, ServerAssumption DEF Good, Sound
  <2>2. t = Mark(s, x, state, s.marked)
    BY <1>1, <1>6 DEF Servers, Mark
  <2> HIDE DEF r
  <2>3. Good(t) /\ Follows(s, t)
    BY <1>1, <1>6, <2>1, <2>2, MarkIsGood
  <2> QED
    BY <1>2, <1>6, <2>3 DEF Follows, Pursues
<1> QED
  BY <1>3, <1>4, <1>5, <1>6

LEMMA FailedIsGood ==
  ASSUME NEW s, Good(s), env \in Scenarios, NEW x \in Socket,
         NEW state \in {"dead", "fatal", "lost"},
         state = "lost" \/ May("batchLive") \/ x # s.current,
         NEW t \in ConnectionFailed(s, x, state)
  PROVE  /\ Good(t) /\ (May("batchLive") \/ t.freed = s.freed)
         /\ \/ May("batchLive") \/ x \notin s.alive \/ Disposable(t, x)
            \/ x \in s.attempts /\ (~s.connecting \/ state = "lost")
         /\ Keen /\ Pursues(s) => Pursues(t)
         /\ state = "lost" /\ s.connecting => /\ t.connecting /\ t.state[x] = "lost"
                                              /\ t.open = s.open
<1> DEFINE r == [s EXCEPT !.state[x] = state]
           m == [r EXCEPT !.marked = @ \cup {x}]
<1>1. s \in Servers /\ state \in States /\ state # "connected"
  BY DEF Good, Sound, States
<1>2. /\ r = Mark(s, x, state, s.marked)
      /\ m = Mark(s, x, state, s.marked \cup {x})
  BY <1>1 DEF Servers, Mark
<1>3. \/ ~s.connecting /\ x # s.current /\ t = r
      \/ /\ s.connecting \/ x = s.current
         /\ \/ state = "fatal" /\ t = FatalFailure(r, x)
            \/ state = "lost" /\ t \in Lost(m)
            \/ state = "dead" /\ t \in TryNext(m, x)
  BY DEF ConnectionFailed
<1> HIDE DEF r, m
<1>4. s.connecting => x # s.current /\ ~s.connected
  BY ServerAssumption DEF Good, Sound
<1>5. ASSUME May("batchLive") \/ x # s.current, NEW M \in {s.marked, s.marked \cup {x}},
             NEW u, u = Mark(s, x, state, M)
      PROVE  /\ Good(u) /\ Follows(s, u)
             /\ u.alive = s.alive /\ u.open = s.open /\ u.marked = M
             /\ u.attempts = s.attempts /\ u.old = s.old
             /\ u.current = s.current /\ u.connected = s.connected
             /\ u.connecting = s.connecting /\ u.single = s.single
             /\ u.timer = s.timer
  <2>1. Good(u) /\ Follows(s, u)
    BY <1>1, <1>5, MarkIsGood
  <2> QED
    BY <1>1, <1>5, <2>1 DEF Mark, Servers
<1>6. CASE ~s.connecting /\ x # s.current /\ t = r
  BY <1>2, <1>5, <1>6 DEF Follows, Disposable, Pursues
<1>7. CASE (s.connecting \/ x = s.current) /\ state = "fatal" /\ t = FatalFailure(r, x)
  <2>1. /\ Good(r) /\ Follows(s, r)
        /\ r.alive = s.alive
        /\ r.current = s.current /\ r.connected = s.connected
        /\ r.connecting = s.connecting /\ r.single = s.single
    BY <1>2, <1>5, <1>7
  <2>2. /\ Good(t) /\ Follows(r, t)
        /\ t.attempts = {} /\ ~t.connecting /\ ~t.single
        /\ t.connected = r.connected /\ t.current = r.current
        /\ x \in t.marked /\ (x \in r.alive => x \in t.alive)
        /\ env.reconnect /\ r.connecting /\ ~r.single => t.timer
        /\ t.freed = r.freed
    BY <1>4, <1>7, <2>1, GoodIsKept, FatalIsGood
  <2>3. Keen /\ Pursues(s) => Pursues(t)
    <3>1. x = s.current => s.connected
      BY ServerAssumption DEF Good, Sound
    <3> QED
      BY <1>7, <2>1, <2>2, <3>1 DEF Keen, Pursues
  <2> QED
    BY <1>7, <2>1, <2>2, <2>3 DEF Follows, Disposable
<1>8. CASE (s.connecting \/ x = s.current) /\ state = "lost" /\ t \in Lost(m)
  BY <1>2, <1>8, LostIsGood DEF Spared, Disposable
<1>9. CASE (s.connecting \/ x = s.current) /\ state = "dead" /\ t \in TryNext(m, x)
  <2>1. /\ Good(m) /\ Follows(s, m)
        /\ m.alive = s.alive /\ m.marked = s.marked \cup {x}
        /\ m.connected = s.connected
        /\ m.connecting = s.connecting /\ m.single = s.single
        /\ m.timer = s.timer
    BY <1>2, <1>5, <1>9
  <2>2. /\ Good(t) /\ (May("batchLive") \/ t.freed = m.freed)
        /\ m.connecting /\ x \in m.alive => Spared(t, x)
        /\ Keen /\ Pursues(m) => Pursues(t)
    BY <1>9, <2>1, TryNextIsGood
  <2> QED
    BY <1>9, <2>1, <2>2 DEF Follows, Spared, Disposable, Pursues
<1> QED
  BY <1>3, <1>6, <1>7, <1>8, <1>9

LEMMA FailAndDestroyIsGood ==
  ASSUME NEW s, Good(s), env \in Scenarios, NEW x \in Socket, x \in s.open,
         NEW state \in {"dead", "fatal", "lost"},
         IF state = "lost" THEN s.state[x] = "connected"
         ELSE s.state[x] # "connected",
         NEW t \in FailAndDestroy(s, x, state)
  PROVE  /\ Good(t) /\ (May("batchLive") \/ t.freed = s.freed)
         /\ Keen /\ Pursues(s) => Pursues(t)
<1>1. PICK u \in ConnectionFailed(s, x, state) : t = DestroySocket(u, x)
  BY DEF FailAndDestroy, Then
<1>2. state = "lost" \/ May("batchLive") \/ x # s.current
  BY ServerAssumption DEF Good, Sound, Sure, Steady
<1>3. /\ Good(u) /\ (May("batchLive") \/ u.freed = s.freed)
      /\ \/ May("batchLive") \/ x \notin s.alive \/ Disposable(u, x)
         \/ x \in s.attempts /\ (~s.connecting \/ state = "lost")
      /\ Keen /\ Pursues(s) => Pursues(u)
  BY <1>2, FailedIsGood
<1>4. May("batchLive") \/ Disposable(u, x)
  BY <1>3 DEF Good, Sure, Steady
<1>5. u \in Servers
  BY <1>3 DEF Good, Sound
<1>6. /\ Good(t) /\ (May("batchLive") \/ t.freed = u.freed)
      /\ Pursues(u) => Pursues(t)
  BY <1>1, <1>3, <1>4, <1>5, DestroyIsGood
<1> QED
  BY <1>3, <1>6

LEMMA LoginIsGood ==
  ASSUME NEW s, Good(s), NEW x \in Socket,
         \/ May("batchLive")
         \/ x \in s.open /\ (s.connecting \/ s.state[x] = "connected"),
         NEW t, t = Login(s, x)
  PROVE  /\ Good(t) /\ (May("batchLive") \/ t.freed = s.freed)
         /\ Pursues(s) => Pursues(t)
<1> DEFINE u == ConnectionEstablished(s, x, "connected")
<1>1. CASE s.state[x] = "connected"
  BY <1>1 DEF Login
<1>2. CASE s.state[x] # "connected"
  <2>1. t = [u EXCEPT !.freed = @ \/ ~s.connecting]
    BY <1>2 DEF Login
  <2>2. /\ Good(u) /\ (May("batchLive") \/ u.freed = s.freed)
        /\ Pursues(s) => Pursues(u)
    BY <1>2, EstablishedIsGood
  <2> HIDE DEF u
  <2>3. u \in Servers /\ s \in Servers
    BY <2>2 DEF Good, Sound
  <2>4. /\ t.alive = u.alive /\ t.open = u.open /\ t.marked = u.marked
        /\ t.state = u.state /\ t.attempts = u.attempts /\ t.old = u.old
        /\ t.current = u.current /\ t.connected = u.connected
        /\ t.connecting = u.connecting /\ t.single = u.single
        /\ t.timer = u.timer /\ t.freed = (u.freed \/ ~s.connecting)
        /\ t \in Servers
    BY <2>1, <2>3 DEF Servers
  <2>5. Sound(t) /\ Sure(t)
    BY <2>2, <2>4 DEF Good, Sound, Sure, Steady
  <2>6. May("batchLive") \/ t.freed = s.freed
    BY <1>2, <2>2, <2>3, <2>4 DEF Servers
  <2>7. Pursues(s) => Pursues(t)
    BY <2>2, <2>4 DEF Pursues
  <2> QED
    BY <2>5, <2>6, <2>7 DEF Good
<1> QED
  BY <1>1, <1>2

-------------------------------------------------------------------------------
LEMMA VisitIsGood ==
  ASSUME NEW s, Good(s), s.connecting, NEW x \in Socket, NEW t \in Visit(s, x)
  PROVE  /\ Good(t) /\ (May("batchLive") \/ t.freed = s.freed)
         /\ Keen /\ Pursues(s) => Pursues(t)
         /\ ~May("refuse") /\ (\E y \in s.attempts : y # x) => t.connecting
<1> DEFINE r == [s EXCEPT !.attempts = @ \ {x}, !.old = @ \ {x}]
           u == DestroySocket(r, x)
<1>1. \/ x \notin s.old /\ t = s
      \/ x \in s.old /\ u.single /\ t = StopConnectionTry(u)
      \/ x \in s.old /\ ~u.single /\ t \in TryAnotherConnectionRequest(u)
  BY DEF Visit, Then
<1>2. CASE x \notin s.old /\ t = s
  BY <1>2
<1>3. CASE x \in s.old
  <2>1. s \in Servers /\ ~s.connected
    BY DEF Good, Sound
  <2>2. /\ r.alive = s.alive /\ r.open = s.open /\ r.marked = s.marked
        /\ r.state = s.state
        /\ r.attempts = s.attempts \ {x} /\ r.old = s.old \ {x}
        /\ r.current = s.current /\ r.connected = s.connected
        /\ r.connecting = s.connecting /\ r.single = s.single
        /\ r.timer = s.timer /\ r.freed = s.freed /\ r \in Servers
    BY <2>1 DEF Servers
  <2>3. u = DestroyAll(r, {x}) /\ {x} \in SUBSET Socket
    BY DEF DestroySocket
  <2> HIDE DEF r, u
  <2>4. /\ u \in Servers
        /\ u.alive = r.alive \ {x} /\ u.open = r.open \ {x}
        /\ u.marked = r.marked \ {x}
        /\ u.attempts = r.attempts /\ u.old = r.old
        /\ u.current = r.current /\ u.connected = r.connected
        /\ u.connecting = r.connecting /\ u.single = r.single
        /\ u.timer = r.timer
        /\ \A y \in Socket : u.state[y] = IF y \in {x} THEN "connecting" ELSE r.state[y]
        /\ {x} \subseteq r.alive => u.freed = r.freed
    <3>1. r \in Servers
      BY <2>2
    <3> QED
      BY <2>3, <3>1, DestroyFields
  <2>5. IsFiniteSet(u.attempts) /\ Cardinality(u.attempts) <= Limit
    <3>1. IsFiniteSet(s.attempts) /\ Cardinality(s.attempts) <= Limit
      BY DEF Good, Sound
    <3>2. u.attempts \subseteq s.attempts
      BY <2>2, <2>4
    <3>3. /\ IsFiniteSet(u.attempts) /\ Cardinality(u.attempts) \in Nat
          /\ Cardinality(s.attempts) \in Nat
          /\ Cardinality(u.attempts) <= Cardinality(s.attempts)
      BY <3>1, <3>2, FS_Subset, FS_CardinalityType
    <3> QED
      BY <3>1, <3>3 DEF Limit
  <2>6. Sound(u)
    BY <2>2, <2>4, <2>5 DEF Good, Sound
  <2>7. x \in s.attempts
    BY <1>3 DEF Good, Sound
  <2>8. May("batchLive") \/ (Steady(u) /\ u.freed = s.freed)
    <3>1. CASE Steady(s)
      <4>1. s.attempts \subseteq Socket
        BY <2>1 DEF Servers
      <4> QED
        BY <2>1, <2>2, <2>4, <2>7, <3>1, <4>1 DEF Steady
    <3> QED
      BY <3>1 DEF Good, Sure
  <2>9. Good(u) /\ ~u.connected
    BY <2>1, <2>2, <2>4, <2>6, <2>8 DEF Good, Sure
  <2>10. CASE u.single /\ t = StopConnectionTry(u)
    <3>1. Good(t) /\ Follows(u, t)
      BY <2>9, <2>10, GoodIsKept, StopIsGood
    <3>2. \A y \in s.attempts : y = x
      BY <2>2, <2>4, <2>7, <2>10 DEF Good, Sound
    <3> QED
      BY <2>2, <2>4, <2>8, <2>10, <3>1, <3>2 DEF Follows, Pursues
  <2>11. CASE t \in TryAnotherConnectionRequest(u)
    <3>1. /\ Good(t) /\ Follows(u, t)
          /\ Keen /\ Pursues(u) => Pursues(t)
          /\ ~May("refuse") /\ u.attempts # {} /\ u.connecting => t.connecting
      BY <2>9, <2>11, TryAnotherIsGood
    <3> QED
      BY <2>2, <2>4, <2>8, <3>1 DEF Follows, Pursues
  <2> QED
    BY <1>1, <1>3, <2>10, <2>11
<1> QED
  BY <1>1, <1>2, <1>3

LEMMA OneOfOne ==
  ASSUME NEW S, IsFiniteSet(S), Cardinality(S) <= 1
  PROVE  \A x, y \in S : x = y
<1> SUFFICES ASSUME NEW x \in S, NEW y \in S, x # y PROVE FALSE
  OBVIOUS
<1>1. IsFiniteSet({x}) /\ Cardinality({x}) = 1
  BY FS_Singleton
<1>2. Cardinality({x} \cup {y}) = 2
  <2>1. y \notin {x}
    OBVIOUS
  <2> QED
    BY <1>1, <2>1, FS_AddElement
<1>3. {x} \cup {y} \subseteq S
  OBVIOUS
<1>4. Cardinality({x} \cup {y}) <= Cardinality(S) /\ Cardinality(S) \in Nat
  BY <1>3, FS_Subset, FS_CardinalityType
<1> QED
  BY <1>2, <1>4

LEMMA TimeoutIsGood ==
  ASSUME NEW s, Good(s), s.connecting, NEW t \in CheckForTimeout(s)
  PROVE  /\ Good(t) /\ (Calm => t.freed = s.freed)
         /\ Keen /\ Pursues(s) => Pursues(t)
<1>1. CASE s.attempts = {}
  BY <1>1 DEF CheckForTimeout
<1>2. CASE s.attempts # {}
  <2>1. PICK x \in s.attempts : \E u \in Visit(s, x) : t \in VisitNext(u, s.attempts \ {x})
    BY <1>2 DEF CheckForTimeout, Then
  <2>2. PICK u \in Visit(s, x) : t \in VisitNext(u, s.attempts \ {x})
    BY <2>1
  <2>3. s.attempts \subseteq Socket /\ x \in Socket
    BY DEF Good, Sound, Servers
  <2>4. /\ Good(u) /\ (May("batchLive") \/ u.freed = s.freed)
        /\ Keen /\ Pursues(s) => Pursues(u)
        /\ ~May("refuse") /\ (\E y \in s.attempts : y # x) => u.connecting
    BY <2>3, VisitIsGood
  <2>5. \/ s.attempts \ {x} = {} /\ t = u
        \/ /\ s.attempts \ {x} # {} /\ ~u.connecting
           /\ t = [u EXCEPT !.freed = TRUE]
        \/ /\ u.connecting
           /\ \E y \in s.attempts : t \in Visit(u, y)
    BY <2>2 DEF VisitNext
  <2>6. CASE t = u
    BY <2>4, <2>6 DEF Calm
  <2>7. CASE /\ s.attempts \ {x} # {} /\ ~u.connecting
             /\ t = [u EXCEPT !.freed = TRUE]
    <3>1. u \in Servers
      BY <2>4 DEF Good, Sound
    <3>2. /\ t.alive = u.alive /\ t.open = u.open /\ t.marked = u.marked
          /\ t.state = u.state /\ t.attempts = u.attempts /\ t.old = u.old
          /\ t.current = u.current /\ t.connected = u.connected
          /\ t.connecting = u.connecting /\ t.single = u.single
          /\ t.timer = u.timer /\ t \in Servers
      BY <2>7, <3>1 DEF Servers
    <3>3. Sound(t) /\ Sure(t)
      BY <2>4, <3>2 DEF Good, Sound, Sure, Steady
    <3>4. ~Calm
      <4>1. May("refuse") /\ \E y \in s.attempts : y # x
        BY <2>4, <2>7
      <4>2. ~env.safe
        BY <4>1, OneOfOne DEF Good, Sound, Limit
      <4> QED
        BY <4>1, <4>2 DEF Calm
    <3>5. Pursues(u) => Pursues(t)
      BY <3>2 DEF Pursues
    <3> QED
      BY <2>4, <3>3, <3>4, <3>5 DEF Good
  <2>8. ASSUME u.connecting, NEW y \in s.attempts, t \in Visit(u, y)
        PROVE  /\ Good(t) /\ (May("batchLive") \/ t.freed = u.freed)
               /\ Keen /\ Pursues(u) => Pursues(t)
    BY <2>3, <2>4, <2>8, VisitIsGood
  <2> QED
    BY <2>4, <2>5, <2>6, <2>7, <2>8 DEF Calm
<1> QED
  BY <1>1, <1>2

LEMMA OneSecondIsGood ==
  ASSUME NEW s, Good(s), s.connecting,
         NEW u \in IF s.single THEN {s} ELSE TryAnotherConnectionRequest(s),
         NEW t \in IF u.connecting THEN CheckForTimeout(u) ELSE {u}
  PROVE  /\ Good(t) /\ (Calm => t.freed = s.freed)
         /\ Keen /\ Pursues(s) => Pursues(t)
<1>1. /\ Good(u) /\ Follows(s, u)
      /\ Keen /\ Pursues(s) => Pursues(u)
  <2>1. ~s.connected
    BY DEF Good, Sound
  <2>2. CASE u = s
    BY <2>2 DEF Follows
  <2>3. CASE u \in TryAnotherConnectionRequest(s)
    BY <2>1, <2>3, TryAnotherIsGood
  <2> QED
    BY <2>2, <2>3
<1>2. CASE t = u
  BY <1>1, <1>2 DEF Follows, Calm
<1>3. CASE u.connecting /\ t \in CheckForTimeout(u)
  BY <1>1, <1>3, TimeoutIsGood DEF Follows, Calm
<1> QED
  BY <1>2, <1>3

-------------------------------------------------------------------------------
(***************************************************************************)
(* The handlers                                                            *)
(***************************************************************************)
LEMMA InitInv == Init => IInv
<1> SUFFICES ASSUME Init PROVE IInv
  OBVIOUS
<1>1. sc \in Servers
  BY DEF Init, Servers, States
<1>2. IsFiniteSet(sc.attempts) /\ Cardinality(sc.attempts) <= Limit
  BY FS_EmptySet DEF Init, Limit
<1>3. Sound(sc)
  BY <1>1, <1>2 DEF Init, Sound
<1>4. Sure(sc)
  BY DEF Init, Sure, Steady
<1> QED
  BY <1>3, <1>4 DEF Init, IInv

\* what a handler leaves is good, and the program still goes on
LEMMA StepKeeps ==
  ASSUME IInv, env' = env, wanted' \in BOOLEAN, Good(sc'),
         Calm => sc'.freed = sc.freed, Keen /\ wanted' => Pursues(sc')
  PROVE  IInv'
<1>1. Sound(sc)'
  BY DEF Good, Sound, Limit, May
<1>2. Sure(sc)'
  BY DEF Good, Sure, Steady, May
<1>3. (Keen /\ wanted => Pursues(sc))'
  BY DEF Keen, Pursues, May
<1>4. (Calm => ~sc.freed)'
  BY DEF IInv, Calm, May
<1> QED
  BY <1>1, <1>2, <1>3, <1>4 DEF IInv

LEMMA LeavesKeeps ==
  ASSUME IInv, env' = env, wanted' = (wanted \/ sc'.connected), Good(sc'),
         Calm => sc'.freed = sc.freed, Keen /\ Pursues(sc) => Pursues(sc')
  PROVE  IInv'
<1>1. sc'.connected => Pursues(sc')
  BY DEF Good, Sound, Pursues
<1>2. wanted' \in BOOLEAN
  BY DEF IInv, Good, Sound, Servers
<1> QED
  BY <1>1, <1>2, StepKeeps DEF IInv

LEMMA UserKeeps ==
  ASSUME IInv, UserConnects \/ UserConnectsTo \/ UserStops \/ UserDisconnects
  PROVE  IInv'
<1> Good(sc) /\ env \in Scenarios
  BY DEF IInv, Good
<1>1. CASE UserConnects
  <2>1. sc' \in ConnectToAnyServer(sc) /\ env' = env /\ wanted' = TRUE
    BY <1>1 DEF UserConnects, Becomes
  <2>2. Good(sc') /\ Follows(sc, sc') /\ (Keen => Pursues(sc'))
    BY <2>1, ConnectToAnyIsGood
  <2> QED
    BY <2>1, <2>2, StepKeeps DEF Follows, Calm
<1>2. CASE UserConnectsTo
  <2>1. sc' \in ConnectToServer(sc, FALSE, FALSE) /\ env' = env /\ wanted' = FALSE
    BY <1>2 DEF UserConnectsTo, Becomes
  <2>2. Good(sc') /\ Follows(sc, sc')
    BY <2>1, OnlyOneIsGood
  <2> QED
    BY <2>1, <2>2, StepKeeps DEF Follows, Calm
<1>3. CASE UserStops
  <2>1. sc' = StopConnectionTry(sc) /\ env' = env /\ wanted' = sc.connected
    BY <1>3 DEF UserStops, Becomes
  <2>2. Good(sc') /\ Follows(sc, sc') /\ ~sc'.connecting /\ sc'.connected = sc.connected
    BY <2>1, GoodIsKept, StopIsGood
  <2>3. wanted' \in BOOLEAN
    BY <2>1 DEF Good, Sound, Servers
  <2> QED
    BY <2>1, <2>2, <2>3, StepKeeps DEF Follows, Calm, Pursues
<1>4. CASE UserDisconnects
  <2>1. sc' = Disconnect(sc) /\ env' = env /\ wanted' = (wanted /\ ~sc.connected)
    BY <1>4 DEF UserDisconnects, Becomes
  <2>2. Good(sc') /\ Follows(sc, sc') /\ (~sc.connected => sc' = sc)
    BY <2>1, DisconnectIsGood
  <2>3. wanted' \in BOOLEAN
    BY <2>1 DEF IInv, Good, Sound, Servers
  <2> QED
    BY <2>1, <2>2, <2>3, StepKeeps DEF IInv, Follows, Calm
<1> QED
  BY <1>1, <1>2, <1>3, <1>4

LEMMA OpenKeeps ==
  ASSUME IInv, NEW x \in Socket, Filtered(x) \/ OnConnect(x) \/ LateData(x) \/ OnClose(x)
  PROVE  IInv'
<1> Good(sc) /\ env \in Scenarios
  BY DEF IInv, Good
<1> DEFINE m == [sc EXCEPT !.marked = @ \cup {x}]
<1>1. CASE /\ x \in sc.open /\ sc.state[x] = "connecting"
           /\ \E state \in {"dead", "fatal"} : Leaves(FailAndDestroy(m, x, state))
  <2>1. PICK state \in {"dead", "fatal"} : Leaves(FailAndDestroy(m, x, state))
    BY <1>1
  <2>2. sc \in Servers
    BY DEF Good, Sound
  <2>3. /\ m.alive = sc.alive /\ m.open = sc.open /\ m.marked = sc.marked \cup {x}
        /\ m.state = sc.state /\ m.attempts = sc.attempts /\ m.old = sc.old
        /\ m.current = sc.current /\ m.connected = sc.connected
        /\ m.connecting = sc.connecting /\ m.single = sc.single
        /\ m.timer = sc.timer /\ m.freed = sc.freed /\ m \in Servers
    BY <2>2 DEF Servers
  <2> HIDE DEF m
  <2>4. Sound(m) /\ Sure(m)
    BY <2>3 DEF Good, Sound, Sure, Steady
  <2>5. sc' \in FailAndDestroy(m, x, state) /\ env' = env /\ wanted' = (wanted \/ sc'.connected)
    BY <2>1 DEF Leaves, Becomes
  <2>6. /\ Good(sc') /\ (May("batchLive") \/ sc'.freed = m.freed)
        /\ Keen /\ Pursues(m) => Pursues(sc')
    BY <1>1, <2>3, <2>4, <2>5, FailAndDestroyIsGood DEF Good
  <2> QED
    BY <2>3, <2>5, <2>6, LeavesKeeps DEF Calm, Pursues
<1>2. CASE x \in sc.open /\ sc.state[x] = "connecting" /\ Leaves({ConnectionEstablished(sc, x, "login")})
  <2>1. sc' = ConnectionEstablished(sc, x, "login") /\ env' = env /\ wanted' = (wanted \/ sc'.connected)
    BY <1>2 DEF Leaves, Becomes
  <2>2. /\ Good(sc') /\ (May("batchLive") \/ sc'.freed = sc.freed)
        /\ Pursues(sc) => Pursues(sc')
    BY <1>2, <2>1, EstablishedIsGood
  <2> QED
    BY <2>1, <2>2, LeavesKeeps DEF Calm
<1>3. CASE LateData(x)
  <2>1. sc' = DestroySocket(sc, x) /\ env' = env /\ wanted' = (wanted \/ sc'.connected)
    BY <1>3 DEF LateData, Leaves, Becomes
  <2>2. May("batchLive") \/ Disposable(sc, x)
    BY <1>3, ServerAssumption
       DEF LateData, Talks, Good, Sound, Sure, Steady, Disposable
  <2>3. sc \in Servers
    BY DEF Good, Sound
  <2>4. /\ Good(sc') /\ (May("batchLive") \/ sc'.freed = sc.freed)
        /\ Pursues(sc) => Pursues(sc')
    BY <2>1, <2>2, <2>3, DestroyIsGood
  <2> QED
    BY <2>1, <2>4, LeavesKeeps DEF Calm
<1>4. CASE OnClose(x)
  <2>1. PICK state \in {"lost", "dead"} :
           /\ state = "lost" <=> sc.state[x] = "connected"
           /\ Leaves(FailAndDestroy(sc, x, state))
    BY <1>4 DEF OnClose
  <2>2. sc' \in FailAndDestroy(sc, x, state) /\ env' = env /\ wanted' = (wanted \/ sc'.connected)
    BY <2>1 DEF Leaves, Becomes
  <2>3. /\ Good(sc') /\ (May("batchLive") \/ sc'.freed = sc.freed)
        /\ Keen /\ Pursues(sc) => Pursues(sc')
    BY <1>4, <2>1, <2>2, FailAndDestroyIsGood DEF OnClose, Talks
  <2> QED
    BY <2>2, <2>3, LeavesKeeps DEF Calm
<1> QED
  BY <1>1, <1>2, <1>3, <1>4 DEF Filtered, OnConnect

LEMMA PacketKeeps ==
  ASSUME IInv, NEW x \in Socket,
         LoggedIn(x) \/ PacketFails(x) \/ PacketFailsThenLogin(x) \/ OnError(x)
  PROVE  IInv'
<1> Good(sc) /\ env \in Scenarios
  BY DEF IInv, Good
<1>1. CASE LoggedIn(x)
  <2>1. sc' = Login(sc, x) /\ env' = env /\ wanted' = (wanted \/ sc'.connected)
    BY <1>1 DEF LoggedIn, Leaves, Becomes
  <2>2. /\ Good(sc') /\ (May("batchLive") \/ sc'.freed = sc.freed)
        /\ Pursues(sc) => Pursues(sc')
    BY <1>1, <2>1, LoginIsGood DEF LoggedIn, Receives, Talks
  <2> QED
    BY <2>1, <2>2, LeavesKeeps DEF Calm
<1>2. CASE PacketFails(x) \/ OnError(x)
  <2>1. sc' \in ConnectionFailed(sc, x, "lost") /\ env' = env /\ wanted' = (wanted \/ sc'.connected)
    BY <1>2 DEF PacketFails, OnError, Leaves, Becomes
  <2>2. /\ Good(sc') /\ (May("batchLive") \/ sc'.freed = sc.freed)
        /\ Keen /\ Pursues(sc) => Pursues(sc')
    BY <2>1, FailedIsGood
  <2> QED
    BY <2>1, <2>2, LeavesKeeps DEF Calm
<1>3. CASE PacketFailsThenLogin(x)
  <2>1. /\ \E u \in ConnectionFailed(sc, x, "lost") : sc' = Login(u, x)
        /\ env' = env /\ wanted' = (wanted \/ sc'.connected)
    BY <1>3 DEF PacketFailsThenLogin, Leaves, Becomes, Then
  <2>2. PICK u \in ConnectionFailed(sc, x, "lost") : sc' = Login(u, x)
    BY <2>1
  <2>3. /\ Good(u) /\ (May("batchLive") \/ u.freed = sc.freed)
        /\ Keen /\ Pursues(sc) => Pursues(u)
        /\ sc.connecting => u.connecting /\ u.open = sc.open
    BY FailedIsGood
  <2>4. May("batchLive") \/ (x \in sc.open /\ sc.connecting)
    BY <1>3 DEF PacketFailsThenLogin, Receives, Talks
  <2>5. /\ Good(sc') /\ (May("batchLive") \/ sc'.freed = u.freed)
        /\ Pursues(u) => Pursues(sc')
    BY <2>2, <2>3, <2>4, LoginIsGood
  <2> QED
    BY <2>1, <2>3, <2>5, LeavesKeeps DEF Calm
<1> QED
  BY <1>1, <1>2, <1>3

LEMMA TimerKeeps ==
  ASSUME IInv, RetryConnectTimer \/ OneSecond \/ \E x \in Socket : TimePasses(x)
  PROVE  IInv'
<1> Good(sc) /\ env \in Scenarios
  BY DEF IInv, Good
<1>1. CASE RetryConnectTimer
  <2> DEFINE u == StopConnectionTry(sc)
  <2>1. /\ sc' \in IF u.connected THEN {u} ELSE ConnectToAnyServer(u)
        /\ env' = env /\ wanted' = (wanted \/ sc'.connected)
    BY <1>1 DEF RetryConnectTimer, Leaves, Becomes, Then
  <2>2. Good(u) /\ Follows(sc, u) /\ ~u.connecting
    BY GoodIsKept, StopIsGood
  <2> HIDE DEF u
  <2>3. CASE u.connected /\ sc' = u
    BY <2>1, <2>2, <2>3, LeavesKeeps DEF Follows, Calm, Pursues
  <2>4. CASE sc' \in ConnectToAnyServer(u)
    <3>1. Good(sc') /\ Follows(u, sc') /\ (Keen => Pursues(sc'))
      BY <2>2, <2>4, ConnectToAnyIsGood
    <3> QED
      BY <2>1, <2>2, <3>1, LeavesKeeps DEF Follows, Calm
  <2> QED
    BY <2>1, <2>3, <2>4
<1>2. CASE OneSecond
  <2>1. /\ sc.connecting
        /\ \E u \in IF sc.single THEN {sc} ELSE TryAnotherConnectionRequest(sc) :
             sc' \in IF u.connecting THEN CheckForTimeout(u) ELSE {u}
        /\ env' = env /\ wanted' = (wanted \/ sc'.connected)
    BY <1>2 DEF OneSecond, Leaves, Becomes, Then
  <2>2. /\ Good(sc') /\ (Calm => sc'.freed = sc.freed)
        /\ Keen /\ Pursues(sc) => Pursues(sc')
    BY <2>1, OneSecondIsGood
  <2> QED
    BY <2>1, <2>2, LeavesKeeps
<1>3. ASSUME NEW x \in Socket, TimePasses(x) PROVE IInv'
  <2>1. /\ sc' = [sc EXCEPT !.old = @ \cup {x}] /\ x \in sc.attempts
        /\ env' = env /\ wanted' = (wanted \/ sc'.connected)
    BY <1>3 DEF TimePasses, Leaves, Becomes
  <2>2. sc \in Servers
    BY DEF Good, Sound
  <2>3. /\ sc'.alive = sc.alive /\ sc'.open = sc.open /\ sc'.marked = sc.marked
        /\ sc'.state = sc.state /\ sc'.attempts = sc.attempts
        /\ sc'.old = sc.old \cup {x}
        /\ sc'.current = sc.current /\ sc'.connected = sc.connected
        /\ sc'.connecting = sc.connecting /\ sc'.single = sc.single
        /\ sc'.timer = sc.timer /\ sc'.freed = sc.freed /\ sc' \in Servers
    BY <2>1, <2>2 DEF Servers
  <2>4. Sound(sc') /\ Sure(sc')
    BY <2>1, <2>3 DEF Good, Sound, Sure, Steady
  <2> QED
    BY <2>1, <2>3, <2>4, LeavesKeeps DEF Good, Pursues
<1> QED
  BY <1>1, <1>2, <1>3

LEMMA StepInv == IInv /\ [Next]_vars => IInv'
<1> SUFFICES ASSUME IInv, [Next]_vars PROVE IInv'
  OBVIOUS
<1>1. CASE UNCHANGED vars
  BY <1>1 DEF vars, IInv, Sound, Sure, Steady, Pursues, Keen, Calm, Limit, May
<1>2. CASE Next
  BY <1>2, UserKeeps, OpenKeeps, PacketKeeps, TimerKeeps DEF Next
<1> QED
  BY <1>1, <1>2

(***************************************************************************)
(* The members of CServerConnect keep their types, and there are never     *)
(* more attempts than TryAnotherConnectionRequest admits, two or in safe   *)
(* mode one (ServerConnect.cpp:46), whatever fails.                        *)
(***************************************************************************)
THEOREM TypeCorrect == Spec => []TypeOK
<1>1. IInv => TypeOK
  BY DEF IInv, Sound, TypeOK
<1> QED
  BY InitInv, StepInv, <1>1, PTL DEF Spec

(***************************************************************************)
(* A socket that has not been told to delete itself is the current one, or *)
(* servers are still tried: no path through StopConnectionTry,             *)
(* ConnectionFailed and ConnectionEstablished ends the tries and leaves a  *)
(* socket behind.  In every scenario.                                      *)
(***************************************************************************)
THEOREM NoSocketLeftBehind == Spec => []NoneLeftBehind
<1>1. IInv => NoneLeftBehind
  BY DEF IInv, Sound, NoneLeftBehind
<1> QED
  BY InitInv, StepInv, <1>1, PTL DEF Spec

(***************************************************************************)
(* While servers are tried, each such socket is an attempt in the map that *)
(* CheckForTimeout walks, so that its time runs out: in every scenario in  *)
(* which no two attempts begin in one tick of the clock, which is the key  *)
(* of the map.                                                             *)
(***************************************************************************)
THEOREM SocketsStayWatched == Spec => []SocketsAreWatched
<1>1. IInv => SocketsAreWatched
  BY DEF IInv, Sound, SocketsAreWatched
<1> QED
  BY InitInv, StepInv, <1>1, PTL DEF Spec

(***************************************************************************)
(* With reconnection set and servers in the list, a user who wants a       *)
(* connection has one, or an attempt to any server goes on, or the retry   *)
(* timer runs: no failure that ConnectionFailed handles, and no time-out,  *)
(* ends the tries for good.  In every scenario.                            *)
(***************************************************************************)
THEOREM TriesAreKeptUp == Spec => []KeepsTrying
<1>1. IInv => KeepsTrying
  BY DEF IInv, KeepsTrying, Keen, Pursues
<1> QED
  BY InitInv, StepInv, <1>1, PTL DEF Spec

\* no packet is handled after one that cost the established connection: in the
\* other scenarios TLC refutes both theorems below
NoneAfterFailure == \A e \in Scenarios : "batchLive" \notin e.may
\* where Connect can fail at once, one server is tried at a time
OneIfRefused == \A e \in Scenarios : "refuse" \in e.may => e.safe

(***************************************************************************)
(* While IsConnected() is true, the current socket is logged in and its    *)
(* end would be heard of, and nothing else is tried: ConnectionEstablished *)
(* ends the other attempts and keeps this socket, and each way to lose it  *)
(* goes through Disconnect or ConnectionFailed, which reset the pointer.   *)
(***************************************************************************)
THEOREM ConnectionIsUsable ==
  ASSUME NoneAfterFailure
  PROVE  Spec => []ConnectedIsOpen
<1>1. IInv => ConnectedIsOpen
  BY NoneAfterFailure, ServerAssumption
     DEF NoneAfterFailure, IInv, May, Sound, Sure, Steady, ConnectedIsOpen
<1> QED
  BY InitInv, StepInv, <1>1, PTL DEF Spec

(***************************************************************************)
(* No socket is destroyed twice and no entry of the map of attempts is     *)
(* used after the map was emptied, though CServerSocket's callbacks go on  *)
(* with a socket after ConnectionFailed, and CheckForTimeout goes on in    *)
(* its loop, while the functions they called may destroy sockets.          *)
(***************************************************************************)
THEOREM NothingFreedIsUsed ==
  ASSUME NoneAfterFailure, OneIfRefused
  PROVE  Spec => []NoUseAfterFree
<1>1. IInv => NoUseAfterFree
  BY NoneAfterFailure, OneIfRefused
     DEF NoneAfterFailure, OneIfRefused, IInv, Calm, May, NoUseAfterFree
<1> QED
  BY InitInv, StepInv, <1>1, PTL DEF Spec
================================================================================
