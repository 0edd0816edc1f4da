----------------------------- MODULE BlockService -----------------------------
(***************************************************************************)
(* What the upload disk thread promises to the clients that hold an upload *)
(* slot, with the thread, its completion port, the upload structures and   *)
(* their locks left out.  A request is asked for within one upload         *)
(* session, taken at most once, and what was read for it is put on the     *)
(* socket of the client that asked, at most once; it may be dropped        *)
(* instead (a failed read, a closed file, a slot that was given up).       *)
(*                                                                         *)
(* A request is [cl |-> client, ses |-> session, blk |-> block].           *)
(***************************************************************************)
CONSTANT Request

VARIABLES asked,  \* requests that wait to be read
          owed,   \* requests whose data is being read or packed
          out     \* [client -> packets on its socket, as requests]

vars == <<asked, owed, out>>

Clients == DOMAIN out

Init ==
  /\ asked = {} /\ owed = {}
  /\ \A c \in Clients : out[c] = {}

Ask(r) ==
  /\ r \notin asked \cup owed
  /\ asked' = asked \cup {r}
  /\ UNCHANGED <<owed, out>>

Take(r) ==
  /\ r \in asked
  /\ asked' = asked \ {r}
  /\ owed' = owed \cup {r}
  /\ UNCHANGED out

Deliver(r) ==
  /\ r \in owed
  /\ owed' = owed \ {r}
  /\ out' = [out EXCEPT ![r.cl] = @ \cup {r}]
  /\ UNCHANGED asked

Drop(S) ==
  /\ owed' = owed \ S
  /\ UNCHANGED <<asked, out>>

\* packets leave the socket: they are sent, or lost with the connection
Send(c) ==
  /\ \E S \in SUBSET out[c] : out' = [out EXCEPT ![c] = @ \ S]
  /\ UNCHANGED <<asked, owed>>

\* the slot of a client is given up, with what waits on its socket
Close(c) ==
  /\ asked' = {r \in asked : r.cl # c}
  /\ out' = [out EXCEPT ![c] = {}]
  /\ UNCHANGED owed

Next ==
  \/ \E r \in Request : Ask(r) \/ Take(r) \/ Deliver(r)
  \/ \E S \in SUBSET owed : Drop(S)
  \/ \E c \in Clients : Send(c) \/ Close(c)

Spec == Init /\ [][Next]_vars
===============================================================================
