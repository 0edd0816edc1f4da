--------------------------- MODULE UPnPSetupProofs ---------------------------
(***************************************************************************)
(* Theorems about the port mapper, for any number of leases, lifetimes     *)
(* that a gateway grants and events, and for either preference.            *)
(***************************************************************************)
EXTENDS UPnPSetup, TLAPS

(***************************************************************************)
(* Only the worker and the removal of mappings touch `maps' and `session'. *)
(* That a granted mapping is in the session needs the types of both.       *)
(***************************************************************************)
RunType ==
  [at : Lease, offer : Lifetimes \cup {0}, renewAfter : Nat, allow : BOOLEAN, ok : BOOLEAN]

GatewayType ==
  /\ maps \in [Lease -> [by : {"none", "current", "lost", "old", "nat"}, left : Nat]]
  /\ session \in [protocol : {"PCP", "NATPMP"}, established : BOOLEAN,
                  issued : SUBSET Lease]
  /\ run \in RunType

Tracked == GatewayType /\ MappingsAreTracked

LEMMA LeaseOne == 1 \in Lease /\ 1 \in Nat /\ NumLeases \in Nat
  BY LeaseAssumption DEF Lease

\* A new attempt starts with the first lease.
LEMMA NoRunType ==
  NoRun \in RunType
  BY LeaseOne DEF NoRun, RenewalCap, RunType

\* The verdict of Run is recorded, and in a discovery whether it allows UPnP.
LEMMA VerdictType ==
  ASSUME run \in RunType, NEW b \in BOOLEAN
  PROVE  [run EXCEPT !.ok = b] \in RunType /\ [run EXCEPT !.allow = b] \in RunType
BY DEF RunType

LEMMA ReturnsType ==
  ASSUME run \in RunType, NEW status, Returns(status)
  PROVE  run' \in RunType
<1>1. (status = "success") \in BOOLEAN
  OBVIOUS
<1> QED
  BY <1>1, VerdictType DEF Returns

\* A lifetime that the gateway grants is a number of ticks.
LEMMA OfferNat == run \in RunType => run.offer \in Nat
<1> SUFFICES ASSUME run \in RunType PROVE run.offer \in Nat
  OBVIOUS
<1>1. run.offer \in Lifetimes \cup {0}
  BY DEF RunType
<1>2. \A t \in Lifetimes : t \in Nat
  BY LeaseAssumption
<1> QED
  BY <1>1, <1>2

\* So is the lifetime that the gateway grants.
LEMMA OfferType ==
  ASSUME run \in RunType, NEW t \in Lifetimes \cup {0}
  PROVE  [run EXCEPT !.offer = t] \in RunType
BY LeaseAssumption DEF RunType

LEMMA InitTracked == Init => Tracked
  BY LeaseOne, NoRunType
  DEF Init, InitMapper, NoMap, NewSession, Tracked, GatewayType, MappingsAreTracked

\* What RemoveOwnedPcpMappings leaves: nothing of what was sent is current.
LEMMA RemovedKeeps ==
  ASSUME Tracked, NEW D
  PROVE  /\ Removed(D) \in [Lease -> [by : {"none", "current", "lost", "old", "nat"}, left : Nat]]
         /\ \A l \in Lease : Removed(D)[l].by = "current" =>
                               maps[l].by = "current" /\ l \in session.issued \ Sent
  BY DEF Tracked, GatewayType, MappingsAreTracked, Removed, NoMap, Sent, CanRemove

\* A new session forgets what is left of the old one.
LEMMA ClearedForgets ==
  ASSUME Tracked, NEW m \in Cleared
  PROVE  /\ m \in [Lease -> [by : {"none", "current", "lost", "old", "nat"}, left : Nat]]
         /\ \A l \in Lease : m[l].by # "current"
  BY RemovedKeeps DEF Cleared, Forget

\* A new session knows none of the mappings, and none of them is current.
LEMMA ClearedTracked ==
  ASSUME Tracked, maps' \in Cleared, session' = NewSession, UNCHANGED run
  PROVE  Tracked'
<1>1. /\ maps' \in [Lease -> [by : {"none", "current", "lost", "old", "nat"}, left : Nat]]
      /\ \A l \in Lease : maps'[l].by # "current"
  BY ClearedForgets
<1>2. session' \in [protocol : {"PCP", "NATPMP"}, established : BOOLEAN,
                    issued : SUBSET Lease]
  BY DEF NewSession
<1> QED
  BY <1>1, <1>2 DEF Tracked, GatewayType, MappingsAreTracked

-------------------------------------------------------------------------------
(***************************************************************************)
(* The worker                                                              *)
(***************************************************************************)

\* The discovery and a socket that is not opened leave the leases alone.
LEMMA DiscoveryTracked ==
  ASSUME Tracked, OpenSocket \/ ProbePcp \/ ProbeNatPmp \/ Recheck
  PROVE  Tracked'
<1>1. UNCHANGED maps /\ session'.issued = session.issued
      /\ session' \in [protocol : {"PCP", "NATPMP"}, established : BOOLEAN,
                       issued : SUBSET Lease]
  BY DEF Tracked, GatewayType, OpenSocket, ProbePcp, ProbeNatPmp, Recheck
<1>2. run' \in RunType
  <2>1. run \in RunType
    BY DEF Tracked, GatewayType
  <2>2. ASSUME NEW place, Goes(place) PROVE run' \in RunType
    BY <2>1, <2>2 DEF Goes
  <2>3. CASE OpenSocket
    BY <2>1, <2>2, <2>3, ReturnsType DEF OpenSocket
  <2>4. CASE ProbePcp
    <3>1. PICK s \in Exchange(Answers) :
            \/ \E place : Goes(place)
            \/ run' = [run EXCEPT !.allow = s = "timeout"]
      BY <2>4 DEF ProbePcp
    <3>2. (s = "timeout") \in BOOLEAN
      OBVIOUS
    <3> QED
      BY <2>1, <2>2, <3>1, <3>2, VerdictType
  <2>5. CASE ProbeNatPmp
    <3>1. PICK s \in Exchange(Answers \cup {"nonpublic"}) :
            \/ Goes("map")
            \/ run' = [run EXCEPT !.allow = s \in {"timeout", "version", "opcode"}]
      BY <2>5 DEF ProbeNatPmp
    <3>2. (s \in {"timeout", "version", "opcode"}) \in BOOLEAN
      OBVIOUS
    <3> QED
      BY <2>1, <2>2, <3>1, <3>2, VerdictType
  <2>6. CASE Recheck
    BY <2>1, <2>2, <2>6, ReturnsType DEF Recheck
  <2> QED
    BY <2>3, <2>4, <2>5, <2>6
<1> QED
  BY <1>1, <1>2 DEF Tracked, GatewayType, MappingsAreTracked

\* The lease is marked in the step that sends its request.
LEMMA SendMapTracked ==
  ASSUME Tracked, SendMap
  PROVE  Tracked'
<1>1. /\ session' \in [protocol : {"PCP", "NATPMP"}, established : BOOLEAN,
                       issued : SUBSET Lease]
      /\ session'.issued = session.issued \cup {run.at}
  <2>1. session' = [session EXCEPT !.issued = session.issued \cup {run.at}]
    BY DEF SendMap, MarksIssued
  <2> QED
    BY <2>1 DEF Tracked, GatewayType, RunType
<1>2. CASE UNCHANGED maps /\ (Returns("changed") \/ run' = [run EXCEPT !.offer = 0])
  <2>1. run' \in RunType
    BY <1>2, ReturnsType, OfferType DEF Tracked, GatewayType
  <2> QED
    BY <1>1, <1>2, <2>1 DEF Tracked, GatewayType, MappingsAreTracked
<1>3. CASE \E t \in Lifetimes :
             /\ run' = [run EXCEPT !.offer = t]
             /\ maps' = [maps EXCEPT ![run.at] =
                  [by |-> IF session.protocol = "PCP" THEN "current" ELSE "nat",
                   left |-> t]]
  <2>1. PICK t \in Lifetimes :
          /\ run' = [run EXCEPT !.offer = t]
          /\ maps' = [maps EXCEPT ![run.at] =
               [by |-> IF session.protocol = "PCP" THEN "current" ELSE "nat",
                left |-> t]]
    BY <1>3
  <2>2. run' \in RunType
    BY <2>1, OfferType DEF Tracked, GatewayType
  <2>3. t \in Nat
    BY LeaseAssumption
  <2> QED
    BY <1>1, <2>1, <2>2, <2>3 DEF Tracked, GatewayType, MappingsAreTracked
<1> QED
  BY <1>2, <1>3 DEF SendMap

\* An answer establishes the session or asks for the next lease.
LEMMA ReceiveMapTracked ==
  ASSUME Tracked, ReceiveMap
  PROVE  Tracked'
<1>1. UNCHANGED maps /\ session'.issued = session.issued
      /\ session' \in [protocol : {"PCP", "NATPMP"}, established : BOOLEAN,
                       issued : SUBSET Lease]
  BY DEF Tracked, GatewayType, ReceiveMap
<1>2. run' \in RunType
  <2>1. run \in RunType
    BY DEF Tracked, GatewayType
  <2>2. CASE \E s : Returns(s)
    BY <2>1, <2>2, ReturnsType
  <2>3. CASE LET half == run.offer \div 2
                 last == run.at = NumLeases
             IN  run' = [run EXCEPT !.renewAfter = IF half < @ THEN half ELSE @,
                                    !.at = IF last THEN @ ELSE @ + 1,
                                    !.ok = last]
    <3> DEFINE half == run.offer \div 2
               last == run.at = NumLeases
               r == IF half < run.renewAfter THEN half ELSE run.renewAfter
               a == IF last THEN run.at ELSE run.at + 1
    <3>1. run.offer \in Nat
      BY <2>1, OfferNat
    <3>2. r \in Nat /\ a \in Lease
      BY <2>1, <3>1, LeaseAssumption DEF RunType, Lease
    <3>3. last \in BOOLEAN
      OBVIOUS
    <3>4. run' = [run EXCEPT !.renewAfter = r, !.at = a, !.ok = last]
      BY <2>1, <2>3 DEF RunType
    <3> HIDE DEF r, a, last
    <3> QED
      BY <2>1, <3>2, <3>3, <3>4 DEF RunType
  <2> QED
    BY <2>2, <2>3 DEF ReceiveMap
<1> QED
  BY <1>1, <1>2 DEF Tracked, GatewayType, MappingsAreTracked

\* After a failure a lease is unmarked only if a deletion was sent for it.
LEMMA FinishRunTracked ==
  ASSUME Tracked, FinishRun
  PROVE  Tracked'
<1>1. CASE run.ok
  BY <1>1, NoRunType DEF FinishRun, Tracked, GatewayType, MappingsAreTracked
<1>2. CASE ~run.ok
  <2>1. PICK D \in SUBSET Sent : maps' = Removed(D)
    BY <1>2 DEF FinishRun
  <2>2. /\ session'.issued = session.issued \ Sent
        /\ session' \in [protocol : {"PCP", "NATPMP"}, established : BOOLEAN,
                         issued : SUBSET Lease]
    <3>1. session' = [session EXCEPT !.established = FALSE, !.issued = session.issued \ Sent]
      BY <1>2 DEF FinishRun
    <3> QED
      BY <3>1 DEF Tracked, GatewayType
  <2>3. run' = NoRun
    BY DEF FinishRun
  <2> QED
    BY <2>1, <2>2, <2>3, RemovedKeeps, NoRunType
    DEF Tracked, GatewayType, MappingsAreTracked
<1> QED
  BY <1>1, <1>2

-------------------------------------------------------------------------------
(***************************************************************************)
(* Time, and the main thread                                               *)
(***************************************************************************)

\* A mapping that expires is not current any more.
LEMMA TickTracked ==
  ASSUME Tracked, Tick
  PROVE  Tracked'
<1>1. /\ maps' \in [Lease -> [by : {"none", "current", "lost", "old", "nat"}, left : Nat]]
      /\ \A l \in Lease : maps'[l].by = "current" => maps[l].by = "current"
  BY DEF Tracked, GatewayType, Tick, NoMap
<1> QED
  BY <1>1 DEF Tracked, GatewayType, MappingsAreTracked, Tick

\* Steps that do not touch what the invariant is about.
LEMMA QuietTracked ==
  ASSUME Tracked, UNCHANGED <<maps, session, run>>
  PROVE  Tracked'
BY DEF Tracked, GatewayType, MappingsAreTracked

(***************************************************************************)
(* What a step of the main thread or a timer does to the mappings: all are *)
(* removed, and the session is reset, once the worker has ended; a renewal *)
(* is started; or they are left alone.                                     *)
(***************************************************************************)
Resets ==
  /\ IsReady
  /\ maps' \in Cleared /\ session' = NewSession
  /\ forwarded' # "true"
  /\ \/ wpc' = "open" /\ age' = 0
     \/ UNCHANGED <<wpc, age>>

Renews ==
  /\ IsReady /\ CanRefresh
  /\ Launch(TRUE)
  /\ UNCHANGED <<maps, session>>

Keeps ==
  /\ UNCHANGED <<maps, session, wpc, age>>
  /\ forwarded' = "false" \/ UNCHANGED <<forwarded, expiresIn>>

MainKeeps == UNCHANGED run /\ (Resets \/ Renews \/ Keeps)

LEMMA MapperKeeps ==
  ASSUME UNCHANGED mapperVars
  PROVE  MainKeeps
BY DEF MainKeeps, Keeps, mapperVars, implVars, timeVars, workVars

LEMMA DeleteKeeps ==
  ASSUME IsReady, DeletePorts
  PROVE  MainKeeps
BY DEF DeletePorts, MainKeeps, Resets, workVars

LEMMA RestartKeeps ==
  ASSUME NEW home, Restart(home)
  PROVE  MainKeeps
<1>1. CASE UNCHANGED mapperVars
  BY <1>1, MapperKeeps
<1>2. CASE IsReady /\ StartDiscovery
  BY <1>2 DEF StartDiscovery, Launch, MainKeeps, Resets, workVars
<1>3. CASE UNCHANGED <<maps, session, asked, implVars, timeVars, workVars>>
  BY <1>3 DEF MainKeeps, Keeps, implVars, timeVars, workVars
<1> QED
  BY <1>1, <1>2, <1>3 DEF Restart

LEMMA HandlerKeeps ==
  ASSUME Handler
  PROVE  MainKeeps
<1>1. CASE Startup
  BY <1>1, RestartKeeps, MapperKeeps DEF Startup
<1>2. CASE OnUPnPResult \/ FallBack \/ SelectMini \/ SwitchImplementation
  BY <1>2 DEF OnUPnPResult, FallBack, SelectMini, SwitchImplementation, MainKeeps, Keeps,
     implVars, timeVars, workVars
<1>3. CASE TimedOut
  BY <1>3, DeleteKeeps, MapperKeeps DEF TimedOut, Joined
<1>4. CASE SetupFails
  BY <1>4, MapperKeeps DEF SetupFails
<1>5. CASE RemoveLeases \/ Closed
  BY <1>5, DeleteKeeps DEF RemoveLeases, Closed, MainKeeps, Keeps, timeVars, workVars
<1> QED
  BY <1>1, <1>2, <1>3, <1>4, <1>5 DEF Handler

LEMMA UserKeeps ==
  ASSUME User
  PROVE  MainKeeps
<1>1. CASE UserConnects \/ Disconnects
  BY <1>1, MapperKeeps DEF UserConnects, Disconnects
<1>2. CASE LowId \/ Resume
  <2>1. PICK answer \in BOOLEAN : RefreshUPnP(answer)
    BY <1>2 DEF LowId, Resume
  <2>2. CASE IsReady /\ CanRefresh /\ Launch(TRUE) /\ UNCHANGED <<maps, session>>
    BY <2>2 DEF MainKeeps, Renews, Launch
  <2>3. CASE UNCHANGED <<maps, session, forwarded, timeVars, workVars>>
    BY <2>3 DEF MainKeeps, Keeps, timeVars, workVars
  <2> QED
    BY <2>1, <2>2, <2>3, MapperKeeps DEF RefreshUPnP
<1>3. CASE SwitchOption \/ Wizard
  BY <1>3, RestartKeeps, MapperKeeps DEF SwitchOption, Wizard
<1>4. CASE Close
  BY <1>4, MapperKeeps DEF Close, JoinWorker, MainKeeps, Keeps, timeVars, workVars
<1> QED
  BY <1>1, <1>2, <1>3, <1>4 DEF User

\* Steps of the main thread and its timers
LEMMA OtherKeeps ==
  ASSUME [Next]_vars
  PROVE  MainKeeps \/ Work \/ Tick
<1>1. CASE UNCHANGED vars
  BY <1>1, MapperKeeps DEF vars
<1>2. CASE UPnPTimeOutTimer \/ SearchEnds \/ StopLeases
  BY <1>2 DEF UPnPTimeOutTimer, SearchEnds, StopLeases, JoinWorker, MainKeeps, Keeps,
     implVars, timeVars, workVars
<1>3. CASE RenewLeases
  <2>1. CASE Launch(TRUE) /\ IsReady /\ CanRefresh /\ UNCHANGED <<maps, session>>
    BY <2>1 DEF MainKeeps, Renews, Launch
  <2> QED
    BY <1>3, <2>1 DEF RenewLeases, CanRefresh, MainKeeps, Keeps, workVars
<1>4. CASE NetworkChanges
  BY <1>4 DEF NetworkChanges, MainKeeps, Keeps, implVars, timeVars, workVars
<1> QED
  BY <1>1, <1>2, <1>3, <1>4, HandlerKeeps, UserKeeps DEF Next

\* A reset of the session knows none of the mappings.
LEMMA MainTracked ==
  ASSUME Tracked, MainKeeps
  PROVE  Tracked'
BY ClearedTracked, QuietTracked DEF MainKeeps, Resets, Renews, Keeps

LEMMA WorkTracked ==
  ASSUME Tracked, Work
  PROVE  Tracked'
<1>1. CASE ReportResult \/ WorkEnds
  BY <1>1, QuietTracked DEF ReportResult, WorkEnds
<1> QED
  BY <1>1, DiscoveryTracked, SendMapTracked, ReceiveMapTracked, FinishRunTracked
  DEF Work

LEMMA NextTracked == Tracked /\ [Next]_vars => Tracked'
BY OtherKeeps, MainTracked, WorkTracked, TickTracked

\* Whatever the gateway grants can be removed: for any leases and events, the
\* nonce of a PCP mapping is kept until a deletion was sent (RemoveOwnedPcpMappings).
THEOREM MappingsCanBeRemoved == Spec => []MappingsAreTracked
<1>1. Tracked => MappingsAreTracked
  BY DEF Tracked
<1> QED
  BY <1>1, InitTracked, NextTracked, PTL DEF Spec

-------------------------------------------------------------------------------
(***************************************************************************)
(* The types of all variables; an active mapper is not left to try.        *)
(***************************************************************************)
MessageType == [res : {"ok", "failed", "timeout"}, refresh : BOOLEAN]

\* The types of what only the mapper and its worker change.
FlagType ==
  /\ net \in BOOLEAN
  /\ asked \in BOOLEAN /\ cancel \in BOOLEAN /\ allowFallback \in BOOLEAN
  /\ forwarded \in {"false", "unknown", "true"}
  /\ wants \in BOOLEAN /\ refresh \in BOOLEAN /\ leaseTimer \in BOOLEAN
  /\ wpc \in {"none", "open", "probe", "nat", "recheck", "map", "await", "tail",
              "report", "last"}

TimeType == renewIn \in Nat /\ expiresIn \in Nat /\ age \in {0, 1}

QueueType == queue \in Seq(MessageType)

SetupType ==
  /\ active \in Impl /\ avail \subseteq Impl \ {active}
  /\ lastWorking \in Impl
  /\ upnp \in {"idle", "searching", "refreshing"} /\ upnpWants \in BOOLEAN
  /\ enabled \in BOOLEAN /\ homeOnly \in BOOLEAN
  /\ timer \in BOOLEAN /\ delayed \in BOOLEAN /\ connecting \in BOOLEAN
  /\ mpc \in {"start", "idle", "timeout", "failed", "fallback", "disable",
              "close", "closed"}

OtherTypes == FlagType /\ TimeType /\ QueueType /\ SetupType

LEMMA PostType ==
  ASSUME NEW q \in Seq(MessageType), NEW res \in {"ok", "failed", "timeout"},
         NEW again \in BOOLEAN
  PROVE  Append(q, Message(res, again)) \in Seq(MessageType)
BY DEF Message, MessageType

LEMMA LaterType == \A n \in Nat, d \in {0, 1} : Later(n, d) \in Nat
BY DEF Later

LEMMA WorkTypes ==
  ASSUME FlagType, TimeType, QueueType, GatewayType, Work
  PROVE  FlagType' /\ TimeType' /\ QueueType'
<1>1. CASE OpenSocket
  BY <1>1 DEF OpenSocket, Goes, Returns, FlagType, TimeType, QueueType, implVars, timeVars
<1>2. CASE ProbePcp
  BY <1>2 DEF ProbePcp, Goes, FlagType, TimeType, QueueType, implVars, timeVars
<1>3. CASE ProbeNatPmp
  BY <1>3 DEF ProbeNatPmp, Goes, FlagType, TimeType, QueueType, implVars, timeVars
<1>4. CASE Recheck
  BY <1>4 DEF Recheck, Goes, Returns, FlagType, TimeType, QueueType, implVars, timeVars
<1>5. CASE SendMap
  <2>1. wpc' \in {"tail", "await"} /\ asked' \in BOOLEAN
    BY <1>5 DEF SendMap, Returns, FlagType
  <2>2. UNCHANGED <<net, implVars, timeVars, age, queue>>
    BY <1>5 DEF SendMap
  <2> QED
    BY <2>1, <2>2 DEF FlagType, TimeType, QueueType, implVars, timeVars
<1>6. CASE ReceiveMap
  <2>1. wpc' \in {"tail", "map"}
    BY <1>6 DEF ReceiveMap, Returns
  <2>2. UNCHANGED <<net, asked, implVars, timeVars, age, queue>>
    BY <1>6 DEF ReceiveMap
  <2> QED
    BY <2>1, <2>2 DEF FlagType, TimeType, QueueType, implVars, timeVars
<1>7. CASE FinishRun
  <2>1. run.renewAfter \in Nat /\ 2 * run.renewAfter \in Nat /\ run.allow \in BOOLEAN
    BY DEF GatewayType, RunType
  <2>2. TimeType'
    BY <1>7, <2>1, LaterType DEF FinishRun, FromStart, TimeType
  <2>3. FlagType' /\ QueueType'
    BY <1>7, <2>1 DEF FinishRun, FlagType, QueueType
  <2> QED
    BY <2>2, <2>3
<1>8. CASE ReportResult
  <2>1. queue' = queue \/ \E res \in {"ok", "failed"} : queue' = Append(queue, Message(res, refresh))
    BY <1>8 DEF ReportResult, SendResultMessage
  <2>2. QueueType'
    BY <2>1, PostType DEF FlagType, QueueType
  <2> QED
    BY <1>8, <2>2 DEF ReportResult, SendResultMessage, FlagType, TimeType, timeVars
<1>9. CASE WorkEnds
  BY <1>9 DEF WorkEnds, FlagType, TimeType, QueueType, implVars, timeVars
<1> QED
  BY <1>1, <1>2, <1>3, <1>4, <1>5, <1>6, <1>7, <1>8, <1>9 DEF Work

LEMMA TickTypes ==
  ASSUME FlagType, TimeType, QueueType, Tick \/ NetworkChanges
  PROVE  FlagType' /\ TimeType' /\ QueueType'
<1>1. CASE Tick
  <2>1. TimeType'
    BY <1>1, LaterType DEF Tick, TimeType
  <2> QED
    BY <1>1, <2>1 DEF Tick, FlagType, QueueType, implVars
<1>2. CASE NetworkChanges
  BY <1>2 DEF NetworkChanges, FlagType, TimeType, QueueType, implVars, timeVars, workVars
<1> QED
  BY <1>1, <1>2

LEMMA StartDiscoveryTypes ==
  ASSUME FlagType, TimeType, QueueType, StartDiscovery, UNCHANGED net
  PROVE  FlagType' /\ TimeType' /\ QueueType'
<1>1. FlagType' /\ TimeType'
  BY DEF FlagType, TimeType, StartDiscovery, Launch, timeVars, workVars
<1>2. QueueType'
  BY PostType DEF QueueType, StartDiscovery
<1> QED
  BY <1>1, <1>2

LEMMA DeletePortsTypes ==
  ASSUME FlagType, TimeType, DeletePorts, UNCHANGED net
  PROVE  FlagType' /\ TimeType'
BY DEF FlagType, TimeType, DeletePorts, Stopped, workVars

LEMMA MapperQuiet ==
  ASSUME FlagType, TimeType, QueueType, UNCHANGED mapperVars
  PROVE  FlagType' /\ TimeType' /\ QueueType'
BY DEF FlagType, TimeType, QueueType, mapperVars, implVars, timeVars, workVars

LEMMA StartSearchTypes ==
  ASSUME QueueType, SetupType, StartSearch
  PROVE  /\ QueueType'
         /\ upnp' \in {"idle", "searching", "refreshing"} /\ upnpWants' \in BOOLEAN
         /\ timer' \in BOOLEAN
BY PostType DEF QueueType, SetupType, StartSearch, Post, upnpVars

LEMMA RestartTypes ==
  ASSUME OtherTypes, NEW home \in BOOLEAN, Restart(home)
  PROVE  /\ FlagType' /\ TimeType' /\ QueueType'
         /\ active' \in Impl /\ avail' \subseteq Impl \ {active'}
         /\ upnp' \in {"idle", "searching", "refreshing"} /\ upnpWants' \in BOOLEAN
         /\ timer' \in BOOLEAN
<1>1. CASE UNCHANGED <<mapperVars, active, avail, upnpVars, timer>>
  BY <1>1, MapperQuiet DEF OtherTypes, SetupType, upnpVars
<1>2. CASE /\ active' = IF home THEN "pcp" ELSE "mini"
           /\ avail' = Impl \ {FirstImpl(home), active'}
           /\ UNCHANGED net
  <2>1. active' \in Impl /\ avail' \subseteq Impl \ {active'}
    BY <1>2 DEF Impl
  <2>2. CASE StartDiscovery /\ timer' = TRUE /\ UNCHANGED upnpVars
    <3>1. FlagType' /\ TimeType' /\ QueueType'
      BY <1>2, <2>2, StartDiscoveryTypes DEF OtherTypes
    <3>2. /\ upnp' \in {"idle", "searching", "refreshing"} /\ upnpWants' \in BOOLEAN
          /\ timer' \in BOOLEAN
      BY <2>2 DEF OtherTypes, SetupType, upnpVars
    <3> QED
      BY <2>1, <3>1, <3>2
  <2>3. CASE /\ \/ Post("failed") /\ UNCHANGED <<upnpVars, timer>>
                \/ StartSearch
             /\ UNCHANGED <<maps, session, asked, implVars, timeVars, workVars>>
    <3>1. FlagType' /\ TimeType'
      BY <1>2, <2>3 DEF OtherTypes, FlagType, TimeType, implVars, timeVars, workVars
    <3>2. /\ QueueType'
          /\ upnp' \in {"idle", "searching", "refreshing"} /\ upnpWants' \in BOOLEAN
          /\ timer' \in BOOLEAN
      <4>1. CASE StartSearch
        BY <4>1, StartSearchTypes DEF OtherTypes
      <4>2. CASE Post("failed") /\ UNCHANGED <<upnpVars, timer>>
        BY <4>2, PostType DEF OtherTypes, SetupType, QueueType, Post, upnpVars
      <4> QED
        BY <2>3, <4>1, <4>2
    <3> QED
      BY <2>1, <3>1, <3>2
  <2> QED
    BY <1>1, <2>2, <2>3 DEF Restart
<1> QED
  BY <1>1, <1>2 DEF Restart

LEMMA ContinueTypes ==
  ASSUME QueueType, SetupType, Continue
  PROVE  /\ QueueType'
         /\ upnp' \in {"idle", "searching", "refreshing"} /\ upnpWants' \in BOOLEAN
         /\ timer' \in BOOLEAN
BY StartSearchTypes DEF QueueType, SetupType, Continue, upnpVars

LEMMA ConcludeTypes ==
  ASSUME SetupType, NEW ok \in BOOLEAN, Conclude(ok)
  PROVE  /\ lastWorking' \in Impl
         /\ timer' \in BOOLEAN /\ delayed' \in BOOLEAN /\ connecting' \in BOOLEAN
BY DEF SetupType, Conclude, StartConnection

LEMMA HandlerTypes ==
  ASSUME OtherTypes, Handler
  PROVE  OtherTypes'
<1> USE DEF OtherTypes
<1>1. CASE Startup
  <2>1. CASE Restart(homeOnly)
    <3>1. homeOnly \in BOOLEAN
      BY DEF SetupType
    <3>2. /\ FlagType' /\ TimeType' /\ QueueType'
          /\ active' \in Impl /\ avail' \subseteq Impl \ {active'}
          /\ upnp' \in {"idle", "searching", "refreshing"} /\ upnpWants' \in BOOLEAN
          /\ timer' \in BOOLEAN
      BY <2>1, <3>1, RestartTypes
    <3> QED
      BY <1>1, <3>2 DEF Startup, SetupType, prefVars
  <2>2. CASE UNCHANGED <<mapperVars, active, avail, upnpVars, timer>>
    BY <1>1, <2>2, MapperQuiet DEF Startup, SetupType, upnpVars, prefVars
  <2> QED
    BY <1>1, <2>1, <2>2 DEF Startup
<1>2. CASE OnUPnPResult
  <2>1. Head(queue) \in MessageType /\ QueueType'
    BY <1>2 DEF OnUPnPResult, QueueType
  <2>2. TimeType' /\ FlagType'
    <3>1. cancel' \in BOOLEAN
      BY <1>2 DEF OnUPnPResult, FlagType
    <3>2. UNCHANGED <<net, asked, allowFallback, forwarded, wants, refresh, leaseTimer,
                      timeVars, workVars>>
      BY <1>2 DEF OnUPnPResult
    <3> QED
      BY <3>1, <3>2 DEF FlagType, TimeType, timeVars, workVars
  <2>3. SetupType'
    <3> DEFINE m == Head(queue)
    <3>1. CASE Conclude(m.res = "ok" /\ ~m.refresh) /\ UNCHANGED mpc
      <4>1. (m.res = "ok" /\ ~m.refresh) \in BOOLEAN
        OBVIOUS
      <4>2. /\ lastWorking' \in Impl
            /\ timer' \in BOOLEAN /\ delayed' \in BOOLEAN /\ connecting' \in BOOLEAN
        BY <3>1, <4>1, ConcludeTypes
      <4> QED
        BY <1>2, <3>1, <4>2 DEF OnUPnPResult, SetupType, upnpVars, prefVars
    <3>2. CASE mpc' = m.res /\ m.res # "ok" /\ UNCHANGED <<lastWorking, connVars>>
      BY <1>2, <2>1, <3>2 DEF OnUPnPResult, SetupType, upnpVars, prefVars, connVars, MessageType
    <3> QED
      BY <1>2, <3>1, <3>2 DEF OnUPnPResult
  <2> QED
    BY <2>1, <2>2, <2>3
<1>3. CASE TimedOut
  <2>1. SetupType'
    BY <1>3 DEF TimedOut, SetupType, wrapVars, upnpVars, prefVars, connVars
  <2> QED
    BY <1>3, <2>1, DeletePortsTypes, MapperQuiet DEF TimedOut, QueueType
<1>4. CASE FallBack
  <2>1. SetupType'
    BY <1>4 DEF FallBack, SetupType, wrapVars, upnpVars, prefVars, connVars
  <2> QED
    BY <1>4, <2>1 DEF FallBack, FlagType, TimeType, QueueType, timeVars, workVars
<1>5. CASE SelectMini
  <2>1. FlagType' /\ TimeType'
    BY <1>5 DEF SelectMini, Stopped, FlagType, TimeType, timeVars, workVars
  <2>2. CASE SelectUpnp /\ Continue /\ UNCHANGED <<lastWorking, delayed, connecting>>
    <3>1. /\ QueueType'
          /\ upnp' \in {"idle", "searching", "refreshing"} /\ upnpWants' \in BOOLEAN
          /\ timer' \in BOOLEAN
      BY <2>2, ContinueTypes
    <3> QED
      BY <1>5, <2>1, <2>2, <3>1 DEF SelectMini, SelectUpnp, SetupType, prefVars, Impl
  <2>3. CASE Conclude(FALSE) /\ UNCHANGED <<active, avail, upnpVars, queue>>
    <3>1. /\ lastWorking' \in Impl
          /\ timer' \in BOOLEAN /\ delayed' \in BOOLEAN /\ connecting' \in BOOLEAN
      BY <2>3, ConcludeTypes
    <3> QED
      BY <1>5, <2>1, <2>3, <3>1 DEF SelectMini, SetupType, QueueType, upnpVars, prefVars
  <2> QED
    BY <1>5, <2>2, <2>3 DEF SelectMini
<1>6. CASE SwitchImplementation
  <2>1. FlagType' /\ TimeType'
    BY <1>6 DEF SwitchImplementation, FlagType, TimeType, implVars, timeVars, workVars
  <2>2. /\ QueueType'
        /\ upnp' \in {"idle", "searching", "refreshing"} /\ upnpWants' \in BOOLEAN
        /\ timer' \in BOOLEAN
    BY <1>6, ContinueTypes DEF SwitchImplementation
  <2> QED
    BY <1>6, <2>1, <2>2 DEF SwitchImplementation, SelectUpnp, SetupType, prefVars, Impl
<1>7. CASE SetupFails
  <2>1. /\ lastWorking' \in Impl
        /\ timer' \in BOOLEAN /\ delayed' \in BOOLEAN /\ connecting' \in BOOLEAN
    BY <1>7, ConcludeTypes DEF SetupFails
  <2> QED
    BY <1>7, <2>1, MapperQuiet DEF SetupFails, SetupType, upnpVars, prefVars
<1>8. CASE RemoveLeases
  <2>1. SetupType'
    BY <1>8 DEF RemoveLeases, SetupType, wrapVars, upnpVars, prefVars, connVars
  <2> QED
    BY <1>8, <2>1, DeletePortsTypes DEF RemoveLeases, QueueType
<1>9. CASE Closed
  <2>1. SetupType'
    BY <1>9 DEF Closed, SetupType, wrapVars, upnpVars, prefVars, connVars
  <2>2. FlagType' /\ TimeType'
    <3>1. CASE DeletePorts
      BY <1>9, <3>1, DeletePortsTypes DEF Closed
    <3>2. CASE Stopped /\ UNCHANGED <<maps, session, asked, cancel, allowFallback, forwarded,
                                      refresh, timeVars, workVars>>
      BY <1>9, <3>2 DEF Closed, Stopped, FlagType, TimeType, timeVars, workVars
    <3> QED
      BY <1>9, <3>1, <3>2 DEF Closed
  <2> QED
    BY <1>9, <2>1, <2>2 DEF Closed, QueueType
<1> QED
  BY <1>1, <1>2, <1>3, <1>4, <1>5, <1>6, <1>7, <1>8, <1>9 DEF Handler

LEMMA UserTypes ==
  ASSUME OtherTypes, User
  PROVE  OtherTypes'
<1> USE DEF OtherTypes
<1>1. CASE UserConnects \/ Disconnects
  <2>1. SetupType'
    BY <1>1 DEF UserConnects, Disconnects, StartConnection, SetupType, wrapVars, upnpVars,
       prefVars
  <2> QED
    BY <1>1, <2>1, MapperQuiet DEF UserConnects, Disconnects
<1>2. ASSUME NEW answer \in BOOLEAN, RefreshUPnP(answer)
      PROVE  /\ FlagType' /\ TimeType' /\ QueueType'
             /\ upnp' \in {"idle", "searching", "refreshing"} /\ upnpWants' \in BOOLEAN
             /\ timer' \in BOOLEAN
  <2>1. CASE UNCHANGED mapperVars
    BY <1>2, <2>1, MapperQuiet DEF RefreshUPnP, SetupType, upnpVars
  <2>2. CASE active = "pcp" /\ enabled /\ (homeOnly => net) /\ ~timer
    <3>0. UNCHANGED <<net, asked, allowFallback, leaseTimer, timeVars, queue>>
      BY <1>2, <2>2 DEF RefreshUPnP
    <3>1. ASSUME Launch(TRUE), wants' = answer
          PROVE  FlagType' /\ TimeType'
      <4>1. wants' \in BOOLEAN /\ cancel' = FALSE /\ forwarded' = "unknown" /\ refresh' = TRUE
            /\ wpc' = "open" /\ age' = 0
        BY <1>2, <3>1 DEF Launch
      <4> QED
        BY <3>0, <4>1 DEF FlagType, TimeType, timeVars
    <3>2. ASSUME wants' = (wants /\ ~IsReady),
                 UNCHANGED <<cancel, forwarded, refresh, workVars>>
          PROVE  FlagType' /\ TimeType'
      <4>1. wants' \in BOOLEAN
        BY <3>2
      <4>2. UNCHANGED <<cancel, forwarded, refresh, wpc, age>>
        BY <3>2 DEF workVars
      <4> QED
        BY <3>0, <4>1, <4>2 DEF FlagType, TimeType, timeVars
    <3>3. FlagType' /\ TimeType'
      BY <1>2, <2>2, <3>1, <3>2 DEF RefreshUPnP
    <3> QED
      BY <1>2, <2>2, <3>0, <3>3 DEF RefreshUPnP, SetupType, upnpVars, QueueType
  <2> QED
    BY <1>2, <2>1, <2>2 DEF RefreshUPnP
<1>3. CASE LowId
  <2>1. RefreshUPnP(FALSE)
    BY <1>3 DEF LowId
  <2> QED
    BY <1>2, <1>3, <2>1 DEF LowId, SetupType, wrapVars, prefVars
<1>4. CASE Resume
  <2>1. RefreshUPnP(TRUE)
    BY <1>4 DEF Resume
  <2> QED
    BY <1>2, <1>4, <2>1 DEF Resume, SetupType, wrapVars, prefVars
<1>5. ASSUME NEW home \in BOOLEAN, Restart(home) \/ UNCHANGED <<mapperVars, active, avail, upnpVars, timer>>
      PROVE  /\ FlagType' /\ TimeType' /\ QueueType'
             /\ active' \in Impl /\ avail' \subseteq Impl \ {active'}
             /\ upnp' \in {"idle", "searching", "refreshing"} /\ upnpWants' \in BOOLEAN
             /\ timer' \in BOOLEAN
  BY <1>5, RestartTypes, MapperQuiet DEF SetupType, upnpVars
<1>6. CASE SwitchOption
  <2>1. homeOnly \in BOOLEAN /\ enabled' \in BOOLEAN
    BY <1>6 DEF SwitchOption, SetupType
  <2>2. Restart(homeOnly) \/ UNCHANGED <<mapperVars, active, avail, upnpVars, timer>>
    BY <1>6 DEF SwitchOption
  <2> QED
    BY <1>5, <1>6, <2>1, <2>2 DEF SwitchOption, SetupType
<1>7. CASE Wizard
  <2>1. homeOnly' \in BOOLEAN /\ enabled' \in BOOLEAN
    BY <1>7 DEF Wizard
  <2>2. Restart(TRUE) \/ UNCHANGED <<mapperVars, active, avail, upnpVars, timer>>
    BY <1>7 DEF Wizard
  <2> QED
    BY <1>5, <1>7, <2>1, <2>2 DEF Wizard, SetupType
<1>8. CASE Close
  <2>1. CASE UNCHANGED mapperVars
    BY <1>8, <2>1, MapperQuiet DEF Close, JoinWorker, SetupType, wrapVars, upnpVars, prefVars, connVars
  <2>2. CASE JoinWorker("close")
    BY <2>2 DEF JoinWorker, FlagType, TimeType, QueueType, SetupType, timeVars, workVars,
       wrapVars, upnpVars, prefVars, connVars
  <2> QED
    BY <1>8, <2>1, <2>2 DEF Close
<1> QED
  BY <1>1, <1>3, <1>4, <1>6, <1>7, <1>8 DEF User

LEMMA TypeParts == TypeOK <=> OtherTypes /\ GatewayType
<1>1. MapperTypeOK <=> FlagType /\ TimeType /\ QueueType /\ GatewayType
  BY Zenon DEF MapperTypeOK, FlagType, TimeType, QueueType, GatewayType, RunType, MessageType
<1> QED
  BY <1>1, Zenon DEF TypeOK, OtherTypes, SetupType

LEMMA NextTypes == TypeOK /\ Tracked /\ [Next]_vars => TypeOK'
<1> SUFFICES ASSUME TypeOK, Tracked, [Next]_vars PROVE TypeOK'
  OBVIOUS
<1>1. OtherTypes /\ GatewayType
  BY TypeParts
<1>2. GatewayType'
  BY NextTracked DEF Tracked
<1>3. OtherTypes'
  <2> USE <1>1 DEF OtherTypes
  <2>1. CASE UNCHANGED vars
    BY <2>1, MapperQuiet DEF vars, SetupType, wrapVars, upnpVars, prefVars, connVars
  <2>2. CASE UPnPTimeOutTimer
    <3>1. QueueType'
      BY <2>2, PostType DEF UPnPTimeOutTimer, Post, QueueType
    <3> QED
      BY <2>2, <3>1 DEF UPnPTimeOutTimer, FlagType, TimeType, SetupType, implVars, timeVars,
         workVars, wrapVars, upnpVars, prefVars, connVars
  <2>3. CASE SearchEnds
    <3>1. (upnp = "refreshing") \in BOOLEAN
      OBVIOUS
    <3>2. QueueType'
      <4>1. PICK res \in {"ok", "failed"} :
              queue' = queue \/ queue' = Append(queue, Message(res, upnp = "refreshing"))
        BY <2>3, SMTT(20) DEF SearchEnds
      <4> QED
        BY <3>1, <4>1, PostType DEF QueueType
    <3>3. FlagType' /\ TimeType'
      BY <2>3 DEF SearchEnds, FlagType, TimeType, implVars, timeVars, workVars
    <3> QED
      BY <2>3, <3>2, <3>3 DEF SearchEnds, SetupType, wrapVars, prefVars, connVars
  <2>4. CASE RenewLeases
    <3>1. SetupType' /\ QueueType'
      BY <2>4 DEF RenewLeases, QueueType, SetupType, wrapVars, upnpVars, prefVars, connVars
    <3>2. TimeType'
      BY <2>4 DEF RenewLeases, Launch, TimeType, workVars
    <3> QED
      BY <2>4, <3>1, <3>2 DEF RenewLeases, Launch, FlagType, workVars
  <2>5. CASE StopLeases
    BY <2>5 DEF StopLeases, JoinWorker, FlagType, TimeType, QueueType, SetupType,
       timeVars, workVars, wrapVars, upnpVars, prefVars, connVars
  <2>6. CASE (Work \/ Tick \/ NetworkChanges) /\ UNCHANGED setupVars
    <3>1. SetupType'
      BY <2>6 DEF SetupType, setupVars, wrapVars, upnpVars, prefVars, connVars
    <3> QED
      BY <2>6, <3>1, WorkTypes, TickTypes
  <2> QED
    BY <2>1, <2>2, <2>3, <2>4, <2>5, <2>6, HandlerTypes, UserTypes DEF Next
<1> QED
  BY <1>2, <1>3, TypeParts, PTL

LEMMA InitTypes == Init => TypeOK
<1> SUFFICES ASSUME Init PROVE TypeOK
  OBVIOUS
<1>1. GatewayType
  BY InitTracked DEF Tracked
<1>2. active \in Impl /\ avail \subseteq Impl \ {active} /\ lastWorking \in Impl
  BY ImplAssumption DEF Init, FirstImpl, Impl
<1>3. FlagType /\ TimeType
  BY DEF Init, InitMapper, FlagType, TimeType
<1>4. QueueType
  BY DEF Init, InitMapper, QueueType
<1>5. SetupType
  BY <1>2 DEF Init, SetupType
<1> QED
  BY <1>1, <1>3, <1>4, <1>5, TypeParts DEF OtherTypes

\* Both modules keep their types, and UPnPSetup never has the active mapper
\* among those that are left to try (CUPnPImplWrapper).
THEOREM TypeCorrect == Spec => []TypeOK
<1> QED
  BY InitTypes, InitTracked, NextTypes, NextTracked, PTL DEF Spec

\* What the invariants below use of it.
LEMMA Types == Spec => [](GatewayType /\ OtherTypes)
  BY TypeCorrect, TypeParts, PTL

-------------------------------------------------------------------------------
(***************************************************************************)
(* A fallback only when no MAP request was sent: discovery probes only if  *)
(* the session is new or a renewal checks an established one, and the      *)
(* verdict of a failed probe is read before the next attempt.              *)
(***************************************************************************)
Unmapped ==
  /\ mpc = "fallback" => allowFallback
  /\ allowFallback => ~asked /\ ~session.established /\ wpc \in {"none", "report", "last"}
  /\ run.allow => ~asked /\ ~run.ok /\ wpc = "tail"
  /\ run.ok => wpc = "tail"
  /\ wpc \in {"probe", "nat"} => ~asked
  /\ wpc = "open" => session.established \/ ~asked

LEMMA WorkUnmapped ==
  ASSUME Unmapped, GatewayType, Work, UNCHANGED mpc
  PROVE  Unmapped'
<1>1. run \in RunType /\ session \in [protocol : {"PCP", "NATPMP"}, established : BOOLEAN,
                  issued : SUBSET Lease]
  BY DEF GatewayType
<1>2. CASE OpenSocket
  BY <1>1, <1>2 DEF OpenSocket, Goes, Returns, Unmapped, RunType, implVars
<1>3. CASE ProbePcp
  BY <1>1, <1>3 DEF ProbePcp, Goes, Unmapped, RunType, implVars
<1>4. CASE ProbeNatPmp
  BY <1>1, <1>4 DEF ProbeNatPmp, Goes, Unmapped, RunType, implVars
<1>5. CASE Recheck
  BY <1>1, <1>5 DEF Recheck, Goes, Returns, Unmapped, RunType, implVars
<1>6. CASE SendMap
  BY <1>1, <1>6 DEF SendMap, Returns, Unmapped, RunType, implVars
<1>7. CASE ReceiveMap
  BY <1>1, <1>7 DEF ReceiveMap, Returns, Unmapped, RunType, implVars
<1>8. CASE FinishRun
  BY <1>1, <1>8 DEF FinishRun, Unmapped, RunType, NoRun
<1>9. CASE ReportResult \/ WorkEnds
  BY <1>9 DEF ReportResult, WorkEnds, Unmapped, implVars
<1> QED
  BY <1>2, <1>3, <1>4, <1>5, <1>6, <1>7, <1>8, <1>9 DEF Work

LEMMA UnmappedQuiet ==
  ASSUME Unmapped, UNCHANGED <<allowFallback, asked, session, wpc, run>>, mpc' # "fallback" \/ UNCHANGED mpc
  PROVE  Unmapped'
BY DEF Unmapped

LEMMA DeletePortsUnmapped ==
  ASSUME Unmapped, IsReady, DeletePorts, mpc' # "fallback"
  PROVE  Unmapped'
BY DEF Unmapped, IsReady, DeletePorts, NewSession, workVars

LEMMA LaunchUnmapped ==
  ASSUME Unmapped, IsReady, CanRefresh, Launch(TRUE),  UNCHANGED <<allowFallback, asked, session, mpc>>
  PROVE  Unmapped'
BY DEF Unmapped, IsReady, CanRefresh, Launch

LEMMA RestartUnmapped ==
  ASSUME Unmapped, NEW home, Restart(home), mpc # "fallback", mpc' # "fallback"
  PROVE  Unmapped'
<1>1. CASE UNCHANGED <<allowFallback, asked, session, wpc, run>>
  BY <1>1, UnmappedQuiet
<1>2. CASE StartDiscovery /\ IsReady
  BY <1>2 DEF StartDiscovery, IsReady, Launch, NewSession, Unmapped, workVars
<1> QED
  BY <1>1, <1>2 DEF Restart, mapperVars, implVars, workVars

LEMMA HandlerUnmapped ==
  ASSUME Unmapped, QueueType, Handler
  PROVE  Unmapped'
<1>1. CASE Startup
  BY <1>1, RestartUnmapped, UnmappedQuiet DEF Startup, mapperVars, implVars, workVars
<1>2. CASE OnUPnPResult
  <2>1. mpc' # "fallback"
    <3>1. Head(queue) \in MessageType
      BY <1>2 DEF OnUPnPResult, QueueType
    <3> QED
      BY <1>2, <3>1 DEF OnUPnPResult, MessageType
  <2> QED
    BY <1>2, <2>1, UnmappedQuiet DEF OnUPnPResult, workVars
<1>3. CASE TimedOut
  BY <1>3, DeletePortsUnmapped, UnmappedQuiet DEF TimedOut, Joined, mapperVars, implVars, workVars
<1>4. CASE FallBack
  BY <1>4 DEF FallBack, Unmapped, workVars
<1>5. CASE SelectMini
  BY <1>5, UnmappedQuiet DEF SelectMini, workVars
<1>6. CASE SwitchImplementation
  BY <1>6, UnmappedQuiet DEF SwitchImplementation, implVars, workVars
<1>7. CASE SetupFails
  BY <1>7, UnmappedQuiet DEF SetupFails, mapperVars, implVars, workVars
<1>8. CASE RemoveLeases
  BY <1>8, DeletePortsUnmapped DEF RemoveLeases
<1>9. CASE Closed
  BY <1>9, DeletePortsUnmapped, UnmappedQuiet DEF Closed, workVars
<1> QED
  BY <1>1, <1>2, <1>3, <1>4, <1>5, <1>6, <1>7, <1>8, <1>9 DEF Handler

LEMMA UserUnmapped ==
  ASSUME Unmapped, User
  PROVE  Unmapped'
<1>1. CASE UserConnects \/ Disconnects
  BY <1>1, UnmappedQuiet DEF UserConnects, Disconnects, mapperVars, implVars, workVars
<1>2. ASSUME NEW answer, RefreshUPnP(answer), UNCHANGED mpc PROVE Unmapped'
  BY <1>2, UnmappedQuiet, LaunchUnmapped DEF RefreshUPnP, mapperVars, implVars, workVars
<1>3. CASE LowId \/ Resume
  BY <1>2, <1>3 DEF LowId, Resume
<1>4. CASE SwitchOption
  BY <1>4, RestartUnmapped, UnmappedQuiet DEF SwitchOption, Idle, mapperVars, implVars, workVars
<1>5. CASE Wizard
  BY <1>5, RestartUnmapped, UnmappedQuiet DEF Wizard, Idle, mapperVars, implVars, workVars
<1>6. CASE Close
  BY <1>6, UnmappedQuiet DEF Close, JoinWorker, mapperVars, implVars, workVars
<1> QED
  BY <1>1, <1>3, <1>4, <1>5, <1>6 DEF User

LEMMA NextUnmapped == Unmapped /\ GatewayType /\ QueueType /\ [Next]_vars => Unmapped'
<1> SUFFICES ASSUME Unmapped, GatewayType, QueueType, [Next]_vars PROVE Unmapped'
  OBVIOUS
<1>1. CASE UNCHANGED vars
  BY <1>1, UnmappedQuiet DEF vars, mapperVars, implVars, workVars
<1>2. CASE UPnPTimeOutTimer \/ SearchEnds
  BY <1>2, UnmappedQuiet DEF UPnPTimeOutTimer, SearchEnds, implVars, workVars
<1>3. CASE RenewLeases
  <2>1. CASE Launch(TRUE)
    BY <1>3, <2>1, LaunchUnmapped DEF RenewLeases, CanRefresh
  <2> QED
    BY <1>3, <2>1, UnmappedQuiet DEF RenewLeases, workVars
<1>4. CASE StopLeases
  BY <1>4, UnmappedQuiet DEF StopLeases, JoinWorker, workVars
<1>5. CASE (Tick \/ NetworkChanges) /\ UNCHANGED mpc
  BY <1>5, UnmappedQuiet DEF Tick, NetworkChanges, implVars, workVars
<1> QED
  BY <1>1, <1>2, <1>3, <1>4, <1>5, HandlerUnmapped, UserUnmapped, WorkUnmapped
  DEF Next, setupVars

\* The fallback to UPnP is taken only if the attempt whose failure it follows sent
\* no MAP request, whatever results are still in the message queue (OnUPnPResult).
THEOREM FallbackNeverBypasses == Spec => []FallbackIsUnmapped
<1>1. Init => Unmapped
  BY DEF Init, InitMapper, Unmapped, NoRun, NewSession
<1>2. Unmapped => FallbackIsUnmapped
  BY DEF Unmapped, FallbackIsUnmapped
<1>3. GatewayType /\ OtherTypes /\ Unmapped /\ [Next]_vars => Unmapped'
  BY NextUnmapped DEF OtherTypes
<1> QED
  BY <1>1, <1>2, <1>3, Types, PTL DEF Spec

-------------------------------------------------------------------------------
(***************************************************************************)
(* Cleanup: a mapping of PCP belongs to a session of PCP, as the worker    *)
(* probes for another protocol only when the session is new.               *)
(***************************************************************************)

Owned ==
  /\ \A l \in Lease : maps[l].by = "current" => session.protocol = "PCP"
  /\ wpc \in {"probe", "nat"} \/ (wpc = "open" /\ ~session.established)
       => \A l \in Lease : maps[l].by # "current"

LEMMA OwnedQuiet ==
  ASSUME Owned, UNCHANGED <<maps, session>>,
         wpc' \notin {"open", "probe", "nat"} \/ UNCHANGED wpc
  PROVE  Owned'
BY DEF Owned

\* Operations of the main thread that remove the mappings, or leave them alone.
LEMMA ClearedOwned ==
  ASSUME Tracked, maps' \in Cleared, session' = NewSession
  PROVE  Owned'
BY ClearedForgets DEF Owned

\* What the gateway answers to a MAP request: the lease is mapped, or nothing is.
LEMMA SendMapMaps ==
  ASSUME Tracked, SendMap
  PROVE  \/ UNCHANGED maps
         \/ \E t \in Lifetimes :
              /\ run' = [run EXCEPT !.offer = t] /\ wpc' = "await"
              /\ maps' = [maps EXCEPT ![run.at] =
                   [by |-> IF session.protocol = "PCP" THEN "current" ELSE "nat",
                    left |-> t]]
BY DEF SendMap

LEMMA SendMapOwned ==
  ASSUME Tracked, SendMap, NEW l \in Lease
  PROVE  \/ maps'[l] = maps[l]
         \/ maps'[l].by = IF session.protocol = "PCP" THEN "current" ELSE "nat"
<1> DEFINE kind == IF session.protocol = "PCP" THEN "current" ELSE "nat"
<1> HIDE DEF kind
<1>1. UNCHANGED maps \/ \E t \in Lifetimes : maps' = [maps EXCEPT ![run.at] = [by |-> kind, left |-> t]]
  BY SendMapMaps DEF kind
<1>2. ASSUME NEW t, maps' = [maps EXCEPT ![run.at] = [by |-> kind, left |-> t]]
      PROVE  maps'[l] = maps[l] \/ maps'[l].by = kind
  <2>1. l \in DOMAIN maps
    BY DEF Tracked, GatewayType
  <2>2. maps'[l] = IF l = run.at THEN [by |-> kind, left |-> t] ELSE maps[l]
    BY <1>2, <2>1
  <2> QED
    BY <2>2
<1> QED
  BY <1>1, <1>2 DEF kind

LEMMA WorkOwned ==
  ASSUME Tracked, Owned, Work
  PROVE  Owned'
<1>1. CASE OpenSocket
  BY <1>1 DEF OpenSocket, Goes, Returns, Owned, Tracked, GatewayType
<1>2. CASE ProbePcp
  BY <1>2 DEF ProbePcp, Goes, Owned
<1>3. CASE ProbeNatPmp
  BY <1>3 DEF ProbeNatPmp, Goes, Owned
<1>4. CASE Recheck
  BY <1>4, OwnedQuiet DEF Recheck, Goes, Returns
<1>5. CASE SendMap
  <2>1. wpc' \in {"tail", "await"}
    BY <1>5 DEF SendMap, Returns
  <2>2. session'.protocol = session.protocol
    BY <1>5 DEF SendMap, MarksIssued, Tracked, GatewayType
  <2>3. \A l \in Lease : maps'[l].by = "current" =>
                           maps[l].by = "current" \/ session.protocol = "PCP"
    BY <1>5, SendMapOwned
  <2> QED
    BY <2>1, <2>2, <2>3 DEF Owned
<1>6. CASE ReceiveMap
  <2>1. wpc' \in {"tail", "map"}
    BY <1>6 DEF ReceiveMap, Returns
  <2>2. UNCHANGED maps /\ session'.protocol = session.protocol
    BY <1>6 DEF ReceiveMap, Tracked, GatewayType
  <2> QED
    BY <2>1, <2>2 DEF Owned
<1>7. CASE FinishRun
  <2>1. wpc' = "report" /\ session'.protocol = session.protocol
    BY <1>7 DEF FinishRun, Tracked, GatewayType
  <2>2. \A l \in Lease : maps'[l].by = "current" => maps[l].by = "current"
    BY <1>7, RemovedKeeps DEF FinishRun
  <2> QED
    BY <2>1, <2>2 DEF Owned
<1>8. CASE ReportResult \/ WorkEnds
  BY <1>8, OwnedQuiet DEF ReportResult, WorkEnds
<1> QED
  BY <1>1, <1>2, <1>3, <1>4, <1>5, <1>6, <1>7, <1>8 DEF Work

LEMMA LaunchOwned ==
  ASSUME Owned, CanRefresh, Launch(TRUE), UNCHANGED <<maps, session>>
  PROVE  Owned'
BY DEF Owned, CanRefresh, Launch

LEMMA MainOwned ==
  ASSUME Tracked, Owned, MainKeeps
  PROVE  Owned'
BY ClearedOwned, OwnedQuiet, LaunchOwned DEF MainKeeps, Resets, Renews, Keeps

LEMMA TickOwned ==
  ASSUME Tracked, Owned, Tick
  PROVE  Owned'
<1>1. \A l \in Lease : maps'[l].by = "current" => maps[l].by = "current"
  BY DEF Tracked, GatewayType, Tick, NoMap
<1> QED
  BY <1>1 DEF Owned, Tick

LEMMA NextOwned == Tracked /\ Owned /\ [Next]_vars => Owned'
BY OtherKeeps, MainOwned, WorkOwned, TickOwned

LEMMA OldOffNetwork ==
  ASSUME Tracked, Owned, [Next]_vars, NEW l \in Lease,
         maps[l].by = "current", maps'[l].by = "old"
  PROVE  ~net
<1>1. l \in session.issued /\ session.protocol = "PCP"
  BY DEF Tracked, MappingsAreTracked, Owned
<1>2. CASE MainKeeps
  <2>1. maps' \in Cleared
    BY <1>2 DEF MainKeeps, Resets, Renews, Keeps
  <2>2. PICK D \in SUBSET Sent : maps' = Forget(Removed(D))
    BY <2>1 DEF Cleared
  <2>3. Removed(D)[l].by = "current"
    BY <2>2 DEF Forget, Removed, Tracked, GatewayType, NoMap
  <2>4. l \notin Sent
    BY <2>3, RemovedKeeps
  <2> QED
    BY <1>1, <2>4 DEF Sent, CanRemove
<1>3. CASE Tick
  BY <1>3 DEF Tick, Tracked, GatewayType, NoMap
<1>4. CASE Work
  <2>1. CASE SendMap
    BY <2>1, SendMapOwned
  <2>2. CASE FinishRun
    BY <2>2 DEF FinishRun, Removed, Tracked, GatewayType, NoMap
  <2>3. CASE UNCHANGED maps
    BY <2>3
  <2> QED
    BY <1>4, <2>1, <2>2, <2>3
    DEF Work, OpenSocket, ProbePcp, ProbeNatPmp, Recheck, ReceiveMap, ReportResult, WorkEnds
<1> QED
  BY <1>2, <1>3, <1>4, OtherKeeps

\* On the network it was made on, a mapping is given up only after a deletion
\* was sent for it (RemoveOwnedPcpMappings before any reset of the session).
THEOREM CleanupBeforeReset == Spec => CleanupOnNetwork
<1> DEFINE Cleanup == \A l \in Lease : maps[l].by = "current" /\ maps'[l].by = "old" => ~net
<1>1. Init => Owned
  BY DEF Init, InitMapper, NoMap, Owned
<1>2. Tracked /\ Owned /\ [Next]_vars => [Cleanup]_vars
  BY OldOffNetwork
<1> HIDE DEF Cleanup
<1>3. Spec => [][Cleanup]_vars
  BY <1>1, <1>2, InitTracked, NextTracked, NextOwned, PTL DEF Spec
<1> QED
  BY <1>3 DEF CleanupOnNetwork, Cleanup

-------------------------------------------------------------------------------
(***************************************************************************)
(* One mapper at a time: UPnP searches only while it is active, and a      *)
(* worker of PCP is at most about to end when it loses that place.  A      *)
(* failure that is not handled yet means that the session is over.         *)
(***************************************************************************)

\* A mapper has reported that it failed, and this is not handled yet.
IsFailure(m) == m.res = "failed" /\ ~m.refresh
HasFailure(q) == \E i \in 1..Len(q) : IsFailure(q[i])
Failing == mpc = "failed" \/ HasFailure(queue)

OneActive ==
  /\ active \in Impl /\ queue \in Seq(MessageType)
  /\ mpc = "start" => queue = <<>> /\ upnp = "idle" /\ wpc = "none"
  /\ upnp # "idle" => active = "mini"
  /\ active = "mini" => wpc \in {"none", "last"} /\ (wpc = "last" => ~session.established)
  /\ active = "pcp" /\ Failing => wpc \in {"none", "last"} /\ ~session.established
  /\ wpc = "report" => forwarded = "true" \/ ~session.established

LEMMA FailureAppend ==
  ASSUME NEW q \in Seq(MessageType), NEW m \in MessageType
  PROVE  HasFailure(Append(q, m)) => HasFailure(q) \/ IsFailure(m)
BY DEF HasFailure

LEMMA FailureTail ==
  ASSUME NEW q \in Seq(MessageType), q # <<>>
  PROVE  /\ HasFailure(Tail(q)) => HasFailure(q)
         /\ IsFailure(Head(q)) => HasFailure(q)
         /\ Tail(q) \in Seq(MessageType) /\ Head(q) \in MessageType
BY DEF HasFailure

LEMMA FailureNone == ~HasFailure(<<>>)
BY DEF HasFailure

LEMMA MessageIsType ==
  ASSUME NEW res \in {"ok", "failed", "timeout"}, NEW again \in BOOLEAN
  PROVE  Message(res, again) \in MessageType /\ Message(res, again).res = res
         /\ Message(res, again).refresh = again
BY DEF Message, MessageType

\* Steps that change neither the mapper that is active nor what it does.
LEMMA OneQuiet ==
  ASSUME OneActive, QueueType', UNCHANGED <<active, session, wpc, forwarded>>,
         upnp' \in {upnp, "idle"}, active = "pcp" /\ Failing' => Failing, mpc' # "start"
  PROVE  OneActive'
BY DEF OneActive, QueueType

LEMMA OneSame ==
  ASSUME OneActive, UNCHANGED <<active, session, wpc, forwarded, upnp, queue>>, mpc' \notin {"failed", "start"} \/ UNCHANGED mpc
  PROVE  OneActive'
BY DEF OneActive, Failing

LEMMA WorkOne ==
  ASSUME OneActive, GatewayType, FlagType, Work, UNCHANGED setupVars
  PROVE  OneActive'
<1> USE DEF setupVars, wrapVars, upnpVars
<1>1. CASE OpenSocket \/ ProbePcp \/ ProbeNatPmp \/ Recheck \/ SendMap \/ ReceiveMap
  <2>1. wpc \notin {"none", "last"} /\ wpc' # "report" /\ UNCHANGED queue
    BY <1>1 DEF OpenSocket, ProbePcp, ProbeNatPmp, Recheck, SendMap, ReceiveMap, Goes, Returns
  <2> QED
    BY <2>1 DEF OneActive, Failing, Impl
<1>2. CASE FinishRun
  <2>1. wpc = "tail" /\ wpc' = "report" /\ UNCHANGED queue
    BY <1>2 DEF FinishRun
  <2>2. forwarded' = "true" \/ ~session'.established
    BY <1>2 DEF FinishRun, GatewayType
  <2> QED
    BY <2>1, <2>2 DEF OneActive, Failing, Impl
<1>3. CASE ReportResult
  <2>1. wpc = "report" /\ wpc' = "last" /\ UNCHANGED <<session, forwarded>>
    BY <1>3 DEF ReportResult
  <2>2. active = "pcp" /\ ~Failing /\ mpc # "start" /\ UNCHANGED <<active, mpc, upnp>>
    BY <2>1 DEF OneActive, Impl
  <2>3. \/ UNCHANGED queue
        \/ forwarded = "true" /\ queue' = Append(queue, Message("ok", refresh))
        \/ forwarded # "true" /\ queue' = Append(queue, Message("failed", refresh))
    BY <1>3 DEF ReportResult, SendResultMessage
  <2>4. refresh \in BOOLEAN
    BY DEF FlagType
  <2>5. queue' \in Seq(MessageType) /\ (Failing' => forwarded # "true")
    <3>1. queue \in Seq(MessageType)
      BY DEF OneActive
    <3>2. CASE UNCHANGED queue
      BY <1>3, <2>2, <3>1, <3>2 DEF Failing, ReportResult
    <3>3. CASE forwarded # "true" /\ queue' = Append(queue, Message("failed", refresh))
      BY <2>4, <3>1, <3>3, PostType
    <3>4. CASE queue' = Append(queue, Message("ok", refresh))
      <4>1. Message("ok", refresh) \in MessageType /\ ~IsFailure(Message("ok", refresh))
        BY <2>4, MessageIsType DEF IsFailure
      <4>2. ~HasFailure(queue') /\ queue' \in Seq(MessageType)
        BY <2>2, <3>1, <3>4, <4>1, FailureAppend DEF Failing
      <4> QED
        BY <2>2, <4>2 DEF Failing
    <3> QED
      BY <2>3, <3>2, <3>3, <3>4
  <2> QED
    BY <2>1, <2>2, <2>5 DEF OneActive
<1>4. CASE WorkEnds
  BY <1>4 DEF WorkEnds, OneActive, Failing, implVars
<1> QED
  BY <1>1, <1>2, <1>3, <1>4 DEF Work

\* A renewal starts only for the active mapper, and not after a failure.
LEMMA LaunchOne ==
  ASSUME OneActive, active = "pcp", CanRefresh, Launch(TRUE), mpc \notin {"failed", "start"},
         UNCHANGED <<active, session, upnp, queue, mpc>>
  PROVE  OneActive'
BY DEF OneActive, CanRefresh, Launch, Failing

LEMMA SearchOne ==
  ASSUME OneActive, StartSearch, active' = "mini", UNCHANGED <<session, wpc, forwarded>>,
         wpc \in {"none", "last"}, wpc = "last" => ~session.established, mpc' # "start"
  PROVE  OneActive'
<1>1. queue' \in Seq(MessageType)
  BY PostType DEF OneActive, StartSearch, Post
<1> QED
  BY <1>1 DEF OneActive, Impl

LEMMA RestartOne ==
  ASSUME OneActive, NEW home, Restart(home), queue = <<>>, mpc' \notin {"failed", "start"}
  PROVE  OneActive'
<1>1. CASE UNCHANGED <<mapperVars, active, avail, upnpVars, timer>>
  BY <1>1, OneSame DEF mapperVars, implVars, workVars, upnpVars
<1>2. CASE /\ ~Busy
           /\ active' = IF home THEN "pcp" ELSE "mini"
  <2>1. upnp = "idle" /\ wpc \in {"none", "last"} /\ (wpc = "last" => ~session.established)
    BY <1>2 DEF OneActive, Busy, IsReady, Impl
  <2>2. CASE home /\ StartDiscovery /\ IsReady /\ UNCHANGED upnpVars
    <3>1. ~session'.established /\ wpc' \in {"none", "open"} /\ upnp' = "idle" /\ active' = "pcp"
      BY <1>2, <2>1, <2>2 DEF StartDiscovery, NewSession, Launch, IsReady, workVars, upnpVars
    <3>2. queue' \in Seq(MessageType) /\ (wpc' = "open" => queue' = <<>>)
      BY <2>2, PostType DEF StartDiscovery, Launch, OneActive, IsReady, workVars
    <3> QED
      BY <3>1, <3>2, FailureNone DEF OneActive, Failing, Impl
  <2>3. CASE home /\ ~IsReady /\ Post("failed") /\ UNCHANGED upnpVars
             /\ UNCHANGED <<maps, session, asked, implVars, timeVars, workVars>>
    <3>1. queue' \in Seq(MessageType)
      BY <2>3, PostType DEF OneActive, Post
    <3> QED
      <4>1. /\ active' = "pcp" /\ upnp' = "idle" /\ UNCHANGED session
            /\ wpc' \in {"none", "last"} /\ mpc' # "start"
        BY <1>2, <2>1, <2>3 DEF upnpVars, workVars
      <4>2. ~session.established
        BY <1>2, <2>1, <2>3 DEF OneActive, Busy, IsReady, Impl
      <4> QED
        BY <3>1, <4>1, <4>2 DEF OneActive, Impl
  <2>4. CASE ~home /\ StartSearch
             /\ UNCHANGED <<maps, session, asked, implVars, timeVars, workVars>>
    BY <1>2, <2>1, <2>4, SearchOne DEF implVars, workVars
  <2> QED
    BY <1>1, <2>2, <2>3, <2>4 DEF Restart
<1> QED
  BY <1>1, <1>2 DEF Restart

LEMMA DeletePortsOne ==
  ASSUME OneActive, IsReady, DeletePorts, UNCHANGED <<active, queue, upnp>>, mpc' # "start"
  PROVE  OneActive'
BY DEF OneActive, IsReady, DeletePorts, NewSession, workVars

LEMMA ContinueOne ==
  ASSUME OneActive, Continue, SelectUpnp, UNCHANGED <<session, wpc, forwarded>>,
         wpc \in {"none", "last"}, wpc = "last" => ~session.established, mpc' # "start"
  PROVE  OneActive'
<1>1. CASE StartSearch
  BY <1>1, SearchOne DEF SelectUpnp
<1>2. CASE UNCHANGED <<upnpVars, queue>>
  BY <1>2 DEF OneActive, SelectUpnp, upnpVars, Impl
<1> QED
  BY <1>1, <1>2 DEF Continue

LEMMA HandlerOne ==
  ASSUME OneActive, Handler
  PROVE  OneActive'
<1>1. CASE Startup
  <2>1. queue = <<>> /\ mpc' = "idle"
    BY <1>1 DEF Startup, OneActive
  <2> QED
    BY <1>1, <2>1, RestartOne, OneSame DEF Startup, mapperVars, implVars, workVars, upnpVars
<1>2. CASE OnUPnPResult
  <2>1. mpc = "idle" /\ queue # <<>> /\ queue' = Tail(queue)
        /\ UNCHANGED <<active, session, wpc, forwarded, upnp>>
    BY <1>2 DEF OnUPnPResult, workVars, upnpVars
  <2>2. /\ HasFailure(Tail(queue)) => HasFailure(queue)
        /\ IsFailure(Head(queue)) => HasFailure(queue)
        /\ Tail(queue) \in Seq(MessageType) /\ Head(queue) \in MessageType
    BY <2>1, FailureTail DEF OneActive
  <2>3. mpc' = "idle" \/ (mpc' = Head(queue).res /\ ~Head(queue).refresh)
    BY <1>2, <2>1 DEF OnUPnPResult
  <2>4. mpc' # "start" /\ (Failing' => Failing)
    BY <2>1, <2>2, <2>3 DEF Failing, IsFailure, MessageType
  <2> QED
    BY <2>1, <2>2, <2>4, OneQuiet DEF QueueType
<1>3. CASE TimedOut
  <2>1. CASE active = "pcp"
    BY <1>3, <2>1, DeletePortsOne DEF TimedOut, Joined, upnpVars, wrapVars
  <2>2. CASE active # "pcp"
    BY <1>3, <2>2, OneQuiet DEF TimedOut, wrapVars, mapperVars, implVars, workVars, OneActive, QueueType
  <2> QED
    BY <2>1, <2>2
<1>4. CASE FallBack
  BY <1>4, OneSame DEF FallBack, workVars, wrapVars, upnpVars
<1>5. CASE SelectMini
  <2>1. CASE SelectUpnp /\ Continue
    BY <1>5, <2>1, ContinueOne DEF SelectMini, IsReady, workVars
  <2>2. CASE UNCHANGED <<active, avail, upnpVars, queue>>
    BY <1>5, <2>2, OneSame DEF SelectMini, workVars, upnpVars
  <2> QED
    BY <1>5, <2>1, <2>2 DEF SelectMini
<1>6. CASE SwitchImplementation
  <2>1. wpc \in {"none", "last"} /\ (wpc = "last" => ~session.established)
    BY <1>6 DEF SwitchImplementation, OneActive, Failing, Impl
  <2> QED
    BY <1>6, <2>1, ContinueOne DEF SwitchImplementation, implVars, workVars
<1>7. CASE SetupFails
  BY <1>7, OneSame DEF SetupFails, mapperVars, implVars, workVars, upnpVars
<1>8. CASE RemoveLeases
  BY <1>8, DeletePortsOne DEF RemoveLeases, wrapVars, upnpVars
<1>9. CASE Closed
  BY <1>9, DeletePortsOne, OneSame DEF Closed, wrapVars, upnpVars, workVars
<1> QED
  BY <1>1, <1>2, <1>3, <1>4, <1>5, <1>6, <1>7, <1>8, <1>9 DEF Handler

LEMMA UserOne ==
  ASSUME OneActive, User
  PROVE  OneActive'
<1>1. CASE UserConnects \/ Disconnects
  BY <1>1, OneSame DEF UserConnects, Disconnects, mapperVars, implVars, workVars, wrapVars, upnpVars
<1>2. ASSUME NEW answer \in BOOLEAN, RefreshUPnP(answer), mpc = "idle", UNCHANGED <<mpc, active>> PROVE OneActive'
  <2>1. CASE active = "pcp" /\ CanRefresh /\ Launch(TRUE) /\ UNCHANGED <<session, upnp, queue>>
    BY <1>2, <2>1, LaunchOne
  <2>2. CASE UNCHANGED <<session, wpc, forwarded, upnp, queue>>
    BY <1>2, <2>2, OneSame
  <2>3. CASE active # "pcp" /\ UNCHANGED mapperVars
    BY <1>2, <2>3 DEF OneActive, Failing, Impl, mapperVars, implVars, workVars
  <2> QED
    BY <1>2, <2>1, <2>2, <2>3 DEF RefreshUPnP, mapperVars, implVars, workVars, upnpVars
<1>3. CASE LowId \/ Resume
  BY <1>2, <1>3 DEF LowId, Resume, Idle, wrapVars
<1>4. CASE SwitchOption
  BY <1>4, RestartOne, OneSame DEF SwitchOption, Idle, mapperVars, implVars, workVars, upnpVars
<1>5. CASE Wizard
  BY <1>5, RestartOne, OneSame DEF Wizard, Idle, mapperVars, implVars, workVars, upnpVars
<1>6. CASE Close
  <2>1. CASE JoinWorker("close")
    BY <2>1, OneSame DEF JoinWorker, workVars, wrapVars, upnpVars
  <2>2. CASE UNCHANGED mapperVars /\ active # "pcp" /\ UNCHANGED active /\ upnp' = "idle" /\ mpc' = "closed"
    BY <2>2, OneQuiet DEF mapperVars, implVars, workVars, OneActive, QueueType
  <2> QED
    BY <1>6, <2>1, <2>2 DEF Close, wrapVars
<1> QED
  BY <1>1, <1>3, <1>4, <1>5, <1>6 DEF User

LEMMA NextOne == OneActive /\ TypeOK /\ [Next]_vars => OneActive'
<1> SUFFICES ASSUME OneActive, TypeOK, [Next]_vars PROVE OneActive'
  OBVIOUS
<1>0. OtherTypes /\ GatewayType
  BY TypeParts
<1>1. CASE UNCHANGED vars
  BY <1>1, OneSame DEF vars, mapperVars, implVars, workVars, wrapVars, upnpVars
<1>2. CASE UPnPTimeOutTimer
  <2>1. queue' \in Seq(MessageType) /\ (Failing' => Failing)
    BY <1>2, MessageIsType, FailureAppend, PostType DEF UPnPTimeOutTimer, Post, OneActive, Failing, IsFailure
  <2> QED
    BY <1>2, <2>1, OneQuiet DEF UPnPTimeOutTimer, Idle, QueueType, implVars, workVars, wrapVars, upnpVars
<1>3. CASE SearchEnds
  <2>1. active = "mini" /\ UNCHANGED <<active, session, wpc, forwarded, mpc>> /\ upnp' = "idle"
    BY <1>3 DEF SearchEnds, OneActive, implVars, workVars, wrapVars
  <2>2. queue' \in Seq(MessageType)
    <3>1. (upnp = "refreshing") \in BOOLEAN
      OBVIOUS
    <3>2. PICK res \in {"ok", "failed"} :
            queue' = queue \/ queue' = Append(queue, Message(res, upnp = "refreshing"))
      BY <1>3 DEF SearchEnds
    <3>3. queue \in Seq(MessageType)
      BY DEF OneActive
    <3>4. Append(queue, Message(res, upnp = "refreshing")) \in Seq(MessageType)
      BY <3>1, <3>2, <3>3, PostType
    <3> QED
      BY <3>2, <3>3, <3>4
  <2>3. mpc # "start"
    BY <1>3 DEF SearchEnds, OneActive
  <2> QED
    BY <2>1, <2>2, <2>3 DEF OneActive
<1>4. CASE RenewLeases
  <2>1. mpc = "idle" /\ active = "pcp" /\ wpc = "none" /\ UNCHANGED <<active, session, upnp, queue, mpc>>
    BY <1>4 DEF RenewLeases, LeaseTimer, Idle, IsReady, wrapVars, upnpVars
  <2>2. CASE Launch(TRUE)
    BY <1>4, <2>1, <2>2, LaunchOne DEF RenewLeases, CanRefresh
  <2>3. CASE UNCHANGED wpc
    BY <2>1, <2>3 DEF OneActive, Failing
  <2> QED
    BY <1>4, <2>2, <2>3 DEF RenewLeases, workVars
<1>5. CASE StopLeases
  BY <1>5, OneSame DEF StopLeases, JoinWorker, workVars, wrapVars, upnpVars
<1>6. CASE (Tick \/ NetworkChanges) /\ UNCHANGED setupVars
  BY <1>6, OneSame DEF Tick, NetworkChanges, implVars, workVars, setupVars, wrapVars, upnpVars
<1>7. CASE Work /\ UNCHANGED setupVars
  BY <1>0, <1>7, WorkOne DEF OtherTypes
<1> QED
  BY <1>1, <1>2, <1>3, <1>4, <1>5, <1>6, <1>7, HandlerOne, UserOne DEF Next

\* A search by UPnP and a negotiation by PCP never run at the same time, in any
\* order of results, time-outs, renewals and changes of the options.
THEOREM MappersExclude == Spec => []OneMapperAtATime
<1>1. Init => OneActive
  <2>1. Init => active \in Impl /\ queue \in Seq(MessageType)
    BY ImplAssumption DEF Init, InitMapper, FirstImpl, Impl
  <2> QED
    BY <2>1, FailureNone DEF Init, InitMapper, OneActive, Failing
<1>2. OneActive => OneMapperAtATime
  BY DEF OneActive, OneMapperAtATime
<1> QED
  BY <1>1, <1>2, TypeCorrect, NextOne, PTL DEF Spec

-------------------------------------------------------------------------------
(***************************************************************************)
(* The leases: from the first grant of an attempt to its end the shortest  *)
(* lease decides, and an attempt ends before a lease of two ticks does.    *)
(***************************************************************************)

IsMapped(m, l, t) == m[l].by \in {"current", "nat"} /\ m[l].left >= t

Leased ==
  /\ forwarded = "true" => wpc \in {"none", "report", "last"}
  /\ forwarded = "true" /\ expiresIn > 0 => \A l \in Lease : IsMapped(maps, l, expiresIn)
  /\ run.renewAfter > 0
  /\ wpc \notin {"map", "await", "tail"} => run = NoRun
  /\ wpc \in {"map", "await"} => \A l \in Lease : l < run.at => IsMapped(maps, l, 2 * run.renewAfter - age)
  /\ wpc = "await" /\ run.offer >= ShortLease => IsMapped(maps, run.at, run.offer - age)
  /\ run.ok => wpc = "tail" /\ \A l \in Lease : IsMapped(maps, l, 2 * run.renewAfter - age)

LeaseTypes == GatewayType /\ TimeType

LEMMA RunFields ==
  ASSUME GatewayType
  PROVE  /\ run \in RunType
         /\ run.renewAfter \in Nat /\ run.offer \in Nat /\ run.at \in Lease /\ run.at \in Nat
         /\ maps \in [Lease -> [by : {"none", "current", "lost", "old", "nat"}, left : Nat]]
         /\ \A l \in Lease : l \in Nat /\ maps[l].left \in Nat
<1>1. run \in RunType
  BY DEF GatewayType
<1>2. run.offer \in Nat
  BY <1>1, OfferNat
<1> QED
  BY <1>1, <1>2 DEF GatewayType, RunType, Lease

\* The main thread: a reset ends what was forwarded, a renewal starts anew.
LEMMA MainLeased ==
  ASSUME Leased, MainKeeps
  PROVE  Leased'
<1>1. CASE Resets
  BY <1>1 DEF MainKeeps, Resets, IsReady, Leased, NoRun
<1>2. CASE Renews
  BY <1>2 DEF MainKeeps, Renews, IsReady, Launch, Leased, NoRun
<1>3. CASE Keeps
  BY <1>3 DEF MainKeeps, Keeps, Leased, IsMapped
<1> QED
  BY <1>1, <1>2, <1>3 DEF MainKeeps

\* A lease that is granted outlives the attempt, which takes two ticks at most.
LEMMA TickLeased ==
  ASSUME Leased, GatewayType, TimeType, Tick
  PROVE  Leased'
<1>1. ASSUME NEW l \in Lease, NEW t \in Nat, t >= 1, IsMapped(maps, l, t)
      PROVE  t = 1 \/ IsMapped(maps', l, t - 1)
  <2>1. maps'[l] = IF maps[l].left <= 1 THEN NoMap ELSE [maps[l] EXCEPT !.left = maps[l].left - 1]
    BY DEF Tick
  <2>2. maps[l].left \in Nat /\ maps[l].left >= t /\ maps[l].by \in {"current", "nat"}
    BY <1>1, RunFields DEF IsMapped
  <2>3. CASE maps[l].left > 1
    <3>1. maps'[l].left = maps[l].left - 1 /\ maps'[l].by = maps[l].by
      BY <2>1, <2>2, <2>3, RunFields
    <3> QED
      BY <2>2, <3>1 DEF IsMapped
  <2>4. CASE maps[l].left <= 1
    BY <1>1, <2>2, <2>4
  <2> QED
    BY <2>2, <2>3, <2>4
<1>2. UNCHANGED <<wpc, run, forwarded>>
  BY DEF Tick, implVars
<1>3. forwarded' = "true" /\ expiresIn' > 0 => \A l \in Lease : IsMapped(maps', l, expiresIn')
  <2> SUFFICES ASSUME forwarded' = "true", expiresIn' > 0, NEW l \in Lease
               PROVE  IsMapped(maps', l, expiresIn')
    OBVIOUS
  <2>1. expiresIn \in Nat /\ expiresIn > 1 /\ expiresIn' = expiresIn - 1
    BY DEF Tick, Later, TimeType
  <2>2. IsMapped(maps, l, expiresIn)
    BY <1>2, <2>1 DEF Leased
  <2>3. IsMapped(maps', l, expiresIn - 1)
    BY <1>1, <2>1, <2>2
  <2> QED
    BY <2>1, <2>3 DEF IsMapped
<1>4. CASE wpc = "none"
  BY <1>2, <1>3, <1>4 DEF Leased, NoRun
<1>5. CASE wpc # "none"
  <2>1. age = 0 /\ age' = 1
    BY <1>5 DEF Tick
  <2>2. ASSUME NEW l \in Lease, NEW t \in Nat, t >= 2, IsMapped(maps, l, t - age)
        PROVE  IsMapped(maps', l, t - age')
    <3>1. IsMapped(maps, l, t)
      BY <2>1, <2>2 DEF IsMapped
    <3>2. IsMapped(maps', l, t - 1)
      BY <1>1, <2>2, <3>1
    <3> QED
      BY <2>1, <3>2 DEF IsMapped
  <2>3. /\ 2 * run.renewAfter \in Nat /\ 2 * run.renewAfter >= 2
        /\ run.offer \in Nat /\ run.at \in Lease
    BY RunFields DEF Leased
  <2>4. wpc' \in {"map", "await"} => \A l \in Lease : l < run'.at => IsMapped(maps', l, 2 * run.renewAfter - age')
    BY <1>2, <2>2, <2>3 DEF Leased
  <2>5. wpc' = "await" /\ run'.offer >= ShortLease => IsMapped(maps', run.at, run.offer - age')
    BY <1>2, <2>2, <2>3 DEF Leased, ShortLease
  <2>6. run'.ok => wpc' = "tail" /\ \A l \in Lease : IsMapped(maps', l, 2 * run.renewAfter - age')
    BY <1>2, <2>2, <2>3 DEF Leased
  <2> QED
    BY <1>2, <1>3, <2>4, <2>5, <2>6 DEF Leased
<1> QED
  BY <1>4, <1>5

LEMMA DiscoveryLeased ==
  ASSUME Leased, GatewayType, OpenSocket \/ ProbePcp \/ ProbeNatPmp \/ Recheck
  PROVE  Leased'
<1>1. UNCHANGED <<forwarded, maps, age>> /\ wpc \in {"open", "probe", "nat", "recheck"} /\ run = NoRun /\ forwarded # "true"
  BY DEF OpenSocket, ProbePcp, ProbeNatPmp, Recheck, Leased, implVars
<1>2. CASE wpc' \in {"probe", "nat", "recheck", "map"} /\ UNCHANGED run
  <2>1. \A l \in Lease : ~(l < 1)
    BY DEF Lease
  <2> QED
    BY <1>1, <1>2, <2>1 DEF Leased, NoRun
<1>3. CASE wpc' = "tail" /\ run'.renewAfter = run.renewAfter /\ ~run'.ok
  BY <1>1, <1>3 DEF Leased
<1>4. ASSUME NEW status, status # "success", Returns(status)
      PROVE  wpc' = "tail" /\ run'.renewAfter = run.renewAfter /\ ~run'.ok
  BY <1>4, RunFields DEF Returns, RunType
<1>5. ASSUME NEW b, wpc' = "tail", run' = [run EXCEPT !.allow = b]
      PROVE  wpc' = "tail" /\ run'.renewAfter = run.renewAfter /\ ~run'.ok
  BY <1>1, <1>5 DEF NoRun
<1>6. CASE OpenSocket
  BY <1>2, <1>3, <1>4, <1>6 DEF OpenSocket, Goes
<1>7. CASE ProbePcp
  BY <1>2, <1>3, <1>5, <1>7 DEF ProbePcp, Goes
<1>8. CASE ProbeNatPmp
  BY <1>2, <1>3, <1>5, <1>8 DEF ProbeNatPmp, Goes
<1>9. CASE Recheck
  BY <1>2, <1>3, <1>4, <1>9 DEF Recheck, Goes
<1> QED
  BY <1>6, <1>7, <1>8, <1>9

LEMMA SendMapLeased ==
  ASSUME Leased, GatewayType, TimeType, SendMap
  PROVE  Leased'
<1>1. wpc = "map" /\ UNCHANGED <<forwarded, age>> /\ forwarded # "true"
  BY DEF SendMap, Leased, implVars
<1>2. CASE Returns("changed")
  <2>1. wpc' = "tail" /\ run'.renewAfter = run.renewAfter /\ ~run'.ok
    BY <1>2, RunFields DEF Returns, RunType
  <2> QED
    BY <1>1, <2>1 DEF Leased
<1>3. ASSUME NEW t \in Nat, wpc' = "await", run' = [run EXCEPT !.offer = t],
             t >= ShortLease => /\ maps'[run.at].by \in {"current", "nat"}
                                /\ maps'[run.at].left = t,
             \A l \in Lease : l # run.at => maps'[l] = maps[l]
      PROVE  Leased'
  <2>1. run'.at = run.at /\ run'.offer = t /\ run'.renewAfter = run.renewAfter /\ run'.ok = run.ok
    BY <1>3, RunFields DEF RunType
  <2>2. ASSUME NEW l \in Lease, l < run.at PROVE IsMapped(maps', l, 2 * run.renewAfter - age')
    <3>1. IsMapped(maps, l, 2 * run.renewAfter - age)
      BY <1>1, <2>2 DEF Leased
    <3>2. maps'[l] = maps[l]
      BY <1>3, <2>2, RunFields
    <3> QED
      BY <1>1, <2>1, <3>1, <3>2 DEF IsMapped
  <2>3. t >= ShortLease => IsMapped(maps', run.at, t - age')
    BY <1>1, <1>3 DEF IsMapped, TimeType
  <2>4. ~run.ok
    BY <1>1 DEF Leased
  <2> QED
    BY <1>1, <1>3, <2>1, <2>2, <2>3, <2>4 DEF Leased
<1>4. CASE \E t \in Lifetimes :
              /\ run' = [run EXCEPT !.offer = t] /\ wpc' = "await"
              /\ maps' = [maps EXCEPT ![run.at] =
                   [by |-> IF session.protocol = "PCP" THEN "current" ELSE "nat",
                    left |-> t]]
  <2> DEFINE kind == IF session.protocol = "PCP" THEN "current" ELSE "nat"
  <2>0. kind \in {"current", "nat"}
    OBVIOUS
  <2> HIDE DEF kind
  <2>1. PICK t \in Lifetimes : run' = [run EXCEPT !.offer = t] /\ wpc' = "await"
              /\ maps' = [maps EXCEPT ![run.at] = [by |-> kind, left |-> t]]
    BY <1>4 DEF kind
  <2>2. t \in Nat
    BY LeaseAssumption
  <2>3. maps'[run.at] = [by |-> kind, left |-> t] /\ \A l \in Lease : l # run.at => maps'[l] = maps[l]
    BY <2>1, RunFields
  <2>4. maps'[run.at].by \in {"current", "nat"} /\ maps'[run.at].left = t
    BY <2>0, <2>3
  <2> QED
    BY <1>3, <2>1, <2>2, <2>3, <2>4
<1>5. CASE wpc' = "await" /\ run' = [run EXCEPT !.offer = 0] /\ UNCHANGED maps
  BY <1>3, <1>5 DEF ShortLease
<1> QED
  BY <1>2, <1>4, <1>5 DEF SendMap

\* The leases before the one that was granted, and this one, last long enough.
LEMMA ReceiveMapLeased ==
  ASSUME Leased, GatewayType, TimeType, ReceiveMap
  PROVE  Leased'
<1>1. wpc = "await" /\ UNCHANGED <<forwarded, age, maps>> /\ forwarded # "true"
  BY DEF ReceiveMap, Leased, implVars
<1>2. ASSUME NEW status, status # "success", Returns(status) PROVE Leased'
  <2>1. wpc' = "tail" /\ run'.renewAfter = run.renewAfter /\ ~run'.ok
    BY <1>2, RunFields DEF Returns, RunType
  <2> QED
    BY <1>1, <2>1 DEF Leased
<1> DEFINE half == run.offer \div 2
           last == run.at = NumLeases
           r == IF half < run.renewAfter THEN half ELSE run.renewAfter
           a == IF last THEN run.at ELSE run.at + 1
<1>3. CASE /\ run.offer >= ShortLease
           /\ wpc' = IF last THEN "tail" ELSE "map"
           /\ run' = [run EXCEPT !.renewAfter = r, !.at = a, !.ok = last]
  <2>1. run'.renewAfter = r /\ run'.at = a /\ run'.ok = last
    BY <1>3, RunFields DEF RunType
  <2>2. half \in Nat /\ half > 0 /\ 2 * half <= run.offer
    BY <1>3, RunFields DEF ShortLease
  <2>3. /\ r \in Nat /\ r > 0
        /\ 2 * r <= run.offer /\ 2 * r <= 2 * run.renewAfter
    <3> HIDE DEF half
    <3> QED
      BY <2>2, RunFields DEF Leased
  <2>4. ASSUME NEW l \in Lease, l <= run.at PROVE IsMapped(maps', l, 2 * r - age')
    <3> HIDE DEF r
    <3>1. IsMapped(maps, l, 2 * run.renewAfter - age) \/ IsMapped(maps, l, run.offer - age)
      BY <1>1, <1>3, <2>4, RunFields DEF Leased
    <3> QED
      BY <1>1, <2>3, <3>1, RunFields DEF IsMapped, TimeType
  <2>5. \A l \in Lease : last \/ l < a => l <= run.at
    BY RunFields, LeaseAssumption DEF Lease
  <2> HIDE DEF r, half
  <2>6. CASE last
    BY <1>1, <1>3, <2>1, <2>3, <2>4, <2>5, <2>6 DEF Leased
  <2>7. CASE ~last
    BY <1>1, <1>3, <2>1, <2>3, <2>4, <2>5, <2>7 DEF Leased
  <2> QED
    BY <2>6, <2>7
<1>4. PICK s \in Exchange(IF run.offer = 0 THEN Refusals ELSE Granted) :
        IF s # "success" \/ run.offer < ShortLease
        THEN Returns(IF s = "success" THEN "short" ELSE s)
        ELSE /\ wpc' = IF last THEN "tail" ELSE "map"
             /\ run' = [run EXCEPT !.renewAfter = r, !.at = a, !.ok = last]
  BY RunFields DEF ReceiveMap, RunType
<1>5. CASE s # "success" \/ run.offer < ShortLease
  BY <1>2, <1>4, <1>5
<1>6. CASE s = "success" /\ run.offer >= ShortLease
  <2> HIDE DEF r, a, last
  <2> QED
    BY <1>3, <1>4, <1>6, RunFields DEF ShortLease
<1> QED
  BY <1>5, <1>6, RunFields DEF ShortLease

\* What counts as forwarded lasts from the start of the attempt.
LEMMA FinishRunLeased ==
  ASSUME Leased, GatewayType, TimeType, FinishRun
  PROVE  Leased'
<1>1. wpc' = "report" /\ run' = NoRun
  BY DEF FinishRun
<1>2. CASE ~run.ok
  BY <1>1, <1>2 DEF FinishRun, Leased, NoRun, RenewalCap
<1>3. CASE run.ok
  <2>1. UNCHANGED maps /\ expiresIn' = FromStart(2 * run.renewAfter)
    BY <1>3 DEF FinishRun
  <2>2. ASSUME expiresIn' > 0 PROVE expiresIn' = 2 * run.renewAfter - age
    BY <2>1, <2>2, RunFields DEF FromStart, Later, TimeType
  <2>3. expiresIn' > 0 => \A l \in Lease : IsMapped(maps', l, expiresIn')
    BY <1>3, <2>1, <2>2 DEF Leased
  <2> QED
    BY <1>1, <2>3 DEF Leased, NoRun, RenewalCap
<1> QED
  BY <1>2, <1>3

LEMMA WorkLeased ==
  ASSUME Leased, GatewayType, TimeType, Work
  PROVE  Leased'
<1>1. CASE ReportResult
  BY <1>1 DEF ReportResult, Leased, timeVars
<1>2. CASE WorkEnds
  BY <1>2 DEF WorkEnds, Leased, implVars, timeVars, NoRun
<1> QED
  BY <1>1, <1>2, DiscoveryLeased, SendMapLeased, ReceiveMapLeased, FinishRunLeased
  DEF Work

LEMMA NextLeased == Leased /\ GatewayType /\ TimeType /\ [Next]_vars => Leased'
BY OtherKeeps, MainLeased, WorkLeased, TickLeased

\* Ports that are reported as forwarded are mapped until the reported time: the
\* time is reckoned from the start of the attempt and by the shortest lease.
THEOREM ForwardedPortsAreMapped == Spec => []ForwardedIsMapped
<1>1. Init => Leased
  BY DEF Init, InitMapper, Leased, NoRun, RenewalCap
<1>2. Leased => ForwardedIsMapped
  BY DEF Leased, ForwardedIsMapped, IsMapped
<1>3. GatewayType /\ OtherTypes /\ Leased /\ [Next]_vars => Leased'
  BY NextLeased DEF OtherTypes
<1> QED
  BY <1>1, <1>2, <1>3, Types, PTL DEF Spec
===============================================================================
