------------------------------- MODULE PcpNatPmp -------------------------------
(***************************************************************************)
(* CUPnPImplPcpNatPmp: the port mapper for PCP and NAT-PMP.  A worker      *)
(* thread negotiates with the gateway (PortMapping::Run); the main thread  *)
(* starts, cancels and joins it, renews the leases from a timer and        *)
(* removes the mappings.  UPnPSetup has the callers of these operations.   *)
(*                                                                         *)
(* Time is counted in ticks of 30 seconds, the retry interval of           *)
(* MaintainLeases; a timestamp is kept as the ticks left until it is       *)
(* reached.  Ports, addresses and epochs are abstracted to the verdicts    *)
(* that Run reaches on them.                                               *)
(***************************************************************************)
EXTENDS Integers, Sequences, FiniteSets

CONSTANTS NumLeases,  \* 2, or 1 if UDP is disabled: TCP is lease 1
          Lifetimes,  \* lifetimes that a gateway grants, in ticks
          Events      \* which events of the environment may happen

EventKinds == {"network",  \* the network stops and starts to be eligible
               "prefs",    \* the option for UPnP is switched
               "wizard",   \* the automatic set-up is opted out and in again
               "suspend",  \* the computer sleeps and wakes up
               "exit"}     \* the program is closed

ASSUME LeaseAssumption ==
  /\ NumLeases \in Nat \ {0}
  /\ Lifetimes \subseteq Nat \ {0} /\ IsFiniteSet(Lifetimes)
  /\ Events \subseteq EventKinds

Lease == 1..NumLeases
ShortLease == 2     \* 60 seconds
RenewalCap == 1440  \* 43200 seconds

VARIABLES
  net,            \* the network is eligible and the route is m_route
  maps,           \* the gateway: the mapping of each lease
  session,        \* m_session
  asked,          \* a MAP request was sent since the last StartDiscovery
  cancel,         \* m_cancel
  allowFallback,  \* m_allowFallback
  forwarded,      \* m_bUPnPPortsForwarded
  wants,          \* a window to post the result to (m_wndResultMessage)
  refresh,        \* m_bCheckAndRefresh
  leaseTimer,     \* m_leaseTimer
  renewIn,        \* ticks until m_renewAt
  expiresIn,      \* ticks until m_expiresAt
  age,            \* ticks since `started' of the worker
  wpc,            \* worker thread: where it is; "none": m_running is false
  run,            \* locals of Run
  queue           \* messages posted to the main window

workVars  == <<wpc, run, age>>
implVars  == <<cancel, allowFallback, forwarded, wants, refresh, leaseTimer>>
timeVars  == <<renewIn, expiresIn>>
mapperVars == <<net, maps, session, asked, implVars, timeVars, workVars, queue>>

Message(res, again) == [res |-> res, refresh |-> again]

(***************************************************************************)
(* A mapping in the gateway: `by' is "nat" for NAT-PMP, and for PCP tells  *)
(* what became of the request: its nonce is in the session ("current"), a  *)
(* deletion was sent in vain ("lost"), or the nonce is forgotten and no    *)
(* deletion was sent ("old").                                              *)
(***************************************************************************)
NoMap == [by |-> "none", left |-> 0]
NewSession == [protocol |-> "PCP", established |-> FALSE, issued |-> {}]

(***************************************************************************)
(* Run asks for lease `at', was granted a lifetime `offer' (0: nothing),   *)
(* and has set renewAfterSeconds and allowUPnPFallback; ok: it succeeded.  *)
(***************************************************************************)
NoRun == [at |-> 1, offer |-> 0, renewAfter |-> RenewalCap,
          allow |-> FALSE, ok |-> FALSE]

InitMapper ==
  /\ net = TRUE
  /\ maps = [l \in Lease |-> NoMap]
  /\ session = NewSession /\ asked = FALSE
  /\ cancel = FALSE /\ allowFallback = FALSE /\ forwarded = "false"
  /\ wants = FALSE /\ refresh = FALSE /\ leaseTimer = FALSE
  /\ renewIn = 0 /\ expiresIn = 0 /\ age = 0
  /\ wpc = "none" /\ run = NoRun
  /\ queue = <<>>

-------------------------------------------------------------------------------
(***************************************************************************)
(* Worker thread: Work, Run and Exchange                                   *)
(***************************************************************************)

\* An exchange that is answered, if the network is eligible throughout
Exchange(answers) ==
  IF ~net THEN {"changed"}
  ELSE answers \cup {"failed"} \cup (IF cancel THEN {"changed"} ELSE {})

\* a mistake: the time-out of any request allows the fallback
ReturnsAllowing(status) ==
  /\ wpc' = "tail"
  /\ run' = [run EXCEPT !.ok = status = "success", !.allow = status = "timeout"]

Returns(status) ==
  /\ wpc' = "tail"
  /\ run' = [run EXCEPT !.ok = status = "success"]

Goes(place) == wpc' = place /\ UNCHANGED run

OpenSocket ==
  /\ wpc = "open"
  /\ \/ /\ Goes(IF ~session.established THEN "probe"
                ELSE IF session.protocol = "PCP" THEN "map" ELSE "recheck")
        /\ session' = [session EXCEPT !.established = FALSE]
     \/ Returns("failed") /\ UNCHANGED session
  /\ UNCHANGED <<net, maps, asked, implVars, timeVars, age, queue>>

Answers == {"success", "opcode", "version", "timeout", "refused"}

\* A PCP server without ANNOUNCE may still map
ProbePcp ==
  /\ wpc = "probe"
  /\ \E s \in Exchange(Answers) :
       CASE s = "version"                -> Goes("nat")
         [] s \in {"success", "opcode"}  -> Goes("map")
         [] OTHER -> /\ wpc' = "tail"
                     /\ run' = [run EXCEPT !.allow = s = "timeout"]
  /\ UNCHANGED <<net, maps, session, asked, implVars, timeVars, age, queue>>

ProbeNatPmp ==
  /\ wpc = "nat"
  /\ \E s \in Exchange(Answers \cup {"nonpublic"}) :
       IF s = "success" THEN Goes("map")
       ELSE /\ wpc' = "tail"
            /\ run' = [run EXCEPT !.allow = s \in {"timeout", "version", "opcode"}]
  /\ session' = [session EXCEPT !.protocol = "NATPMP"]
  /\ UNCHANGED <<net, maps, asked, implVars, timeVars, age, queue>>

\* A renewal by NAT-PMP looks at the external address first
Recheck ==
  /\ wpc = "recheck"
  /\ \E s \in Exchange(Answers \cup {"nonpublic", "changed"}) :
       IF s = "success" THEN Goes("map") ELSE Returns(s)
  /\ UNCHANGED <<net, maps, session, asked, implVars, timeVars, age, queue>>

\* a mistake: only the first lease is marked
MarksFirst == session' = [session EXCEPT !.issued = @ \cup {1}]

MarksIssued == session' = [session EXCEPT !.issued = @ \cup {run.at}]

\* The MAP request goes out, and the gateway grants it or not
SendMap ==
  /\ wpc = "map"
  /\ MarksIssued
  /\ IF cancel \/ ~net
     THEN Returns("changed") /\ UNCHANGED <<maps, asked>>
     ELSE /\ asked' = TRUE
          /\ wpc' = "await"
          /\ \/ \E t \in Lifetimes :
                  /\ run' = [run EXCEPT !.offer = t]
                  /\ maps' = [maps EXCEPT ![run.at] =
                       [by |-> IF session.protocol = "PCP" THEN "current" ELSE "nat",
                        left |-> t]]
             \/ run' = [run EXCEPT !.offer = 0] /\ UNCHANGED maps
  /\ UNCHANGED <<net, implVars, timeVars, age, queue>>

Refusals == Answers \ {"success"}
Granted  == {"success", "wrongport", "nonpublic", "changed", "timeout"}

ReceiveMap ==
  /\ wpc = "await"
  /\ \E s \in Exchange(IF run.offer = 0 THEN Refusals ELSE Granted) :
       IF s # "success" \/ run.offer < ShortLease
       THEN Returns(IF s = "success" THEN "short" ELSE s) /\ UNCHANGED session
       ELSE LET half == run.offer \div 2
                last == run.at = NumLeases
            IN  /\ wpc' = IF last THEN "tail" ELSE "map"
                /\ run' = [run EXCEPT !.renewAfter = IF half < @ THEN half ELSE @,
                                      !.at = IF last THEN @ ELSE @ + 1,
                                      !.ok = last]
                /\ session' = [session EXCEPT !.established = last]
  /\ UNCHANGED <<net, maps, asked, implVars, timeVars, age, queue>>

(***************************************************************************)
(* RemoveOwnedPcpMappings: a deletion for every request of this session    *)
(* that was issued by PCP; NAT-PMP mappings are left to expire.  The       *)
(* packets D arrive, the others are lost.                                  *)
(***************************************************************************)
CanRemove == session.protocol = "PCP" /\ session.issued # {} /\ net
Sent == IF CanRemove THEN session.issued ELSE {}
Removed(D) == [l \in Lease |->
  IF l \notin Sent \/ maps[l].by # "current" THEN maps[l]
  ELSE IF l \in D THEN NoMap ELSE [maps[l] EXCEPT !.by = "lost"]]

Later(ticks, elapsed) == IF ticks > elapsed THEN ticks - elapsed ELSE 0

\* a mistake: the lease is counted from the last reply
FromReply(ticks) == ticks

\* What is left of a time counted from the start of the attempt
FromStart(ticks) == Later(ticks, age)

\* The end of Work: what the result of Run means for the leases
FinishRun ==
  /\ wpc = "tail" /\ wpc' = "report"
  /\ IF run.ok
     THEN /\ renewIn' = FromStart(run.renewAfter)
          /\ expiresIn' = FromStart(2 * run.renewAfter)
          /\ forwarded' = "true"
          /\ UNCHANGED <<maps, session>>
     ELSE /\ renewIn' = 0 /\ expiresIn' = 0
          /\ forwarded' = "false"
          /\ \E D \in SUBSET Sent : maps' = Removed(D)
          /\ session' = [session EXCEPT !.established = FALSE, !.issued = @ \ Sent]
  /\ allowFallback' = run.allow
  /\ run' = NoRun
  /\ UNCHANGED <<net, asked, cancel, wants, refresh, leaseTimer, age, queue>>

SendResultMessage(q) ==
  /\ queue' = IF wants
              THEN Append(q, Message(IF forwarded = "true" THEN "ok" ELSE "failed",
                                     refresh))
              ELSE q
  /\ wants' = FALSE

\* Cancelled work is not reported
ReportResult ==
  /\ wpc = "report"
  /\ IF cancel THEN UNCHANGED <<queue, wants>> ELSE SendResultMessage(queue)
  /\ wpc' = "last"
  /\ UNCHANGED <<net, maps, session, asked, cancel, allowFallback, forwarded,
                 refresh, leaseTimer, timeVars, run, age>>

WorkEnds ==
  /\ wpc = "last"
  /\ wpc' = "none" /\ age' = 0
  /\ UNCHANGED <<net, maps, session, asked, implVars, timeVars, run,
                 queue>>

Work ==
  \/ OpenSocket \/ ProbePcp \/ ProbeNatPmp \/ Recheck \/ SendMap \/ ReceiveMap
  \/ FinishRun \/ ReportResult \/ WorkEnds

-------------------------------------------------------------------------------
(***************************************************************************)
(* What the main thread does with the mapper.  Each of these is a part of  *)
(* an action of UPnPSetup, and only for a worker that has ended; they      *)
(* leave `net' and `asked' (but for StartDiscovery) to that action.        *)
(***************************************************************************)
IsReady == wpc = "none"

Launch(again) ==
  /\ wpc' = "open" /\ age' = 0
  /\ cancel' = FALSE
  /\ refresh' = again
  /\ forwarded' = "unknown"
  /\ UNCHANGED run

\* New nonces: what is left of an earlier session is not ours to delete
Forget(m) == [l \in Lease |-> IF m[l].by = "current"
                              THEN [m[l] EXCEPT !.by = "old"] ELSE m[l]]

\* a mistake: the session is reset before the mappings are removed
ResetFirst == {Forget(maps)}

Cleared == {Forget(Removed(D)) : D \in SUBSET Sent}

StartDiscovery ==
  /\ allowFallback' = FALSE
  /\ maps' \in Cleared
  /\ session' = NewSession /\ asked' = FALSE
  /\ \/ /\ wants' = TRUE /\ leaseTimer' = TRUE /\ Launch(FALSE)
        /\ UNCHANGED <<timeVars, queue>>
     \/ \* FindRoute fails: there is no home gateway
        /\ queue' = Append(queue, Message("failed", FALSE)) /\ wants' = FALSE
        /\ refresh' = FALSE /\ forwarded' = "false"
        /\ UNCHANGED <<cancel, leaseTimer, timeVars, workVars>>

\* The end of StopAsyncFind, when the worker has been joined
Stopped == wants' = FALSE /\ leaseTimer' = FALSE

DeletePorts ==
  /\ Stopped
  /\ maps' \in Cleared
  /\ session' = NewSession
  /\ renewIn' = 0 /\ expiresIn' = 0 /\ forwarded' = "false"
  /\ UNCHANGED <<asked, cancel, allowFallback, refresh, workVars>>

-------------------------------------------------------------------------------
(***************************************************************************)
(* Time and the gateway                                                    *)
(***************************************************************************)

\* An attempt is bounded: it is over within less than two ticks
Tick ==
  /\ wpc # "none" => age = 0
  /\ age' = IF wpc # "none" THEN 1 ELSE 0
  /\ maps' = [l \in Lease |-> IF maps[l].left <= 1 THEN NoMap
                              ELSE [maps[l] EXCEPT !.left = @ - 1]]
  /\ renewIn' = Later(renewIn, 1) /\ expiresIn' = Later(expiresIn, 1)
  /\ UNCHANGED <<net, session, asked, implVars, wpc, run, queue>>

NetworkChanges ==
  /\ "network" \in Events
  /\ net' = ~net
  /\ UNCHANGED <<maps, session, asked, implVars, timeVars, workVars, queue>>

-------------------------------------------------------------------------------
MapperTypeOK ==
  /\ net \in BOOLEAN
  /\ maps \in [Lease -> [by : {"none", "current", "lost", "old", "nat"}, left : Nat]]
  /\ session \in [protocol : {"PCP", "NATPMP"}, established : BOOLEAN,
                  issued : SUBSET Lease]
  /\ asked \in BOOLEAN /\ cancel \in BOOLEAN /\ allowFallback \in BOOLEAN
  /\ forwarded \in {"false", "unknown", "true"}
  /\ wants \in BOOLEAN /\ refresh \in BOOLEAN /\ leaseTimer \in BOOLEAN
  /\ renewIn \in Nat /\ expiresIn \in Nat /\ age \in {0, 1}
  /\ wpc \in {"none", "open", "probe", "nat", "recheck", "map", "await", "tail",
              "report", "last"}
  /\ run \in [at : Lease, offer : Lifetimes \cup {0}, renewAfter : Nat,
              allow : BOOLEAN, ok : BOOLEAN]
  /\ queue \in Seq([res : {"ok", "failed", "timeout"}, refresh : BOOLEAN])
===============================================================================
