------------------------------- MODULE UPnPSetup -------------------------------
(***************************************************************************)
(* How the main window sets up the ports: CemuleDlg starts a mapper,       *)
(* handles its result or time-out, falls back to the next one and delays   *)
(* a connection in the meantime; CUPnPImplWrapper keeps the mappers that   *)
(* are left to try.  The mapper for PCP and NAT-PMP is PcpNatPmp; of those *)
(* for UPnP the search with its result is modelled.                        *)
(*                                                                         *)
(* A handler of the main thread is one step, except that it waits for the  *)
(* worker of PcpNatPmp to end: mpc is then the place after the join.       *)
(***************************************************************************)
EXTENDS PcpNatPmp

CONSTANT LastWorking  \* preference LastWorkingImplementation at the start

\* The mapper by the Windows service is disabled (DisableWinServImpl)
Impl == {"mini", "pcp"}

ASSUME ImplAssumption == LastWorking \in Impl

VARIABLES
  active, avail, \* m_pActiveImpl, m_liAvailable
  lastWorking,   \* preference LastWorkingImplementation
  upnp,          \* "mini" is "idle", "searching" or "refreshing"
  upnpWants,     \* m_wndResultMessage of "mini"
  enabled,       \* IsUPnPEnabled
  homeOnly,      \* IsUPnPHomeOnly: the automatic set-up was agreed to
  timer,         \* m_hUPnPTimeOutTimer
  delayed,       \* m_bConnectRequestDelayedForUPnP
  connecting,    \* connecting to a server and Kademlia, or connected
  mpc            \* main thread: where it is

wrapVars == <<active, avail, lastWorking>>
upnpVars == <<upnp, upnpWants>>
prefVars == <<enabled, homeOnly>>
connVars == <<timer, delayed, connecting>>
vars == <<mapperVars, wrapVars, upnpVars, prefVars, connVars, mpc>>

\* Init of the wrapper: PCP is taken only if the user agreed to it
FirstImpl(home) ==
  IF lastWorking = "pcp" /\ ~home THEN "mini" ELSE lastWorking

Init ==
  /\ InitMapper
  /\ lastWorking = LastWorking
  /\ enabled \in BOOLEAN /\ homeOnly \in BOOLEAN
  /\ active = FirstImpl(homeOnly) /\ avail = Impl \ {active}
  /\ upnp = "idle" /\ upnpWants = FALSE
  /\ timer = FALSE /\ delayed = FALSE /\ connecting = FALSE
  /\ mpc = "start"

-------------------------------------------------------------------------------
(***************************************************************************)
(* StartUPnP and StartConnection                                           *)
(***************************************************************************)
Post(res) == queue' = Append(queue, Message(res, FALSE))

StartSearch ==
  IF upnp = "idle"
  THEN /\ upnp' = "searching" /\ upnpWants' = TRUE
       /\ timer' = TRUE
       /\ UNCHANGED queue
  ELSE Post("failed") /\ UNCHANGED <<upnpVars, timer>>

Busy == \/ timer
        \/ active = "pcp" /\ ~IsReady
        \/ active = "mini" /\ upnp # "idle"

\* StartUPnP(true): Reset makes all mappers available, Init takes one out
Restart(home) ==
  IF Busy \/ (home /\ ~net)
  THEN UNCHANGED <<mapperVars, active, avail, upnpVars, timer>>
  ELSE /\ active' = IF home THEN "pcp" ELSE "mini"
       /\ avail' = Impl \ {FirstImpl(home), active'}
       /\ UNCHANGED net
       /\ IF home /\ IsReady
          THEN StartDiscovery /\ timer' = TRUE /\ UNCHANGED upnpVars
          ELSE /\ IF home THEN Post("failed") /\ UNCHANGED <<upnpVars, timer>>
                          ELSE StartSearch
               /\ UNCHANGED <<maps, session, asked, implVars, timeVars, workVars>>

\* StartUPnP(false) after another mapper for UPnP was selected
Continue ==
  IF homeOnly /\ ~net
  THEN timer' = FALSE /\ UNCHANGED <<upnpVars, queue>>
  ELSE StartSearch

\* A second request connects regardless of the set-up
StartConnection(pending) ==
  IF pending /\ ~delayed
  THEN /\ delayed' = TRUE
       /\ timer' = pending
       /\ UNCHANGED connecting
  ELSE /\ delayed' = FALSE
       /\ timer' = FALSE
       /\ connecting' = TRUE

Startup ==
  /\ mpc = "start" /\ mpc' = "idle"
  /\ IF enabled THEN Restart(homeOnly)
     ELSE UNCHANGED <<mapperVars, active, avail, upnpVars, timer>>
  /\ UNCHANGED <<lastWorking, prefVars, delayed, connecting>>

\* Posted messages go before input and timers
Idle == mpc = "idle" /\ queue = <<>>

UserConnects ==
  /\ Idle /\ ~connecting
  /\ StartConnection(timer)
  /\ UNCHANGED <<mapperVars, wrapVars, upnpVars, prefVars, mpc>>

Disconnects ==
  /\ Idle /\ connecting
  /\ connecting' = FALSE
  /\ UNCHANGED <<mapperVars, wrapVars, upnpVars, prefVars, timer, delayed, mpc>>

-------------------------------------------------------------------------------
(***************************************************************************)
(* OnUPnPResult                                                            *)
(***************************************************************************)

\* a mistake: only a success ends the delay
ConcludeOnSuccess(ok) ==
  /\ lastWorking' = IF ok THEN active ELSE lastWorking
  /\ IF delayed /\ ok THEN StartConnection(FALSE)
     ELSE timer' = FALSE /\ UNCHANGED <<delayed, connecting>>

\* The set-up is over; ok: a first success, not a refresh
Conclude(ok) ==
  /\ lastWorking' = IF ok THEN active ELSE lastWorking
  /\ IF delayed THEN StartConnection(FALSE)
     ELSE timer' = FALSE /\ UNCHANGED <<delayed, connecting>>

OnUPnPResult ==
  /\ mpc = "idle" /\ queue # <<>>
  /\ queue' = Tail(queue)
  /\ LET m == Head(queue)
     IN  IF m.refresh \/ m.res = "ok"
         THEN /\ Conclude(m.res = "ok" /\ ~m.refresh)
              /\ UNCHANGED <<mpc, cancel>>
         ELSE /\ mpc' = m.res
              /\ cancel' = IF m.res = "timeout" /\ active = "pcp" THEN TRUE ELSE cancel
              /\ UNCHANGED <<lastWorking, connVars>>
  /\ UNCHANGED <<net, maps, session, asked, allowFallback, forwarded, wants,
                 refresh, leaseTimer, timeVars, workVars, active, avail,
                 upnpVars, prefVars>>

\* a mistake: StopAsyncFind does not wait for the worker
NotJoined == TRUE

Joined == IsReady

\* StopAsyncFind and DeletePorts of the mapper that took too long
TimedOut ==
  /\ mpc = "timeout" /\ mpc' = "failed"
  /\ IF active = "pcp"
     THEN Joined /\ DeletePorts /\ UNCHANGED <<net, queue, upnpVars>>
     ELSE upnp' = "idle" /\ UNCHANGED <<mapperVars, upnpWants>>
  /\ UNCHANGED <<wrapVars, prefVars, connVars>>

\* Discovery found no gateway: the worker is joined before the fallback
FallBack ==
  /\ mpc = "failed"
  /\ homeOnly /\ active = "pcp" /\ allowFallback
  /\ mpc' = "fallback" /\ cancel' = TRUE
  /\ UNCHANGED <<net, maps, session, asked, allowFallback, forwarded, wants,
                 refresh, leaseTimer, timeVars, workVars, queue, wrapVars,
                 upnpVars, prefVars, connVars>>

SelectUpnp == active' = "mini" /\ avail' = avail \ {"mini"}

SelectMini ==
  /\ mpc = "fallback" /\ IsReady
  /\ mpc' = "idle"
  /\ Stopped
  /\ IF "mini" \in avail
     THEN /\ SelectUpnp
          /\ Continue
          /\ UNCHANGED <<lastWorking, delayed, connecting>>
     ELSE Conclude(FALSE) /\ UNCHANGED <<active, avail, upnpVars, queue>>
  /\ UNCHANGED <<net, maps, session, asked, cancel, allowFallback, forwarded,
                 refresh, timeVars, workVars, prefVars>>

\* The path of the existing users of UPnP
SwitchImplementation ==
  /\ mpc = "failed"
  /\ ~homeOnly
  /\ "mini" \in avail
  /\ SelectUpnp
  /\ Continue
  /\ mpc' = "idle"
  /\ UNCHANGED <<net, maps, session, asked, implVars, timeVars, workVars,
                 lastWorking, prefVars, delayed, connecting>>

\* Nothing is left to try, or the diagnosis forbids it
SetupFails ==
  /\ mpc = "failed"
  /\ ~(homeOnly /\ active = "pcp" /\ allowFallback)
  /\ Conclude(FALSE)
  /\ mpc' = "idle"
  /\ UNCHANGED <<mapperVars, active, avail, upnpVars, prefVars>>

UPnPTimeOutTimer ==
  /\ Idle /\ timer
  /\ Post("timeout")
  /\ UNCHANGED <<net, maps, session, asked, implVars, timeVars, workVars,
                 wrapVars, upnpVars, prefVars, connVars, mpc>>

SearchEnds ==
  /\ upnp # "idle"
  /\ \E res \in {"ok", "failed"} :
       queue' = IF upnpWants
                THEN Append(queue, Message(res, upnp = "refreshing")) ELSE queue
  /\ upnp' = "idle" /\ upnpWants' = FALSE
  /\ UNCHANGED <<net, maps, session, asked, implVars, timeVars, workVars,
                 wrapVars, prefVars, connVars, mpc>>

-------------------------------------------------------------------------------
(***************************************************************************)
(* RefreshUPnP and MaintainLeases                                          *)
(***************************************************************************)
CanRefresh == session.established /\ enabled /\ homeOnly

\* RefreshUPnP; `answer' asks for a result
RefreshUPnP(answer) ==
  IF enabled /\ (homeOnly => net) /\ ~timer
  THEN IF active = "pcp"
       THEN /\ IF IsReady /\ CanRefresh
               THEN Launch(TRUE) /\ wants' = answer /\ timer' = answer
               ELSE /\ wants' = (wants /\ ~IsReady)
                    /\ UNCHANGED <<cancel, forwarded, refresh, workVars, timer>>
            /\ UNCHANGED <<upnpVars, net, maps, session, asked, allowFallback,
                           leaseTimer, timeVars, queue>>
       ELSE /\ \/ /\ upnp = "idle"
                  /\ upnp' = "refreshing" /\ upnpWants' = answer /\ timer' = answer
               \/ \* not ready, or nothing was mapped before
                  UNCHANGED <<upnpVars, timer>>
            /\ UNCHANGED mapperVars
  ELSE UNCHANGED <<mapperVars, upnpVars, timer>>

\* A server gave us a low ID
LowId ==
  /\ Idle /\ connecting
  /\ RefreshUPnP(FALSE)
  /\ UNCHANGED <<wrapVars, prefVars, delayed, connecting, mpc>>

\* The connection was closed on suspend; the request to connect follows
Resume ==
  /\ "suspend" \in Events
  /\ mpc = "idle" /\ connecting
  /\ RefreshUPnP(TRUE)
  /\ connecting' = FALSE
  /\ UNCHANGED <<wrapVars, prefVars, delayed, mpc>>

LeaseTimer == Idle /\ leaseTimer /\ active = "pcp"

RenewLeases ==
  /\ LeaseTimer /\ enabled /\ homeOnly
  /\ IsReady /\ session.established
  /\ IF renewIn > 0
     THEN /\ expiresIn = 0 /\ forwarded' = "false"
          /\ UNCHANGED <<renewIn, cancel, refresh, wants, workVars>>
     ELSE /\ renewIn' = 1
          /\ IF net THEN Launch(TRUE) /\ wants' = TRUE
             ELSE /\ forwarded' = "false" /\ wants' = FALSE
                  /\ UNCHANGED <<cancel, refresh, workVars>>
  /\ UNCHANGED <<net, maps, session, asked, allowFallback, leaseTimer, expiresIn,
                 queue, wrapVars, upnpVars, prefVars, connVars, mpc>>

JoinWorker(place) ==
  /\ mpc' = place /\ cancel' = TRUE
  /\ UNCHANGED <<net, maps, session, asked, allowFallback, forwarded, wants,
                 refresh, leaseTimer, timeVars, workVars, queue, wrapVars,
                 upnpVars, prefVars, connVars>>

StopLeases == LeaseTimer /\ ~(enabled /\ homeOnly) /\ JoinWorker("disable")

RemoveLeases ==
  /\ mpc = "disable" /\ IsReady
  /\ DeletePorts
  /\ mpc' = "idle"
  /\ UNCHANGED <<net, queue, wrapVars, upnpVars, prefVars, connVars>>

-------------------------------------------------------------------------------
(***************************************************************************)
(* The user's options, and the end of the program                          *)
(***************************************************************************)
SwitchOption ==
  /\ "prefs" \in Events /\ Idle
  /\ enabled' = ~enabled
  /\ IF enabled' THEN Restart(homeOnly)
     ELSE UNCHANGED <<mapperVars, active, avail, upnpVars, timer>>
  /\ UNCHANGED <<homeOnly, lastWorking, delayed, connecting, mpc>>

Wizard ==
  /\ "wizard" \in Events /\ Idle
  /\ IF enabled /\ homeOnly
     THEN /\ enabled' = FALSE /\ homeOnly' = FALSE
          /\ UNCHANGED <<mapperVars, active, avail, upnpVars, timer>>
     ELSE enabled' = TRUE /\ homeOnly' = TRUE /\ Restart(TRUE)
  /\ UNCHANGED <<lastWorking, delayed, connecting, mpc>>

\* OnClose stops the active mapper only
Close ==
  /\ "exit" \in Events /\ Idle
  /\ IF active = "pcp" THEN JoinWorker("close")
     ELSE /\ mpc' = "closed" /\ upnp' = "idle"
          /\ UNCHANGED <<mapperVars, wrapVars, upnpWants, prefVars, connVars>>

Closed ==
  /\ mpc = "close" /\ IsReady
  /\ \/ DeletePorts
     \/ \* the option to remove the mappings is off
        /\ Stopped
        /\ UNCHANGED <<maps, session, asked, cancel, allowFallback, forwarded,
                       refresh, timeVars, workVars>>
  /\ mpc' = "closed"
  /\ UNCHANGED <<net, queue, wrapVars, upnpVars, prefVars, connVars>>

-------------------------------------------------------------------------------
Handler ==
  \/ Startup \/ OnUPnPResult \/ TimedOut \/ FallBack \/ SelectMini
  \/ SwitchImplementation \/ SetupFails \/ RemoveLeases \/ Closed

User == UserConnects \/ Disconnects \/ LowId \/ Resume \/ SwitchOption \/ Wizard \/ Close

setupVars == <<wrapVars, upnpVars, prefVars, connVars, mpc>>

Next ==
  \/ Handler \/ User
  \/ UPnPTimeOutTimer \/ SearchEnds \/ RenewLeases \/ StopLeases
  \/ (Work \/ Tick \/ NetworkChanges) /\ UNCHANGED setupVars

Spec == Init /\ [][Next]_vars

\* Threads are scheduled, messages are handled, a timer fires, a search ends
FairSpec ==
  /\ Spec
  /\ WF_vars(Handler) /\ WF_vars(Work /\ UNCHANGED setupVars)
  /\ WF_vars(UPnPTimeOutTimer) /\ WF_vars(SearchEnds)

-------------------------------------------------------------------------------
(***************************************************************************)
(* Properties                                                              *)
(***************************************************************************)

\* Types of both modules; a mapper is never active and left to try.
TypeOK ==
  /\ MapperTypeOK
  /\ active \in Impl /\ avail \subseteq Impl \ {active}
  /\ lastWorking \in Impl
  /\ upnp \in {"idle", "searching", "refreshing"} /\ upnpWants \in BOOLEAN
  /\ enabled \in BOOLEAN /\ homeOnly \in BOOLEAN
  /\ timer \in BOOLEAN /\ delayed \in BOOLEAN /\ connecting \in BOOLEAN
  /\ mpc \in {"start", "idle", "timeout", "failed", "fallback", "disable",
              "close", "closed"}

\* Cleanup can reach each mapping: whatever the gateway grants, however late
\* or in vain, its nonce is in the session until a deletion was sent for it
\* or the session was reset (CleanupOnNetwork tells when that may be).
MappingsAreTracked ==
  \A l \in Lease : maps[l].by = "current" => l \in session.issued

\* A mapping is abandoned without a try to delete it only while the network
\* is not the one it was made on, or when the program ends.
CleanupOnNetwork ==
  [][\A l \in Lease : maps[l].by = "current" /\ maps'[l].by = "old" => ~net]_vars

\* Ports that count as forwarded are mapped: the worker reckons the lease from
\* before the first request, and the shortest lease counts (Work, Run).
ForwardedIsMapped ==
  forwarded = "true" /\ expiresIn > 0 =>
    \A l \in Lease : maps[l].by \in {"current", "nat"}

\* The fallback never bypasses a refusal or an uncertain result of a mapping
\* request: it is taken only if no such request was sent.
FallbackIsUnmapped == mpc = "fallback" => ~asked

\* Two mappers never negotiate with the gateway at the same time.
OneMapperAtATime ==
  upnp # "idle" => wpc \in {"none", "tail", "report", "last"}

\* "we delay the connection until UPnP gets a result or the timeout is
\* reached" (StartConnection): it is made, or the program ends.
DelayedConnects == delayed ~> (~delayed \/ mpc = "closed")

\* "The new path tries ... Verified MiniUPnP when discovery is unavailable":
\* a fallback ends with MiniUPnP as the active mapper.
FallbackTriesUpnp ==
  [][mpc = "fallback" /\ mpc' # "fallback" => active' = "mini"]_vars
===============================================================================
