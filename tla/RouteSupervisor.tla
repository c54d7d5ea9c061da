--------------------------- MODULE RouteSupervisor ---------------------------
(* The permanent shell page (loader/index.ts, boot): it connects the first    *)
(* route, reconnects a lost one, and warms a TCP replacement for a slow UDP   *)
(* route, to which it hands over new requests.  Route 1 is the client that    *)
(* owns the MessagePort to the service worker; every later route answers      *)
(* through it (client.ts, adoptSuccessor).                                    *)
(*                                                                            *)
(* Page scripts run to completion, so each task with the microtasks it queues *)
(* is one step; connect and attach are split where they await.                *)
EXTENDS Integers

CONSTANTS
    MaxRoutes,              \* bound: clients ever promoted, the first included
    AdaptiveTcp,            \* what config.transport.adaptiveTcp.enabled may be
    Delays                  \* the number of RETRY_BASE_DELAYS_MS

ASSUME MaxRoutesAssumption == MaxRoutes \in Nat \ {0}
ASSUME AdaptiveTcpAssumption == AdaptiveTcp \subseteq BOOLEAN
ASSUME DelaysAssumption == Delays \in Nat \ {0}

VARIABLES
    boot,                   \* the local variables of boot()
    active,                 \* activeClient; the successor of i < active is i + 1
    rtc,                    \* of a client: its RTCPeerConnection
    down,                   \* of a client: transportDown
    forced,                 \* of a client: the last answer was forced to TCP
    attached,               \* the worker holds a ready port to client 1
    hooks,                  \* client 1 listens to WAKE (listeningForWorkerWake)
    waking                  \* client 1 is reattaching after a WAKE

vars == <<boot, active, rtc, down, forced, attached, hooks, waking>>
Routes == 1..MaxRoutes

\* boot has called connectTransport(false) with the remembered preference.
Init ==
    /\ \E route \in {"auto", "tcp"}, enabled \in AdaptiveTcp :
         boot = [stage |-> "rtc", route |-> 1, via |-> route,
                 retryTimer |-> FALSE, retryAttempt |-> 0, everConnected |-> FALSE,
                 onLine |-> TRUE, pending |-> FALSE, attempted |-> FALSE,
                 warming |-> FALSE, stale |-> FALSE, preferred |-> route, shown |-> "testing",
                 adaptive |-> enabled]
    /\ active = 1
    /\ rtc = [i \in Routes |-> IF i = 1 THEN "opening" ELSE "none"]
    /\ down = [i \in Routes |-> FALSE] /\ forced = [i \in Routes |-> FALSE]
    /\ attached = FALSE /\ hooks = FALSE /\ waking = FALSE

-----------------------------------------------------------------------------
(* Steps of the handlers, on the record of boot's variables.                  *)
Connecting(b) == b.stage # "no"

\* retryAttempt is kept as the index of its delay, which stays at the last one.
ScheduleRetry(b, allowBeforeFirstConnection) ==
    IF (~b.everConnected /\ ~allowBeforeFirstConnection) \/ Connecting(b)
       \/ b.retryTimer
    THEN b ELSE [b EXCEPT !.retryTimer = TRUE, !.shown = "disconnected",
                           !.retryAttempt = IF @ < Delays THEN @ + 1 ELSE @]

RunAdaptiveFallback(b) ==
    IF ~b.pending \/ b.attempted \/ Connecting(b) \/ b.warming \/ ~b.onLine
    THEN b
    ELSE [b EXCEPT !.pending = FALSE, !.attempted = TRUE, !.retryTimer = FALSE,
                   !.warming = TRUE, !.stale = FALSE, !.shown = "testing"]

\* connectTransport: a second caller shares the promise of the first.
ConnectTransport(b) ==
    LET c == [b EXCEPT !.retryTimer = FALSE, !.shown = "testing"] IN
    IF Connecting(b) THEN c
    ELSE [c EXCEPT !.stage = "rtc", !.route = active, !.via = b.preferred]

\* Its finally and the catch of its callers, in this order.
Settled(b) == RunAdaptiveFallback([b EXCEPT !.stage = "no"])

ConnectionFailed(b) ==
    LET c == Settled([b EXCEPT !.preferred = IF b.via = "tcp" THEN "auto" ELSE @])
    IN IF c.everConnected THEN ScheduleRetry(c, FALSE)
       ELSE [c EXCEPT !.shown = "unavailable"]

ResetRouteState(b, clearPending) ==
    [b EXCEPT !.stale = TRUE, !.preferred = "auto", !.attempted = FALSE,
              !.pending = @ /\ ~clearPending]

\* A rejected attachment fails its attempt before any other task runs.
TaskRuns == boot.stage # "rejected"

-----------------------------------------------------------------------------
(* The clients.                                                               *)
TransportIsOpen(i) == \E j \in i..active : rtc[j] = "open"

\* Mutant: only the next client is looked at, not the end of the chain.
SuccessorHealthyDirect(i) == i < active /\ rtc[i + 1] = "open"

SuccessorHealthy(i) == i < active /\ TransportIsOpen(i + 1)

\* Losing client 1 or its connection rejects an attachment in progress.
RejectAttach(b, i) ==
    IF i = 1 /\ b.stage = "attach" THEN [b EXCEPT !.stage = "rejected"] ELSE b

\* teardown: with a healthy successor only this association goes; otherwise the
\* worker is told DOWN and the listeners run, of which only the active client's,
\* and only while nothing else connects, starts the schedule.
Teardown(i) ==
    LET b == RejectAttach(boot, i) IN
    /\ down' = [down EXCEPT ![i] = ~SuccessorHealthy(i)]
    /\ rtc' = [rtc EXCEPT ![i] = IF SuccessorHealthy(i) \/ @ = "none" THEN "none"
                                   ELSE "dead"]
    /\ attached' = (attached /\ SuccessorHealthy(i))
    /\ waking' = (waking /\ i # 1)
    /\ boot' = IF i = active /\ ~b.warming THEN ScheduleRetry(b, FALSE) ELSE b
    /\ UNCHANGED <<active, forced, hooks>>

\* ICE fails, its grace period ends, or lane 0 closes.
LoseRoute(i) == TaskRuns /\ rtc[i] = "open" /\ Teardown(i)

\* onDrained of a predecessor: retireTransport.
Drained(i) ==
    /\ TaskRuns /\ i < active /\ rtc[i] # "none"
    /\ rtc' = [rtc EXCEPT ![i] = "none"]
    /\ waking' = (waking /\ i # 1)
    /\ boot' = RejectAttach(boot, i)
    /\ UNCHANGED <<active, down, forced, attached, hooks>>

\* The worker restarts, or drops its port.
WorkerLosesPort ==
    /\ TaskRuns /\ attached /\ attached' = FALSE
    /\ UNCHANGED <<boot, active, rtc, down, forced, hooks, waking>>

\* A WAKE while nothing attaches.  With transportDown attachPortToWorker refuses,
\* and the teardown that follows finds nothing to do.
Wake ==
    /\ TaskRuns /\ hooks /\ ~attached /\ ~waking /\ boot.stage # "attach"
    /\ TransportIsOpen(1) /\ ~down[1]
    /\ waking' = TRUE
    /\ UNCHANGED <<boot, active, rtc, down, forced, attached, hooks>>

WakeAttached ==
    /\ TaskRuns /\ waking /\ waking' = FALSE /\ attached' = TRUE
    /\ UNCHANGED <<boot, active, rtc, down, forced, hooks>>

WakeFails == TaskRuns /\ waking /\ Teardown(1)

-----------------------------------------------------------------------------
(* connectTransport.                                                          *)
\* Mutant: connect does not reset transportDown.
ReconnectStaysDown(b) ==
    /\ boot' = ConnectTransport(b)
    /\ IF Connecting(b) THEN UNCHANGED <<rtc, down, attached, hooks, waking>>
       ELSE /\ rtc' = [rtc EXCEPT ![active] = "opening"]
            /\ UNCHANGED down
            /\ attached' = (attached /\ down[active] /\ active # 1)
            /\ hooks' = (hooks /\ active # 1) /\ waking' = (waking /\ active # 1)
    /\ UNCHANGED <<active, forced>>

\* retireRoute and connect of the active client, unless an attempt is under way.
Reconnect(b) ==
    /\ boot' = ConnectTransport(b)
    /\ IF Connecting(b) THEN UNCHANGED <<rtc, down, attached, hooks, waking>>
       ELSE /\ rtc' = [rtc EXCEPT ![active] = "opening"]
            /\ down' = [down EXCEPT ![active] = FALSE]
            /\ attached' = (attached /\ down[active] /\ active # 1)
            /\ hooks' = (hooks /\ active # 1) /\ waking' = (waking /\ active # 1)
    /\ UNCHANGED <<active, forced>>

\* Lane 0 is open.  Client 1 goes on to attach; for a delegated route boot calls
\* client.attach, which fails at once when client 1 is down, and by its rejection
\* tears client 1 down when it replaces the port of a WAKE's attachment.
RtcOpens ==
    LET i == boot.route IN
    /\ boot.stage = "rtc" /\ rtc[i] = "opening"
    /\ boot' = [boot EXCEPT !.stage = IF down[1] \/ waking THEN "rejected" ELSE "attach"]
    /\ rtc' = [rtc EXCEPT ![i] = "open", ![1] = IF waking THEN "none"
                                                ELSE IF i = 1 THEN "open" ELSE @]
    /\ down' = [down EXCEPT ![1] = IF waking THEN i = 1 /\ ~SuccessorHealthy(1) ELSE @]
    /\ forced' = [forced EXCEPT ![i] = boot.via = "tcp"]
    /\ attached' = FALSE /\ hooks' = TRUE /\ waking' = FALSE
    /\ UNCHANGED active

\* The worker acknowledges.  connect of client 1 looks at its transport again.
ConnectSucceeds ==
    /\ boot.stage = "attach" /\ (boot.route = 1 => rtc[1] = "open")
    /\ boot' = Settled([boot EXCEPT !.everConnected = TRUE, !.retryAttempt = 0,
                                     !.shown = "connected"])
    /\ attached' = TRUE
    /\ UNCHANGED <<active, rtc, down, forced, hooks, waking>>

\* connect throws: the client is torn down and released if it is still the
\* connection of this attempt.  A delegated route stays up when only the
\* attachment fails.
ConnectFails ==
    LET i == boot.route
        mine == rtc[i] # "none" /\ (i = 1 \/ boot.stage = "rtc")
        lost == mine /\ (down[i] \/ ~SuccessorHealthy(i))
    IN
    /\ Connecting(boot) /\ boot' = ConnectionFailed(boot)
    /\ rtc' = [rtc EXCEPT ![i] = IF mine THEN "none" ELSE @]
    /\ down' = [down EXCEPT ![i] = @ \/ lost]
    /\ attached' = (attached /\ (down[i] \/ ~lost))
    /\ hooks' = (hooks /\ ~(lost /\ i = 1)) /\ waking' = (waking /\ ~(mine /\ i = 1))
    /\ UNCHANGED <<active, forced>>

\* The retry timer; while the browser is offline it only sets itself again.
RetryTimer ==
    /\ boot.retryTimer
    /\ IF boot.onLine THEN Reconnect(boot)
       ELSE /\ boot' = ScheduleRetry([boot EXCEPT !.retryTimer = FALSE],
                                     ~boot.everConnected)
            /\ UNCHANGED <<active, rtc, down, forced, attached, hooks, waking>>

\* The reconnect event of the network panel (Try Again).
ReconnectRequest ==
    LET b == [boot EXCEPT !.retryTimer = FALSE, !.retryAttempt = 0] IN
    /\ TaskRuns
    /\ IF boot.onLine THEN Reconnect(b)
       ELSE /\ boot' = ScheduleRetry(b, ~b.everConnected)
            /\ UNCHANGED <<active, rtc, down, forced, attached, hooks, waking>>

Offline ==
    /\ TaskRuns /\ boot.onLine
    /\ boot' = ResetRouteState([boot EXCEPT !.onLine = FALSE], TRUE)
    /\ UNCHANGED <<active, rtc, down, forced, attached, hooks, waking>>

Online ==
    LET b == ResetRouteState([boot EXCEPT !.onLine = TRUE], FALSE) IN
    /\ TaskRuns /\ ~boot.onLine
    /\ IF ~b.pending /\ b.retryTimer /\ ~Connecting(b) THEN Reconnect(b)
       ELSE /\ boot' = RunAdaptiveFallback(b)
            /\ UNCHANGED <<active, rtc, down, forced, attached, hooks, waking>>

\* NetworkInformation reports another network.
NetworkChange ==
    /\ TaskRuns /\ boot' = ResetRouteState(boot, TRUE)
    /\ UNCHANGED <<active, rtc, down, forced, attached, hooks, waking>>

-----------------------------------------------------------------------------
(* The adaptive TCP replacement.                                              *)
\* The goodput monitor of a UDP route that serves responses finds it slow.
Suggest ==
    /\ TaskRuns /\ boot.adaptive /\ active < MaxRoutes
    /\ rtc[active] = "open" /\ ~forced[active] /\ boot.everConnected
    /\ Connecting(boot) => boot.route # active
    /\ ~boot.attempted /\ ~boot.pending
    /\ boot' = RunAdaptiveFallback([boot EXCEPT !.pending = TRUE])
    /\ UNCHANGED <<active, rtc, down, forced, attached, hooks, waking>>

\* The replacement is open: it becomes the active client, unless the network
\* changed meanwhile.
WarmUpSucceeds ==
    /\ TaskRuns /\ boot.warming
    /\ IF boot.stale \/ ~boot.onLine \/ active = MaxRoutes
       THEN boot' = [boot EXCEPT !.warming = FALSE] /\ UNCHANGED <<active, rtc, forced>>
       ELSE /\ active' = active + 1
            /\ rtc' = [rtc EXCEPT ![active + 1] = "open"]
            /\ forced' = [forced EXCEPT ![active + 1] = TRUE]
            /\ boot' = [boot EXCEPT !.warming = FALSE, !.preferred = "tcp",
                                    !.shown = "connected"]
    /\ UNCHANGED <<down, attached, hooks, waking>>

WarmUpFails ==
    /\ TaskRuns /\ boot.warming
    /\ boot' = [boot EXCEPT !.warming = FALSE, !.preferred = "auto",
                            !.shown = "connected"]
    /\ UNCHANGED <<active, rtc, down, forced, attached, hooks, waking>>

-----------------------------------------------------------------------------
Worker == WorkerLosesPort \/ Wake \/ WakeAttached \/ WakeFails
Browser == ReconnectRequest \/ Offline \/ Online \/ NetworkChange
Attempt == RtcOpens \/ ConnectSucceeds \/ ConnectFails \/ RetryTimer
Replacement == Suggest \/ WarmUpSucceeds \/ WarmUpFails

Next ==
    \/ \E i \in Routes : LoseRoute(i) \/ Drained(i)
    \/ Worker \/ Browser \/ Attempt \/ Replacement

Spec == Init /\ [][Next]_vars

\* Timers fire, promises settle, and the browser comes online again; attempts
\* that are made again and again succeed some time, as on a network that works
\* again.  The worker sends a WAKE whenever it misses its port.
FairSpec ==
    /\ Spec
    /\ WF_vars(Online) /\ SF_vars(RetryTimer) /\ WF_vars(ConnectFails)
    /\ SF_vars(RtcOpens) /\ SF_vars(ConnectSucceeds)
    /\ WF_vars(Wake) /\ SF_vars(WakeAttached)

-----------------------------------------------------------------------------
\* index.ts:388-396, 412-417 -- "The established UDP route remains untouched":
\* once connected, a route that is down always has an attempt to replace it.
LostRouteIsRetried ==
    boot.everConnected /\ rtc[active] # "open"
      => boot.retryTimer \/ Connecting(boot) \/ boot.warming

-----------------------------------------------------------------------------
(* Properties.                                                                *)

\* client.ts:1760-1764, 1789-1797 -- the end of a drained or lost predecessor
\* does not take the worker's port from the requests of the active route.
PredecessorLeavesQuietly ==
    [][(/\ rtc[active] = "open" /\ active' = active /\ rtc'[active] = "open"
        /\ \E i \in Routes : i < active /\ rtc[i] = "open" /\ rtc'[i] # "open")
       => (attached => attached')]_vars

\* index.ts:273-343, 401-452 -- without adaptive TCP, a route lost after the first
\* connection is served again: the worker is attached and the active route open.
PlainRouteIsServedAgain ==
    (~boot.adaptive /\ boot.everConnected /\ rtc[active] # "open")
      ~> (attached /\ rtc[active] = "open")
=============================================================================
