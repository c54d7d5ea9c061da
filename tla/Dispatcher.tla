----------------------------- MODULE Dispatcher -----------------------------
(* Admission and dispatch of requests on the content node (server.go): every *)
(* peer session admits requests into priority queues, and its dispatchLoop    *)
(* starts their handlers under per-peer limits and process-wide tokens shared *)
(* with all other peers.                                                      *)
(*                                                                            *)
(* Each critical section of PeerSession.mu and each operation on a channel is *)
(* one step; the two sends on token channels of one release, and the          *)
(* signalDispatch that follows them, are taken together.                      *)
EXTENDS Integers, Sequences, FiniteSets

CONSTANTS
    Peers, Requests,
    Owner,                  \* the peer that sends each request
    Priorities,             \* RequestHead.Priority; 0 is interactive
    Assignments,            \* the priorities the requests may have together
    MaxAdmitted,            \* maxAdmittedRequestsPerPeer
    MaxActive,              \* maxActiveRequestsPerPeer
    MaxNonInteractive,      \* maxActiveNonInteractivePerPeer
    GlobalAdmitted, GlobalActive, GlobalNonInteractive   \* the token channels

ASSUME OwnerAssumption ==
    IsFiniteSet(Requests) /\ IsFiniteSet(Peers) /\ Owner \in [Requests -> Peers]
ASSUME PrioritiesAssumption ==
    Priorities \subseteq 0..3 /\ Assignments \subseteq [Requests -> Priorities]
ASSUME PeerLimitsAssumption ==
    MaxAdmitted \in Nat /\ MaxActive \in Nat /\ MaxNonInteractive \in Nat
ASSUME TokensAssumption ==
    GlobalAdmitted \in Nat /\ GlobalActive \in Nat /\ GlobalNonInteractive \in Nat

VARIABLES
    prio,                   \* the priority of each request, fixed
    status,                 \* of a request: its life in PeerSession.requests
    started, handler,       \* requestState.started, and its serveRequest
    pending,                \* PeerSession.pending, a queue per priority
    activeHandlers, activeNonInteractive, closed, wake,
    loop, chosen,           \* dispatchLoop of each peer, and its local state
    admissionTokens, activeTokens, nonInteractiveTokens

session == <<pending, activeHandlers, activeNonInteractive, closed>>
tokens == <<admissionTokens, activeTokens, nonInteractiveTokens>>
vars == <<prio, status, started, handler, session, wake, loop, chosen, tokens>>

None == "none"
Of(p) == {r \in Requests : Owner[r] = p}
InMap == {"new", "live"}
Live(p) == {r \in Of(p) : status[r] \in InMap}

Init ==
    /\ prio \in Assignments
    /\ status = [r \in Requests |-> "unsent"]
    /\ started = [r \in Requests |-> FALSE]
    /\ handler = [r \in Requests |-> "none"]
    /\ pending = [p \in Peers |-> [n \in Priorities |-> <<>>]]
    /\ activeHandlers = [p \in Peers |-> 0]
    /\ activeNonInteractive = [p \in Peers |-> 0]
    /\ closed = [p \in Peers |-> FALSE] /\ wake = [p \in Peers |-> FALSE]
    /\ loop = [p \in Peers |-> "unborn"] /\ chosen = [p \in Peers |-> None]
    /\ admissionTokens = GlobalAdmitted /\ activeTokens = GlobalActive
    /\ nonInteractiveTokens = GlobalNonInteractive

-----------------------------------------------------------------------------
(* The lanes' read loops and the handlers.                                    *)
\* begin, under mu: refused for capacity, or admitted.
Begin(r) ==
    LET p == Owner[r] IN
    /\ status[r] = "unsent" /\ ~closed[p]
    /\ IF Cardinality(Live(p)) < MaxAdmitted /\ admissionTokens > 0
       THEN /\ status' = [status EXCEPT ![r] = "new"]
            /\ admissionTokens' = admissionTokens - 1
            /\ pending' = [pending EXCEPT ![p][prio[r]] = Append(@, r)]
       ELSE /\ status' = [status EXCEPT ![r] = "gone"]
            /\ UNCHANGED <<admissionTokens, pending>>
    /\ UNCHANGED <<prio, started, handler, activeHandlers, activeNonInteractive,
                   closed, wake, loop, chosen, activeTokens, nonInteractiveTokens>>

\* begin, after the unlock: the first admission starts the dispatch loop, every
\* one signals it.  The loop, once born, may start the request before that.  When
\* the request is removed first, this signal is merged with the remover's, which
\* comes no earlier; a loop born for it after Close would only stop.
BeginSignals(r) ==
    LET p == Owner[r] IN
    /\ status[r] = "new" /\ status' = [status EXCEPT ![r] = "live"]
    /\ loop' = [loop EXCEPT ![p] = IF @ = "unborn" THEN "scan" ELSE @]
    /\ wake' = [wake EXCEPT ![p] = TRUE]
    /\ UNCHANGED <<prio, started, handler, session, chosen, tokens>>

\* CANCEL, the loss of the request's lane or of its body: whoever calls
\* cancelRequestStateWithTrailing takes the request out of the map under mu.
Cancel(r) ==
    /\ status[r] \in InMap /\ status' = [status EXCEPT ![r] = "returning"]
    /\ UNCHANGED <<prio, started, handler, session, wake, loop, chosen, tokens>>

\* The remover returns the admission token and signals.
ReturnAdmission(r) ==
    /\ status[r] = "returning" /\ status' = [status EXCEPT ![r] = "gone"]
    /\ admissionTokens' = admissionTokens + 1
    /\ wake' = [wake EXCEPT ![Owner[r]] = TRUE]
    /\ handler' = [handler EXCEPT ![r] = IF @ = "remove" THEN "exit" ELSE @]
    /\ UNCHANGED <<prio, started, session, loop, chosen, activeTokens,
                   nonInteractiveTokens>>

\* serveRequest: Serve returns, and finishHandledRequest removes the request
\* unless somebody else did.
HandlerReturns(r) ==
    /\ handler[r] = "serving"
    /\ IF status[r] \in InMap
       THEN /\ status' = [status EXCEPT ![r] = "returning"]
            /\ handler' = [handler EXCEPT ![r] = "remove"]
       ELSE handler' = [handler EXCEPT ![r] = "exit"] /\ UNCHANGED status
    /\ UNCHANGED <<prio, started, session, wake, loop, chosen, tokens>>

\* handlerExited, under mu.
HandlerExited(r) ==
    LET p == Owner[r] IN
    /\ handler[r] = "exit" /\ handler' = [handler EXCEPT ![r] = "release"]
    /\ activeHandlers' = [activeHandlers EXCEPT ![p] = @ - 1]
    /\ activeNonInteractive' =
         [activeNonInteractive EXCEPT ![p] = IF prio[r] = 0 THEN @ ELSE @ - 1]
    /\ UNCHANGED <<prio, status, started, pending, closed, wake, loop,
                   chosen, tokens>>

ReleaseActiveTokens(r) ==
    /\ activeTokens' = activeTokens + 1
    /\ nonInteractiveTokens' =
         IF prio[r] = 0 THEN nonInteractiveTokens ELSE nonInteractiveTokens + 1

\* handlerExited, after the unlock.
HandlerReleases(r) ==
    /\ handler[r] = "release" /\ handler' = [handler EXCEPT ![r] = "done"]
    /\ ReleaseActiveTokens(r)
    /\ wake' = [wake EXCEPT ![Owner[r]] = TRUE]
    /\ UNCHANGED <<prio, status, started, session, loop, chosen, admissionTokens>>

\* Mutant: only requests that run are taken out of the map.
CloseForgetsQueued(p) ==
    /\ ~closed[p] /\ closed' = [closed EXCEPT ![p] = TRUE]
    /\ status' = [r \in Requests |-> IF r \in Live(p) /\ started[r] THEN "returning" ELSE status[r]]
    /\ wake' = [wake EXCEPT ![p] = TRUE]
    /\ UNCHANGED <<prio, started, handler, pending, activeHandlers,
                   activeNonInteractive, loop, chosen, tokens>>

\* Close: every request of the peer is taken out of the map at once.
Close(p) ==
    /\ ~closed[p] /\ closed' = [closed EXCEPT ![p] = TRUE]
    /\ status' = [r \in Requests |-> IF r \in Live(p) THEN "returning" ELSE status[r]]
    /\ wake' = [wake EXCEPT ![p] = TRUE]
    /\ UNCHANGED <<prio, started, handler, pending, activeHandlers,
                   activeNonInteractive, loop, chosen, tokens>>

-----------------------------------------------------------------------------
(* dispatchLoop.                                                              *)
\* nextPendingLocked: the first request, by priority and then by arrival, that
\* is neither started nor removed, in the classes that have room.
Runnable(r) == status[r] \in InMap /\ ~started[r]

Eligible(p, n) == n = 0 \/ activeNonInteractive[p] < MaxNonInteractive

Least(S) == CHOOSE n \in S : \A k \in S : n <= k

FirstRunnable(queue) ==
    LET runnable == {i \in DOMAIN queue : Runnable(queue[i])}
    IN IF runnable = {} THEN 0 ELSE Least(runnable)

Candidates(p) ==
    {n \in Priorities : /\ activeHandlers[p] < MaxActive /\ Eligible(p, n)
                        /\ FirstRunnable(pending[p][n]) # 0}

Best(p) == Least(Candidates(p))

NextPending(p) ==
    IF Candidates(p) = {} THEN None
    ELSE pending[p][Best(p)][FirstRunnable(pending[p][Best(p)])]

\* What the same scan drops from the queues it visits.
Pruned(queue) ==
    IF FirstRunnable(queue) = 0 THEN <<>>
    ELSE SubSeq(queue, FirstRunnable(queue), Len(queue))

PruneVisited(p) ==
    [n \in Priorities |->
       IF /\ activeHandlers[p] < MaxActive /\ Eligible(p, n)
          /\ \A k \in Candidates(p) : n <= k
       THEN Pruned(pending[p][n]) ELSE pending[p][n]]

Scan(p) ==
    /\ loop[p] = "scan"
    /\ IF closed[p]
       THEN /\ loop' = [loop EXCEPT ![p] = "stopped"] /\ UNCHANGED <<pending, chosen>>
       ELSE /\ pending' = [pending EXCEPT ![p] = PruneVisited(p)]
            /\ chosen' = [chosen EXCEPT ![p] = NextPending(p)]
            /\ loop' = [loop EXCEPT ![p] =
                          IF NextPending(p) = None THEN "idle"
                          ELSE IF prio[NextPending(p)] = 0 THEN "active" ELSE "class"]
    /\ UNCHANGED <<prio, status, started, handler, activeHandlers,
                   activeNonInteractive, closed, wake, tokens>>

\* The select of an idle loop.
Idle(p) ==
    /\ loop[p] = "idle"
    /\ \/ wake[p] /\ wake' = [wake EXCEPT ![p] = FALSE]
          /\ loop' = [loop EXCEPT ![p] = "scan"]
       \/ closed[p] /\ loop' = [loop EXCEPT ![p] = "stopped"] /\ UNCHANGED wake
    /\ UNCHANGED <<prio, status, started, handler, session, chosen, tokens>>

\* waitForActiveTokens, first select: the non-interactive token, a wake or done.
WaitForClassToken(p) ==
    /\ loop[p] = "class"
    /\ \/ /\ nonInteractiveTokens > 0
          /\ nonInteractiveTokens' = nonInteractiveTokens - 1
          /\ loop' = [loop EXCEPT ![p] = "active"] /\ UNCHANGED wake
       \/ /\ wake[p] /\ wake' = [wake EXCEPT ![p] = FALSE]
          /\ loop' = [loop EXCEPT ![p] = "scan"] /\ UNCHANGED nonInteractiveTokens
       \/ /\ closed[p] /\ loop' = [loop EXCEPT ![p] = "scan"]
          /\ UNCHANGED <<wake, nonInteractiveTokens>>
    /\ UNCHANGED <<prio, status, started, handler, session, chosen,
                   admissionTokens, activeTokens>>

\* Mutant: giving up keeps the class token.
WaitForActiveTokenKeepsClass(p) ==
    LET giveUp == nonInteractiveTokens' = nonInteractiveTokens
    IN
    /\ loop[p] = "active"
    /\ \/ /\ activeTokens > 0 /\ activeTokens' = activeTokens - 1
          /\ loop' = [loop EXCEPT ![p] = "start"]
          /\ UNCHANGED <<wake, nonInteractiveTokens>>
       \/ /\ wake[p] /\ wake' = [wake EXCEPT ![p] = FALSE] /\ giveUp
          /\ loop' = [loop EXCEPT ![p] = "scan"] /\ UNCHANGED activeTokens
       \/ /\ closed[p] /\ giveUp
          /\ loop' = [loop EXCEPT ![p] = "scan"] /\ UNCHANGED <<wake, activeTokens>>
    /\ UNCHANGED <<prio, status, started, handler, session, chosen,
                   admissionTokens>>

\* waitForActiveTokens, second select; giving up returns the first token.
WaitForActiveToken(p) ==
    LET giveUp == nonInteractiveTokens' = IF prio[chosen[p]] = 0
                    THEN nonInteractiveTokens ELSE nonInteractiveTokens + 1
    IN
    /\ loop[p] = "active"
    /\ \/ /\ activeTokens > 0 /\ activeTokens' = activeTokens - 1
          /\ loop' = [loop EXCEPT ![p] = "start"]
          /\ UNCHANGED <<wake, nonInteractiveTokens>>
       \/ /\ wake[p] /\ wake' = [wake EXCEPT ![p] = FALSE] /\ giveUp
          /\ loop' = [loop EXCEPT ![p] = "scan"] /\ UNCHANGED activeTokens
       \/ /\ closed[p] /\ giveUp
          /\ loop' = [loop EXCEPT ![p] = "scan"] /\ UNCHANGED <<wake, activeTokens>>
    /\ UNCHANGED <<prio, status, started, handler, session, chosen,
                   admissionTokens>>

\* canStart, under mu: the request may have been removed, and the room taken,
\* while the tokens were awaited.
CanStart(p, r) ==
    /\ ~closed[p] /\ Runnable(r) /\ activeHandlers[p] < MaxActive
    /\ Eligible(p, prio[r])

\* Mutant: a start that is called off keeps its tokens.
StartKeepsTokens(p) ==
    LET r == chosen[p] IN
    /\ loop[p] = "start" /\ loop' = [loop EXCEPT ![p] = "scan"]
    /\ IF CanStart(p, r)
       THEN /\ started' = [started EXCEPT ![r] = TRUE]
            /\ handler' = [handler EXCEPT ![r] = "serving"]
            /\ activeHandlers' = [activeHandlers EXCEPT ![p] = @ + 1]
            /\ activeNonInteractive' =
                 [activeNonInteractive EXCEPT ![p] = IF prio[r] = 0 THEN @ ELSE @ + 1]
            /\ UNCHANGED <<activeTokens, nonInteractiveTokens>>
       ELSE /\ UNCHANGED <<activeTokens, nonInteractiveTokens, started, handler, activeHandlers, activeNonInteractive>>
    /\ UNCHANGED <<prio, status, pending, closed, wake, chosen,
                   admissionTokens>>

Start(p) ==
    LET r == chosen[p] IN
    /\ loop[p] = "start" /\ loop' = [loop EXCEPT ![p] = "scan"]
    /\ IF CanStart(p, r)
       THEN /\ started' = [started EXCEPT ![r] = TRUE]
            /\ handler' = [handler EXCEPT ![r] = "serving"]
            /\ activeHandlers' = [activeHandlers EXCEPT ![p] = @ + 1]
            /\ activeNonInteractive' =
                 [activeNonInteractive EXCEPT ![p] = IF prio[r] = 0 THEN @ ELSE @ + 1]
            /\ UNCHANGED <<activeTokens, nonInteractiveTokens>>
       ELSE /\ ReleaseActiveTokens(r)
            /\ UNCHANGED <<started, handler, activeHandlers, activeNonInteractive>>
    /\ UNCHANGED <<prio, status, pending, closed, wake, chosen,
                   admissionTokens>>

-----------------------------------------------------------------------------
Request(r) ==
    \/ Begin(r) \/ BeginSignals(r) \/ Cancel(r) \/ ReturnAdmission(r)
    \/ HandlerReturns(r) \/ HandlerExited(r) \/ HandlerReleases(r)

DispatchLoop(p) ==
    Scan(p) \/ Idle(p) \/ WaitForClassToken(p) \/ WaitForActiveToken(p) \/ Start(p)

Next ==
    \/ \E r \in Requests : Request(r)
    \/ \E p \in Peers : Close(p) \/ DispatchLoop(p)

Spec == Init /\ [][Next]_vars

\* Goroutines are scheduled and handlers return.  Every request is begun once and
\* every loop acts only on their signals, so the steps are finitely many and it is
\* enough that one is taken while any is enabled.  Nothing is assumed of the peers
\* (Begin, Cancel, Close).
FairSpec ==
    /\ Spec
    /\ WF_vars(\/ \E r \in Requests :
                    \/ BeginSignals(r) \/ ReturnAdmission(r) \/ HandlerReturns(r)
                    \/ HandlerExited(r) \/ HandlerReleases(r)
               \/ \E p \in Peers : DispatchLoop(p))

-----------------------------------------------------------------------------
(* Properties.                                                                *)
\* Who holds a token of each kind.
Holding == {"serving", "remove", "exit", "release"}
Admitted == {r \in Requests : status[r] \in InMap \cup {"returning"}}
Handlers(p) == {r \in Of(p) : handler[r] \in {"serving", "remove", "exit"}}
ActiveHolders ==
    Cardinality({r \in Requests : handler[r] \in Holding})
    + Cardinality({p \in Peers : loop[p] = "start"})
NonInteractiveHolders ==
    Cardinality({r \in Requests : handler[r] \in Holding /\ prio[r] # 0})
    + Cardinality({p \in Peers : loop[p] \in {"active", "start"}
                                 /\ prio[chosen[p]] # 0})

\* server.go:72-77, 758-790, 868-879, 1191-1248 -- however starts, cancellations,
\* late exits and the close of a peer interleave, every process-wide token is in
\* its channel or with exactly one holder, so no release ever blocks, and the
\* difference of the two ceilings stays out of reach of non-interactive work.
TokensConserved ==
    /\ admissionTokens + Cardinality(Admitted) = GlobalAdmitted
    /\ activeTokens + ActiveHolders = GlobalActive
    /\ nonInteractiveTokens + NonInteractiveHolders = GlobalNonInteractive

\* server.go:735-756, 812-824 -- the counters the limits are tested against count
\* the handlers that run, cancelled ones included, and each peer keeps within
\* its limits.
CountersExact ==
    \A p \in Peers :
      /\ activeHandlers[p] = Cardinality(Handlers(p))
      /\ activeNonInteractive[p] = Cardinality({r \in Handlers(p) : prio[r] # 0})
      /\ Cardinality(Live(p)) <= MaxAdmitted
      /\ activeHandlers[p] <= MaxActive
      /\ activeNonInteractive[p] <= MaxNonInteractive

\* Both hold in every state: no start, cancellation, late exit or close leaves a
\* token or a count behind.
NothingLeaks == TokensConserved /\ CountersExact

\* server.go:792-836 -- an admitted request is started, or removed: no mixture of
\* limits, tokens and wakeups leaves one queued for ever.
AdmittedIsStarted ==
    <>[](\A r \in Requests : status[r] \in InMap => started[r])

\* server.go:1191-1248, 792-800 -- a closed peer gives every token back and its
\* loop ends.
ClosedGivesBack ==
    <>[](\A p \in Peers :
           closed[p] => /\ loop[p] \in {"unborn", "stopped"}
                        /\ \A r \in Of(p) : status[r] \in {"unsent", "gone"}
                                            /\ handler[r] \in {"none", "done"})
=============================================================================
