--------------------------- MODULE ResponseStream ---------------------------
(* One response body, end to end: the node's handler sends RES_BODY frames    *)
(* under response credits (content-node/server.go), the page relays frames    *)
(* and credits and checks both (loader/src/client.ts), the service worker     *)
(* queues what its consumer has not asked for yet, and refills and adapts the *)
(* window as the consumer drains it (loader/src/swbridge.ts, request).        *)
(*                                                                            *)
(* Credits in flight are kept as sums that may be delivered in any split.     *)
(* Each task of the page and of the worker is one step; in the node, each     *)
(* critical section of responseCreditWindow.mu and each use of its wake       *)
(* channel is one.                                                            *)
EXTENDS Integers

CONSTANTS
    Initial,     \* head.initialCredits: INITIAL_CREDIT of the request's priority
    MaxCredits,  \* MAX_RESPONSE_CREDITS, maxResponseCredits
    CreditRefill, CreditSample, GrowthStep,   \* bridge.ts:31-37
    FastPeak     \* the backlog up to which a fast sample grows the window

ASSUME CapAssumption == MaxCredits \in Nat \ {0}
ASSUME InitialAssumption == Initial \in 1..MaxCredits
ASSUME RefillAssumption == CreditRefill \in Nat \ {0}
ASSUME SampleAssumption == CreditSample \in Nat \ {0} /\ GrowthStep \in Nat
ASSUME FastPeakAssumption == FastPeak \in Nat

VARIABLES
    \* the worker: pending.has(id), ended, why it failed the response, and the
    \* locals of request()
    swLive, ended, failure, queued, waitingForChunk, targetCredit,
    creditBalance, sampleConsumed, samplePeakQueue,
    \* the ReadableStream in front of the consumer: its own queue (high-water
    \* mark 1), a read that waits, and a pull about to be called
    streamQueue, readPending, pullDue,
    \* the page: inbound/outbound entries of the request
    pageLive, pageCredit,
    \* MessagePort and lane, in both directions
    creditPort, cancelPort, creditWire, cancelWire,
    bodyWire, endWire, bodyPort, endPort,
    \* the node: responseCreditWindow, the lane's read loop, the handler
    available, wake, grantPc, cancelled, nodePc

tuning == <<targetCredit, sampleConsumed, samplePeakQueue>>
readable == <<streamQueue, readPending, pullDue>>
worker == <<swLive, ended, failure, queued, waitingForChunk, creditBalance, tuning>>
page == <<pageLive, pageCredit>>
toNode == <<creditPort, cancelPort, creditWire, cancelWire>>
toWorker == <<bodyWire, endWire, bodyPort, endPort>>
node == <<available, wake, grantPc, cancelled, nodePc>>
vars == <<worker, readable, page, toNode, toWorker, node>>

Failures == {"none", "grant", "window", "remote", "aborted"}
Ends == {"none", "end", "err"}

TypeOK ==
    /\ swLive \in BOOLEAN /\ ended \in BOOLEAN /\ failure \in Failures
    /\ queued \in 0..MaxCredits /\ waitingForChunk \in BOOLEAN
    /\ targetCredit \in Initial..MaxCredits /\ creditBalance \in 0..MaxCredits
    /\ sampleConsumed \in 0..(CreditSample - 1)
    /\ samplePeakQueue \in 0..MaxCredits
    /\ streamQueue \in 0..1 /\ readPending \in BOOLEAN /\ pullDue \in BOOLEAN
    /\ pageLive \in BOOLEAN /\ pageCredit \in 0..MaxCredits
    /\ creditPort \in 0..MaxCredits /\ cancelPort \in BOOLEAN
    /\ creditWire \in 0..MaxCredits /\ cancelWire \in BOOLEAN
    /\ bodyWire \in 0..MaxCredits /\ bodyPort \in 0..MaxCredits
    /\ endWire \in Ends /\ endPort \in Ends
    /\ available \in 0..MaxCredits /\ wake \in BOOLEAN
    /\ grantPc \in {"idle", "signal"} /\ cancelled \in BOOLEAN
    /\ nodePc \in {"check", "take", "pass", "wait", "send", "gone"}

\* The request was posted, forwarded and begun; the head is on its way or has
\* arrived.  newResponseCreditWindow granted the initial window, and the stream
\* pulls once when it starts.
Init ==
    /\ swLive = TRUE /\ ended = FALSE /\ failure = "none" /\ queued = 0
    /\ waitingForChunk = FALSE /\ targetCredit = Initial
    /\ creditBalance = Initial /\ sampleConsumed = 0 /\ samplePeakQueue = 0
    /\ streamQueue = 0 /\ readPending = FALSE /\ pullDue = TRUE
    /\ pageLive = TRUE /\ pageCredit = Initial
    /\ creditPort = 0 /\ cancelPort = FALSE /\ creditWire = 0
    /\ cancelWire = FALSE /\ bodyWire = 0 /\ endWire = "none"
    /\ bodyPort = 0 /\ endPort = "none"
    /\ available = Initial /\ wake = TRUE /\ grantPc = "idle"
    /\ cancelled = FALSE /\ nodePc = "check"

-----------------------------------------------------------------------------
(* The worker's window.                                                       *)
Lesser(a, b) == IF a < b THEN a ELSE b
Greater(a, b) == IF a > b THEN a ELSE b
HalfUp(n) == (n + 1) \div 2

\* Mutant: queued frames do not count against the window.
RefillAmountIgnoringBacklog(target, balance, backlog, force, flushGrowth) ==
    LET free == target - balance
    IN  IF /\ free > 0
           /\ \/ free >= Lesser(CreditRefill, HalfUp(target))
              \/ flushGrowth
              \/ force /\ balance = 0
        THEN free ELSE 0

\* refillCredit: the credits to post, 0 when it returns early.
RefillAmount(target, balance, backlog, force, flushGrowth) ==
    LET free == target - balance - backlog
    IN  IF /\ free > 0
           /\ \/ free >= Lesser(CreditRefill, HalfUp(target))
              \/ flushGrowth
              \/ force /\ balance = 0
        THEN free ELSE 0

\* recordConsumption, at the end of a sample: fast is elapsedMs <= 500.
SampleEnds == sampleConsumed + 1 >= CreditSample

Grows(fast) ==
    SampleEnds /\ fast /\ samplePeakQueue <= FastPeak /\ targetCredit < MaxCredits

Shrinks(fast) ==
    /\ SampleEnds /\ ~Grows(fast)
    /\ samplePeakQueue >= HalfUp(targetCredit) /\ targetCredit > Initial

NewTarget(fast) ==
    IF Grows(fast) THEN Lesser(MaxCredits, targetCredit + GrowthStep)
    ELSE IF Shrinks(fast) THEN Greater(Initial, targetCredit - GrowthStep)
    ELSE targetCredit

RecordConsumption(fast, backlog) ==
    /\ targetCredit' = NewTarget(fast)
    /\ sampleConsumed' = IF SampleEnds THEN 0 ELSE sampleConsumed + 1
    /\ samplePeakQueue' = IF SampleEnds THEN backlog ELSE samplePeakQueue

\* One chunk goes downstream with balance credits still out: the sample is
\* counted, and the window refilled under its new target.
Consume(fast, balance, posted, backlog) ==
    LET n == RefillAmount(NewTarget(fast), balance, backlog, FALSE, Grows(fast))
    IN  /\ RecordConsumption(fast, backlog)
        /\ creditBalance' = balance + n
        /\ creditPort' = creditPort + posted + n

\* entry.onError, after pending.delete: the stream errors, its reads reject.
WorkerFails(why) ==
    /\ swLive' = FALSE /\ failure' = why /\ queued' = 0
    /\ waitingForChunk' = FALSE
    /\ streamQueue' = 0 /\ readPending' = FALSE /\ pullDue' = FALSE

Drained == ended /\ queued = 0

-----------------------------------------------------------------------------
(* The consumer.  A pull follows a read in the same task or its microtasks,  *)
(* before the worker handles another message.                                 *)
ConsumerRead ==
    /\ ~pullDue /\ ~readPending /\ failure = "none"
    /\ \/ streamQueue = 1 /\ streamQueue' = 0 /\ UNCHANGED readPending
       \/ streamQueue = 0 /\ ~Drained /\ readPending' = TRUE /\ UNCHANGED streamQueue
    /\ pullDue' = ~Drained
    /\ UNCHANGED <<worker, page, toNode, toWorker, node>>

\* entry.onPull: a queued chunk goes downstream, to the waiting read if there
\* is one; with none the next chunk is waited for, with a forced refill.
Pull ==
    /\ pullDue
    /\ IF queued > 0
       THEN /\ queued' = queued - 1 /\ readPending' = FALSE
            /\ streamQueue' = IF readPending THEN 0 ELSE 1
            /\ pullDue' = (readPending /\ ~(ended /\ queued = 1))
            /\ IF ended THEN UNCHANGED <<tuning, creditBalance, creditPort>>
               ELSE \E fast \in BOOLEAN : Consume(fast, creditBalance, 0, queued - 1)
            /\ UNCHANGED waitingForChunk
       ELSE /\ waitingForChunk' = TRUE /\ pullDue' = FALSE
            /\ LET n == RefillAmount(targetCredit, creditBalance, 0, TRUE, FALSE)
               IN  creditBalance' = creditBalance + n /\ creditPort' = creditPort + n
            /\ UNCHANGED <<queued, readPending, streamQueue, tuning>>
    /\ UNCHANGED <<swLive, ended, failure, page, cancelPort, creditWire,
                   cancelWire, toWorker, node>>

\* onAbort, or the stream's cancel.
SwAbort ==
    /\ swLive /\ ~pullDue
    /\ WorkerFails("aborted") /\ cancelPort' = TRUE
    /\ UNCHANGED <<ended, creditBalance, tuning, page, creditPort, creditWire,
                   cancelWire, toWorker, node>>

-----------------------------------------------------------------------------
(* entry.onChunk.                                                             *)
SwRecvBody ==
    /\ bodyPort > 0 /\ ~pullDue /\ bodyPort' = bodyPort - 1
    /\ UNCHANGED <<ended, page, creditWire, cancelWire, bodyWire, endWire,
                   endPort, node>>

\* The request is gone: onMessage finds no entry.
SwDropChunk ==
    /\ SwRecvBody /\ ~swLive
    /\ UNCHANGED <<worker, readable, creditPort, cancelPort>>

\* No credit was out, or the backlog is already the window.
ChunkRefused ==
    IF creditBalance = 0 THEN "grant"
    ELSE IF ~waitingForChunk /\ queued >= targetCredit THEN "window" ELSE "none"

SwRefuseChunk ==
    /\ SwRecvBody /\ swLive /\ ChunkRefused # "none"
    /\ WorkerFails(ChunkRefused) /\ cancelPort' = TRUE
    /\ creditBalance' = IF ChunkRefused = "grant" THEN creditBalance
                        ELSE creditBalance - 1
    /\ UNCHANGED <<tuning, creditPort>>

SwQueueChunk ==
    /\ SwRecvBody /\ swLive /\ ChunkRefused = "none" /\ ~waitingForChunk
    /\ queued' = queued + 1 /\ creditBalance' = creditBalance - 1
    /\ samplePeakQueue' = Greater(samplePeakQueue, queued + 1)
    /\ UNCHANGED <<swLive, failure, waitingForChunk, targetCredit,
                   sampleConsumed, readable, creditPort, cancelPort>>

\* A chunk that was waited for.  With a read waiting, controller.enqueue hands
\* it over and calls pull, so onPull runs inside this handler, before
\* recordConsumption: it finds nothing queued and refills the old window.
SwForwardChunk ==
    /\ SwRecvBody /\ swLive /\ ChunkRefused = "none" /\ waitingForChunk
    /\ waitingForChunk' = readPending /\ readPending' = FALSE
    /\ streamQueue' = IF readPending THEN 0 ELSE 1
    /\ LET left == creditBalance - 1
           n == IF readPending THEN RefillAmount(targetCredit, left, 0, TRUE, FALSE)
                ELSE 0
       IN  \E fast \in BOOLEAN : Consume(fast, left + n, n, queued)
    /\ UNCHANGED <<swLive, failure, queued, pullDue, cancelPort>>

\* END keeps what is queued; ERR drops it.
SwRecvEnd ==
    /\ bodyPort = 0 /\ endPort # "none" /\ endPort' = "none" /\ ~pullDue
    /\ IF ~swLive THEN UNCHANGED <<worker, readable>>
       ELSE IF endPort = "end"
       THEN /\ swLive' = FALSE /\ ended' = TRUE
            /\ waitingForChunk' = (waitingForChunk /\ queued > 0)
            /\ readPending' = (readPending /\ queued > 0)
            /\ UNCHANGED <<failure, queued, creditBalance, tuning, streamQueue,
                           pullDue>>
       ELSE WorkerFails("remote") /\ UNCHANGED <<ended, creditBalance, tuning>>
    /\ UNCHANGED <<page, toNode, bodyWire, endWire, bodyPort, node>>

-----------------------------------------------------------------------------
(* The page.                                                                  *)
PageFinish == pageLive' = FALSE /\ pageCredit' = 0

\* failRequest: CANCEL to the node, an error to the worker.
PageFailRequest == cancelWire' = TRUE /\ endPort' = "err" /\ PageFinish

\* onSwMessage, credit.
Overgrant(n) == n > MaxCredits \/ pageCredit > MaxCredits - n

PageRecvCredit ==
    \E n \in 1..creditPort :
    /\ creditPort' = creditPort - n
    /\ IF ~pageLive THEN UNCHANGED <<page, creditWire, cancelWire, endPort>>
       ELSE IF Overgrant(n) THEN PageFailRequest /\ UNCHANGED creditWire
       ELSE /\ pageCredit' = pageCredit + n /\ creditWire' = creditWire + n
            /\ UNCHANGED <<pageLive, cancelWire, endPort>>
    /\ UNCHANGED <<worker, readable, cancelPort, bodyWire, endWire, bodyPort, node>>

\* onSwMessage, cancel; and cancelRequest.
PageRecvCancel ==
    /\ creditPort = 0 /\ cancelPort /\ cancelPort' = FALSE
    /\ IF pageLive THEN cancelWire' = TRUE /\ PageFinish
                   ELSE UNCHANGED <<cancelWire, page>>
    /\ UNCHANGED <<worker, readable, creditPort, creditWire, toWorker, node>>

\* Mutant: the relayed frame does not spend a credit.
PageRecvBodyUncounted ==
    /\ bodyWire > 0 /\ bodyWire' = bodyWire - 1
    /\ IF ~pageLive THEN UNCHANGED <<page, cancelWire, bodyPort, endPort>>
       ELSE IF pageCredit = 0 THEN PageFailRequest /\ UNCHANGED bodyPort
       ELSE /\ bodyPort' = bodyPort + 1
            /\ UNCHANGED <<page, cancelWire, endPort>>
    /\ UNCHANGED <<worker, readable, creditPort, cancelPort, creditWire, endWire, node>>

\* onFrame, RES_BODY: relayed against the page's own count of credits.
PageRecvBody ==
    /\ bodyWire > 0 /\ bodyWire' = bodyWire - 1
    /\ IF ~pageLive THEN UNCHANGED <<page, cancelWire, bodyPort, endPort>>
       ELSE IF pageCredit = 0 THEN PageFailRequest /\ UNCHANGED bodyPort
       ELSE /\ pageCredit' = pageCredit - 1 /\ bodyPort' = bodyPort + 1
            /\ UNCHANGED <<pageLive, cancelWire, endPort>>
    /\ UNCHANGED <<worker, readable, creditPort, cancelPort, creditWire, endWire, node>>

\* onFrame, RES_END and RES_ERR.
PageRecvEnd ==
    /\ bodyWire = 0 /\ endWire # "none" /\ endWire' = "none"
    /\ IF pageLive THEN endPort' = endWire /\ PageFinish
                   ELSE UNCHANGED <<endPort, page>>
    /\ UNCHANGED <<worker, readable, toNode, bodyWire, bodyPort, node>>

-----------------------------------------------------------------------------
(* The node: the read loop grants, the handler takes.                         *)
\* OnMessage(CREDIT) and responseCreditWindow.grant: clamped, then signalled
\* after the unlock.  A refill for a request that is gone is ignored.
NodeRecvCredit ==
    /\ grantPc = "idle"
    /\ \E n \in 1..creditWire :
       /\ creditWire' = creditWire - n
       /\ IF cancelled \/ nodePc = "gone" \/ available >= MaxCredits
          THEN UNCHANGED <<available, grantPc>>
          ELSE /\ available' = Lesser(MaxCredits, available + n)
               /\ grantPc' = "signal"
    /\ UNCHANGED <<worker, readable, page, creditPort, cancelPort, cancelWire,
                   toWorker, wake, cancelled, nodePc>>

\* Mutant: a grant does not wake the handler.
NodeSignalLost ==
    /\ grantPc = "signal" /\ grantPc' = "idle" /\ UNCHANGED wake
    /\ UNCHANGED <<worker, readable, page, toNode, toWorker, available, cancelled,
                   nodePc>>

NodeSignal ==
    /\ grantPc = "signal" /\ grantPc' = "idle" /\ wake' = TRUE
    /\ UNCHANGED <<worker, readable, page, toNode, toWorker, available, cancelled,
                   nodePc>>

\* OnMessage(CANCEL): the request is removed and its context cancelled.
NodeRecvCancel ==
    /\ grantPc = "idle" /\ creditWire = 0 /\ cancelWire /\ cancelWire' = FALSE
    /\ cancelled' = TRUE
    /\ UNCHANGED <<worker, readable, page, creditPort, cancelPort, creditWire,
                   toWorker, available, wake, grantPc, nodePc>>

\* The head of StreamBody's loop, and SendBody's lookup: another frame, the end
\* of the body, a failure, or a cancelled request, which is not answered.
NodeCheck ==
    /\ nodePc = "check"
    /\ IF cancelled THEN nodePc' = "gone" /\ UNCHANGED endWire
       ELSE \/ nodePc' = "take" /\ UNCHANGED endWire
            \/ nodePc' = "gone" /\ endWire' \in {"end", "err"}
    /\ UNCHANGED <<worker, readable, page, toNode, bodyWire, bodyPort, endPort,
                   available, wake, grantPc, cancelled>>

\* responseCreditWindow.take, under the mutex.
NodeTake ==
    /\ nodePc = "take"
    /\ IF available > 0
       THEN /\ available' = available - 1
            /\ nodePc' = IF available > 1 THEN "pass" ELSE "send"
       ELSE nodePc' = "wait" /\ UNCHANGED available
    /\ UNCHANGED <<worker, readable, page, toNode, toWorker, wake, grantPc, cancelled>>

\* take passes a coalesced wake on.
NodePassWake ==
    /\ nodePc = "pass" /\ nodePc' = "send" /\ wake' = TRUE
    /\ UNCHANGED <<worker, readable, page, toNode, toWorker, available, grantPc,
                   cancelled>>

\* Mutant: the wait for a credit ignores the context.
NodeWaitUncancellable ==
    /\ nodePc = "wait"
    /\ wake /\ wake' = FALSE /\ nodePc' = "take"
    /\ UNCHANGED <<worker, readable, page, toNode, toWorker, available, grantPc,
                   cancelled>>

\* take's select.
NodeWait ==
    /\ nodePc = "wait"
    /\ \/ cancelled /\ nodePc' = "gone" /\ UNCHANGED wake
       \/ wake /\ wake' = FALSE /\ nodePc' = "take"
    /\ UNCHANGED <<worker, readable, page, toNode, toWorker, available, grantPc,
                   cancelled>>

\* waitForBuffer, then the send; a cancelled context may be noticed here.
NodeSend ==
    /\ nodePc = "send"
    /\ \/ cancelled /\ nodePc' = "gone" /\ UNCHANGED bodyWire
       \/ nodePc' = "check" /\ bodyWire' = bodyWire + 1
    /\ UNCHANGED <<worker, readable, page, toNode, endWire, bodyPort, endPort,
                   available, wake, grantPc, cancelled>>

-----------------------------------------------------------------------------
Chunk == SwDropChunk \/ SwRefuseChunk \/ SwQueueChunk \/ SwForwardChunk

Worker == Pull \/ Chunk \/ SwRecvEnd

Page == PageRecvCredit \/ PageRecvCancel \/ PageRecvBody \/ PageRecvEnd

ReadLoop == NodeRecvCredit \/ NodeSignal \/ NodeRecvCancel

Handler == NodeCheck \/ NodeTake \/ NodePassWake \/ NodeWait \/ NodeSend

Over ==
    /\ nodePc = "gone" /\ grantPc = "idle" /\ ~pageLive /\ ~swLive
    /\ creditPort = 0 /\ ~cancelPort /\ creditWire = 0 /\ ~cancelWire
    /\ bodyWire = 0 /\ endWire = "none" /\ bodyPort = 0 /\ endPort = "none"
    /\ failure # "none" \/ (Drained /\ streamQueue = 0)

Terminating == Over /\ UNCHANGED vars

Next == ConsumerRead \/ SwAbort \/ Worker \/ Page \/ ReadLoop \/ Handler \/ Terminating

Spec == Init /\ [][Next]_vars

\* The event loops and the node's goroutines are scheduled.  Nothing is assumed
\* of the consumer nor of an abort.
FairSpec ==
    /\ Spec
    /\ WF_vars(Worker) /\ WF_vars(Page) /\ WF_vars(ReadLoop) /\ WF_vars(Handler)

-----------------------------------------------------------------------------
(* Properties.                                                                *)
One(b) == IF b THEN 1 ELSE 0

\* Credits the page believes the node has, and where they really are.
WithNode == creditWire + available + One(nodePc \in {"pass", "send"}) + bodyWire

\* swbridge.ts:508-511, client.ts:769-785, 1139-1146 -- the three counts of one
\* window agree: what the worker believes is out is on its way to the page,
\* with the page, or on its way back; what the page believes is out is on its
\* way to the node, with the node, or on its way back.  Only a finished hop
\* leaves a remainder.
ResponseCreditsConserved ==
    /\ pageLive => WithNode <= pageCredit
    /\ pageLive /\ nodePc # "gone" /\ ~cancelled => WithNode = pageCredit
    /\ swLive => creditPort + pageCredit + bodyPort <= creditBalance
    /\ swLive /\ pageLive => creditPort + pageCredit + bodyPort = creditBalance

\* swbridge.ts:556-566, server.go:94-100, client.ts:770-775 -- through growth,
\* shrinkage and refills the worker never has more than MaxCredits frames
\* granted or queued, so neither the page's check nor the node's silent clamp
\* ever meets a grant of an obedient worker, and no relayed frame lacks a credit.
WithinProtocolCap ==
    /\ swLive => creditBalance + queued <= MaxCredits
    /\ failure # "grant"
    /\ pageLive => creditPort + pageCredit <= MaxCredits
    /\ nodePc # "gone" /\ ~cancelled => available + creditWire <= MaxCredits

\* content-node/protocol.go:27-29 -- "FrameCredit grants permission for response
\* body frames": a frame the worker granted is not refused by the worker.
GrantedFramesAccepted == failure # "window"

\* swbridge.ts:635-637, server.go:262-264 -- a consumer that waits for a chunk is
\* given one, or the end of the response: neither the batched refills nor the
\* coalesced wakeups strand the window.
ReaderIsServed == readPending ~> ~readPending

\* swbridge.ts:676-677 -- an aborted or failed response stops the node's handler.
CancelStopsNode == failure # "none" ~> nodePc = "gone"
=============================================================================
