--------------------------- MODULE RequestUpload ---------------------------
(* One request with a declared body, end to end: the page streams the body   *)
(* over an ordered lane under upload credits (loader/src/client.ts), the     *)
(* content node admits the request, queues the frames in a ring, hands them  *)
(* to the HTTP backend and returns credits (content-node/server.go and       *)
(* request_body.go).  Each goroutine of the node is a program counter, and   *)
(* each critical section of one of its mutexes is one step.                  *)
(*                                                                           *)
(* The two directions of the lane are kept as counters: every request sends  *)
(* REQ, REQ_BODY*, then REQ_END and/or CANCEL, in that order, so counting    *)
(* the frames of each kind in flight is the FIFO.  REQ_CREDIT frames in      *)
(* flight are kept as their sum and may be delivered in any split, which     *)
(* allows every delivery the lane can make.                                  *)
EXTENDS Integers, FiniteSets

CONSTANTS
    Window,        \* maxRequestCredits = requestBodyQueueFrames
    Batch,         \* requestCreditBatchSize
    BodyLimit,     \* maxRequestBodyBytes, counted in frames
    SourceFrames   \* frames the body of the browser's request may have

ASSUME WindowAssumption == Window \in Nat \ {0}
ASSUME BatchAssumption == Batch \in Nat \ {0}
ASSUME BodyLimitAssumption == BodyLimit \in Nat
ASSUME SourceFramesAssumption == SourceFrames \in Nat

VARIABLES
    \* the page: one startRequest coroutine and its uploads entry
    pagePc, pageCredits, sourceLeft,
    \* the lane
    laneOpen, reqWire, bodyWire, endWire, cancelWire, creditWire, resWire,
    \* PeerSession.requests[id], rejectedBodies[id], protocolViolations
    reqState, tombstone, remaining, violations,
    \* requestState, guarded by bodyMu
    available, pending, bodyBytes, bodyEnded,
    \* asyncRequestBody, guarded by stateMu and readMu, and its reservation
    closed, ended, queueLen, hasCurrent, reserved,
    \* goroutines: the lane's read loop, the backend's body reader, the
    \* handler, the idle timer, and whoever is inside stopRequestBody
    lanePc, readerPc, handlerPc, timerPc, stopPc, stopBy,
    \* history: the handler closed the body of a live request whose upload
    \* was still open
    closedEarly

page == <<pagePc, pageCredits, sourceLeft>>
toNode == <<reqWire, bodyWire, endWire, cancelWire>>
toPage == <<creditWire, resWire>>
session == <<reqState, tombstone, remaining, violations>>
window == <<available, pending, bodyBytes, bodyEnded>>
ring == <<closed, ended, queueLen, hasCurrent, reserved>>
stopping == <<stopPc, stopBy>>
vars == <<page, laneOpen, toNode, toPage, session, window, ring,
          lanePc, readerPc, handlerPc, timerPc, stopping, closedEarly>>

\* server.go:110 -- the credited tail a tombstone absorbs.
MaxRejectedBodyTrailingFrames == Window

Uploading == {"credit", "read", "send", "sendLast", "end"}
PageOver == {"ended", "finished"}
LaneErrors == {"errEnded", "errClosed", "errCredit", "errFull", "errTooLarge"}

TypeOK ==
    /\ pagePc \in {"start"} \cup Uploading \cup PageOver
    /\ pageCredits \in 0..Window /\ sourceLeft \in 0..SourceFrames
    /\ laneOpen \in BOOLEAN /\ reqWire \in BOOLEAN /\ endWire \in BOOLEAN
    /\ cancelWire \in BOOLEAN /\ resWire \in BOOLEAN
    /\ bodyWire \in 0..Window /\ creditWire \in 0..Window
    /\ reqState \in {"absent", "live", "removed", "rejected"}
    /\ tombstone \in BOOLEAN /\ remaining \in 0..Window /\ violations \in Nat
    /\ available \in 0..Window /\ pending \in 0..Window /\ bodyBytes \in Nat
    /\ bodyEnded \in BOOLEAN /\ closed \in BOOLEAN /\ ended \in BOOLEAN
    /\ queueLen \in 0..Window /\ hasCurrent \in BOOLEAN /\ reserved \in BOOLEAN
    /\ lanePc \in {"idle", "grant", "enqueue", "end", "cancel", "remove",
                   "removeTrail"} \cup LaneErrors
    /\ readerPc \in {"out", "in", "credit", "cancel"}
    /\ handlerPc \in {"none", "serving", "closing", "finish", "remove",
                      "removeTrail", "exited"}
    /\ timerPc \in {"off", "armed", "remove", "report"}
    /\ stopPc \in {"none", "cancel", "end", "close", "try", "done"}
    /\ stopBy \in {"none", "lane", "handler", "timer", "reader", "detach"}
    /\ closedEarly \in BOOLEAN

Init ==
    /\ pagePc = "start" /\ pageCredits = 0 /\ sourceLeft \in 0..SourceFrames
    /\ laneOpen = TRUE /\ reqWire = FALSE /\ bodyWire = 0 /\ endWire = FALSE
    /\ cancelWire = FALSE /\ creditWire = 0 /\ resWire = FALSE
    /\ reqState = "absent" /\ tombstone = FALSE /\ remaining = 0
    /\ violations = 0
    /\ available = 0 /\ pending = 0 /\ bodyBytes = 0 /\ bodyEnded = FALSE
    /\ closed = FALSE /\ ended = FALSE /\ queueLen = 0 /\ hasCurrent = FALSE
    /\ reserved = FALSE
    /\ lanePc = "idle" /\ readerPc = "out" /\ handlerPc = "none"
    /\ timerPc = "off" /\ stopPc = "none" /\ stopBy = "none"
    /\ closedEarly = FALSE

-----------------------------------------------------------------------------
(* The page.  finish(requestId) aborts the upload coroutine wherever it waits *)
(* and deletes its credits.                                                   *)
PageFinish == pagePc' = "finished" /\ pageCredits' = 0 /\ UNCHANGED sourceLeft

\* startRequest: a POST without a body still declares hasBody (sw.ts:885) but
\* has no stream (bridge.ts:111): REQ and REQ_END leave in the same task.
PageSendReq ==
    /\ pagePc = "start" /\ laneOpen
    /\ reqWire' = TRUE
    /\ \/ pagePc' = "credit" /\ UNCHANGED endWire
       \/ sourceLeft = 0 /\ pagePc' = "ended" /\ endWire' = TRUE
    /\ UNCHANGED <<pageCredits, sourceLeft, laneOpen, bodyWire,
                   cancelWire, toPage, session, window, ring, lanePc, readerPc,
                   handlerPc, timerPc, stopping, closedEarly>>

PageTakeUploadCredit ==
    /\ pagePc = "credit" /\ pageCredits > 0
    /\ pageCredits' = pageCredits - 1 /\ pagePc' = "read"
    /\ UNCHANGED <<sourceLeft, laneOpen, toNode, toPage, session, window, ring,
                   lanePc, readerPc, handlerPc, timerPc, stopping, closedEarly>>

\* readUploadPayload: no payload left ends the loop; the last payload may or
\* may not have discovered the end of the source.
PageReadUploadPayload ==
    /\ pagePc = "read"
    /\ \/ sourceLeft = 0 /\ pagePc' = "end" /\ UNCHANGED sourceLeft
       \/ sourceLeft > 0 /\ pagePc' = "send" /\ sourceLeft' = sourceLeft - 1
       \/ sourceLeft = 1 /\ pagePc' = "sendLast" /\ sourceLeft' = 0
    /\ UNCHANGED <<pageCredits, laneOpen, toNode, toPage, session, window, ring,
                   lanePc, readerPc, handlerPc, timerPc, stopping, closedEarly>>

PageSendBody ==
    /\ pagePc \in {"send", "sendLast"} /\ laneOpen
    /\ bodyWire' = bodyWire + 1
    /\ pagePc' = IF pagePc = "send" THEN "credit" ELSE "end"
    /\ UNCHANGED <<pageCredits, sourceLeft, laneOpen, reqWire, endWire,
                   cancelWire, toPage, session, window, ring, lanePc, readerPc,
                   handlerPc, timerPc, stopping, closedEarly>>

PageSendEnd ==
    /\ pagePc = "end" /\ laneOpen
    /\ endWire' = TRUE /\ pagePc' = "ended" /\ pageCredits' = 0
    /\ UNCHANGED <<sourceLeft, laneOpen, reqWire, bodyWire, cancelWire, toPage,
                   session, window, ring, lanePc, readerPc, handlerPc, timerPc,
                   stopping, closedEarly>>

\* cancelRequest, and the failure of the body source (startRequest's catch):
\* CANCEL on the lane, then finish.
PageCancel ==
    /\ pagePc \notin {"start", "finished"} /\ laneOpen
    /\ cancelWire' = TRUE /\ PageFinish
    /\ UNCHANGED <<laneOpen, reqWire, bodyWire, endWire, toPage, session, window,
                   ring, lanePc, readerPc, handlerPc, timerPc, stopping,
                   closedEarly>>

\* grantUploadCredit: without an uploads entry the grant is ignored; a grant
\* beyond the window fails the request.
Overgrant(n) == n > Window \/ pageCredits > Window - n

PageRecvReqCredit ==
    \E n \in 1..creditWire :
    /\ creditWire' = creditWire - n
    /\ IF pagePc \notin Uploading THEN UNCHANGED <<page, cancelWire>>
       ELSE IF Overgrant(n) THEN cancelWire' = TRUE /\ PageFinish
       ELSE /\ pageCredits' = pageCredits + n
            /\ UNCHANGED <<pagePc, sourceLeft, cancelWire>>
    /\ UNCHANGED <<laneOpen, reqWire, bodyWire, endWire, resWire, session, window,
                   ring, lanePc, readerPc, handlerPc, timerPc, stopping,
                   closedEarly>>

\* RES_END or RES_ERR: the answer finishes the request, its upload included.
PageRecvResponse ==
    /\ resWire /\ resWire' = FALSE
    /\ PageFinish
    /\ UNCHANGED <<laneOpen, toNode, creditWire, session, window, ring, lanePc,
                   readerPc, handlerPc, timerPc, stopping, closedEarly>>

\* handleChannelClose, or a send that throws on the closed channel.
PageLaneClosed ==
    /\ ~laneOpen /\ pagePc # "finished"
    /\ PageFinish
    /\ UNCHANGED <<laneOpen, toNode, toPage, session, window, ring, lanePc,
                   readerPc, handlerPc, timerPc, stopping, closedEarly>>

\* The data channel closes and loses what it carries.  The WebRTC library
\* reports this from the read loop itself, so between two frames; while begin
\* grants the window, the send may meet a failed association.
LaneCloses ==
    /\ laneOpen /\ laneOpen' = FALSE
    /\ lanePc \in {"idle", "grant"}
    /\ reqWire' = FALSE /\ bodyWire' = 0 /\ endWire' = FALSE
    /\ cancelWire' = FALSE /\ creditWire' = 0 /\ resWire' = FALSE
    /\ UNCHANGED <<page, session, window, ring, lanePc, readerPc, handlerPc,
                   timerPc, stopping, closedEarly>>

-----------------------------------------------------------------------------
(* The content node.  Every request is removed from the session once, by the *)
(* first of the goroutines below to reach cancelRequestStateWithTrailing; the *)
(* remover then cancels the context and runs stopRequestBody.                 *)
RememberRejectedBody == tombstone' = TRUE /\ remaining' = MaxRejectedBodyTrailingFrames

CancelRequestState(who, allowTrailing) ==
    IF reqState = "live"
    THEN /\ reqState' = "removed" /\ stopPc' = "cancel" /\ stopBy' = who
         /\ IF allowTrailing THEN RememberRejectedBody
                             ELSE UNCHANGED <<tombstone, remaining>>
    ELSE UNCHANGED <<reqState, tombstone, remaining, stopping>>

\* asyncRequestBody.Close, first critical section: mark, drop the queue.
CloseMark == closed' = TRUE /\ queueLen' = IF closed THEN queueLen ELSE 0

\* asyncRequestBody.Close, second: with no consumer inside, drop the current
\* chunk and release the reservation; a consumer inside does it on leaving.
CloseTryLock ==
    IF readerPc = "out" THEN hasCurrent' = FALSE /\ reserved' = FALSE
                        ELSE UNCHANGED <<hasCurrent, reserved>>

ContextCancelled == stopPc \notin {"none", "cancel"}

\* The read loop of the lane takes the next frame when it is done with the last.
LaneReady == lanePc = "idle" /\ (stopBy = "lane" => stopPc = "done")

\* begin: admission, or one of the capacity rejections, which answers RES_ERR
\* and leaves no trace of the request.
LaneRecvReq ==
    /\ LaneReady /\ reqWire /\ reqWire' = FALSE
    /\ \/ /\ reqState' = "live" /\ available' = Window /\ reserved' = TRUE
          /\ lanePc' = "grant" /\ UNCHANGED resWire
       \/ /\ reqState' = "rejected" /\ resWire' = TRUE
          /\ UNCHANGED <<available, reserved, lanePc>>
    /\ UNCHANGED <<page, laneOpen, bodyWire, endWire, cancelWire, creditWire,
                   tombstone, remaining, violations, pending, bodyBytes,
                   bodyEnded, closed, ended, queueLen, hasCurrent, readerPc,
                   handlerPc, timerPc, stopping, closedEarly>>

\* begin, after unlocking: the initial window and the idle timer.  The request
\* is already visible to the dispatcher.
LaneGrantWindow ==
    /\ lanePc = "grant"
    /\ IF laneOpen
       THEN /\ creditWire' = creditWire + Window /\ lanePc' = "idle"
            /\ timerPc' = IF bodyEnded THEN timerPc ELSE "armed"
       ELSE lanePc' = "remove" /\ UNCHANGED <<creditWire, timerPc>>
    /\ UNCHANGED <<page, laneOpen, toNode, resWire, session, window, ring,
                   readerPc, handlerPc, stopping, closedEarly>>

\* discardRejectedRequestBody for a body frame, else noteProtocolViolation.
DiscardOrViolate ==
    IF tombstone /\ remaining > 0
    THEN remaining' = remaining - 1 /\ UNCHANGED violations
    ELSE violations' = violations + 1 /\ UNCHANGED remaining

\* OnMessage(REQ_BODY): requestOnLane.
LaneRecvBody ==
    /\ LaneReady /\ ~reqWire /\ bodyWire > 0 /\ bodyWire' = bodyWire - 1
    /\ IF reqState = "live"
       THEN lanePc' = "enqueue" /\ UNCHANGED <<remaining, violations>>
       ELSE DiscardOrViolate /\ UNCHANGED lanePc
    /\ UNCHANGED <<page, laneOpen, reqWire, endWire, cancelWire, toPage, reqState,
                   tombstone, window, ring, readerPc, handlerPc, timerPc,
                   stopping, closedEarly>>

\* enqueueRequestBody and asyncRequestBody.enqueue: the first test that fails.
EnqueueError ==
    CASE bodyEnded -> "errEnded"
      [] ~bodyEnded /\ available = 0 -> "errCredit"
      [] ~bodyEnded /\ available > 0 /\ bodyBytes >= BodyLimit -> "errTooLarge"
      [] ~bodyEnded /\ available > 0 /\ bodyBytes < BodyLimit /\ closed -> "errClosed"
      [] ~bodyEnded /\ available > 0 /\ bodyBytes < BodyLimit /\ ~closed
           /\ queueLen = Window -> "errFull"
      [] OTHER -> "idle"

\* Mutant: the frame is queued without taking its credit from the window.
LaneEnqueueBodyUncounted ==
    /\ lanePc = "enqueue" /\ lanePc' = EnqueueError
    /\ IF EnqueueError = "idle"
       THEN /\ queueLen' = queueLen + 1 /\ bodyBytes' = bodyBytes + 1
            /\ UNCHANGED available
       ELSE UNCHANGED <<queueLen, available, bodyBytes>>
    /\ UNCHANGED <<page, laneOpen, toNode, toPage, session, pending, bodyEnded,
                   closed, ended, hasCurrent, reserved, readerPc, handlerPc,
                   timerPc, stopping, closedEarly>>

LaneEnqueueBody ==
    /\ lanePc = "enqueue" /\ lanePc' = EnqueueError
    /\ IF EnqueueError = "idle"
       THEN /\ queueLen' = queueLen + 1 /\ available' = available - 1
            /\ bodyBytes' = bodyBytes + 1
       ELSE UNCHANGED <<queueLen, available, bodyBytes>>
    /\ UNCHANGED <<page, laneOpen, toNode, toPage, session, pending, bodyEnded,
                   closed, ended, hasCurrent, reserved, readerPc, handlerPc,
                   timerPc, stopping, closedEarly>>

\* discardRacedRequestBodyError; otherwise rejectProtocol, then the request is
\* cancelled.
LaneBodyError ==
    /\ lanePc \in LaneErrors
    /\ IF lanePc \in {"errEnded", "errClosed"} /\ tombstone /\ remaining > 0
       THEN /\ remaining' = remaining - 1 /\ lanePc' = "idle"
            /\ UNCHANGED <<violations, resWire>>
       ELSE /\ violations' = violations + 1 /\ resWire' = laneOpen
            /\ lanePc' = IF lanePc \in {"errTooLarge", "errFull", "errClosed"}
                         THEN "removeTrail" ELSE "remove"
            /\ UNCHANGED remaining
    /\ UNCHANGED <<page, laneOpen, toNode, creditWire, reqState, tombstone,
                   window, ring, readerPc, handlerPc, timerPc, stopping,
                   closedEarly>>

LaneRemove ==
    /\ lanePc \in {"remove", "removeTrail"} /\ lanePc' = "idle"
    /\ CancelRequestState("lane", lanePc = "removeTrail")
    /\ UNCHANGED <<page, laneOpen, toNode, toPage, violations, window, ring,
                   readerPc, handlerPc, timerPc, closedEarly>>

\* OnMessage(REQ_END): requestOnLane, or discardRejectedRequestBody(end).
LaneRecvEnd ==
    /\ LaneReady /\ ~reqWire /\ bodyWire = 0 /\ endWire /\ endWire' = FALSE
    /\ CASE reqState = "live" ->
              lanePc' = "end" /\ UNCHANGED <<tombstone, violations>>
         [] reqState # "live" /\ tombstone ->
              tombstone' = FALSE /\ UNCHANGED <<lanePc, violations>>
         [] reqState # "live" /\ ~tombstone ->
              violations' = violations + 1 /\ UNCHANGED <<lanePc, tombstone>>
    /\ UNCHANGED <<page, laneOpen, reqWire, bodyWire, cancelWire, toPage,
                   reqState, remaining, window, ring, readerPc, handlerPc,
                   timerPc, stopping, closedEarly>>

\* endRequestBody.
LaneEndBody ==
    /\ lanePc = "end" /\ lanePc' = "idle"
    /\ IF bodyEnded THEN UNCHANGED <<bodyEnded, ended, timerPc>>
       ELSE /\ bodyEnded' = TRUE /\ ended' = ~closed
            /\ timerPc' = IF timerPc = "armed" THEN "off" ELSE timerPc
    /\ UNCHANGED <<page, laneOpen, toNode, toPage, session, available, pending,
                   bodyBytes, closed, queueLen, hasCurrent, reserved, readerPc,
                   handlerPc, stopping, closedEarly>>

\* OnMessage(CANCEL): requestOnLane, or the tombstone is dropped.
LaneRecvCancel ==
    /\ LaneReady /\ ~reqWire /\ bodyWire = 0 /\ ~endWire
    /\ cancelWire /\ cancelWire' = FALSE
    /\ IF reqState = "live" THEN lanePc' = "cancel" /\ UNCHANGED tombstone
                            ELSE tombstone' = FALSE /\ UNCHANGED lanePc
    /\ UNCHANGED <<page, laneOpen, reqWire, bodyWire, endWire, toPage, reqState,
                   remaining, violations, window, ring, readerPc, handlerPc,
                   timerPc, stopping, closedEarly>>

\* hasUnfinishedRequestBody, on the lane's goroutine.
LaneCancelCheck ==
    /\ lanePc = "cancel"
    /\ lanePc' = IF bodyEnded THEN "remove" ELSE "removeTrail"
    /\ UNCHANGED <<page, laneOpen, toNode, toPage, session, window, ring,
                   readerPc, handlerPc, timerPc, stopping, closedEarly>>

\* detachLane, after the channel closed.
DetachLane ==
    /\ ~laneOpen /\ reqState = "live"
    /\ CancelRequestState("detach", FALSE)
    /\ UNCHANGED <<page, laneOpen, toNode, toPage, violations, window, ring,
                   lanePc, readerPc, handlerPc, timerPc, closedEarly>>

-----------------------------------------------------------------------------
(* stopRequestBody, by whoever removed the request.                           *)
StopCancelContext ==
    /\ stopPc = "cancel" /\ stopPc' = "end"
    /\ UNCHANGED <<page, laneOpen, toNode, toPage, session, window, ring, lanePc,
                   readerPc, handlerPc, timerPc, stopBy, closedEarly>>

StopEndBody ==
    /\ stopPc = "end" /\ stopPc' = "close" /\ bodyEnded' = TRUE
    /\ timerPc' = IF timerPc = "armed" THEN "off" ELSE timerPc
    /\ UNCHANGED <<page, laneOpen, toNode, toPage, session, available, pending,
                   bodyBytes, ring, lanePc, readerPc, handlerPc, stopBy,
                   closedEarly>>

StopCloseMark ==
    /\ stopPc = "close" /\ stopPc' = "try" /\ CloseMark
    /\ UNCHANGED <<page, laneOpen, toNode, toPage, session, window, ended,
                   hasCurrent, reserved, lanePc, readerPc, handlerPc, timerPc,
                   stopBy, closedEarly>>

StopCloseTryLock ==
    /\ stopPc = "try" /\ stopPc' = "done" /\ CloseTryLock
    /\ UNCHANGED <<page, laneOpen, toNode, toPage, session, window, closed, ended,
                   queueLen, lanePc, readerPc, handlerPc, timerPc, stopBy,
                   closedEarly>>

-----------------------------------------------------------------------------
(* The backend's body reader: Read or WriteTo of asyncRequestBody, called by *)
(* net/http on a goroutine of its own.  "in" holds readMu.                    *)
ReaderLock ==
    /\ readerPc = "out" /\ handlerPc # "none" /\ reserved
    /\ readerPc' = "in"
    /\ UNCHANGED <<page, laneOpen, toNode, toPage, session, window, ring, lanePc,
                   handlerPc, timerPc, stopping, closedEarly>>

\* awaitCurrent.
ReaderAwaitCurrent ==
    /\ readerPc = "in" /\ ~hasCurrent /\ queueLen > 0
    /\ queueLen' = queueLen - 1 /\ hasCurrent' = TRUE
    /\ UNCHANGED <<page, laneOpen, toNode, toPage, session, window, closed, ended,
                   reserved, lanePc, readerPc, handlerPc, timerPc, stopping,
                   closedEarly>>

\* awaitCurrent at the end of the body: EOF drains the reservation.
ReaderEOF ==
    /\ readerPc = "in" /\ ~hasCurrent /\ queueLen = 0 /\ ended
    /\ reserved /\ reserved' = FALSE
    /\ UNCHANGED <<page, laneOpen, toNode, toPage, session, window, closed, ended,
                   queueLen, hasCurrent, lanePc, readerPc, handlerPc, timerPc,
                   stopping, closedEarly>>

\* finishCurrent, up to the onChunkConsumed callback.
ReaderFinishCurrent ==
    /\ readerPc = "in" /\ hasCurrent
    /\ hasCurrent' = FALSE /\ readerPc' = "credit"
    /\ UNCHANGED <<page, laneOpen, toNode, toPage, session, window, closed, ended,
                   queueLen, reserved, lanePc, handlerPc, timerPc, stopping,
                   closedEarly>>

\* Mutant: a partial batch is always held back.
HoldRefillAlways == pending + 1 <= Window

\* requestBodyChunkConsumed: batch the refill unless the sender is at zero.
HoldRefill == pending + 1 < Batch /\ available # 0

RefillGrant ==
    IF pending + 1 > Window - available THEN Window - available ELSE pending + 1

ReaderChunkConsumed ==
    /\ readerPc = "credit"
    /\ \/ /\ bodyEnded \/ ContextCancelled
          /\ readerPc' = "in" /\ UNCHANGED <<available, pending, creditWire>>
       \/ /\ ~bodyEnded /\ ~ContextCancelled /\ HoldRefill
          /\ pending' = pending + 1
          /\ readerPc' = "in" /\ UNCHANGED <<available, creditWire>>
       \/ /\ ~bodyEnded /\ ~ContextCancelled /\ ~HoldRefill
          /\ pending' = pending + 1 - RefillGrant
          /\ available' = available + RefillGrant
          /\ IF laneOpen \/ RefillGrant = 0
             THEN creditWire' = creditWire + RefillGrant /\ readerPc' = "in"
             ELSE readerPc' = "cancel" /\ UNCHANGED creditWire
    /\ UNCHANGED <<page, laneOpen, toNode, resWire, session, bodyBytes, bodyEnded,
                   ring, lanePc, handlerPc, timerPc, stopping, closedEarly>>

\* The refill could not be sent: cancelRequestState.
ReaderCancel ==
    /\ readerPc = "cancel" /\ readerPc' = "in"
    /\ CancelRequestState("reader", FALSE)
    /\ UNCHANGED <<page, laneOpen, toNode, toPage, violations, window, ring,
                   lanePc, handlerPc, timerPc, closedEarly>>

\* Mutant: the last consumer leaves the reservation to Close.
ReaderUnlockKeepsReservation ==
    /\ readerPc = "in" /\ readerPc' = "out"
    /\ IF closed THEN hasCurrent' = FALSE /\ UNCHANGED reserved
                 ELSE UNCHANGED <<hasCurrent, reserved>>
    /\ UNCHANGED <<page, laneOpen, toNode, toPage, session, window, closed, ended,
                   queueLen, lanePc, handlerPc, timerPc, stopping, closedEarly>>

\* unlockConsumerObserved: the call returns (a partial read, an error, EOF).
ReaderUnlock ==
    /\ readerPc = "in" /\ readerPc' = "out"
    /\ IF closed THEN hasCurrent' = FALSE /\ reserved' = FALSE
                 ELSE UNCHANGED <<hasCurrent, reserved>>
    /\ UNCHANGED <<page, laneOpen, toNode, toPage, session, window, closed, ended,
                   queueLen, lanePc, handlerPc, timerPc, stopping, closedEarly>>

-----------------------------------------------------------------------------
(* The handler.                                                               *)
HandlerStart ==
    /\ handlerPc = "none" /\ reqState = "live" /\ handlerPc' = "serving"
    /\ UNCHANGED <<page, laneOpen, toNode, toPage, session, window, ring, lanePc,
                   readerPc, timerPc, stopping, closedEarly>>

\* Serve closes the body of a static request or a route probe before answering
\* it; net/http closes the body of a proxied one when the backend answers or
\* fails before reading all of it.
HandlerCloseBody ==
    /\ handlerPc = "serving" /\ ~closed /\ CloseMark
    /\ handlerPc' = "closing"
    /\ closedEarly' = (closedEarly \/ (reqState = "live" /\ ~bodyEnded))
    /\ UNCHANGED <<page, laneOpen, toNode, toPage, session, window, ended,
                   hasCurrent, reserved, lanePc, readerPc, timerPc, stopping>>

HandlerCloseTryLock ==
    /\ handlerPc = "closing" /\ handlerPc' = "serving" /\ CloseTryLock
    /\ UNCHANGED <<page, laneOpen, toNode, toPage, session, window, closed, ended,
                   queueLen, lanePc, readerPc, timerPc, stopping, closedEarly>>

\* Serve returns, having sent RES_END, or serveRequest sends RES_ERR; a request
\* that was cancelled meanwhile is not answered.
HandlerReturn ==
    /\ handlerPc = "serving" /\ handlerPc' = "finish"
    /\ resWire' = IF reqState = "live" THEN laneOpen ELSE resWire
    /\ UNCHANGED <<page, laneOpen, toNode, creditWire, session, window, ring,
                   lanePc, readerPc, timerPc, stopping, closedEarly>>

\* Mutant: the handled request leaves no tombstone.
HandlerFinishNeverTrailing ==
    /\ handlerPc = "finish"
    /\ handlerPc' = "remove"
    /\ UNCHANGED <<page, laneOpen, toNode, toPage, session, window, ring, lanePc,
                   readerPc, timerPc, stopping, closedEarly>>

\* finishHandledRequest: hasUnfinishedRequestBody, then the removal.
HandlerFinish ==
    /\ handlerPc = "finish"
    /\ handlerPc' = IF bodyEnded THEN "remove" ELSE "removeTrail"
    /\ UNCHANGED <<page, laneOpen, toNode, toPage, session, window, ring, lanePc,
                   readerPc, timerPc, stopping, closedEarly>>

HandlerRemove ==
    /\ handlerPc \in {"remove", "removeTrail"} /\ handlerPc' = "exited"
    /\ CancelRequestState("handler", handlerPc = "removeTrail")
    /\ UNCHANGED <<page, laneOpen, toNode, toPage, violations, window, ring,
                   lanePc, readerPc, timerPc, closedEarly>>

-----------------------------------------------------------------------------
(* expireRequestBody: the idle timer fires while the upload is open.          *)
TimerExpire ==
    /\ timerPc = "armed" /\ ~bodyEnded /\ bodyEnded' = TRUE
    /\ IF reqState = "live" THEN RememberRejectedBody /\ timerPc' = "remove"
       ELSE timerPc' = "off" /\ UNCHANGED <<tombstone, remaining>>
    /\ UNCHANGED <<page, laneOpen, toNode, toPage, reqState, violations,
                   available, pending, bodyBytes, ring, lanePc, readerPc,
                   handlerPc, stopping, closedEarly>>

TimerRemove ==
    /\ timerPc = "remove"
    /\ timerPc' = IF reqState = "live" THEN "report" ELSE "off"
    /\ CancelRequestState("timer", FALSE)
    /\ UNCHANGED <<page, laneOpen, toNode, toPage, violations, window, ring,
                   lanePc, readerPc, handlerPc, closedEarly>>

TimerReport ==
    /\ timerPc = "report" /\ stopPc = "done" /\ timerPc' = "off"
    /\ resWire' = laneOpen
    /\ UNCHANGED <<page, laneOpen, toNode, creditWire, session, window, ring,
                   lanePc, readerPc, handlerPc, stopping, closedEarly>>

-----------------------------------------------------------------------------
Page ==
    \/ PageSendReq \/ PageTakeUploadCredit \/ PageReadUploadPayload
    \/ PageSendBody \/ PageSendEnd \/ PageCancel \/ PageRecvReqCredit
    \/ PageRecvResponse \/ PageLaneClosed

Lane ==
    \/ LaneRecvReq \/ LaneGrantWindow \/ LaneRecvBody \/ LaneEnqueueBody
    \/ LaneBodyError \/ LaneRemove \/ LaneRecvEnd \/ LaneEndBody
    \/ LaneRecvCancel \/ LaneCancelCheck \/ DetachLane

Stop == StopCancelContext \/ StopEndBody \/ StopCloseMark \/ StopCloseTryLock

Reader ==
    \/ ReaderLock \/ ReaderAwaitCurrent \/ ReaderEOF \/ ReaderFinishCurrent
    \/ ReaderChunkConsumed \/ ReaderCancel \/ ReaderUnlock

Handler ==
    \/ HandlerStart \/ HandlerCloseBody \/ HandlerCloseTryLock \/ HandlerReturn
    \/ HandlerFinish \/ HandlerRemove

Timer == TimerExpire \/ TimerRemove \/ TimerReport

\* The exchange is over: nothing in flight, nobody at work.
Over ==
    /\ pagePc = "finished" /\ ~reqWire /\ bodyWire = 0 /\ ~endWire
    /\ ~cancelWire /\ creditWire = 0 /\ ~resWire
    /\ reqState # "live" /\ lanePc = "idle" /\ readerPc = "out"
    /\ handlerPc \in {"none", "exited"} /\ timerPc = "off"
    /\ stopPc \in {"none", "done"}

Terminating == Over /\ UNCHANGED vars

Next == Page \/ LaneCloses \/ Lane \/ Stop \/ Reader \/ Handler \/ Timer
        \/ Terminating

Spec == Init /\ [][Next]_vars

\* A goroutine or the page's event loop that can run does: of their steps there
\* are finitely many, so that one of them is taken while any is enabled is
\* enough.  The backend may call Read without end, and keeps reading the body it
\* was given.  Nothing is assumed of the user (PageCancel), of the network
\* (LaneCloses), of the idle timer (TimerExpire), nor of when the backend answers
\* (HandlerReturn) or closes the body (HandlerCloseBody).
Fairness ==
    /\ WF_vars(\/ PageSendReq \/ PageTakeUploadCredit \/ PageReadUploadPayload
               \/ PageSendBody \/ PageSendEnd
               \/ PageRecvReqCredit \/ PageRecvResponse \/ PageLaneClosed
               \/ Lane \/ Stop
               \/ HandlerStart \/ HandlerCloseTryLock \/ HandlerFinish \/ HandlerRemove
               \/ TimerRemove \/ TimerReport)
    /\ WF_vars(ReaderLock \/ ReaderChunkConsumed \/ ReaderCancel \/ ReaderUnlock)
    /\ SF_vars(ReaderAwaitCurrent \/ ReaderEOF \/ ReaderFinishCurrent)

FairSpec == Spec /\ Fairness

-----------------------------------------------------------------------------
(* Properties.                                                                *)
One(b) == IF b THEN 1 ELSE 0

\* What the page may still put in the ring: credits it holds or will receive,
\* the frame it is preparing, and the frames in flight or in the read loop.
Outstanding ==
    pageCredits + One(pagePc \in {"read", "send", "sendLast"}) + bodyWire
    + One(lanePc \in {"enqueue"} \cup LaneErrors) + creditWire
    + (IF lanePc = "grant" THEN Window ELSE 0)

\* What the node holds of the window: free credits, credits waiting for a
\* batch, queued frames and the one the backend is consuming.
Accounted ==
    available + pending + queueLen + One(hasCurrent) + One(readerPc = "credit")

\* server.go:248-252, 990-1024 -- upload credits are neither invented nor lost:
\* everything the page may still send fits in the free part of the window, and
\* until the upload is over the whole window is accounted for.
UploadCreditsConserved ==
    /\ Outstanding <= available
    /\ Accounted <= Window
    /\ reqState = "live" /\ ~bodyEnded /\ ~closed => Accounted = Window

\* request_body.go:15-17, client.ts:1258-1261 -- a page that spends only granted
\* credits never meets "credit exhausted" or a full ring on the node, and no
\* refill overflows the window the page enforces.
WindowNeverOverrun ==
    /\ lanePc \notin {"errCredit", "errFull"}
    /\ pagePc \in Uploading => pageCredits + creditWire <= Window

\* server.go:491-493, 853-856, 1037-1041 -- however the handler's return, the
\* idle timeout, a cancellation and the frames already on the lane interleave,
\* one upload costs its peer at most one protocol violation, and none unless
\* the handler closed the body under a live upload, the body reached its size
\* limit, or the request had been refused admission.
ViolationsExplained ==
    /\ violations <= 1
    /\ violations = 1 =>
         closedEarly \/ bodyBytes >= BodyLimit \/ reqState = "rejected"

\* server.go:491-493, CHANGELOG.md:53-55 -- the credited tail of an admitted
\* upload within its size limit costs no protocol violation.
CreditedTailIsNotPenalized ==
    reqState # "rejected" /\ bodyBytes < BodyLimit => violations = 0

\* request_body.go:184-186, 202-213, 293-302 -- the global reservation is held
\* as long as the node retains a frame of the body, in the ring or with the
\* backend.
ReservationCoversPayload == queueLen > 0 \/ hasCurrent => reserved

\* server.go:1001-1003 -- a sender out of credit is not left waiting for a
\* partial batch: while the backend reads, the upload moves on until it is over.
UploadMovesOn == <>[](pagePc = "credit" => closed)

\* server.go:1180-1182, request_body.go:202-204 -- a removed request leaves
\* nothing behind: its browser is answered or loses the lane, and neither Close
\* nor the last consumer leaves the reservation to the other.
RemovedLeavesNothing ==
    <>[](reqState \in {"removed", "rejected"} => pagePc = "finished" /\ ~reserved)
=============================================================================
