------------------------- MODULE RequestUploadProofs -------------------------
(* Type correctness, credit conservation, and the bound on the protocol       *)
(* violations of one upload, for every window, batch, limit and body length.  *)
EXTENDS RequestUpload, TLAPS

USE SMTT(60)

\* Before admission nothing of the request exists on the node.
NotAdmitted ==
    /\ pagePc = "start" => /\ reqState = "absent" /\ ~reqWire /\ ~endWire
                           /\ ~cancelWire
    /\ reqState = "absent" => reqWire \/ pagePc = "start" \/ ~laneOpen
    /\ reqState = "absent" => ~endWire \/ reqWire
    /\ reqWire => reqState = "absent"
    /\ reqState \in {"absent", "rejected"} =>
         /\ available = 0 /\ pending = 0 /\ queueLen = 0 /\ ~hasCurrent
         /\ ~reserved /\ ~closed /\ ~bodyEnded /\ ~ended /\ ~tombstone
         /\ lanePc = "idle" /\ readerPc = "out" /\ handlerPc = "none"
         /\ timerPc = "off"
    /\ reqState \in {"absent", "rejected"} =>
         pagePc \in {"start", "credit"} \cup PageOver
    /\ reqState = "absent" => violations = 0 /\ ~resWire
    /\ reqState = "removed" <=> stopPc # "none"

\* What the frames in flight say of the page, and a closed lane of the frames.
WireOrder ==
    /\ endWire => pagePc \in PageOver
    /\ cancelWire => pagePc = "finished"
    /\ lanePc \in {"end", "cancel"} =>
         bodyWire = 0 /\ ~endWire /\ pagePc \in PageOver
    /\ ~laneOpen => /\ bodyWire = 0 /\ creditWire = 0
                    /\ ~reqWire /\ ~endWire /\ ~cancelWire
                    /\ lanePc \in {"idle", "grant", "remove"}
    /\ readerPc = "cancel" => ~laneOpen
    /\ pagePc \in PageOver => pageCredits = 0

\* No body frame and no REQ_END can reach the read loop any more.
Quiet ==
    /\ bodyWire = 0 /\ ~endWire
    /\ lanePc \notin {"enqueue"} \cup LaneErrors
    /\ pagePc \in PageOver \/ ~laneOpen

\* Wherever a body frame would be refused, its tombstone absorbs it, and counts
\* enough frames for everything still outstanding.
TailCovered ==
    /\ ~tombstone /\ (reqState = "removed" \/ bodyEnded) => Quiet
    /\ tombstone => remaining + available >= Outstanding + Window
    /\ handlerPc = "remove" => bodyEnded
    /\ timerPc = "remove" => bodyEnded
    /\ lanePc = "remove" => bodyEnded \/ ~laneOpen
    /\ lanePc = "errEnded" => tombstone

\* How many violations were charged, and to what.
Charged ==
    /\ lanePc = "errTooLarge" => bodyBytes >= BodyLimit
    /\ closed /\ ~bodyEnded /\ ~closedEarly => reqState = "removed"
    /\ lanePc = "errClosed" /\ ~closedEarly => tombstone
    /\ lanePc \in {"enqueue"} \cup LaneErrors => violations = 0
    /\ violations > 0 /\ reqState = "live" => lanePc = "removeTrail"
    /\ reqState = "rejected" =>
         /\ pagePc \in {"credit"} \cup PageOver
         /\ violations + One(endWire) <= 1

\* The life of the ring and of its reservation.
RingLife ==
    /\ closed => queueLen = 0
    /\ ended => bodyEnded
    /\ stopPc \in {"close", "try", "done"} => bodyEnded
    /\ stopPc \in {"try", "done"} => closed
    /\ handlerPc = "closing" => closed
    /\ reqState \in {"live", "removed"} /\ ~closed /\ ~ended => reserved
    /\ lanePc \in {"grant", "enqueue", "end", "cancel", "remove", "removeTrail"}
                   \cup LaneErrors => reqState \in {"live", "removed"}

IInv ==
    /\ TypeOK /\ UploadCreditsConserved /\ WindowNeverOverrun
    /\ ViolationsExplained /\ ReservationCoversPayload
    /\ NotAdmitted /\ WireOrder /\ TailCovered /\ Charged /\ RingLife

-----------------------------------------------------------------------------
(* Boolean variables are handled apart: their types are preserved by each      *)
(* action on its own.                                                          *)
Booleans ==
    /\ laneOpen \in BOOLEAN /\ reqWire \in BOOLEAN /\ endWire \in BOOLEAN
    /\ cancelWire \in BOOLEAN /\ resWire \in BOOLEAN /\ tombstone \in BOOLEAN
    /\ bodyEnded \in BOOLEAN /\ closed \in BOOLEAN /\ ended \in BOOLEAN
    /\ hasCurrent \in BOOLEAN /\ reserved \in BOOLEAN /\ closedEarly \in BOOLEAN

USE DEF page, toNode, toPage, session, window, ring, stopping

\* The page's steps keep the Boolean types.
LEMMA PageBooleans == Booleans /\ Page => Booleans'
<1> SUFFICES ASSUME Booleans, Page PROVE Booleans'
  OBVIOUS
<1>1. CASE PageSendReq
  BY <1>1, ZenonT(60) DEF PageSendReq, Booleans
<1>2. CASE PageTakeUploadCredit
  BY <1>2, ZenonT(60) DEF PageTakeUploadCredit, Booleans
<1>3. CASE PageReadUploadPayload
  BY <1>3, ZenonT(60) DEF PageReadUploadPayload, Booleans
<1>4. CASE PageSendBody
  BY <1>4, ZenonT(60) DEF PageSendBody, Booleans
<1>5. CASE PageSendEnd
  BY <1>5, ZenonT(60) DEF PageSendEnd, Booleans
<1>6. CASE PageCancel
  BY <1>6, ZenonT(60) DEF PageCancel, PageFinish, Booleans
<1>7. CASE PageRecvReqCredit
  <2>1. PICK n \in 1..creditWire :
          /\ IF pagePc \notin Uploading THEN UNCHANGED <<page, cancelWire>>
             ELSE IF Overgrant(n) THEN cancelWire' = TRUE /\ PageFinish
             ELSE UNCHANGED <<pagePc, sourceLeft, cancelWire>>
          /\ UNCHANGED <<laneOpen, reqWire, endWire, resWire, session, bodyEnded,
                         ring, closedEarly>>
    BY <1>7, Zenon DEF PageRecvReqCredit
  <2> QED
    BY <2>1, ZenonT(60) DEF Booleans
<1>8. CASE PageRecvResponse
  BY <1>8, ZenonT(60) DEF PageRecvResponse, PageFinish, Booleans
<1>9. CASE PageLaneClosed
  BY <1>9, ZenonT(60) DEF PageLaneClosed, PageFinish, Booleans
<1> QED
  BY <1>1, <1>2, <1>3, <1>4, <1>5, <1>6, <1>7, <1>8, <1>9, Zenon DEF Page

\* The steps of the lane's read loop keep the Boolean types.
LEMMA LaneBooleans == Booleans /\ Lane => Booleans'
<1> SUFFICES ASSUME Booleans, Lane PROVE Booleans'
  OBVIOUS
<1>1. CASE LaneRecvReq
  BY <1>1, ZenonT(60) DEF LaneRecvReq, LaneReady, Booleans
<1>2. CASE LaneGrantWindow
  BY <1>2, ZenonT(60) DEF LaneGrantWindow, Booleans
<1>3. CASE LaneRecvBody
  BY <1>3, ZenonT(60) DEF LaneRecvBody, LaneReady, DiscardOrViolate, Booleans
<1>4. CASE LaneEnqueueBody
  BY <1>4, ZenonT(60) DEF LaneEnqueueBody, EnqueueError, Booleans
<1>5. CASE LaneBodyError
  BY <1>5, ZenonT(60) DEF LaneBodyError, Booleans
<1>6. CASE LaneRemove
  <2>1. UNCHANGED <<laneOpen, toNode, toPage, bodyEnded, ring, closedEarly>>
    BY <1>6, Zenon DEF LaneRemove
  <2>2. CancelRequestState("lane", lanePc = "removeTrail")
    BY <1>6, Zenon DEF LaneRemove
  <2>3. tombstone' \in BOOLEAN
    BY <2>2, ZenonT(60) DEF CancelRequestState, RememberRejectedBody, Booleans
  <2> QED
    BY <2>1, <2>3, ZenonT(60) DEF Booleans
<1>7. CASE LaneRecvEnd
  BY <1>7, ZenonT(60) DEF LaneRecvEnd, LaneReady, Booleans
<1>8. CASE LaneEndBody
  BY <1>8, ZenonT(60) DEF LaneEndBody, Booleans
<1>9. CASE LaneRecvCancel
  BY <1>9, ZenonT(60) DEF LaneRecvCancel, LaneReady, Booleans
<1>10. CASE LaneCancelCheck
  BY <1>10, ZenonT(60) DEF LaneCancelCheck, Booleans
<1>11. CASE DetachLane
  BY <1>11, ZenonT(60) DEF DetachLane, CancelRequestState, RememberRejectedBody, Booleans
<1> QED
  BY <1>1, <1>2, <1>3, <1>4, <1>5, <1>6, <1>7, <1>8, <1>9, <1>10, <1>11, Zenon DEF Lane

\* The steps of stopRequestBody keep the Boolean types.
LEMMA StopBooleans == Booleans /\ Stop => Booleans'
<1> SUFFICES ASSUME Booleans, Stop PROVE Booleans'
  OBVIOUS
<1>1. CASE StopCancelContext
  BY <1>1, ZenonT(60) DEF StopCancelContext, Booleans
<1>2. CASE StopEndBody
  BY <1>2, ZenonT(60) DEF StopEndBody, Booleans
<1>3. CASE StopCloseMark
  BY <1>3, ZenonT(60) DEF StopCloseMark, CloseMark, Booleans
<1>4. CASE StopCloseTryLock
  BY <1>4, ZenonT(60) DEF StopCloseTryLock, CloseTryLock, Booleans
<1> QED
  BY <1>1, <1>2, <1>3, <1>4, Zenon DEF Stop

\* The steps of the backend's body reader keep the Boolean types.
LEMMA ReaderBooleans == Booleans /\ Reader => Booleans'
<1> SUFFICES ASSUME Booleans, Reader PROVE Booleans'
  OBVIOUS
<1>1. CASE ReaderLock
  BY <1>1, ZenonT(60) DEF ReaderLock, Booleans
<1>2. CASE ReaderAwaitCurrent
  BY <1>2, ZenonT(60) DEF ReaderAwaitCurrent, Booleans
<1>3. CASE ReaderEOF
  BY <1>3, ZenonT(60) DEF ReaderEOF, Booleans
<1>4. CASE ReaderFinishCurrent
  BY <1>4, ZenonT(60) DEF ReaderFinishCurrent, Booleans
<1>5. CASE ReaderChunkConsumed
  BY <1>5, ZenonT(60) DEF ReaderChunkConsumed, HoldRefill, RefillGrant, ContextCancelled, Booleans
<1>6. CASE ReaderCancel
  BY <1>6, ZenonT(60) DEF ReaderCancel, CancelRequestState, RememberRejectedBody, Booleans
<1>7. CASE ReaderUnlock
  BY <1>7, ZenonT(60) DEF ReaderUnlock, Booleans
<1> QED
  BY <1>1, <1>2, <1>3, <1>4, <1>5, <1>6, <1>7, Zenon DEF Reader

\* The steps of the handler keep the Boolean types.
LEMMA HandlerBooleans == Booleans /\ Handler => Booleans'
<1> SUFFICES ASSUME Booleans, Handler PROVE Booleans'
  OBVIOUS
<1>1. CASE HandlerStart
  BY <1>1, ZenonT(60) DEF HandlerStart, Booleans
<1>2. CASE HandlerCloseBody
  BY <1>2, ZenonT(60) DEF HandlerCloseBody, CloseMark, Booleans
<1>3. CASE HandlerCloseTryLock
  BY <1>3, ZenonT(60) DEF HandlerCloseTryLock, CloseTryLock, Booleans
<1>4. CASE HandlerReturn
  BY <1>4, ZenonT(60) DEF HandlerReturn, Booleans
<1>5. CASE HandlerFinish
  BY <1>5, ZenonT(60) DEF HandlerFinish, Booleans
<1>6. CASE HandlerRemove
  <2>1. UNCHANGED <<laneOpen, toNode, toPage, bodyEnded, ring, closedEarly>>
    BY <1>6, Zenon DEF HandlerRemove
  <2>2. CancelRequestState("handler", handlerPc = "removeTrail")
    BY <1>6, Zenon DEF HandlerRemove
  <2>3. tombstone' \in BOOLEAN
    BY <2>2, ZenonT(60) DEF CancelRequestState, RememberRejectedBody, Booleans
  <2> QED
    BY <2>1, <2>3, ZenonT(60) DEF Booleans
<1> QED
  BY <1>1, <1>2, <1>3, <1>4, <1>5, <1>6, Zenon DEF Handler

\* The steps of the idle timer keep the Boolean types.
LEMMA TimerBooleans == Booleans /\ Timer => Booleans'
<1> SUFFICES ASSUME Booleans, Timer PROVE Booleans'
  OBVIOUS
<1>1. CASE TimerExpire
  BY <1>1, ZenonT(60) DEF TimerExpire, RememberRejectedBody, Booleans
<1>2. CASE TimerRemove
  BY <1>2, ZenonT(60) DEF TimerRemove, CancelRequestState, RememberRejectedBody, Booleans
<1>3. CASE TimerReport
  BY <1>3, ZenonT(60) DEF TimerReport, Booleans
<1> QED
  BY <1>1, <1>2, <1>3, Zenon DEF Timer

-----------------------------------------------------------------------------
(* Every action preserves the inductive invariant.                             *)
\* The Boolean types are part of the invariant.
LEMMA TypeBooleans == IInv => Booleans
  BY Zenon DEF IInv, TypeOK, Booleans

USE WindowAssumption, BatchAssumption, BodyLimitAssumption, SourceFramesAssumption
USE DEF IInv, TypeOK, Booleans, UploadCreditsConserved, WindowNeverOverrun,
        ViolationsExplained, ReservationCoversPayload, NotAdmitted, WireOrder,
        TailCovered, Charged, RingLife, Quiet, Outstanding, Accounted, One,
        Uploading, PageOver, LaneErrors, MaxRejectedBodyTrailingFrames

\* The page's steps keep the invariant.
LEMMA PageIInv == ASSUME IInv, Page PROVE IInv'
<1>0. Booleans'
  BY TypeBooleans, PageBooleans, Zenon
<1>1. CASE PageSendReq
  BY <1>0, <1>1, SMTT(30) DEF PageSendReq
<1>2. CASE PageTakeUploadCredit
  BY <1>0, <1>2, SMTT(30) DEF PageTakeUploadCredit
<1>3. CASE PageReadUploadPayload
  BY <1>0, <1>3, SMTT(30) DEF PageReadUploadPayload
<1>4. CASE PageSendBody
  BY <1>0, <1>4, SMTT(30) DEF PageSendBody
<1>5. CASE PageSendEnd
  BY <1>0, <1>5, SMTT(30) DEF PageSendEnd
<1>6. CASE PageCancel
  BY <1>0, <1>6, SMTT(30) DEF PageCancel, PageFinish
<1>7. CASE PageRecvReqCredit
  BY <1>0, <1>7, SMTT(30) DEF PageRecvReqCredit, PageFinish, Overgrant
<1>8. CASE PageRecvResponse
  BY <1>0, <1>8, SMTT(30) DEF PageRecvResponse, PageFinish
<1>9. CASE PageLaneClosed
  BY <1>0, <1>9, SMTT(30) DEF PageLaneClosed, PageFinish
<1> QED
  BY <1>1, <1>2, <1>3, <1>4, <1>5, <1>6, <1>7, <1>8, <1>9, Zenon DEF Page

\* The steps of the lane's read loop keep the invariant.
LEMMA LaneIInv == ASSUME IInv, Lane PROVE IInv'
<1>0. Booleans'
  BY TypeBooleans, LaneBooleans
<1>1. CASE LaneRecvReq
  BY <1>0, <1>1, SMTT(30) DEF LaneRecvReq, LaneReady
<1>2. CASE LaneGrantWindow
  BY <1>0, <1>2, SMTT(30) DEF LaneGrantWindow
<1>3. CASE LaneRecvBody
  BY <1>0, <1>3, SMTT(30) DEF LaneRecvBody, LaneReady, DiscardOrViolate
<1>4. CASE LaneEnqueueBody
  BY <1>0, <1>4, SMTT(30) DEF LaneEnqueueBody, EnqueueError
<1>5. CASE LaneBodyError
  BY <1>0, <1>5, SMTT(30) DEF LaneBodyError
<1>6. CASE LaneRemove
  BY <1>0, <1>6, SMTT(30) DEF LaneRemove, CancelRequestState, RememberRejectedBody
<1>7. CASE LaneRecvEnd
  <2>1. CASE reqState = "live"
    BY <1>0, <1>7, <2>1 DEF LaneRecvEnd, LaneReady
  <2>2. CASE reqState # "live" /\ tombstone
    <3>1. ~tombstone' /\ ~endWire'
      BY <1>7, <2>2, Zenon DEF LaneRecvEnd
    <3> QED
      BY <1>0, <1>7, <2>2, <3>1 DEF LaneRecvEnd, LaneReady
  <2>3. CASE reqState # "live" /\ ~tombstone
    BY <1>0, <1>7, <2>3 DEF LaneRecvEnd, LaneReady
  <2> QED
    BY <2>1, <2>2, <2>3, Zenon
<1>8. CASE LaneEndBody
  BY <1>0, <1>8, SMTT(30) DEF LaneEndBody
<1>9. CASE LaneRecvCancel
  <2>1. CASE reqState = "live"
    <3>1. ~cancelWire' /\ tombstone' = tombstone
      BY <1>9, <2>1, Zenon DEF LaneRecvCancel
    <3> QED
      BY <1>0, <1>9, <2>1, <3>1, SMTT(30) DEF LaneRecvCancel, LaneReady
  <2>2. CASE reqState # "live"
    <3>1. ~tombstone' /\ ~cancelWire'
      BY <1>9, <2>2, Zenon DEF LaneRecvCancel
    <3> QED
      BY <1>0, <1>9, <2>2, <3>1 DEF LaneRecvCancel, LaneReady
  <2> QED
    BY <2>1, <2>2, Zenon
<1>10. CASE LaneCancelCheck
  BY <1>0, <1>10, SMTT(30) DEF LaneCancelCheck
<1>11. CASE DetachLane
  BY <1>0, <1>11, SMTT(30) DEF DetachLane, CancelRequestState, RememberRejectedBody
<1> QED
  BY <1>1, <1>2, <1>3, <1>4, <1>5, <1>6, <1>7, <1>8, <1>9, <1>10, <1>11, Zenon DEF Lane

\* The steps of stopRequestBody keep the invariant.
LEMMA StopIInv == ASSUME IInv, Stop PROVE IInv'
<1>0. Booleans'
  BY TypeBooleans, StopBooleans
<1>1. CASE StopCancelContext
  BY <1>0, <1>1, SMTT(30) DEF StopCancelContext
<1>2. CASE StopEndBody
  BY <1>0, <1>2, SMTT(30) DEF StopEndBody
<1>3. CASE StopCloseMark
  BY <1>0, <1>3, SMTT(30) DEF StopCloseMark, CloseMark
<1>4. CASE StopCloseTryLock
  BY <1>0, <1>4, SMTT(30) DEF StopCloseTryLock, CloseTryLock
<1> QED
  BY <1>1, <1>2, <1>3, <1>4, Zenon DEF Stop

\* The steps of the backend's body reader keep the invariant.
LEMMA ReaderIInv == ASSUME IInv, Reader PROVE IInv'
<1>0. Booleans'
  BY TypeBooleans, ReaderBooleans
<1>1. CASE ReaderLock
  BY <1>0, <1>1, SMTT(30) DEF ReaderLock
<1>2. CASE ReaderAwaitCurrent
  BY <1>0, <1>2, SMTT(30) DEF ReaderAwaitCurrent
<1>3. CASE ReaderEOF
  BY <1>0, <1>3, SMTT(30) DEF ReaderEOF
<1>4. CASE ReaderFinishCurrent
  BY <1>0, <1>4, SMTT(30) DEF ReaderFinishCurrent
<1>5. CASE ReaderChunkConsumed
  BY <1>0, <1>5, SMTT(30) DEF ReaderChunkConsumed, HoldRefill, RefillGrant, ContextCancelled
<1>6. CASE ReaderCancel
  BY <1>0, <1>6, SMTT(30) DEF ReaderCancel, CancelRequestState, RememberRejectedBody
<1>7. CASE ReaderUnlock
  BY <1>0, <1>7, SMTT(30) DEF ReaderUnlock
<1> QED
  BY <1>1, <1>2, <1>3, <1>4, <1>5, <1>6, <1>7, Zenon DEF Reader

\* The steps of the handler keep the invariant.
LEMMA HandlerIInv == ASSUME IInv, Handler PROVE IInv'
<1>0. Booleans'
  BY TypeBooleans, HandlerBooleans
<1>1. CASE HandlerStart
  BY <1>0, <1>1, SMTT(30) DEF HandlerStart
<1>2. CASE HandlerCloseBody
  BY <1>0, <1>2, SMTT(30) DEF HandlerCloseBody, CloseMark
<1>3. CASE HandlerCloseTryLock
  BY <1>0, <1>3, SMTT(30) DEF HandlerCloseTryLock, CloseTryLock
<1>4. CASE HandlerReturn
  BY <1>0, <1>4, SMTT(30) DEF HandlerReturn
<1>5. CASE HandlerFinish
  BY <1>0, <1>5, SMTT(30) DEF HandlerFinish
<1>6. CASE HandlerRemove
  BY <1>0, <1>6, SMTT(30) DEF HandlerRemove, CancelRequestState, RememberRejectedBody
<1> QED
  BY <1>1, <1>2, <1>3, <1>4, <1>5, <1>6, Zenon DEF Handler

\* The steps of the idle timer keep the invariant.
LEMMA TimerIInv == ASSUME IInv, Timer PROVE IInv'
<1>0. Booleans'
  BY TypeBooleans, TimerBooleans
<1>1. CASE TimerExpire
  BY <1>0, <1>1, SMTT(30) DEF TimerExpire, RememberRejectedBody
<1>2. CASE TimerRemove
  BY <1>0, <1>2, SMTT(30) DEF TimerRemove, CancelRequestState, RememberRejectedBody
<1>3. CASE TimerReport
  BY <1>0, <1>3, SMTT(30) DEF TimerReport
<1> QED
  BY <1>1, <1>2, <1>3, Zenon DEF Timer

\* The loss of the lane keeps the invariant.
LEMMA LaneClosesIInv == ASSUME IInv, LaneCloses PROVE IInv'
<1>1. /\ ~laneOpen' /\ ~reqWire' /\ ~endWire' /\ ~cancelWire' /\ ~resWire'
      /\ Booleans'
  BY TypeBooleans, Zenon DEF LaneCloses
<1> QED
  BY <1>1 DEF LaneCloses

\* The invariant holds at the start.
LEMMA InitIInv == Init => IInv
<1> SUFFICES ASSUME Init PROVE IInv
  OBVIOUS
<1>1. Booleans
  BY Zenon DEF Init
<1> QED
  BY <1>1 DEF Init

\* A stuttering step keeps the invariant.
LEMMA StutterIInv == IInv /\ UNCHANGED vars => IInv'
  BY DEF vars

HIDE DEF IInv, TypeOK, UploadCreditsConserved, WindowNeverOverrun,
         ViolationsExplained, ReservationCoversPayload

\* Every step keeps the invariant.
LEMMA NextIInv == IInv /\ [Next]_vars => IInv'
  BY PageIInv, LaneClosesIInv, LaneIInv, StopIInv, ReaderIInv, HandlerIInv,
     TimerIInv, StutterIInv, Zenon DEF Next, Terminating

-----------------------------------------------------------------------------
\* The inductive invariant holds in every reachable state of the upload: every
\* step of the page, of the node's goroutines and of the lane preserves it.
THEOREM Invariance == Spec => []IInv
<1>1. Init => IInv
  BY InitIInv, Zenon
<1>2. IInv /\ [Next]_vars => IInv'
  BY NextIInv, Zenon
<1> QED
  BY <1>1, <1>2, PTL DEF Spec

\* The variables of the upload (page, lane, session, ring, goroutines) keep
\* their types; in particular a window never counts more than Window credits.
THEOREM TypeCorrect == Spec => []TypeOK
<1>1. IInv => TypeOK
  BY Zenon DEF IInv
<1> QED
  BY <1>1, Invariance, PTL

\* No credit is lost or minted between takeUploadCredit on the page,
\* enqueueRequestBody and requestBodyChunkConsumed on the node.
THEOREM CreditsConserved == Spec => []UploadCreditsConserved
<1>1. IInv => UploadCreditsConserved
  BY Zenon DEF IInv
<1> QED
  BY <1>1, Invariance, PTL

\* enqueueRequestBody never finds its window or its ring exhausted, and the
\* page never sees a grant beyond the initial window.
THEOREM NoOverrun == Spec => []WindowNeverOverrun
<1>1. IInv => WindowNeverOverrun
  BY Zenon DEF IInv
<1> QED
  BY <1>1, Invariance, PTL

\* The page's frames are charged as protocol violations only in the cases
\* ViolationsExplained lists, and at most once.
THEOREM ViolationsBounded == Spec => []ViolationsExplained
<1>1. IInv => ViolationsExplained
  BY Zenon DEF IInv
<1> QED
  BY <1>1, Invariance, PTL

\* While a request body holds payload, its reservation against
\* maxRequestBodyReservations is held.
THEOREM ReservationHeld == Spec => []ReservationCoversPayload
<1>1. IInv => ReservationCoversPayload
  BY Zenon DEF IInv
<1> QED
  BY <1>1, Invariance, PTL
=============================================================================
