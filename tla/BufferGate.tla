----------------------------- MODULE BufferGate -----------------------------
(* The send gate of a peer (server.go, waitForBuffer): writers of all lanes   *)
(* share one association, add up what its lanes have buffered, and sleep over *)
(* a high-water mark until some lane drains below its low threshold.          *)
(*                                                                            *)
(* The sum is taken lane by lane while other writers send, the association    *)
(* drains and lanes come and go.  The short frames that pass by the gate       *)
(* (upload credits, errors, a socket's open and close) are not counted.       *)
EXTENDS Integers, FiniteSets

CONSTANTS
    LaneCount,              \* transportLaneCount
    Threshold,              \* laneBufferedAmountLowThreshold
    BulkLimit, AggregateLimit,
    Frame,                  \* the largest frame, in the unit of the amounts
    Writers, LaneOf,        \* the responses that send, and their lanes
    BodyWriters             \* those that send bodies, one at a time per lane

Lanes == 0..LaneCount - 1

ASSUME LaneCountAssumption == LaneCount \in Nat \ {0}
ASSUME WritersAssumption ==
    IsFiniteSet(Writers) /\ LaneOf \in [Writers -> Lanes] /\ BodyWriters \subseteq Writers
ASSUME FrameAssumption == Frame \in Nat \ {0}

\* What the comment on laneBufferedAmountLowThreshold requires of the numbers.
ASSUME ThresholdAssumption ==
    /\ Threshold \in Nat /\ BulkLimit \in Nat /\ AggregateLimit \in Nat
    /\ LaneCount * Threshold <= BulkLimit /\ BulkLimit <= AggregateLimit

VARIABLES
    amount,                 \* the bytes the channel in each slot has buffered
    attached,               \* PeerSession.lanes: the slot is filled
    owed,                   \* lanes whose buffered-amount-low callback is due
    leaving,                \* lanes whose detachLane has yet to signal
    pc,                     \* where each writer is
    at, total,              \* the loop of aggregateBufferedAmount
    signalled               \* the generation a writer captured was closed

lanes == <<amount, attached, owed, leaving>>
vars == <<lanes, pc, at, total, signalled>>

TypeOK ==
    /\ amount \in [Lanes -> Nat] /\ attached \in [Lanes -> BOOLEAN]
    /\ owed \subseteq Lanes /\ leaving \subseteq Lanes
    /\ pc \in [Writers -> {"idle", "measure", "capture", "recheck", "waiting", "send"}]
    /\ at \in [Writers -> 0..LaneCount] /\ total \in [Writers -> Nat]
    /\ signalled \in [Writers -> BOOLEAN]

Init ==
    /\ amount = [l \in Lanes |-> 0] /\ attached = [l \in Lanes |-> TRUE]
    /\ owed = {} /\ leaving = {}
    /\ pc = [w \in Writers |-> "idle"]
    /\ at = [w \in Writers |-> 0] /\ total = [w \in Writers |-> 0]
    /\ signalled = [w \in Writers |-> FALSE]

-----------------------------------------------------------------------------
(* The writers.                                                               *)
\* Mutant: bulk writers use the mark of the control lane.
LimitShared(w) == AggregateLimit

Limit(w) == IF LaneOf[w] = 0 THEN AggregateLimit ELSE BulkLimit

\* bodySendMu: body writers of one lane pass the gate one by one.
LaneFree(w) ==
    w \in BodyWriters =>
      \A v \in BodyWriters : LaneOf[v] = LaneOf[w] => pc[v] = "idle"

Goto(w, stage) == pc' = [pc EXCEPT ![w] = stage]

\* SendHead, SendBody, StreamBody or SendEnd comes to the gate.
Arrive(w) ==
    /\ pc[w] = "idle" /\ LaneFree(w) /\ Goto(w, "measure")
    /\ UNCHANGED <<lanes, at, total, signalled>>

\* aggregateBufferedAmount, one lane.
ReadLane(w) ==
    LET l == at[w] IN
    /\ pc[w] \in {"measure", "recheck"} /\ l < LaneCount
    /\ at' = [at EXCEPT ![w] = l + 1]
    /\ total' = [total EXCEPT ![w] = @ + amount[l]]
    /\ UNCHANGED <<lanes, pc, signalled>>

\* Mutant: the writer sleeps without adding up again after it captured the generation.
CompareOnce(w) ==
    /\ pc[w] \in {"measure", "recheck"} /\ at[w] = LaneCount
    /\ Goto(w, IF total[w] <= Limit(w) THEN "send"
               ELSE "waiting")
    /\ at' = [at EXCEPT ![w] = 0] /\ total' = [total EXCEPT ![w] = 0]
    /\ signalled' = [signalled EXCEPT ![w] = @ /\ total[w] > Limit(w)]
    /\ UNCHANGED lanes

\* The comparison with the limit, and at the second one the sleep.  The sum and,
\* past the gate, the captured generation are forgotten.
Compare(w) ==
    /\ pc[w] \in {"measure", "recheck"} /\ at[w] = LaneCount
    /\ Goto(w, IF total[w] <= Limit(w) THEN "send"
               ELSE IF pc[w] = "measure" THEN "capture" ELSE "waiting")
    /\ at' = [at EXCEPT ![w] = 0] /\ total' = [total EXCEPT ![w] = 0]
    /\ signalled' = [signalled EXCEPT ![w] = @ /\ total[w] > Limit(w)]
    /\ UNCHANGED lanes

\* The generation is captured before the amounts are added up again.
Capture(w) ==
    /\ pc[w] = "capture" /\ Goto(w, "recheck")
    /\ UNCHANGED <<lanes, at, total, signalled>>

Wake(w) ==
    /\ pc[w] = "waiting" /\ signalled[w] /\ Goto(w, "measure")
    /\ signalled' = [signalled EXCEPT ![w] = FALSE]
    /\ UNCHANGED <<lanes, at, total>>

\* ctx.Done.
Cancel(w) ==
    /\ pc[w] = "waiting" /\ Goto(w, "idle")
    /\ signalled' = [signalled EXCEPT ![w] = FALSE]
    /\ UNCHANGED <<lanes, at, total>>

\* lane.send, which fails on a closed channel.
Send(w) ==
    /\ pc[w] = "send" /\ Goto(w, "idle")
    /\ IF attached[LaneOf[w]]
       THEN \E n \in 1..Frame : amount' = [amount EXCEPT ![LaneOf[w]] = @ + n]
       ELSE UNCHANGED amount
    /\ UNCHANGED <<attached, owed, leaving, at, total, signalled>>

-----------------------------------------------------------------------------
\* onBufferReleased: acknowledged bytes leave a lane, and the callback of a
\* downward crossing runs before the association releases more.
Drain(l) ==
    /\ owed = {} /\ amount[l] > 0
    /\ \E n \in 1..amount[l] :
         /\ amount' = [amount EXCEPT ![l] = @ - n]
         /\ owed' = IF amount[l] > Threshold /\ amount[l] - n <= Threshold
                    THEN {l} ELSE {}
    /\ UNCHANGED <<attached, leaving, pc, at, total, signalled>>

\* signalBufferChanged closes the generation the writers captured.
SignalBufferChanged ==
    signalled' = [w \in Writers |-> pc[w] \in {"recheck", "waiting"}]

\* Mutant: the callback signals nobody.
BufferedAmountLowIgnored(l) ==
    /\ l \in owed /\ owed' = owed \ {l} /\ UNCHANGED signalled
    /\ UNCHANGED <<amount, attached, leaving, pc, at, total>>

BufferedAmountLow(l) ==
    /\ l \in owed /\ owed' = owed \ {l} /\ SignalBufferChanged
    /\ UNCHANGED <<amount, attached, leaving, pc, at, total>>

\* detachLane: the slot is emptied, what its channel had buffered no longer
\* counts, and then the writers are told.
DetachLane(l) ==
    /\ attached[l] /\ attached' = [attached EXCEPT ![l] = FALSE]
    /\ amount' = [amount EXCEPT ![l] = 0] /\ leaving' = leaving \cup {l}
    /\ UNCHANGED <<owed, pc, at, total, signalled>>

DetachSignals(l) ==
    /\ l \in leaving /\ leaving' = leaving \ {l} /\ SignalBufferChanged
    /\ UNCHANGED <<amount, attached, owed, pc, at, total>>

\* Attach: a new channel takes the empty slot.
Attach(l) ==
    /\ ~attached[l] /\ attached' = [attached EXCEPT ![l] = TRUE]
    /\ UNCHANGED <<amount, owed, leaving, pc, at, total, signalled>>

-----------------------------------------------------------------------------
Writer(w) ==
    Arrive(w) \/ ReadLane(w) \/ Compare(w) \/ Capture(w) \/ Wake(w) \/ Cancel(w) \/ Send(w)

Lane(l) ==
    Drain(l) \/ BufferedAmountLow(l) \/ DetachLane(l) \/ DetachSignals(l) \/ Attach(l)

Next == (\E w \in Writers : Writer(w)) \/ (\E l \in Lanes : Lane(l))

Spec == Init /\ [][Next]_vars

\* Writers and callbacks run, and the association of a live peer drains.
FairSpec ==
    /\ Spec
    /\ \A w \in Writers : WF_vars(ReadLane(w) \/ Compare(w) \/ Capture(w) \/ Wake(w))
    /\ \A l \in Lanes : WF_vars(BufferedAmountLow(l) \/ DetachSignals(l))
                        /\ WF_vars(Drain(l))

-----------------------------------------------------------------------------
(* Properties.                                                                *)
\* server.go:40-49, 183-187 -- "callback-only wakeups cannot strand a saturated
\* writer": a sleeping writer was signalled, will be, or sleeps over a lane above
\* the threshold, whose drain will signal it.
Pending(w) ==
    \/ signalled[w]
    \/ owed # {} \/ leaving # {}
    \/ \E l \in Lanes : amount[l] > Threshold

NoStrandedWriter == \A w \in Writers : pc[w] = "waiting" => Pending(w)

\* Who sends on the bulk lanes, and what of the amounts a they hold up to each lane.
BulkWriters == {w \in Writers : LaneOf[w] # 0}
Buffered(a) == LET sum[l \in Lanes] == IF l = 0 THEN 0 ELSE sum[l - 1] + a[l] IN sum

\* server.go:34-39, 54-55 -- "retaining one MiB of interactive reserve when all
\* three bulk lanes are saturated": although writers add up amounts that change
\* under them, the bulk lanes hold no more than their limit and a frame for each
\* of their writers.
ReserveKept ==
    Buffered(amount)[LaneCount - 1] <= BulkLimit + Cardinality(BulkWriters) * Frame

\* server.go:183-187, 1277-1298 -- no writer sleeps for ever over lanes that no
\* other writer fills.  (One that keeps its own lane above the threshold may hold
\* another one asleep for as long as it sends.)
SleeperWakes ==
    \A w \in Writers :
      []<>(pc[w] # "waiting"
           \/ \E v \in Writers \ {w} : pc[v] \notin {"idle", "waiting"})
=============================================================================
