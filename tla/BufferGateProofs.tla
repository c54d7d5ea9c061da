-------------------------- MODULE BufferGateProofs --------------------------
(* No writer of the send gate is stranded, and the bulk lanes leave the        *)
(* reserve of lane 0 alone, for any number of lanes and writers and any marks  *)
(* that satisfy ThresholdAssumption.                                           *)
EXTENDS BufferGate, FiniteSetTheorems, WellFoundedInduction, TLAPS

USE SMTT(60)

\* A writer that has captured its generation and read more than Threshold for
\* each lane so far has met a lane above it, and is signalled or will be.
ScanInv ==
    \A w \in Writers :
      /\ pc[w] \notin {"measure", "recheck"} => at[w] = 0 /\ total[w] = 0
      /\ pc[w] = "recheck" /\ total[w] > Threshold * at[w] => Pending(w)

IInv == TypeOK /\ ScanInv /\ NoStrandedWriter

\* The constants have the types and the order the steps below use.
LEMMA Numbers ==
    /\ LaneCount \in Nat /\ LaneCount > 0 /\ Threshold \in Nat /\ Frame \in Nat
    /\ BulkLimit \in Nat /\ AggregateLimit \in Nat
    /\ LaneOf \in [Writers -> Lanes]
    /\ \A w \in Writers : Limit(w) \in Nat /\ Threshold * LaneCount <= Limit(w)
<1>1. Threshold * LaneCount = LaneCount * Threshold
  BY LaneCountAssumption, ThresholdAssumption
<1> QED
  BY <1>1, LaneCountAssumption, WritersAssumption, FrameAssumption,
     ThresholdAssumption DEF Limit

\* One more lane raises the product by Threshold.
LEMMA OneMoreLane ==
    \A n \in Nat : Threshold * (n + 1) = Threshold * n + Threshold
  BY Numbers, SMT

\* Once pending, a writer that sleeps or is about to stays pending as long as it
\* does not move itself: what drains, detaches or signals hands the duty on.
LEMMA PendingStable ==
    ASSUME TypeOK, NEW w \in Writers, pc[w] \in {"recheck", "waiting"}, Pending(w),
           \/ \E l \in Lanes : Lane(l)
           \/ \E v \in Writers : Writer(v) /\ v # w
           \/ ReadLane(w)
    PROVE  Pending(w)'
<1>1. CASE \E l \in Lanes : Drain(l)
  <2>1. PICK l \in Lanes : Drain(l)
    BY <1>1, Zenon
  <2>2. PICK n \in 1..amount[l] :
          /\ amount' = [amount EXCEPT ![l] = @ - n]
          /\ owed' = IF amount[l] > Threshold /\ amount[l] - n <= Threshold
                     THEN {l} ELSE {}
    BY <2>1, Zenon DEF Drain
  <2>3. owed = {} /\ UNCHANGED <<leaving, signalled>>
    BY <2>1, Zenon DEF Drain
  <2>4. CASE \E k \in Lanes : amount[k] > Threshold
    <3>1. PICK k \in Lanes : amount[k] > Threshold
      BY <2>4, Zenon
    <3>2. CASE k # l
      BY <2>2, <3>1, <3>2, Zenon DEF TypeOK, Pending
    <3>3. CASE k = l
      <4>1. CASE amount[l] - n <= Threshold
        BY <2>2, <3>1, <3>3, <4>1, Zenon DEF Pending
      <4>2. CASE ~(amount[l] - n <= Threshold)
        <5>1. amount'[l] = amount[l] - n
          BY <2>2, Zenon DEF TypeOK
        <5> QED
          BY <4>2, <5>1, Numbers, <2>2 DEF TypeOK, Pending
      <4> QED
        BY <4>1, <4>2, Zenon
    <3> QED
      BY <3>2, <3>3, Zenon
  <2>5. CASE signalled[w] \/ leaving # {}
    BY <2>3, <2>5, Zenon DEF Pending
  <2> QED
    BY <2>3, <2>4, <2>5, Zenon DEF Pending
<1>2. CASE \E l \in Lanes : BufferedAmountLow(l) \/ DetachSignals(l)
  BY <1>2, Zenon DEF BufferedAmountLow, DetachSignals, SignalBufferChanged, Pending
<1>3. CASE \E l \in Lanes : DetachLane(l)
  <2>1. leaving' # {}
    BY <1>3, Zenon DEF DetachLane
  <2> QED
    BY <2>1, Zenon DEF Pending
<1>4. CASE \E l \in Lanes : Attach(l)
  BY <1>4, Zenon DEF Attach, Pending
<1>5. CASE \E v \in Writers : Send(v) /\ v # w
  <2>1. PICK v \in Writers : Send(v) /\ v # w
    BY <1>5, Zenon
  <2>2. UNCHANGED <<owed, leaving, signalled>>
    BY <2>1, Zenon DEF Send
  <2>3. \A l \in Lanes : amount'[l] >= amount[l]
    <3>1. CASE attached[LaneOf[v]]
      <4>1. PICK n \in 1..Frame : amount' = [amount EXCEPT ![LaneOf[v]] = @ + n]
        BY <2>1, <3>1, Zenon DEF Send
      <4> QED
        BY <4>1, Numbers DEF TypeOK
    <3>2. CASE ~attached[LaneOf[v]]
      BY <2>1, <3>2 DEF Send, TypeOK
    <3> QED
      BY <3>1, <3>2, Zenon
  <2>4. \A l \in Lanes : amount[l] \in Nat /\ amount'[l] \in Int
    <3>1. CASE attached[LaneOf[v]]
      <4>1. PICK n \in 1..Frame : amount' = [amount EXCEPT ![LaneOf[v]] = @ + n]
        BY <2>1, <3>1 DEF Send
      <4> QED
        BY <4>1, Numbers DEF TypeOK
    <3>2. CASE ~attached[LaneOf[v]]
      BY <2>1, <3>2 DEF Send, TypeOK
    <3> QED
      BY <3>1, <3>2, Zenon
  <2> QED
    BY <2>2, <2>3, <2>4, Numbers DEF Pending
<1>6. CASE \/ ReadLane(w)
           \/ \E v \in Writers : /\ v # w
                                 /\ \/ Arrive(v) \/ ReadLane(v) \/ Compare(v)
                                    \/ Capture(v) \/ Wake(v) \/ Cancel(v)
  <2>1. UNCHANGED lanes
    BY <1>6, Zenon DEF Arrive, ReadLane, Compare, Capture, Wake, Cancel
  <2>2. signalled'[w] = signalled[w]
    BY <1>6, Zenon DEF Arrive, ReadLane, Compare, Capture, Wake, Cancel, TypeOK
  <2> QED
    BY <2>1, <2>2, Zenon DEF Pending, lanes
<1> QED
  BY <1>1, <1>2, <1>3, <1>4, <1>5, <1>6, Zenon DEF Lane, Writer

\* The Boolean assignments keep their types.
LEMMA Booleans ==
    ASSUME TypeOK, Next
    PROVE  attached' \in [Lanes -> BOOLEAN] /\ signalled' \in [Writers -> BOOLEAN]
<1>1. CASE \E w \in Writers : Writer(w)
  <2>1. PICK w \in Writers : Writer(w)
    BY <1>1, Zenon
  <2>2. attached' = attached
    BY <2>1, Zenon DEF Writer, Arrive, ReadLane, Compare, Capture, Wake, Cancel, Send, lanes
  <2>3. \/ signalled' = signalled
        \/ signalled' = [signalled EXCEPT ![w] = FALSE]
        \/ signalled' = [signalled EXCEPT ![w] = @ /\ total[w] > Limit(w)]
    BY <2>1, Zenon DEF Writer, Arrive, ReadLane, Compare, Capture, Wake, Cancel, Send
  <2>4. signalled' \in [Writers -> BOOLEAN]
    BY <2>3, Zenon DEF TypeOK
  <2> QED
    BY <2>2, <2>4, Zenon DEF TypeOK
<1>2. CASE \E l \in Lanes : Lane(l)
  <2>1. PICK l \in Lanes : Lane(l)
    BY <1>2, Zenon
  <2>2. \/ attached' = attached
        \/ attached' = [attached EXCEPT ![l] = FALSE]
        \/ attached' = [attached EXCEPT ![l] = TRUE]
    BY <2>1, Zenon DEF Lane, Drain, BufferedAmountLow, DetachLane, DetachSignals, Attach
  <2>3. \/ signalled' = signalled
        \/ signalled' = [v \in Writers |-> pc[v] \in {"recheck", "waiting"}]
    BY <2>1, Zenon DEF Lane, Drain, BufferedAmountLow, DetachLane, DetachSignals, Attach,
                SignalBufferChanged
  <2>4. attached' \in [Lanes -> BOOLEAN]
    BY <2>2, Zenon DEF TypeOK
  <2>5. signalled' \in [Writers -> BOOLEAN]
    <3>1. \A v \in Writers : (pc[v] \in {"recheck", "waiting"}) \in BOOLEAN
      BY SMT
    <3>2. [v \in Writers |-> pc[v] \in {"recheck", "waiting"}] \in [Writers -> BOOLEAN]
      BY <3>1, Zenon
    <3> QED
      BY <2>3, <3>2, Zenon DEF TypeOK
  <2> QED
    BY <2>4, <2>5, Zenon
<1> QED
  BY <1>1, <1>2, Zenon DEF Next

\* Every step keeps the types.
LEMMA TypeStep ==
    ASSUME TypeOK, Next
    PROVE  TypeOK'
<1>1. ASSUME NEW w \in Writers, Writer(w)
      PROVE  TypeOK'
  <2>1. CASE Send(w)
    <3>1. amount' \in [Lanes -> Nat]
      BY <2>1, Numbers DEF Send, TypeOK
    <3> QED
      BY <2>1, <3>1, Booleans, Zenon DEF Send, Goto, TypeOK
  <2>2. CASE ReadLane(w)
    <3>1. at[w] \in Lanes
      BY <2>2, Numbers DEF ReadLane, Lanes, TypeOK
    <3>2. at' \in [Writers -> 0..LaneCount] /\ total' \in [Writers -> Nat]
      BY <2>2, <3>1, Numbers DEF ReadLane, Lanes, TypeOK
    <3> QED
      BY <2>2, <3>2, Booleans, Zenon DEF ReadLane, lanes, TypeOK
  <2>3. CASE Compare(w)
    <3>1. at' \in [Writers -> 0..LaneCount] /\ total' \in [Writers -> Nat]
      BY <2>3, Numbers DEF Compare, TypeOK
    <3> QED
      BY <2>3, <3>1, Booleans, Zenon DEF Compare, Goto, lanes, TypeOK
  <2>4. CASE Arrive(w) \/ Capture(w) \/ Wake(w) \/ Cancel(w)
    BY <2>4, Booleans, Zenon DEF Arrive, Capture, Wake, Cancel, Goto, lanes, TypeOK
  <2> QED
    BY <1>1, <2>1, <2>2, <2>3, <2>4, Zenon DEF Writer
<1>2. ASSUME NEW l \in Lanes, Lane(l)
      PROVE  TypeOK'
  <2>1. CASE Drain(l)
    <3>1. amount' \in [Lanes -> Nat]
      BY <2>1 DEF Drain, TypeOK
    <3> QED
      BY <2>1, <3>1, Booleans, Zenon DEF Drain, TypeOK
  <2>2. CASE BufferedAmountLow(l) \/ DetachLane(l) \/ DetachSignals(l) \/ Attach(l)
    BY <2>2, Booleans DEF BufferedAmountLow, DetachLane, DetachSignals, Attach, TypeOK
  <2> QED
    BY <1>2, <2>1, <2>2, Zenon DEF Lane
<1> QED
  BY <1>1, <1>2, Zenon DEF Next

\* A writer's own step keeps what the invariant says of it.
LEMMA OwnStep ==
    ASSUME IInv, NEW w \in Writers, Writer(w)
    PROVE  /\ pc'[w] \notin {"measure", "recheck"} => at'[w] = 0 /\ total'[w] = 0
           /\ pc'[w] = "recheck" /\ total'[w] > Threshold * at'[w] => Pending(w)'
           /\ pc'[w] = "waiting" => Pending(w)'
<1> USE DEF IInv
<1>1. CASE ReadLane(w)
  <2> DEFINE l == at[w]
  <2>1. /\ pc' = pc /\ pc[w] \in {"measure", "recheck"} /\ l \in Lanes
        /\ at'[w] = l + 1 /\ total'[w] = total[w] + amount[l]
        /\ UNCHANGED <<amount, owed, leaving, signalled>>
    BY <1>1, Numbers DEF ReadLane, TypeOK, Lanes, lanes
  <2>2. ASSUME pc[w] = "recheck", total'[w] > Threshold * at'[w]
        PROVE  Pending(w)'
    <3>1. l \in Nat /\ Threshold * (l + 1) = Threshold * l + Threshold
      BY <2>1, OneMoreLane, Numbers DEF Lanes
    <3>2. total[w] \in Nat /\ amount[l] \in Nat /\ Threshold * l \in Nat
      BY <2>1, <3>1, Numbers DEF TypeOK
    <3>3. total[w] > Threshold * l \/ amount[l] > Threshold
      <4> DEFINE p == Threshold * l
      <4>1. total[w] + amount[l] > p + Threshold
        BY <2>1, <2>2, <3>1, Zenon
      <4>2. p \in Nat
        BY <3>2, Zenon
      <4> HIDE DEF p
      <4>3. total[w] > p \/ amount[l] > Threshold
        BY <3>2, <4>1, <4>2, Numbers
      <4> QED
        BY <4>3, Zenon DEF p
    <3>4. Pending(w)
      BY <2>1, <2>2, <3>3, Zenon DEF Pending, ScanInv
    <3> QED
      BY <2>1, <3>4, Zenon DEF Pending
  <2> QED
    BY <2>1, <2>2, Zenon
<1>2. CASE Compare(w)
  <2>1. /\ at'[w] = 0 /\ total'[w] = 0 /\ at[w] = LaneCount /\ UNCHANGED lanes
        /\ pc'[w] = IF total[w] <= Limit(w) THEN "send"
                    ELSE IF pc[w] = "measure" THEN "capture" ELSE "waiting"
        /\ pc[w] \in {"measure", "recheck"}
    BY <1>2, Numbers, Zenon DEF Compare, Goto, TypeOK
  <2>2. ASSUME pc'[w] = "waiting"
        PROVE  Pending(w)'
    <3>1. pc[w] = "recheck" /\ ~(total[w] <= Limit(w))
      BY <2>1, <2>2, Zenon
    <3>2. total[w] > Threshold * at[w]
      <4> DEFINE p == Threshold * LaneCount
      <4>1. p \in Nat /\ p <= Limit(w) /\ Limit(w) \in Nat
        BY Numbers
      <4>2. total[w] \in Nat
        BY Zenon DEF TypeOK
      <4> HIDE DEF p
      <4>3. total[w] > p
        BY <3>1, <4>1, <4>2
      <4> QED
        BY <2>1, <4>3, Zenon DEF p
    <3>3. Pending(w)
      BY <3>1, <3>2, Zenon DEF ScanInv
    <3>4. signalled[w] => signalled'[w]
      <4>1. total[w] > Limit(w)
        BY <3>1, Numbers DEF TypeOK
      <4>2. signalled' = [signalled EXCEPT ![w] = @ /\ total[w] > Limit(w)]
        BY <1>2, Zenon DEF Compare
      <4> QED
        BY <4>1, <4>2, Zenon DEF TypeOK
    <3> QED
      BY <2>1, <3>3, <3>4, Zenon DEF Pending, lanes
  <2>3. pc'[w] # "recheck"
    BY <2>1, Zenon
  <2> QED
    BY <2>1, <2>2, <2>3, Zenon
<1>3. CASE Capture(w)
  <2>1. pc'[w] = "recheck" /\ at'[w] = 0 /\ total'[w] = 0
    BY <1>3, Zenon DEF Capture, Goto, ScanInv, TypeOK
  <2>2. Threshold * 0 = 0
    BY Numbers
  <2> QED
    BY <2>1, <2>2
<1>4. CASE Arrive(w) \/ Wake(w) \/ Cancel(w) \/ Send(w)
  <2>1. /\ pc'[w] \in {"measure", "idle"}
        /\ at'[w] = 0 /\ total'[w] = 0
    BY <1>4, Zenon DEF Arrive, Wake, Cancel, Send, Goto, ScanInv, TypeOK
  <2> QED
    BY <2>1, Zenon
<1> QED
  BY <1>1, <1>2, <1>3, <1>4, Zenon DEF Writer

\* What another actor's step leaves alone, and what it leaves true, of a writer.
LEMMA OthersStep ==
    ASSUME IInv, NEW w \in Writers,
           \/ \E l \in Lanes : Lane(l)
           \/ \E v \in Writers : Writer(v) /\ v # w
    PROVE  /\ pc'[w] = pc[w] /\ at'[w] = at[w] /\ total'[w] = total[w]
           /\ pc[w] \in {"recheck", "waiting"} /\ Pending(w) => Pending(w)'
<1>1. pc'[w] = pc[w] /\ at'[w] = at[w] /\ total'[w] = total[w]
  BY DEF IInv, TypeOK, Lane, Drain, BufferedAmountLow, DetachLane, DetachSignals, Attach,
         Writer, Arrive, ReadLane, Compare, Capture, Wake, Cancel, Send, Goto
<1>2. pc[w] \in {"recheck", "waiting"} /\ Pending(w) => Pending(w)'
  BY PendingStable, Zenon DEF IInv
<1> QED
  BY <1>1, <1>2, Zenon

\* The invariant holds at the start and every step keeps it.
THEOREM Invariance == Spec => []IInv
<1>1. Init => IInv
  <2> SUFFICES ASSUME Init PROVE IInv
    OBVIOUS
  <2>1. TypeOK
    BY Numbers DEF Init, TypeOK
  <2>2. ScanInv /\ NoStrandedWriter
    BY Zenon DEF Init, ScanInv, NoStrandedWriter
  <2> QED
    BY <2>1, <2>2, Zenon DEF IInv
<1>2. IInv /\ [Next]_vars => IInv'
  <2> SUFFICES ASSUME IInv, [Next]_vars PROVE IInv'
    OBVIOUS
  <2>1. CASE Next
    <3>1. TypeOK'
      BY <2>1, TypeStep, Zenon DEF IInv
    <3>2. ASSUME NEW w \in Writers
          PROVE  /\ pc'[w] \notin {"measure", "recheck"} => at'[w] = 0 /\ total'[w] = 0
                 /\ pc'[w] = "recheck" /\ total'[w] > Threshold * at'[w] => Pending(w)'
                 /\ pc'[w] = "waiting" => Pending(w)'
      <4>1. CASE Writer(w)
        BY <4>1, OwnStep, Zenon
      <4>2. CASE \/ \E l \in Lanes : Lane(l)
                 \/ \E v \in Writers : Writer(v) /\ v # w
        BY <4>2, OthersStep, Zenon DEF IInv, ScanInv, NoStrandedWriter
      <4> QED
        BY <2>1, <4>1, <4>2, Zenon DEF Next
    <3> QED
      BY <3>1, <3>2, Zenon DEF IInv, ScanInv, NoStrandedWriter
  <2>2. CASE UNCHANGED vars
    BY <2>2, Zenon DEF vars, lanes, IInv, TypeOK, ScanInv, NoStrandedWriter, Pending
  <2> QED
    BY <2>1, <2>2, Zenon
<1> HIDE DEF IInv
<1> QED
  BY <1>1, <1>2, PTL DEF Spec

\* server.go:40-49, 183-187, 1277-1298 -- for any number of lanes and writers,
\* as long as the lanes' low thresholds add up to no more than the lower mark:
\* a writer that sleeps in waitForBuffer was signalled, is about to be, or sleeps
\* over a lane whose drain will signal it.
THEOREM NoWriterIsStranded == Spec => []NoStrandedWriter
<1>1. IInv => NoStrandedWriter
  BY Zenon DEF IInv
<1> HIDE DEF IInv, NoStrandedWriter
<1> QED
  BY <1>1, Invariance, PTL

-----------------------------------------------------------------------------
(* What the lanes have buffered.                                              *)
\* A nonempty set of numbers has a least one.
LEMMA LeastExists ==
    ASSUME NEW S \in SUBSET Nat, S # {}
    PROVE  \E n \in S : \A k \in S : n <= k
<1> DEFINE R == {ss \in Nat \X Nat : ss[1] < ss[2]}
<1>1. IsWellFoundedOn(R, Nat)
  BY NatLessThanWellFounded, Zenon DEF OpToRel
<1> HIDE DEF R
<1>2. PICK x \in S : \A y \in S : ~ (<<y, x>> \in R)
  BY <1>1, WFMin, Zenon
<1>3. ASSUME NEW y \in S PROVE x <= y
  <2>1. ~ (y < x)
    BY <1>2, Zenon DEF R
  <2> QED
    BY <2>1
<1> QED
  BY <1>3, Zenon

\* Induction over the lanes: there is no first lane of a set that does not hold
\* lane 0 and holds with a lane the one before.
LEMMA NoFirstLane ==
    ASSUME NEW Bad \in SUBSET Lanes, 0 \notin Bad,
           \A l \in Lanes : l # 0 /\ l \in Bad => l - 1 \in Bad
    PROVE  Bad = {}
<1>1. SUFFICES ASSUME Bad # {} PROVE FALSE
  OBVIOUS
<1>2. Bad \in SUBSET Nat
  BY Numbers DEF Lanes
<1>3. PICK n \in Bad : \A k \in Bad : n <= k
  BY <1>1, <1>2, LeastExists, Zenon
<1>4. n # 0 /\ n - 1 \in Bad
  BY <1>3, Zenon
<1> QED
  BY <1>2, <1>3, <1>4

\* Sums of any amounts exist, lane by lane.
LEMMA SumsExist ==
    ASSUME NEW a \in [Lanes -> Nat]
    PROVE  \E s \in [Lanes -> Nat] :
             s[0] = 0 /\ \A l \in Lanes : l # 0 => s[l] = s[l - 1] + a[l]
<1> DEFINE UpTo(n) ==
      \E s \in [0..n -> Nat] : s[0] = 0 /\ \A l \in 1..n : s[l] = s[l - 1] + a[l]
<1> DEFINE Bad == {n \in Lanes : ~UpTo(n)}
<1>1. UpTo(0)
  <2> DEFINE g == [l \in 0..0 |-> 0]
  <2>1. g \in [0..0 -> Nat] /\ g[0] = 0
    OBVIOUS
  <2>2. \A l \in 1..0 : FALSE
    OBVIOUS
  <2> HIDE DEF g
  <2> QED
    BY <2>1, <2>2, Zenon
<1>2. ASSUME NEW n \in Lanes, n # 0, UpTo(n - 1) PROVE UpTo(n)
  <2>1. n \in Nat /\ n - 1 \in Nat
    BY <1>2, Numbers DEF Lanes
  <2>2. PICK s \in [0..(n - 1) -> Nat] :
          s[0] = 0 /\ \A l \in 1..(n - 1) : s[l] = s[l - 1] + a[l]
    BY <1>2, Zenon
  <2> DEFINE g == [l \in 0..n |-> IF l = n THEN s[n - 1] + a[n] ELSE s[l]]
  <2>3. \A l \in 0..(n - 1) : g[l] = s[l] /\ s[l] \in Nat
    BY <2>1
  <2>4. g[n] = s[n - 1] + a[n] /\ s[n - 1] \in Nat /\ a[n] \in Nat
    BY <2>1
  <2>5. g \in [0..n -> Nat]
    BY <2>1, <2>3, <2>4
  <2> HIDE DEF g
  <2>6. g[0] = 0
    BY <1>2, <2>1, <2>2, <2>3
  <2>7. ASSUME NEW l \in 1..n PROVE g[l] = g[l - 1] + a[l]
    <3>1. CASE l = n
      BY <2>1, <2>3, <2>4, <3>1
    <3>2. CASE l # n
      <4>1. l \in 1..(n - 1) /\ l \in 0..(n - 1) /\ l - 1 \in 0..(n - 1)
        BY <2>1, <3>2
      <4> QED
        BY <2>2, <2>3, <4>1, Zenon
    <3> QED
      BY <3>1, <3>2, Zenon
  <2> QED
    BY <2>5, <2>6, <2>7, Zenon
<1>3. Bad = {}
  <2>1. \A l \in Lanes : l # 0 /\ l \in Bad => l - 1 \in Bad
    <3>1. \A l \in Lanes : l # 0 => l - 1 \in Lanes
      BY Numbers DEF Lanes
    <3> QED
      BY <1>2, <3>1, Zenon
  <2>2. 0 \notin Bad /\ Bad \in SUBSET Lanes
    BY <1>1, Zenon
  <2> HIDE DEF Bad
  <2> QED
    BY <2>1, <2>2, NoFirstLane, Zenon
<1>4. UpTo(LaneCount - 1)
  <2>1. LaneCount - 1 \in Lanes
    BY Numbers DEF Lanes
  <2> QED
    BY <1>3, <2>1, Zenon
<1>5. PICK s \in [0..(LaneCount - 1) -> Nat] :
        s[0] = 0 /\ \A l \in 1..(LaneCount - 1) : s[l] = s[l - 1] + a[l]
  BY <1>4, Zenon
<1>6. \A l \in Lanes : l # 0 => l \in 1..(LaneCount - 1)
  BY Numbers DEF Lanes
<1> QED
  BY <1>5, <1>6, Zenon DEF Lanes

\* Buffered is such a sum.
LEMMA BufferedSums ==
    ASSUME NEW a \in [Lanes -> Nat]
    PROVE  /\ Buffered(a)[0] = 0
           /\ \A l \in Lanes : /\ Buffered(a)[l] \in Nat
                               /\ l # 0 => Buffered(a)[l] = Buffered(a)[l - 1] + a[l]
<1> DEFINE IsSum(s) == s = [l \in Lanes |-> IF l = 0 THEN 0 ELSE s[l - 1] + a[l]]
<1>1. PICK s \in [Lanes -> Nat] :
        s[0] = 0 /\ \A l \in Lanes : l # 0 => s[l] = s[l - 1] + a[l]
  BY SumsExist, Zenon
<1>2. \A l \in Lanes : s[l] = IF l = 0 THEN 0 ELSE s[l - 1] + a[l]
  BY <1>1, Zenon
<1>3. IsSum(s)
  BY <1>2, Zenon
<1>4. IsSum(Buffered(a))
  <2>1. \E t : t = [l \in Lanes |-> IF l = 0 THEN 0 ELSE t[l - 1] + a[l]]
    BY <1>3, Zenon
  <2> QED
    BY <2>1, Zenon DEF Buffered
<1> DEFINE b == Buffered(a)
<1> HIDE DEF b
<1>5. b = [l \in Lanes |-> IF l = 0 THEN 0 ELSE b[l - 1] + a[l]]
  BY <1>4, Zenon DEF b
<1>6. \A l \in Lanes : b[l] = IF l = 0 THEN 0 ELSE b[l - 1] + a[l]
  BY <1>5, Zenon
<1>7. 0 \in Lanes /\ \A l \in Lanes : l # 0 => l - 1 \in Lanes
  BY Numbers DEF Lanes
<1> DEFINE Bad == {l \in Lanes : b[l] \notin Nat}
<1>8. Bad = {}
  <2>1. \A l \in Lanes : l # 0 /\ l \in Bad => l - 1 \in Bad
    <3>1. ASSUME NEW l \in Lanes, l # 0, b[l - 1] \in Nat PROVE b[l] \in Nat
      BY <1>6, <3>1
    <3> QED
      BY <1>7, <3>1, Zenon
  <2>2. 0 \notin Bad /\ Bad \in SUBSET Lanes
    BY <1>6, <1>7
  <2> HIDE DEF Bad
  <2> QED
    BY <2>1, <2>2, NoFirstLane, Zenon
<1> QED
  BY <1>6, <1>7, <1>8, Zenon DEF b

\* Where no lane but k holds more, and k at most n more, no sum is more than n larger.
LEMMA SumsGrow ==
    ASSUME NEW a \in [Lanes -> Nat], NEW b \in [Lanes -> Nat], NEW k \in Lanes, NEW n \in Nat,
           k # 0 => b[k] <= a[k] + n, \A l \in Lanes : l # 0 /\ l # k => b[l] <= a[l]
    PROVE  \A l \in Lanes : Buffered(b)[l] <= Buffered(a)[l] + n
<1> DEFINE Up(l) == IF l < k THEN 0 ELSE n
<1> DEFINE Bad == {l \in Lanes : ~(Buffered(b)[l] <= Buffered(a)[l] + Up(l))}
<1>1. /\ Buffered(a)[0] = 0 /\ Buffered(b)[0] = 0 /\ 0 \in Lanes
      /\ \A l \in Lanes : Buffered(a)[l] \in Nat /\ Buffered(b)[l] \in Nat
  <2>1. 0 \in Lanes
    BY Numbers DEF Lanes
  <2> QED
    BY <2>1, BufferedSums, Zenon
<1>2. ASSUME NEW l \in Lanes, l # 0, l - 1 \notin Bad PROVE l \notin Bad
  <2>1. l \in Nat /\ k \in Nat /\ l - 1 \in Lanes /\ l - 1 \in Nat
    BY <1>2, Numbers DEF Lanes
  <2>2. /\ Buffered(a)[l] = Buffered(a)[l - 1] + a[l]
        /\ Buffered(b)[l] = Buffered(b)[l - 1] + b[l]
    BY <1>2, BufferedSums, Zenon
  <2>3. Buffered(b)[l - 1] <= Buffered(a)[l - 1] + Up(l - 1)
    BY <1>2, <2>1, Zenon
  <2>4. a[l] \in Nat /\ b[l] \in Nat /\ Buffered(a)[l - 1] \in Nat /\ Buffered(b)[l - 1] \in Nat
    BY <1>1, <2>1, Zenon
  <2>5. CASE l = k
    <3>1. Up(l - 1) = 0 /\ Up(l) = n
      BY <2>1, <2>5
    <3> QED
      BY <1>2, <2>2, <2>3, <2>4, <2>5, <3>1
  <2>6. CASE l # k
    <3>1. Up(l - 1) = Up(l) /\ Up(l) \in Nat /\ b[l] <= a[l]
      BY <1>2, <2>1, <2>6
    <3> QED
      BY <2>2, <2>3, <2>4, <3>1
  <2> QED
    BY <2>5, <2>6, Zenon
<1>3. Bad = {}
  <2>1. \A l \in Lanes : l # 0 /\ l \in Bad => l - 1 \in Bad
    BY <1>2, Zenon
  <2>2. Up(0) \in Nat
    OBVIOUS
  <2>3. 0 \notin Bad /\ Bad \in SUBSET Lanes
    BY <1>1, <2>2
  <2> HIDE DEF Bad
  <2> QED
    BY <2>1, <2>3, NoFirstLane, Zenon
<1>4. ASSUME NEW l \in Lanes PROVE Buffered(b)[l] <= Buffered(a)[l] + n
  <2>1. Buffered(b)[l] <= Buffered(a)[l] + Up(l)
    BY <1>3, Zenon
  <2>2. Up(l) <= n /\ Up(l) \in Nat
    BY DEF Lanes
  <2> QED
    BY <1>1, <2>1, <2>2
<1> QED
  BY <1>4, Zenon

\* A set of bulk writers has a size, at most theirs, that grows with a new member.
LEMMA SetsOfWriters ==
    ASSUME NEW S \in SUBSET BulkWriters
    PROVE  /\ Cardinality(S) * Frame \in Nat
           /\ Cardinality(S) * Frame <= Cardinality(BulkWriters) * Frame
           /\ Cardinality(BulkWriters) * Frame \in Nat
           /\ \A v \in BulkWriters \ S :
                Cardinality(S \cup {v}) * Frame = Cardinality(S) * Frame + Frame
<1>1. IsFiniteSet(BulkWriters)
  <2>1. BulkWriters \subseteq Writers
    BY Zenon DEF BulkWriters
  <2> QED
    BY <2>1, WritersAssumption, FS_Subset, Zenon
<1>2. /\ IsFiniteSet(S) /\ Cardinality(S) \in Nat /\ Cardinality(BulkWriters) \in Nat
      /\ Cardinality(S) <= Cardinality(BulkWriters)
  BY <1>1, FS_Subset, FS_CardinalityType, Zenon
<1>3. ASSUME NEW v \in BulkWriters \ S PROVE Cardinality(S \cup {v}) = Cardinality(S) + 1
  BY <1>2, FS_AddElement, Zenon
<1>4. \A m, n \in Nat : /\ m * Frame \in Nat /\ (m + 1) * Frame = m * Frame + Frame
                        /\ m <= n => m * Frame <= n * Frame
  <2>1. Frame \in Nat
    BY Numbers, Zenon
  <2> QED
    BY <2>1, SMT
<1> QED
  BY <1>2, <1>3, <1>4, Zenon

-----------------------------------------------------------------------------
(* The reserve.  The pass of the gate that counts is the one whose scan began *)
(* last.  `base` holds the bulk writers that have sent since that scan began, *)
(* `later` those that scan and began after it, and `since[w]`, for w in later, *)
(* the writers that have sent since w's scan began.                           *)
Scanning(p) == {w \in BulkWriters : p[w] \in {"measure", "recheck"}}
ReadSoFar(a, i) == IF i = 0 THEN 0 ELSE Buffered(a)[i - 1]

\* The lanes hold what that pass read and a frame for each send since it began;
\* the same is true of what the later scans have read so far.
Within(a, base) == Buffered(a)[LaneCount - 1] <= BulkLimit + Cardinality(base) * Frame
Reads(a, i, m, later, since) ==
    \A w \in later : ReadSoFar(a, i[w]) <= m[w] + Cardinality(since[w]) * Frame

\* No writer sends twice: one that may send has not done so since the pass or a
\* later scan began, and one that scans again is later itself, and knows less.
Once(p, base, later, since) ==
    /\ later \subseteq Scanning(p)
    /\ \A w \in later : w \notin since[w]
    /\ \A v \in BulkWriters : p[v] = "send" => v \notin base /\ \A w \in later : v \notin since[w]
    /\ \A v \in Scanning(p) :
          /\ v \in base => v \in later
          /\ \A w \in later : v \in since[w] => v \in later /\ since[v] \subseteq since[w]

Ledger(a, p, i, m, base, later, since) ==
    Within(a, base) /\ Reads(a, i, m, later, since) /\ Once(p, base, later, since)

ReserveInv ==
    \E base \in SUBSET BulkWriters, later \in SUBSET BulkWriters,
       since \in [BulkWriters -> SUBSET BulkWriters] :
       Ledger(amount, pc, at, total, base, later, since)

\* What the lanes have buffered before a writer's place in its scan is a number.
LEMMA ReadNumbers ==
    ASSUME NEW a \in [Lanes -> Nat], NEW i \in 0..LaneCount
    PROVE  ReadSoFar(a, i) \in Nat
<1>1. i # 0 => i - 1 \in Lanes
  BY Numbers DEF Lanes
<1> QED
  BY <1>1, BufferedSums, Zenon DEF ReadSoFar

\* server.go, aggregateBufferedAmount -- reading a lane moves it from what is ahead
\* of the scan to what has been read.
LEMMA ReserveRead ==
    ASSUME IInv, ReserveInv, NEW u \in Writers, ReadLane(u)
    PROVE  ReserveInv'
<1>1. PICK base \in SUBSET BulkWriters, later \in SUBSET BulkWriters,
           since \in [BulkWriters -> SUBSET BulkWriters] :
           Ledger(amount, pc, at, total, base, later, since)
  BY Zenon DEF ReserveInv
<1>2. UNCHANGED <<amount, pc>>
  BY Zenon DEF ReadLane, lanes
<1>3. ASSUME NEW w \in later
      PROVE  ReadSoFar(amount, at'[w]) <= total'[w] + Cardinality(since[w]) * Frame
  <2>1. w \in Writers /\ since[w] \in SUBSET BulkWriters
    BY Zenon DEF BulkWriters
  <2>2. ReadSoFar(amount, at[w]) <= total[w] + Cardinality(since[w]) * Frame
    BY <1>1, Zenon DEF Ledger, Reads
  <2>3. CASE w # u
    <3>1. at'[w] = at[w] /\ total'[w] = total[w]
      BY <2>1, <2>3, Zenon DEF ReadLane, IInv, TypeOK
    <3> QED
      BY <2>2, <3>1, Zenon
  <2>4. CASE w = u
    <3>1. /\ at[u] \in 0..LaneCount /\ at[u] < LaneCount /\ total[u] \in Nat
          /\ at'[u] = at[u] + 1 /\ total'[u] = total[u] + amount[at[u]]
      BY Zenon DEF ReadLane, IInv, TypeOK
    <3>2. at[u] \in Lanes /\ at[u] \in Nat /\ amount \in [Lanes -> Nat]
      BY <3>1, Numbers DEF Lanes, IInv, TypeOK
    <3>3. amount[at[u]] \in Nat
      BY <3>2, Zenon
    <3>4. ReadSoFar(amount, at[u] + 1) = Buffered(amount)[at[u]]
      BY <3>2 DEF ReadSoFar
    <3>5. ReadSoFar(amount, at[u] + 1) <= ReadSoFar(amount, at[u]) + amount[at[u]]
      <4>1. CASE at[u] = 0
        BY <3>2, <3>3, <3>4, <4>1, BufferedSums DEF ReadSoFar
      <4>2. CASE at[u] # 0
        <5>1. /\ Buffered(amount)[at[u]] = Buffered(amount)[at[u] - 1] + amount[at[u]]
              /\ Buffered(amount)[at[u]] \in Nat
          BY <3>2, <4>2, BufferedSums, Zenon
        <5>2. ReadSoFar(amount, at[u]) = Buffered(amount)[at[u] - 1]
          BY <4>2, Zenon DEF ReadSoFar
        <5> QED
          BY <3>4, <5>1, <5>2
      <4> QED
        BY <4>1, <4>2, Zenon
    <3>6. ReadSoFar(amount, at[u]) \in Nat /\ ReadSoFar(amount, at[u] + 1) \in Nat
      BY <3>1, <3>2, Numbers, ReadNumbers
    <3>7. Cardinality(since[u]) * Frame \in Nat
      BY <2>1, <2>4, SetsOfWriters, Zenon
    <3>8. ReadSoFar(amount, at[u]) <= total[u] + Cardinality(since[u]) * Frame
      BY <2>2, <2>4, Zenon
    <3>9. ReadSoFar(amount, at[u] + 1) <= total[u] + amount[at[u]] + Cardinality(since[u]) * Frame
      BY <3>1, <3>3, <3>5, <3>6, <3>7, <3>8
    <3> QED
      BY <2>4, <3>1, <3>9, Zenon
  <2> QED
    BY <2>3, <2>4, Zenon
<1>4. Ledger(amount', pc', at', total', base, later, since)
  BY <1>1, <1>2, <1>3, Zenon DEF Ledger, Reads
<1> QED
  BY <1>4, Zenon DEF ReserveInv

\* Amounts that grow by at most n on one lane, where n is counted for the pass and
\* every later scan, leave the counts right.
LEMMA ReserveGrows ==
    ASSUME IInv, NEW b \in [Lanes -> Nat], NEW k \in Lanes, NEW n \in Nat,
           k # 0 => b[k] <= amount[k] + n, \A l \in Lanes : l # 0 /\ l # k => b[l] <= amount[l],
           NEW base \in SUBSET BulkWriters, NEW later \in SUBSET BulkWriters,
           NEW since \in [BulkWriters -> SUBSET BulkWriters],
           NEW base2 \in SUBSET BulkWriters,
           NEW since2 \in [BulkWriters -> SUBSET BulkWriters],
           Within(amount, base), Reads(amount, at, total, later, since),
           Cardinality(base2) * Frame = Cardinality(base) * Frame + n,
           \A w \in later : Cardinality(since2[w]) * Frame = Cardinality(since[w]) * Frame + n
    PROVE  Within(b, base2) /\ Reads(b, at, total, later, since2)
<1>1. amount \in [Lanes -> Nat]
  BY Zenon DEF IInv, TypeOK
<1>2. \A l \in Lanes : /\ Buffered(b)[l] <= Buffered(amount)[l] + n
                       /\ Buffered(b)[l] \in Nat /\ Buffered(amount)[l] \in Nat
  BY <1>1, SumsGrow, BufferedSums, Zenon
<1>3. Within(b, base2)
  <2>1. LaneCount - 1 \in Lanes
    BY Numbers DEF Lanes
  <2>2. Cardinality(base) * Frame \in Nat
    BY SetsOfWriters, Zenon
  <2> QED
    BY <1>2, <2>1, <2>2, Numbers DEF Within
<1>4. ASSUME NEW w \in later
      PROVE  ReadSoFar(b, at[w]) <= total[w] + Cardinality(since2[w]) * Frame
  <2>1. w \in BulkWriters /\ at[w] \in 0..LaneCount /\ total[w] \in Nat
    BY Zenon DEF IInv, TypeOK, BulkWriters
  <2>2. Cardinality(since[w]) * Frame \in Nat
    BY <2>1, SetsOfWriters, Zenon
  <2>3. ReadSoFar(b, at[w]) <= ReadSoFar(amount, at[w]) + n
    <3>1. at[w] # 0 => at[w] - 1 \in Lanes
      BY <2>1, Numbers DEF Lanes
    <3> QED
      BY <1>2, <3>1 DEF ReadSoFar
  <2>4. ReadSoFar(b, at[w]) \in Nat /\ ReadSoFar(amount, at[w]) \in Nat
    BY <1>1, <2>1, ReadNumbers, Zenon
  <2>5. /\ ReadSoFar(amount, at[w]) <= total[w] + Cardinality(since[w]) * Frame
        /\ Cardinality(since2[w]) * Frame = Cardinality(since[w]) * Frame + n
    BY Zenon DEF Reads
  <2> QED
    BY <2>1, <2>2, <2>3, <2>4, <2>5
<1> QED
  BY <1>3, <1>4, Zenon DEF Reads

\* server.go, pion -- lanes that drain, close or open hold no more than before.
LEMMA ReserveLane ==
    ASSUME IInv, ReserveInv, NEW l \in Lanes, Lane(l)
    PROVE  ReserveInv'
<1>1. PICK base \in SUBSET BulkWriters, later \in SUBSET BulkWriters,
           since \in [BulkWriters -> SUBSET BulkWriters] :
           Ledger(amount, pc, at, total, base, later, since)
  BY Zenon DEF ReserveInv
<1>2. UNCHANGED <<pc, at, total>>
  BY Zenon DEF Lane, Drain, BufferedAmountLow, DetachLane, DetachSignals, Attach
<1>3. amount \in [Lanes -> Nat]
  BY Zenon DEF IInv, TypeOK
<1>4. amount' \in [Lanes -> Nat] /\ \A k \in Lanes : amount'[k] <= amount[k]
  <2>1. CASE Drain(l)
    <3>1. PICK n \in 1..amount[l] : amount' = [amount EXCEPT ![l] = @ - n]
      BY <2>1, Zenon DEF Drain
    <3> QED
      BY <1>3, <3>1
  <2>2. CASE DetachLane(l)
    BY <1>3, <2>2 DEF DetachLane
  <2>3. CASE BufferedAmountLow(l) \/ DetachSignals(l) \/ Attach(l)
    BY <1>3, <2>3 DEF BufferedAmountLow, DetachSignals, Attach
  <2> QED
    BY <2>1, <2>2, <2>3, Zenon DEF Lane
<1>5. Within(amount', base) /\ Reads(amount', at, total, later, since)
  <2>1. amount'[l] <= amount[l] + 0
    BY <1>3, <1>4
  <2>2. \A S \in SUBSET BulkWriters : Cardinality(S) * Frame = Cardinality(S) * Frame + 0
    BY SetsOfWriters
  <2>3. Within(amount, base) /\ Reads(amount, at, total, later, since)
    BY <1>1, Zenon DEF Ledger
  <2>4. 0 \in Nat /\ \A w \in later : since[w] \in SUBSET BulkWriters
    OBVIOUS
  <2> QED
    BY <1>4, <2>1, <2>2, <2>3, <2>4, ReserveGrows, Zenon
<1>6. Ledger(amount', pc', at', total', base, later, since)
  BY <1>1, <1>2, <1>5, Zenon DEF Ledger
<1> QED
  BY <1>6, Zenon DEF ReserveInv

\* server.go, lane.send -- a send is one more for the pass and every later scan.
LEMMA ReserveSend ==
    ASSUME IInv, ReserveInv, NEW u \in Writers, Send(u)
    PROVE  ReserveInv'
<1>1. PICK base \in SUBSET BulkWriters, later \in SUBSET BulkWriters,
           since \in [BulkWriters -> SUBSET BulkWriters] :
           Ledger(amount, pc, at, total, base, later, since)
  BY DEF ReserveInv
<1>2. /\ UNCHANGED <<at, total>> /\ pc[u] = "send" /\ pc' = [pc EXCEPT ![u] = "idle"]
      /\ amount \in [Lanes -> Nat] /\ LaneOf[u] \in Lanes
  BY Numbers, Zenon DEF Send, Goto, IInv, TypeOK
<1>3. \A w \in Writers : pc'[w] = IF w = u THEN "idle" ELSE pc[w]
  BY <1>2, Zenon DEF IInv, TypeOK
<1>4. Scanning(pc') = Scanning(pc)
  BY <1>2, <1>3 DEF Scanning, BulkWriters
<1>5. amount' \in [Lanes -> Nat] /\ \A k \in Lanes : k # LaneOf[u] => amount'[k] = amount[k]
  <2>1. CASE attached[LaneOf[u]]
    <3>1. PICK n \in 1..Frame : amount' = [amount EXCEPT ![LaneOf[u]] = @ + n]
      BY <2>1, Zenon DEF Send
    <3> QED
      BY <1>2, <3>1, Numbers
  <2>2. CASE ~attached[LaneOf[u]]
    BY <1>2, <2>2, Zenon DEF Send
  <2> QED
    BY <2>1, <2>2, Zenon
<1>6. amount'[LaneOf[u]] <= amount[LaneOf[u]] + Frame
  <2>1. CASE attached[LaneOf[u]]
    <3>1. PICK n \in 1..Frame : amount' = [amount EXCEPT ![LaneOf[u]] = @ + n]
      BY <2>1 DEF Send
    <3>2. n \in Nat /\ n <= Frame /\ amount'[LaneOf[u]] = amount[LaneOf[u]] + n
      BY <1>2, <3>1, Numbers
    <3> QED
      BY <1>2, <3>2, Numbers
  <2>2. CASE ~attached[LaneOf[u]]
    BY <1>2, <2>2, Numbers DEF Send
  <2> QED
    BY <2>1, <2>2, Zenon
<1>7. CASE u \in BulkWriters
  <2> DEFINE base2 == base \cup {u}
             since2 == [w \in BulkWriters |-> since[w] \cup {u}]
  <2>1. base2 \in SUBSET BulkWriters /\ since2 \in [BulkWriters -> SUBSET BulkWriters]
    BY <1>7, Zenon
  <2>2. u \notin base /\ \A w \in later : u \notin since[w]
    BY <1>1, <1>2, <1>7, Zenon DEF Ledger, Once
  <2>3. Cardinality(base2) * Frame = Cardinality(base) * Frame + Frame
    BY <1>7, <2>2, SetsOfWriters, Zenon
  <2>4. ASSUME NEW w \in later
        PROVE  Cardinality(since2[w]) * Frame = Cardinality(since[w]) * Frame + Frame
    <3>1. since[w] \in SUBSET BulkWriters /\ since2[w] = since[w] \cup {u} /\ u \notin since[w]
      BY <2>2, Zenon
    <3> QED
      BY <1>7, <3>1, SetsOfWriters, Zenon
  <2>5. Once(pc', base2, later, since2)
    <3>1. later \subseteq Scanning(pc') /\ u \notin later
      BY <1>1, <1>2, <1>4, Zenon DEF Ledger, Once, Scanning
    <3>2. \A w \in later : w \notin since2[w]
      BY <1>1, <3>1, Zenon DEF Ledger, Once
    <3>3. ASSUME NEW v \in BulkWriters, pc'[v] = "send"
          PROVE  v \notin base2 /\ \A w \in later : v \notin since2[w]
      <4>1. v # u /\ pc[v] = "send"
        BY <1>3, <3>3, Zenon DEF BulkWriters
      <4> QED
        BY <1>1, <4>1, Zenon DEF Ledger, Once
    <3>4. ASSUME NEW v \in Scanning(pc')
          PROVE  /\ v \in base2 => v \in later
                 /\ \A w \in later : v \in since2[w] => v \in later /\ since2[v] \subseteq since2[w]
      <4>1. v \in Scanning(pc) /\ v # u /\ v \in BulkWriters
        BY <1>2, <1>4, Zenon DEF Scanning
      <4> QED
        BY <1>1, <4>1, Zenon DEF Ledger, Once
    <3> QED
      BY <3>1, <3>2, <3>3, <3>4, Zenon DEF Once
  <2>6. Within(amount, base) /\ Reads(amount, at, total, later, since) /\ Frame \in Nat
    BY <1>1, Numbers, Zenon DEF Ledger
  <2>7. \A l \in Lanes : l # 0 /\ l # LaneOf[u] => amount'[l] <= amount[l]
    BY <1>2, <1>5
  <2> HIDE DEF base2, since2
  <2>8. Within(amount', base2) /\ Reads(amount', at, total, later, since2)
    BY <1>2, <1>5, <1>6, <2>1, <2>3, <2>4, <2>6, <2>7, ReserveGrows, Zenon
  <2>9. Ledger(amount', pc', at', total', base2, later, since2)
    BY <1>2, <2>5, <2>8, Zenon DEF Ledger
  <2> QED
    BY <2>1, <2>9, Zenon DEF ReserveInv
<1>8. CASE u \notin BulkWriters
  <2>1. LaneOf[u] = 0
    BY <1>8, Zenon DEF BulkWriters
  <2>2. \A k \in Lanes : k # 0 => amount'[k] <= amount[k]
    BY <1>2, <1>5, <2>1
  <2>3. Within(amount', base) /\ Reads(amount', at, total, later, since)
    <3>1. 0 \in Nat /\ \A w \in later : since[w] \in SUBSET BulkWriters
      OBVIOUS
    <3>2. \A S \in SUBSET BulkWriters : Cardinality(S) * Frame = Cardinality(S) * Frame + 0
      BY SetsOfWriters
    <3>3. Within(amount, base) /\ Reads(amount, at, total, later, since)
      BY <1>1, Zenon DEF Ledger
    <3>4. /\ LaneOf[u] # 0 => amount'[LaneOf[u]] <= amount[LaneOf[u]] + 0
          /\ \A l \in Lanes : l # 0 /\ l # LaneOf[u] => amount'[l] <= amount[l]
      BY <2>1, <2>2, Zenon
    <3> QED
      BY <1>2, <1>5, <3>1, <3>2, <3>3, <3>4, ReserveGrows
  <2>4. Once(pc', base, later, since)
    <3>1. \A v \in BulkWriters : pc'[v] = pc[v]
      BY <1>3, <1>8, Zenon DEF BulkWriters
    <3> QED
      BY <1>1, <1>4, <3>1, Zenon DEF Ledger, Once
  <2>5. Ledger(amount', pc', at', total', base, later, since)
    BY <1>2, <2>3, <2>4, Zenon DEF Ledger
  <2> QED
    BY <2>5 DEF ReserveInv
<1> QED
  BY <1>7, <1>8, Zenon

\* server.go, waitForBuffer -- a scan that begins is later than the pass, has read
\* nothing and has seen nobody send.
LEMMA ReserveStart ==
    ASSUME IInv, ReserveInv, NEW u \in Writers, pc[u] \notin {"measure", "recheck", "send"},
           NEW stage \in {"measure", "recheck"}, pc' = [pc EXCEPT ![u] = stage],
           UNCHANGED <<amount, at, total>>
    PROVE  ReserveInv'
<1>1. PICK base \in SUBSET BulkWriters, later \in SUBSET BulkWriters,
           since \in [BulkWriters -> SUBSET BulkWriters] :
           Ledger(amount, pc, at, total, base, later, since)
  BY Zenon DEF ReserveInv
<1>2. \A w \in Writers : pc'[w] = IF w = u THEN stage ELSE pc[w]
  BY Zenon DEF IInv, TypeOK
<1>3. CASE u \in BulkWriters
  <2> DEFINE later2 == later \cup {u}
             since2 == [w \in BulkWriters |-> IF w = u THEN {} ELSE since[w]]
  <2>1. later2 \in SUBSET BulkWriters /\ since2 \in [BulkWriters -> SUBSET BulkWriters]
    BY <1>3, Zenon
  <2>2. since2[u] = {} /\ \A w \in BulkWriters : w # u => since2[w] = since[w]
    BY <1>3, Zenon
  <2>3. Scanning(pc') = Scanning(pc) \cup {u} /\ u \notin Scanning(pc)
    BY <1>2, <1>3, Zenon DEF Scanning, BulkWriters
  <2> HIDE DEF since2
  <2>4. Reads(amount, at, total, later2, since2)
    <3>1. at[u] = 0 /\ total[u] = 0
      BY Zenon DEF IInv, ScanInv
    <3>2. Cardinality({}) * Frame \in Nat
      BY SetsOfWriters, Zenon
    <3>3. ReadSoFar(amount, at[u]) <= total[u] + Cardinality(since2[u]) * Frame
      BY <2>2, <3>1, <3>2 DEF ReadSoFar
    <3>4. \A w \in later : w # u =>
            ReadSoFar(amount, at[w]) <= total[w] + Cardinality(since2[w]) * Frame
      BY <1>1, <2>2, Zenon DEF Ledger, Reads
    <3> QED
      BY <3>3, <3>4, Zenon DEF Reads
  <2>5. Once(pc', base, later2, since2)
    <3>1. later2 \subseteq Scanning(pc') /\ \A w \in later2 : w \notin since2[w]
      BY <1>1, <2>2, <2>3, Zenon DEF Ledger, Once
    <3>2. ASSUME NEW v \in BulkWriters, pc'[v] = "send"
          PROVE  v \notin base /\ \A w \in later2 : v \notin since2[w]
      <4>1. v # u /\ pc[v] = "send"
        BY <1>2, <3>2, Zenon DEF BulkWriters
      <4> QED
        BY <1>1, <2>2, <4>1, Zenon DEF Ledger, Once
    <3>3. ASSUME NEW v \in Scanning(pc')
          PROVE  /\ v \in base => v \in later2
                 /\ \A w \in later2 : v \in since2[w] => v \in later2 /\ since2[v] \subseteq since2[w]
      <4>1. CASE v = u
        BY <2>2, <4>1, Zenon
      <4>2. CASE v # u
        <5>1. v \in Scanning(pc) /\ v \in BulkWriters
          BY <2>3, <4>2, Zenon DEF Scanning
        <5> QED
          BY <1>1, <2>2, <4>2, <5>1, Zenon DEF Ledger, Once
      <4> QED
        BY <4>1, <4>2, Zenon
    <3> QED
      BY <3>1, <3>2, <3>3, Zenon DEF Once
  <2>6. Ledger(amount', pc', at', total', base, later2, since2)
    BY <1>1, <2>4, <2>5, Zenon DEF Ledger
  <2> HIDE DEF later2
  <2> QED
    BY <2>1, <2>6, Zenon DEF ReserveInv
<1>4. CASE u \notin BulkWriters
  <2>1. \A v \in BulkWriters : pc'[v] = pc[v]
    BY <1>2, <1>4, Zenon DEF BulkWriters
  <2>2. Scanning(pc') = Scanning(pc)
    BY <2>1, Zenon DEF Scanning
  <2>3. Ledger(amount', pc', at', total', base, later, since)
    BY <1>1, <2>1, <2>2, Zenon DEF Ledger, Once
  <2> QED
    BY <2>3, Zenon DEF ReserveInv
<1> QED
  BY <1>3, <1>4, Zenon

\* server.go, waitForBuffer -- a writer that leaves the gate, or turns from a sum
\* above its limit, takes no part any more.
LEMMA ReserveStop ==
    ASSUME IInv, ReserveInv, NEW u \in Writers, pc[u] # "send",
           NEW stage \in {"idle", "capture", "waiting"}, pc' = [pc EXCEPT ![u] = stage],
           UNCHANGED amount, \A w \in Writers : w # u => at'[w] = at[w] /\ total'[w] = total[w]
    PROVE  ReserveInv'
<1>1. PICK base \in SUBSET BulkWriters, later \in SUBSET BulkWriters,
           since \in [BulkWriters -> SUBSET BulkWriters] :
           Ledger(amount, pc, at, total, base, later, since)
  BY Zenon DEF ReserveInv
<1>2. \A w \in Writers : pc'[w] = IF w = u THEN stage ELSE pc[w]
  BY Zenon DEF IInv, TypeOK
<1> DEFINE later2 == later \ {u}
<1>3. Scanning(pc') = Scanning(pc) \ {u}
  BY <1>2 DEF Scanning, BulkWriters
<1>4. Reads(amount, at', total', later2, since)
  BY <1>1, Zenon DEF Ledger, Reads, BulkWriters
<1>5. \A v \in BulkWriters : pc'[v] = "send" => pc[v] = "send"
  BY <1>2, Zenon DEF BulkWriters
<1>6. Once(pc', base, later2, since)
  BY <1>1, <1>3, <1>5, Zenon DEF Ledger, Once
<1>7. Ledger(amount', pc', at', total', base, later2, since)
  BY <1>1, <1>4, <1>6, Zenon DEF Ledger
<1> QED
  BY <1>7, Zenon DEF ReserveInv

\* server.go, waitForBuffer -- a sum within the limit is a pass.  That of a later
\* scan becomes the one that counts, with the scans that have not seen its writer
\* send; an earlier one changes nothing.
LEMMA ReservePass ==
    ASSUME IInv, ReserveInv, NEW u \in Writers, pc[u] \in {"measure", "recheck"},
           at[u] = LaneCount, total[u] <= Limit(u), pc' = [pc EXCEPT ![u] = "send"],
           UNCHANGED amount, \A w \in Writers : w # u => at'[w] = at[w] /\ total'[w] = total[w]
    PROVE  ReserveInv'
<1>1. PICK base \in SUBSET BulkWriters, later \in SUBSET BulkWriters,
           since \in [BulkWriters -> SUBSET BulkWriters] :
           Ledger(amount, pc, at, total, base, later, since)
  BY Zenon DEF ReserveInv
<1>2. \A w \in Writers : pc'[w] = IF w = u THEN "send" ELSE pc[w]
  BY Zenon DEF IInv, TypeOK
<1>3. Scanning(pc') = Scanning(pc) \ {u}
  BY <1>2 DEF Scanning, BulkWriters
<1>4. CASE u \in later
  <2> DEFINE base2 == since[u]
             later2 == {w \in later \ {u} : u \notin since[w]}
  <2>1. base2 \in SUBSET BulkWriters /\ later2 \in SUBSET BulkWriters
    BY <1>4, Zenon
  <2>2. Within(amount, base2)
    <3>1. ReadSoFar(amount, LaneCount) <= total[u] + Cardinality(since[u]) * Frame
      BY <1>1, <1>4, Zenon DEF Ledger, Reads
    <3>2. ReadSoFar(amount, LaneCount) = Buffered(amount)[LaneCount - 1]
      BY Numbers DEF ReadSoFar
    <3>3. Limit(u) = BulkLimit
      BY <1>4, Zenon DEF Limit, BulkWriters
    <3>4. /\ total[u] \in Nat /\ Cardinality(since[u]) * Frame \in Nat
          /\ ReadSoFar(amount, LaneCount) \in Nat
      BY <1>4, SetsOfWriters, ReadNumbers, Numbers, Zenon DEF IInv, TypeOK
    <3>5. ReadSoFar(amount, LaneCount) <= BulkLimit + Cardinality(since[u]) * Frame
      BY <3>1, <3>3, <3>4, Numbers
    <3> QED
      BY <3>2, <3>5, Zenon DEF Within
  <2>3. Reads(amount, at', total', later2, since)
    BY <1>1, Zenon DEF Ledger, Reads, BulkWriters
  <2>4. Once(pc', base2, later2, since)
    <3>1. later2 \subseteq Scanning(pc') /\ \A w \in later2 : w \notin since[w]
      BY <1>1, <1>3, Zenon DEF Ledger, Once
    <3>2. ASSUME NEW v \in BulkWriters, pc'[v] = "send"
          PROVE  v \notin base2 /\ \A w \in later2 : v \notin since[w]
      <4>1. CASE v = u
        BY <1>1, <1>4, <4>1, Zenon DEF Ledger, Once
      <4>2. CASE v # u
        <5>1. pc[v] = "send"
          BY <1>2, <3>2, <4>2, Zenon DEF BulkWriters
        <5> QED
          BY <1>1, <1>4, <5>1, Zenon DEF Ledger, Once
      <4> QED
        BY <4>1, <4>2, Zenon
    <3>3. ASSUME NEW v \in Scanning(pc')
          PROVE  /\ v \in base2 => v \in later2
                 /\ \A w \in later2 : v \in since[w] => v \in later2 /\ since[v] \subseteq since[w]
      <4>1. v \in Scanning(pc) /\ v # u
        BY <1>3, Zenon
      <4>2. u \notin since[u]
        BY <1>1, <1>4, Zenon DEF Ledger, Once
      <4>3. \A w \in later : v \in since[w] => v \in later /\ since[v] \subseteq since[w]
        BY <1>1, <4>1, Zenon DEF Ledger, Once
      <4> QED
        BY <1>4, <4>1, <4>2, <4>3, Zenon
    <3> QED
      BY <3>1, <3>2, <3>3, Zenon DEF Once
  <2> HIDE DEF base2, later2
  <2>5. Ledger(amount', pc', at', total', base2, later2, since)
    BY <2>2, <2>3, <2>4, Zenon DEF Ledger
  <2> QED
    BY <2>1, <2>5, Zenon DEF ReserveInv
<1>5. CASE u \notin later
  <2>1. Reads(amount, at', total', later, since)
    BY <1>1, <1>5, Zenon DEF Ledger, Reads, BulkWriters
  <2>2. u \in BulkWriters => u \notin base /\ \A w \in later : u \notin since[w]
    BY <1>1, <1>5, Zenon DEF Ledger, Once, Scanning
  <2>3. \A v \in BulkWriters : pc'[v] = "send" => v = u \/ pc[v] = "send"
    BY <1>2, Zenon DEF BulkWriters
  <2>4. Once(pc', base, later, since)
    <3>1. later \subseteq Scanning(pc')
      BY <1>1, <1>3, <1>5, Zenon DEF Ledger, Once
    <3>2. \A v \in BulkWriters : pc'[v] = "send" =>
            v \notin base /\ \A w \in later : v \notin since[w]
      BY <1>1, <2>2, <2>3 DEF Ledger, Once
    <3>3. Scanning(pc') \subseteq Scanning(pc)
      BY <1>3, Zenon
    <3> QED
      BY <1>1, <3>1, <3>2, <3>3, Zenon DEF Ledger, Once
  <2>5. Ledger(amount', pc', at', total', base, later, since)
    BY <1>1, <2>1, <2>4, Zenon DEF Ledger
  <2> QED
    BY <2>5, Zenon DEF ReserveInv
<1> QED
  BY <1>4, <1>5, Zenon

\* The counts are right at the start and every step keeps them right.
THEOREM ReserveInvariance == Spec => []ReserveInv
<1>1. Init => ReserveInv
  <2> SUFFICES ASSUME Init PROVE ReserveInv
    OBVIOUS
  <2> DEFINE none == [w \in BulkWriters |-> {}]
  <2>1. none \in [BulkWriters -> SUBSET BulkWriters]
    OBVIOUS
  <2>2. Within(amount, {})
    <3>1. amount \in [Lanes -> Nat] /\ \A l \in Lanes : amount[l] = 0
      BY Zenon DEF Init
    <3> DEFINE Bad == {l \in Lanes : Buffered(amount)[l] # 0}
    <3>2. \A l \in Lanes : l # 0 /\ l \in Bad => l - 1 \in Bad
      <4>1. ASSUME NEW l \in Lanes, l # 0, l - 1 \notin Bad PROVE Buffered(amount)[l] = 0
        <5>1. l - 1 \in Lanes
          BY <4>1, Numbers DEF Lanes
        <5> QED
          BY <3>1, <4>1, <5>1, BufferedSums
      <4> QED
        BY <4>1, Zenon
    <3>3. 0 \notin Bad /\ Bad \in SUBSET Lanes
      BY <3>1, BufferedSums, Zenon
    <3>4. Bad = {}
      <4> HIDE DEF Bad
      <4> QED
        BY <3>2, <3>3, NoFirstLane, Zenon
    <3>5. LaneCount - 1 \in Lanes
      BY Numbers DEF Lanes
    <3>6. Buffered(amount)[LaneCount - 1] = 0
      BY <3>4, <3>5, Zenon
    <3>7. Cardinality({}) * Frame \in Nat
      BY SetsOfWriters, Zenon
    <3> QED
      BY <3>6, <3>7, Numbers DEF Within
  <2>3. Reads(amount, at, total, {}, none)
    BY Zenon DEF Reads
  <2>4. Once(pc, {}, {}, none)
    <3>1. \A w \in BulkWriters : pc[w] = "idle"
      BY Zenon DEF Init, BulkWriters
    <3> QED
      BY <3>1, Zenon DEF Once, Scanning
  <2> HIDE DEF none
  <2>5. Ledger(amount, pc, at, total, {}, {}, none)
    BY <2>2, <2>3, <2>4, Zenon DEF Ledger
  <2>6. {} \in SUBSET BulkWriters
    OBVIOUS
  <2> QED
    BY <2>1, <2>5, <2>6, Zenon DEF ReserveInv
<1>2. IInv /\ ReserveInv /\ [Next]_vars => ReserveInv'
  <2> SUFFICES ASSUME IInv, ReserveInv, [Next]_vars PROVE ReserveInv'
    OBVIOUS
  <2>1. ASSUME NEW w \in Writers, Writer(w) PROVE ReserveInv'
    <3>1. CASE ReadLane(w)
      BY <3>1, ReserveRead, Zenon
    <3>2. CASE Send(w)
      BY <3>2, ReserveSend, Zenon
    <3>3. CASE Arrive(w) \/ Wake(w) \/ Capture(w)
      <4>1. /\ pc[w] \notin {"measure", "recheck", "send"}
            /\ \E stage \in {"measure", "recheck"} : pc' = [pc EXCEPT ![w] = stage]
            /\ UNCHANGED <<amount, at, total>>
        BY <3>3, Zenon DEF Arrive, Wake, Capture, Goto, lanes
      <4> QED
        BY <4>1, ReserveStart, Zenon
    <3>4. CASE Cancel(w)
      <4>1. pc[w] # "send" /\ pc' = [pc EXCEPT ![w] = "idle"] /\ UNCHANGED <<amount, at, total>>
        BY <3>4, Zenon DEF Cancel, Goto, lanes
      <4> QED
        BY <4>1, ReserveStop, Zenon
    <3>5. CASE Compare(w)
      <4>1. /\ pc[w] \in {"measure", "recheck"} /\ at[w] = LaneCount /\ UNCHANGED amount
            /\ \A v \in Writers : v # w => at'[v] = at[v] /\ total'[v] = total[v]
        BY <3>5, Zenon DEF Compare, lanes, IInv, TypeOK
      <4>2. CASE total[w] <= Limit(w)
        <5>1. pc' = [pc EXCEPT ![w] = "send"]
          BY <3>5, <4>2, Zenon DEF Compare, Goto
        <5> QED
          BY <4>1, <4>2, <5>1, ReservePass, Zenon
      <4>3. CASE ~(total[w] <= Limit(w))
        <5>1. \E stage \in {"idle", "capture", "waiting"} : pc' = [pc EXCEPT ![w] = stage]
          BY <3>5, <4>3, Zenon DEF Compare, Goto
        <5>2. pc[w] # "send"
          BY <4>1, Zenon
        <5> QED
          BY <4>1, <5>1, <5>2, ReserveStop, Zenon
      <4> QED
        BY <4>2, <4>3, Zenon
    <3> QED
      BY <2>1, <3>1, <3>2, <3>3, <3>4, <3>5, Zenon DEF Writer
  <2>2. ASSUME NEW l \in Lanes, Lane(l) PROVE ReserveInv'
    BY <2>2, ReserveLane, Zenon
  <2>3. CASE UNCHANGED vars
    BY <2>3, Zenon DEF vars, lanes, ReserveInv
  <2> QED
    BY <2>1, <2>2, <2>3, Zenon DEF Next
<1> HIDE DEF IInv, ReserveInv, Init, Next, vars
<1> QED
  BY <1>1, <1>2, Invariance, PTL DEF Spec

\* server.go:34-39, 54-55, 1257-1298 -- for any number of lanes and writers and any
\* limits: although the sums are taken lane by lane while others send, drain and
\* detach, the bulk lanes never hold more than BulkLimit and one frame for each
\* bulk writer.
THEOREM ReserveIsKept == Spec => []ReserveKept
<1>1. IInv /\ ReserveInv => ReserveKept
  <2> SUFFICES ASSUME IInv, ReserveInv PROVE ReserveKept
    OBVIOUS
  <2>1. PICK base \in SUBSET BulkWriters : Within(amount, base)
    BY Zenon DEF ReserveInv, Ledger
  <2>2. /\ Cardinality(base) * Frame \in Nat
        /\ Cardinality(base) * Frame <= Cardinality(BulkWriters) * Frame
        /\ Cardinality(BulkWriters) * Frame \in Nat
    BY SetsOfWriters, Zenon
  <2>3. LaneCount - 1 \in Lanes /\ amount \in [Lanes -> Nat]
    BY Numbers DEF Lanes, IInv, TypeOK
  <2>4. Buffered(amount)[LaneCount - 1] \in Nat
    BY <2>3, BufferedSums, Zenon
  <2> QED
    BY <2>1, <2>2, <2>4, Numbers DEF Within, ReserveKept
<1> HIDE DEF IInv, ReserveInv, ReserveKept
<1> QED
  BY <1>1, Invariance, ReserveInvariance, PTL
=============================================================================
