---------------------------- MODULE StreamProofs ----------------------------
(* The two kinds of stream that are held back by credits.                      *)
(*                                                                             *)
(* A response: the counts of worker, page and node agree and stay within the   *)
(* protocol's cap, for every initial window, cap, batch, sample and step of    *)
(* growth.                                                                     *)
(*                                                                             *)
(* A carried websocket, for every window, batch and queue length: the upstream *)
(* receives the page's messages in order and without a gap, no credit of the   *)
(* window is lost, and the page is told of the end once.                       *)
EXTENDS ResponseStream, WebSocketRelay, WellFoundedInduction, TLAPS

USE SMTT(60)

-----------------------------------------------------------------------------
(* The response.                                                               *)
\* No hop ever has more than the cap, also after one of its ends has finished.
Sums ==
    /\ WithNode <= MaxCredits
    /\ creditPort + pageCredit + bodyPort <= MaxCredits

\* The worker waits for a chunk only when it has none, and an ended or failed
\* response is pulled only for what is left of it.
Stages ==
    /\ waitingForChunk => queued = 0
    /\ swLive <=> ~ended /\ failure = "none"
    /\ pullDue => failure = "none" /\ (ended => queued > 0)

IInv == TypeOK /\ ResponseCreditsConserved /\ WithinProtocolCap /\ Sums /\ Stages

-----------------------------------------------------------------------------
(* Boolean variables are handled apart: their types are preserved by each      *)
(* action on its own.                                                          *)
Booleans ==
    /\ swLive \in BOOLEAN /\ ended \in BOOLEAN /\ waitingForChunk \in BOOLEAN
    /\ readPending \in BOOLEAN /\ pullDue \in BOOLEAN /\ pageLive \in BOOLEAN
    /\ cancelPort \in BOOLEAN /\ cancelWire \in BOOLEAN /\ wake \in BOOLEAN
    /\ cancelled \in BOOLEAN

USE DEF tuning, readable, worker, page, toNode, toWorker, node

\* A read and an abort keep the Boolean types.
LEMMA ConsumerBooleans == Booleans /\ (ConsumerRead \/ SwAbort) => Booleans'
<1> SUFFICES ASSUME Booleans, ConsumerRead \/ SwAbort PROVE Booleans'
  OBVIOUS
<1>1. CASE ConsumerRead
  BY <1>1, Zenon DEF ConsumerRead, Drained, Booleans
<1>2. CASE SwAbort
  BY <1>2, Zenon DEF SwAbort, WorkerFails, Booleans
<1> QED
  BY <1>1, <1>2, Zenon

\* The worker's handlers keep the Boolean types.
LEMMA WorkerBooleans == Booleans /\ (Worker) => Booleans'
<1> SUFFICES ASSUME Booleans, Worker PROVE Booleans'
  OBVIOUS
<1>1. CASE Pull
  BY <1>1, ZenonT(40) DEF Pull, Consume, RecordConsumption, Booleans
<1>2. CASE SwDropChunk
  BY <1>2, Zenon DEF SwDropChunk, SwRecvBody, Booleans
<1>3. CASE SwRefuseChunk
  BY <1>3, Zenon DEF SwRefuseChunk, SwRecvBody, WorkerFails, Booleans
<1>4. CASE SwQueueChunk
  BY <1>4, Zenon DEF SwQueueChunk, SwRecvBody, Booleans
<1>5. CASE SwForwardChunk
  BY <1>5, Zenon DEF SwForwardChunk, SwRecvBody, Consume, RecordConsumption, Booleans
<1>6. CASE SwRecvEnd
  BY <1>6, Zenon DEF SwRecvEnd, WorkerFails, Booleans
<1> QED
  BY <1>1, <1>2, <1>3, <1>4, <1>5, <1>6, Zenon DEF Worker, Chunk

\* The page's handlers keep the Boolean types.
LEMMA PageBooleans == Booleans /\ (Page) => Booleans'
<1> SUFFICES ASSUME Booleans, Page PROVE Booleans'
  OBVIOUS
<1>1. CASE PageRecvCredit
  <2>1. PICK n \in 1..creditPort :
          /\ IF ~pageLive THEN UNCHANGED <<page, creditWire, cancelWire, endPort>>
             ELSE IF Overgrant(n) THEN PageFailRequest /\ UNCHANGED creditWire
             ELSE UNCHANGED <<pageLive, cancelWire, endPort>>
          /\ UNCHANGED <<worker, readable, cancelPort, bodyWire, endWire, bodyPort, node>>
    BY <1>1, Zenon DEF PageRecvCredit
  <2> QED
    BY <2>1, ZenonT(40) DEF PageFailRequest, PageFinish, Booleans
<1>2. CASE PageRecvCancel
  BY <1>2, Zenon DEF PageRecvCancel, PageFinish, Booleans
<1>3. CASE PageRecvBody
  BY <1>3, ZenonT(40) DEF PageRecvBody, PageFailRequest, PageFinish, Booleans
<1>4. CASE PageRecvEnd
  BY <1>4, ZenonT(40) DEF PageRecvEnd, PageFinish, Booleans
<1> QED
  BY <1>1, <1>2, <1>3, <1>4, Zenon DEF Page

\* The node's read loop keeps the Boolean types.
LEMMA ReadLoopBooleans == Booleans /\ (ReadLoop) => Booleans'
<1> SUFFICES ASSUME Booleans, ReadLoop PROVE Booleans'
  OBVIOUS
<1>1. CASE NodeRecvCredit
  BY <1>1, ZenonT(40) DEF NodeRecvCredit, Booleans
<1>2. CASE NodeSignal
  BY <1>2, Zenon DEF NodeSignal, Booleans
<1>3. CASE NodeRecvCancel
  BY <1>3, Zenon DEF NodeRecvCancel, Booleans
<1> QED
  BY <1>1, <1>2, <1>3, Zenon DEF ReadLoop

\* The node's handler keeps the Boolean types.
LEMMA HandlerBooleans == Booleans /\ (Handler) => Booleans'
<1> SUFFICES ASSUME Booleans, Handler PROVE Booleans'
  OBVIOUS
<1>1. CASE NodeCheck
  BY <1>1, ZenonT(40) DEF NodeCheck, Booleans
<1>2. CASE NodeTake
  BY <1>2, ZenonT(40) DEF NodeTake, Booleans
<1>3. CASE NodePassWake
  BY <1>3, Zenon DEF NodePassWake, Booleans
<1>4. CASE NodeWait
  BY <1>4, ZenonT(40) DEF NodeWait, Booleans
<1>5. CASE NodeSend
  BY <1>5, ZenonT(40) DEF NodeSend, Booleans
<1> QED
  BY <1>1, <1>2, <1>3, <1>4, <1>5, Zenon DEF Handler

-----------------------------------------------------------------------------
(* The window.                                                                *)
\* A refill never takes the window past the cap: it fills up to the target, or
\* nothing is posted.
LEMMA Refilled ==
    ASSUME NEW t \in 0..MaxCredits, NEW b \in Nat, NEW q \in Nat,
           NEW force, NEW flush
    PROVE  /\ RefillAmount(t, b, q, force, flush) \in Nat
           /\ b + q <= MaxCredits =>
                b + RefillAmount(t, b, q, force, flush) + q <= MaxCredits
  BY CapAssumption DEF RefillAmount

\* Growth and shrinkage keep the target between the initial window and the cap.
LEMMA TargetInRange ==
    ASSUME targetCredit \in Initial..MaxCredits, NEW fast \in BOOLEAN
    PROVE  NewTarget(fast) \in Initial..MaxCredits
  BY CapAssumption, InitialAssumption, SampleAssumption
  DEF NewTarget, Lesser, Greater

-----------------------------------------------------------------------------
(* Every action preserves the inductive invariant.                            *)
\* The Boolean types are part of the invariant.
LEMMA TypeBooleans == IInv => Booleans
  BY Zenon DEF IInv, TypeOK, Booleans

USE DEF IInv, TypeOK, Booleans, ResponseCreditsConserved, WithinProtocolCap, Sums,
        Stages, WithNode, One, Failures, Ends

\* A read and an abort keep the invariant.
LEMMA ConsumerIInv == IInv /\ (ConsumerRead \/ SwAbort) => IInv'
<1> SUFFICES ASSUME IInv, ConsumerRead \/ SwAbort PROVE IInv'
  OBVIOUS
<1> USE CapAssumption, InitialAssumption, SampleAssumption
<1>0. Booleans'
  BY TypeBooleans, ConsumerBooleans, Zenon
<1>1. CASE ConsumerRead
  BY <1>0, <1>1, SMTT(30) DEF ConsumerRead, Drained
<1>2. CASE SwAbort
  BY <1>0, <1>2, SMTT(30) DEF SwAbort, WorkerFails
<1> QED
  BY <1>1, <1>2, Zenon

\* The page's handlers keep the invariant.
LEMMA PageIInv == IInv /\ Page => IInv'
<1> SUFFICES ASSUME IInv, Page PROVE IInv'
  OBVIOUS
<1> USE CapAssumption, InitialAssumption, SampleAssumption
<1>0. Booleans'
  BY TypeBooleans, PageBooleans, Zenon
<1>1. CASE PageRecvCredit
  BY <1>0, <1>1, SMTT(30) DEF PageRecvCredit, PageFailRequest, PageFinish, Overgrant
<1>2. CASE PageRecvCancel
  BY <1>0, <1>2, SMTT(30) DEF PageRecvCancel, PageFinish
<1>3. CASE PageRecvBody
  BY <1>0, <1>3, SMTT(30) DEF PageRecvBody, PageFailRequest, PageFinish
<1>4. CASE PageRecvEnd
  BY <1>0, <1>4, SMTT(30) DEF PageRecvEnd, PageFinish
<1> QED
  BY <1>1, <1>2, <1>3, <1>4, Zenon DEF Page

\* The node's read loop keeps the invariant: the clamp of a grant never bites.
LEMMA ReadLoopIInv == IInv /\ ReadLoop => IInv'
<1> SUFFICES ASSUME IInv, ReadLoop PROVE IInv'
  OBVIOUS
<1> USE CapAssumption, InitialAssumption, SampleAssumption
<1>0. Booleans'
  BY TypeBooleans, ReadLoopBooleans
<1>1. CASE NodeRecvCredit
  BY <1>0, <1>1, SMTT(30) DEF NodeRecvCredit, Lesser
<1>2. CASE NodeSignal
  BY <1>0, <1>2, SMTT(30) DEF NodeSignal
<1>3. CASE NodeRecvCancel
  BY <1>0, <1>3, SMTT(30) DEF NodeRecvCancel
<1> QED
  BY <1>1, <1>2, <1>3, Zenon DEF ReadLoop

\* The node's handler keeps the invariant.
LEMMA HandlerIInv == IInv /\ Handler => IInv'
<1> SUFFICES ASSUME IInv, Handler PROVE IInv'
  OBVIOUS
<1> USE CapAssumption, InitialAssumption, SampleAssumption
<1>0. Booleans'
  BY TypeBooleans, HandlerBooleans
<1>1. CASE NodeCheck
  BY <1>0, <1>1, SMTT(30) DEF NodeCheck
<1>2. CASE NodeTake
  BY <1>0, <1>2, SMTT(30) DEF NodeTake
<1>3. CASE NodePassWake
  BY <1>0, <1>3, SMTT(30) DEF NodePassWake
<1>4. CASE NodeWait
  BY <1>0, <1>4, SMTT(30) DEF NodeWait
<1>5. CASE NodeSend
  BY <1>0, <1>5, SMTT(30) DEF NodeSend
<1> QED
  BY <1>1, <1>2, <1>3, <1>4, <1>5, Zenon DEF Handler

\* The worker's handlers keep the invariant.
LEMMA WorkerIInv == IInv /\ Worker => IInv'
<1> SUFFICES ASSUME IInv, Worker PROVE IInv'
  OBVIOUS
<1> USE CapAssumption, InitialAssumption, SampleAssumption
<1>0. Booleans'
  BY TypeBooleans, WorkerBooleans
<1>1. CASE Pull /\ queued > 0 /\ ended
  BY <1>0, <1>1, SMTT(30) DEF Pull
<1>2. CASE Pull /\ queued > 0 /\ ~ended
  <2>1. PICK fast \in BOOLEAN : Consume(fast, creditBalance, 0, queued - 1)
    BY <1>2, Zenon DEF Pull
  <2> DEFINE n == RefillAmount(NewTarget(fast), creditBalance, queued - 1, FALSE, Grows(fast))
  <2>2. NewTarget(fast) \in Initial..MaxCredits
    BY TargetInRange, Zenon
  <2>3. NewTarget(fast) \in 0..MaxCredits
    BY <2>2
  <2>4. queued - 1 \in Nat /\ creditBalance \in Nat
        /\ creditBalance + (queued - 1) <= MaxCredits
    BY <1>2 DEF Pull
  <2>5. n \in Nat /\ creditBalance + n + (queued - 1) <= MaxCredits
    <3> HIDE DEF IInv
    <3> QED
      BY <2>3, <2>4, Refilled, Zenon
  <2>6. creditBalance' = creditBalance + n /\ creditPort' = creditPort + 0 + n
    BY <2>1, Zenon DEF Consume
  <2>7. targetCredit' \in Initial..MaxCredits /\ sampleConsumed' \in 0..(CreditSample - 1)
        /\ samplePeakQueue' \in 0..MaxCredits
    BY <1>2, <2>1, <2>2 DEF Consume, RecordConsumption, SampleEnds
  <2> HIDE DEF n
  <2> QED
    BY <1>0, <1>2, <2>5, <2>6, <2>7, SMTT(30) DEF Pull
<1>3. CASE Pull /\ ~(queued > 0)
  <2> DEFINE n == RefillAmount(targetCredit, creditBalance, 0, TRUE, FALSE)
  <2>0. /\ targetCredit \in 0..MaxCredits /\ creditBalance \in Nat /\ 0 \in Nat
        /\ creditBalance + 0 <= MaxCredits
    OBVIOUS
  <2>1. n \in Nat /\ creditBalance + n + 0 <= MaxCredits
    <3> HIDE DEF IInv
    <3> QED
      BY <2>0, Refilled, Zenon
  <2>2. creditBalance' = creditBalance + n /\ creditPort' = creditPort + n
    BY <1>3, Zenon DEF Pull
  <2> HIDE DEF n
  <2> QED
    BY <1>0, <1>3, <2>1, <2>2, SMTT(30) DEF Pull
<1>4. CASE SwDropChunk
  BY <1>0, <1>4, SMTT(30) DEF SwDropChunk, SwRecvBody
<1>5. CASE SwRefuseChunk
  BY <1>0, <1>5, SMTT(30) DEF SwRefuseChunk, SwRecvBody, WorkerFails, ChunkRefused
<1>6. CASE SwQueueChunk
  BY <1>0, <1>6, SMTT(30) DEF SwQueueChunk, SwRecvBody, ChunkRefused, Greater
<1>7. CASE SwForwardChunk
  <2> DEFINE left == creditBalance - 1
             n == IF readPending THEN RefillAmount(targetCredit, left, 0, TRUE, FALSE) ELSE 0
  <2>1. left \in Nat /\ queued = 0
    BY <1>7 DEF SwForwardChunk, ChunkRefused
  <2>2. n \in Nat /\ left + n + 0 <= MaxCredits
    <3>1. targetCredit \in 0..MaxCredits /\ left + 0 <= MaxCredits /\ 0 \in Nat
      OBVIOUS
    <3> DEFINE r == RefillAmount(targetCredit, left, 0, TRUE, FALSE)
    <3> HIDE DEF IInv, left
    <3>2. r \in Nat /\ left + r + 0 <= MaxCredits
      BY <2>1, <3>1, Refilled, Zenon
    <3>3. n = IF readPending THEN r ELSE 0
      OBVIOUS
    <3> HIDE DEF r, n
    <3> QED
      BY <2>1, <3>1, <3>2, <3>3
  <2>3. PICK fast \in BOOLEAN : Consume(fast, left + n, n, queued)
    BY <1>7, Zenon DEF SwForwardChunk
  <2> HIDE DEF n, left
  <2> DEFINE k == RefillAmount(NewTarget(fast), left + n, queued, FALSE, Grows(fast))
  <2>4. NewTarget(fast) \in Initial..MaxCredits
    BY TargetInRange
  <2>5. NewTarget(fast) \in 0..MaxCredits /\ left + n \in Nat
        /\ queued \in Nat /\ (left + n) + queued <= MaxCredits
    BY <2>1, <2>2, <2>4
  <2>6. k \in Nat /\ left + n + k <= MaxCredits
    <3>1. k \in Nat /\ (left + n) + k + queued <= MaxCredits
      <4> HIDE DEF IInv
      <4> QED
        BY <2>5, Refilled, Zenon
    <3> HIDE DEF k
    <3> QED
      BY <2>1, <2>2, <3>1
  <2>7. creditBalance' = left + n + k /\ creditPort' = creditPort + n + k
    BY <2>3, Zenon DEF Consume
  <2>8. targetCredit' \in Initial..MaxCredits /\ sampleConsumed' \in 0..(CreditSample - 1)
        /\ samplePeakQueue' \in 0..MaxCredits
    BY <2>3, <2>4 DEF Consume, RecordConsumption, SampleEnds
  <2> HIDE DEF k
  <2> QED
    BY <1>0, <1>7, <2>1, <2>2, <2>6, <2>7, <2>8, SMTT(30) DEF SwForwardChunk, SwRecvBody, left
<1>8. CASE SwRecvEnd
  BY <1>0, <1>8, SMTT(30) DEF SwRecvEnd, WorkerFails
<1> QED
  BY <1>1, <1>2, <1>3, <1>4, <1>5, <1>6, <1>7, <1>8, Zenon DEF Worker, Chunk

-----------------------------------------------------------------------------
(* The theorems.                                                              *)
\* The invariant holds when the request has been posted.
LEMMA InitIInv == Init => IInv
<1> SUFFICES ASSUME Init PROVE IInv
  OBVIOUS
<1>1. Booleans
  BY Zenon DEF Init
<1> QED
  BY <1>1, CapAssumption, InitialAssumption, SampleAssumption DEF Init

\* Every step of every actor keeps it.
LEMMA NextIInv == IInv /\ [Next]_vars => IInv'
<1> SUFFICES ASSUME IInv, [Next]_vars PROVE IInv'
  OBVIOUS
<1>1. CASE UNCHANGED vars
  BY <1>1 DEF vars
<1>2. CASE Terminating
  BY <1>2 DEF Terminating, vars
<1> HIDE DEF IInv
<1> QED
  BY <1>1, <1>2, ConsumerIInv, WorkerIInv, PageIInv, ReadLoopIInv, HandlerIInv, Zenon DEF Next

\* The inductive invariant holds in every reachable state.
LEMMA Invariance == Spec => []IInv
<1> HIDE DEF IInv
<1> QED
  BY InitIInv, NextIInv, PTL DEF Spec

\* Every count stays within its range, for every cap, window and batch.
THEOREM ResponseTypeCorrect == Spec => []TypeOK
<1>1. IInv => TypeOK
  BY Zenon DEF IInv
<1> HIDE DEF IInv, TypeOK
<1> QED
  BY <1>1, Invariance, PTL

\* The credit counts of worker, page and node (swbridge.ts, client.ts, server.go)
\* agree, whatever is cancelled, fails or ends on the way.
THEOREM ResponseConservation == Spec => []ResponseCreditsConserved
<1>1. IInv => ResponseCreditsConserved
  BY Zenon DEF IInv
<1> HIDE DEF IInv, ResponseCreditsConserved
<1> QED
  BY <1>1, Invariance, PTL

\* An obedient worker never exceeds MAX_RESPONSE_CREDITS through growth, shrinkage
\* and refills, so neither the page's check nor the node's clamp ever bites.
THEOREM CapRespected == Spec => []WithinProtocolCap
<1>1. IInv => WithinProtocolCap
  BY Zenon DEF IInv
<1> HIDE DEF IInv, WithinProtocolCap
<1> QED
  BY <1>1, Invariance, PTL

HIDE DEF tuning, readable, worker, page, toNode, toWorker, node, IInv, TypeOK,
         Booleans, ResponseCreditsConserved, WithinProtocolCap, Sums, Stages,
         WithNode, One, Failures, Ends

-----------------------------------------------------------------------------
(* Totals.  Total is defined by recursion: what it is of a changed sequence    *)
(* follows from the least position at which it would be something else.        *)
\* A nonempty set of numbers has a least one.
LEMMA LeastNumber ==
    ASSUME NEW S \in SUBSET Nat, S # {}
    PROVE  \E n \in S : \A k \in S : n <= k
<1> DEFINE R == {ss \in Nat \X Nat : ss[1] < ss[2]}
<1>1. IsWellFoundedOn(R, Nat)
  BY NatLessThanWellFounded, Zenon DEF OpToRel
<1> HIDE DEF R
<1>2. PICK x \in S : \A y \in S : ~ (<<y, x>> \in R)
  BY <1>1, WFMin, Zenon
<1>3. ASSUME NEW y \in S PROVE x <= y
  <2>1. ~ (y < x)
    <3>1. <<y, x>> \in Nat \X Nat /\ <<y, x>>[1] = y /\ <<y, x>>[2] = x
      OBVIOUS
    <3> QED BY <1>2, <3>1, Zenon DEF R
  <2> QED BY <2>1
<1> QED
  BY <1>3, Zenon

\* Induction up to n: what holds of 0 and of a number after the one before holds
\* of all of them, when the numbers of which it does not hold are a set.
LEMMA NoFirstNumber ==
    ASSUME NEW n \in Nat, NEW Bad \in SUBSET (0..n), 0 \notin Bad,
           \A i \in 1..n : i - 1 \notin Bad => i \notin Bad
    PROVE  Bad = {}
<1> SUFFICES ASSUME Bad # {} PROVE FALSE
  OBVIOUS
<1>1. Bad \in SUBSET Nat
  OBVIOUS
<1>2. PICK i \in Bad : \A k \in Bad : i <= k
  BY <1>1, LeastNumber, Zenon
<1>3. i \in 1..n
  BY <1>2
<1>4. i - 1 \in Bad
  BY <1>2, <1>3
<1> QED
  BY <1>2, <1>3, <1>4

\* f holds the sums of the first elements of s.
Adds(f, s) ==
    /\ f \in [0..Len(s) -> Int] /\ f[0] = 0
    /\ \A i \in 1..Len(s) : f[i] = f[i - 1] + s[i]

\* Whatever adds the elements up ends with their total.
LEMMA TotalIs ==
    ASSUME NEW s \in Seq(Int), NEW f, Adds(f, s)
    PROVE  Total(s) = f[Len(s)]
<1> DEFINE n == Len(s)
<1> DEFINE IsSum(g) == g = [i \in 0..n |-> IF i = 0 THEN 0 ELSE g[i - 1] + s[i]]
<1> DEFINE sum == CHOOSE g : IsSum(g)
<1>1. n \in Nat /\ \A i \in 0..n : f[i] = IF i = 0 THEN 0 ELSE f[i - 1] + s[i]
  BY DEF Adds
<1>2. IsSum(f)
  BY <1>1 DEF Adds
<1>3. IsSum(sum)
  BY <1>2, Zenon
<1>4. Total(s) = sum[n]
  BY Zenon DEF Total
<1> HIDE DEF n, sum
<1>5. \A i \in 0..n : sum[i] = IF i = 0 THEN 0 ELSE sum[i - 1] + s[i]
  BY <1>3, Zenon
<1> DEFINE Bad == {i \in 0..n : sum[i] # f[i]}
<1>6. 0 \notin Bad /\ \A i \in 1..n : i - 1 \notin Bad => i \notin Bad
  BY <1>1, <1>5
<1>7. Bad = {}
  <2>1. Bad \in SUBSET (0..n)
    BY Zenon
  <2> HIDE DEF Bad
  <2> QED BY <1>1, <1>6, <2>1, NoFirstNumber, Zenon
<1>8. sum[n] = f[n]
  <2>1. n \in 0..n
    BY <1>1
  <2> QED BY <1>7, <2>1, Zenon
<1> QED
  BY <1>4, <1>8, Zenon DEF n

\* The elements of a sequence of numbers can be added up.
LEMMA TotalHas ==
    ASSUME NEW s \in Seq(Int)
    PROVE  \E f : Adds(f, s)
<1> DEFINE n == Len(s)
<1> DEFINE UpTo(k) == \E f \in [0..k -> Int] : f[0] = 0 /\ \A i \in 1..k : f[i] = f[i - 1] + s[i]
<1> DEFINE Bad == {k \in 0..n : ~UpTo(k)}
<1>0. n \in Nat /\ \A i \in 1..n : s[i] \in Int
  OBVIOUS
<1> HIDE DEF n
<1>1. UpTo(0)
  <2> DEFINE g == [i \in 0..0 |-> 0]
  <2>1. g \in [0..0 -> Int] /\ g[0] = 0 /\ 1..0 = {}
    OBVIOUS
  <2> HIDE DEF g
  <2> QED BY <2>1
<1>2. ASSUME NEW k \in 1..n, UpTo(k - 1) PROVE UpTo(k)
  <2>1. k \in Nat /\ k - 1 \in Nat /\ s[k] \in Int
    BY <1>0, <1>2
  <2>2. PICK f \in [0..(k - 1) -> Int] : f[0] = 0 /\ \A i \in 1..(k - 1) : f[i] = f[i - 1] + s[i]
    BY <1>2, Zenon
  <2> DEFINE g == [i \in 0..k |-> IF i = k THEN f[k - 1] + s[k] ELSE f[i]]
  <2>3. /\ \A i \in 0..(k - 1) : g[i] = f[i] /\ f[i] \in Int
        /\ g[k] = f[k - 1] + s[k] /\ g \in [0..k -> Int]
    BY <2>1
  <2> HIDE DEF g
  <2>4. ASSUME NEW i \in 1..k PROVE g[i] = g[i - 1] + s[i]
    <3>1. CASE i = k
      BY <2>1, <2>3, <3>1
    <3>2. CASE i # k
      <4>1. i \in 1..(k - 1) /\ i \in 0..(k - 1) /\ i - 1 \in 0..(k - 1)
        BY <2>1, <3>2
      <4> QED BY <2>2, <2>3, <4>1, Zenon
    <3> QED BY <3>1, <3>2, Zenon
  <2>5. g[0] = 0
    <3>1. 0 \in 0..(k - 1)
      BY <2>1
    <3> QED BY <2>2, <2>3, <3>1, Zenon
  <2> QED BY <2>3, <2>4, <2>5, Zenon
<1>3. Bad = {}
  <2>1. Bad \in SUBSET (0..n) /\ 0 \notin Bad
    BY <1>1
  <2>2. \A k \in 1..n : k - 1 \notin Bad => k \notin Bad
    <3>1. \A k \in 1..n : k - 1 \in 0..n
      BY <1>0
    <3> QED BY <1>2, <3>1, Zenon
  <2> HIDE DEF Bad
  <2> QED BY <1>0, <2>1, <2>2, NoFirstNumber, Zenon
<1>4. UpTo(n)
  <2>1. n \in 0..n
    BY <1>0
  <2> QED BY <1>3, <2>1, Zenon
<1> QED
  BY <1>4, Zenon DEF Adds, n

\* The totals of a sequence with an element more at its end and one less at its head.
LEMMA Totals ==
    ASSUME NEW s \in Seq(Int), NEW x \in Int
    PROVE  /\ Total(s) \in Int
           /\ Total(Append(s, x)) = Total(s) + x
           /\ s # <<>> => Total(Tail(s)) = Total(s) - s[1]
<1> DEFINE n == Len(s)
<1>1. PICK f : Adds(f, s)
  BY TotalHas, Zenon
<1>2. Total(s) = f[n]
  BY <1>1, TotalIs, Zenon
<1>3. /\ n \in Nat /\ f \in [0..n -> Int] /\ f[0] = 0 /\ f[n] \in Int
      /\ \A i \in 1..n : f[i] = f[i - 1] + s[i] /\ f[i] \in Int /\ s[i] \in Int
  <2>1. n \in Nat /\ \A i \in 1..n : s[i] \in Int
    OBVIOUS
  <2>2. f \in [0..n -> Int] /\ f[0] = 0 /\ \A i \in 1..n : f[i] = f[i - 1] + s[i]
    BY <1>1, Zenon DEF Adds
  <2> HIDE DEF n
  <2>3. \A i \in 0..n : f[i] \in Int
    BY <2>2, Zenon
  <2>4. n \in 0..n /\ \A i \in 1..n : i \in 0..n
    BY <2>1
  <2> QED BY <2>1, <2>2, <2>3, <2>4, Zenon
<1>4. Total(Append(s, x)) = Total(s) + x
  <2> DEFINE t == Append(s, x)
  <2>1. t \in Seq(Int) /\ Len(t) = n + 1 /\ t[n + 1] = x /\ \A i \in 1..n : t[i] = s[i]
    OBVIOUS
  <2> DEFINE g == [i \in 0..(n + 1) |-> IF i = n + 1 THEN f[n] + x ELSE f[i]]
  <2> HIDE DEF t, n
  <2>2. g \in [0..(n + 1) -> Int] /\ g[n + 1] = f[n] + x /\ \A i \in 0..n : g[i] = f[i]
    BY <1>3
  <2> HIDE DEF g
  <2>3. Adds(g, t)
    <3>1. 0 \in 0..n /\ n + 1 \in Nat
      BY <1>3
    <3>2. ASSUME NEW i \in 1..(n + 1) PROVE g[i] = g[i - 1] + t[i]
      <4>1. CASE i = n + 1
        <5>1. n \in 0..n /\ i - 1 = n
          BY <1>3, <4>1
        <5> QED BY <2>1, <2>2, <4>1, <5>1, Zenon
      <4>2. CASE i # n + 1
        <5>1. i \in 1..n /\ i \in 0..n /\ i - 1 \in 0..n
          BY <1>3, <4>2
        <5> QED BY <1>3, <2>1, <2>2, <5>1, Zenon
      <4> QED BY <4>1, <4>2, Zenon
    <3> QED BY <1>3, <2>1, <2>2, <3>1, <3>2, Zenon DEF Adds
  <2>4. Total(t) = g[n + 1]
    BY <2>1, <2>3, TotalIs, Zenon
  <2> QED BY <1>2, <2>2, <2>4, Zenon DEF t
<1>5. ASSUME s # <<>> PROVE Total(Tail(s)) = Total(s) - s[1]
  <2> DEFINE t == Tail(s)
  <2>1. /\ t \in Seq(Int) /\ Len(t) = n - 1 /\ n - 1 \in Nat /\ s[1] \in Int
        /\ \A i \in 1..(n - 1) : t[i] = s[i + 1]
    BY <1>5
  <2> DEFINE g == [i \in 0..(n - 1) |-> f[i + 1] - s[1]]
  <2> HIDE DEF t, n
  <2>2. \A i \in 0..(n - 1) : i + 1 \in 1..n
    BY <1>3, <2>1
  <2>3. g \in [0..(n - 1) -> Int] /\ \A i \in 0..(n - 1) : g[i] = f[i + 1] - s[1]
    <3>1. \A i \in 0..(n - 1) : f[i + 1] \in Int
      BY <1>3, <2>2, Zenon
    <3> QED BY <2>1, <3>1
  <2> HIDE DEF g
  <2>4. g[0] = 0
    <3>1. 0 \in 0..(n - 1) /\ 1 \in 1..n
      BY <1>3, <2>1
    <3>2. g[0] = f[1] - s[1] /\ f[1] = f[0] + s[1]
      BY <1>3, <2>3, <3>1
    <3> QED BY <1>3, <2>1, <3>2
  <2>5. ASSUME NEW i \in 1..(n - 1) PROVE g[i] = g[i - 1] + t[i]
    <3>1. /\ i \in 0..(n - 1) /\ i - 1 \in 0..(n - 1) /\ (i - 1) + 1 = i /\ i + 1 \in 1..n /\ (i + 1) - 1 = i
          /\ i \in 1..n
      BY <1>3, <2>1
    <3>2. g[i] = f[i + 1] - s[1] /\ t[i] = s[i + 1] /\ f[i + 1] \in Int /\ f[i] \in Int /\ s[i + 1] \in Int
      BY <1>3, <2>1, <2>3, <3>1, Zenon
    <3>3. g[i - 1] = f[i] - s[1]
      <4>1. g[i - 1] = f[(i - 1) + 1] - s[1]
        BY <2>3, <3>1, Zenon
      <4> QED BY <3>1, <4>1, Zenon
    <3>4. f[i + 1] = f[i] + s[i + 1]
      <4>1. f[i + 1] = f[(i + 1) - 1] + s[i + 1]
        BY <1>3, <3>1, Zenon
      <4> QED BY <3>1, <4>1, Zenon
    <3> QED BY <2>1, <3>2, <3>3, <3>4
  <2>6. Adds(g, t)
    BY <2>1, <2>3, <2>4, <2>5, Zenon DEF Adds
  <2>7. Total(t) = g[n - 1]
    BY <2>1, <2>6, TotalIs, Zenon
  <2>8. n - 1 \in 0..(n - 1) /\ (n - 1) + 1 = n
    BY <1>3, <2>1
  <2>9. g[n - 1] = f[n] - s[1]
    <3>1. g[n - 1] = f[(n - 1) + 1] - s[1]
      BY <2>3, <2>8, Zenon
    <3> QED BY <2>8, <3>1, Zenon
  <2> QED BY <1>2, <2>7, <2>9, Zenon DEF t
<1> QED
  BY <1>2, <1>3, <1>4, <1>5, Zenon

-----------------------------------------------------------------------------
(* The inductive invariant.                                                    *)
SocketRecord ==
    [state : {"none", "connecting", "open", "closing", "closed"}, listed : BOOLEAN, blobs : SUBSET Nat,
     sends : Nat, framed : Seq(Nat), consumed : Nat, gaveUp : BOOLEAN]
Item == [t : {"WsData", "WsClose"}, n : Nat]
StreamRecord ==
    [status : {"none", "refused", "dialling", "stored", "open", "over"}, open : BOOLEAN,
     listed : BOOLEAN, once : BOOLEAN, cancelled : BOOLEAN, conn : BOOLEAN,
     ring : Seq(Item), closing : BOOLEAN,
     writer : {"none", "idle", "write", "handshake", "done"}, held : Nat,
     pump : {"none", "take", "read", "send", "done"}, credits : Int, reports : Nat]
UpstreamRecord ==
    [conn : {"none", "live", "closed"}, received : Seq(Nat), offered : Nat,
     closedBy : {"none", "node", "page", "upstream"}]
UpFrame == [t : {"WsOpen", "WsData", "WsClose", "Credit"}, n : Nat]
DownFrame == [t : {"WsOpened", "WsData", "WsClose", "ResErr"}, n : Nat]

RelayTypes ==
    /\ socket \in SocketRecord /\ stream \in StreamRecord
    /\ wsUp \in Seq(UpFrame) /\ wsDown \in Seq(DownFrame)
    /\ upstream \in UpstreamRecord
    /\ link \in {"up", "down"}

\* The page lists the sockets that are not over; the node forgets the one whose
\* closeOnce has run; a lane that is down carries nothing.
Listing ==
    /\ socket.listed <=> socket.state \in {"connecting", "open", "closing"}
    /\ stream.once => ~stream.listed
    /\ stream.cancelled => stream.once
    /\ stream.writer \in {"handshake", "done"} => stream.once
    /\ stream.status \in {"stored", "open"} => stream.conn
    /\ stream.status # "open" => stream.writer = "none" /\ stream.pump = "none"
    /\ link = "down" => wsUp = <<>> /\ wsDown = <<>> /\ ~socket.listed

\* The opening is the first frame of all, and only an opened socket sends messages.
Opening ==
    /\ \A i \in 1..Len(wsUp) : wsUp[i].t = "WsOpen" <=> i = 1 /\ stream.status = "none"
    /\ socket.state = "none" => wsUp = <<>> /\ stream.status = "none"
    /\ stream.status = "none" /\ link = "up" /\ socket.state # "none" => wsUp # <<>>
    /\ stream.status = "none" => /\ ~stream.listed /\ ~stream.once /\ ~stream.closing
                                 /\ stream.ring = <<>> /\ upstream.received = <<>>
    /\ stream.status # "open" =>
         /\ socket.state # "open" /\ socket.framed = <<>> /\ socket.blobs = {} /\ socket.consumed = 0
         /\ \A i \in 1..Len(wsUp) : wsUp[i].t \in {"WsOpen", "WsClose"}
         /\ \A i \in 1..Len(wsDown) : wsDown[i].t \in {"WsClose", "ResErr"}

\* Nothing is framed after the page's close, wherever that is by now.
CloseAsked ==
    /\ \A i \in 1..Len(wsUp) : wsUp[i].t = "WsClose" => socket.state \in {"closing", "closed"}
    /\ stream.closing \/ stream.writer = "handshake" \/ upstream.closedBy = "page"
         => socket.state \in {"closing", "closed"}
    /\ \A i \in 1..Len(stream.ring) : stream.ring[i].t = "WsClose" <=> i = Len(stream.ring) /\ stream.closing

\* The messages the upstream has or the writer is writing.
Taken == Len(upstream.received) + IF stream.writer = "write" THEN 1 ELSE 0

\* What the node holds is what the page framed, position by position.
InOrder ==
    /\ Len(upstream.received) <= Len(socket.framed)
    /\ \A i \in 1..Len(upstream.received) : upstream.received[i] = socket.framed[i]
    /\ stream.writer = "write" => Taken <= Len(socket.framed) /\ socket.framed[Taken] = stream.held
    /\ stream.writer \in {"none", "idle", "write"} =>
         /\ \A i \in 1..Len(stream.ring) : stream.ring[i].t = "WsData" =>
               Taken + i <= Len(socket.framed) /\ socket.framed[Taken + i] = stream.ring[i].n
         /\ stream.ring # <<>> /\ stream.closing => Len(socket.framed) = Taken + Len(stream.ring) - 1
    /\ stream.writer = "handshake" \/ upstream.closedBy = "page" => upstream.received = socket.framed

\* The messages under way continue what the node holds, up to the last one framed:
\* pos[i] is how many were framed before the lane's first i frames.
Continues(up, framed, from, pos) ==
    /\ pos \in [0..Len(up) -> 0..Len(framed)]
    /\ pos[0] = from /\ pos[Len(up)] = Len(framed)
    /\ \A i \in 1..Len(up) :
         IF up[i].t = "WsData" THEN pos[i] = pos[i - 1] + 1 /\ framed[pos[i]] = up[i].n
         ELSE pos[i] = pos[i - 1]
    /\ \A i \in 1..Len(up) : up[i].t = "WsClose" => pos[i] = Len(framed)

Follows(up, framed, from) ==
    \E pos \in [0..Len(up) -> 0..Len(framed)] : Continues(up, framed, from, pos)

UnderWay ==
    link = "up" /\ ~stream.closing /\ (stream.listed \/ stream.status = "none") =>
      Follows(wsUp, socket.framed, Taken + Len(stream.ring))

RelayIInv ==
    RelayTypes /\ Listing /\ Opening /\ CloseAsked /\ InOrder /\ UnderWay /\ SocketCreditsConserved

-----------------------------------------------------------------------------
(* The lane's counts and positions.                                           *)
AnyFrame == [t : {"WsOpen", "WsOpened", "WsData", "WsClose", "Credit", "ResErr"}, n : Nat]

\* A frame sent adds its message or its credits to the lane's, one received takes
\* them away.
LEMMA LaneCounts ==
    ASSUME NEW s \in Seq(AnyFrame), NEW m \in AnyFrame
    PROVE  /\ Messages(s) \in Int /\ CreditsIn(s) \in Int
           /\ Messages(Append(s, m)) = Messages(s) + IF m.t = "WsData" THEN 1 ELSE 0
           /\ CreditsIn(Append(s, m)) = CreditsIn(s) + IF m.t = "Credit" THEN m.n ELSE 0
           /\ s # <<>> => /\ Messages(Tail(s)) = Messages(s) - IF Head(s).t = "WsData" THEN 1 ELSE 0
                          /\ CreditsIn(Tail(s)) = CreditsIn(s) - IF Head(s).t = "Credit" THEN Head(s).n ELSE 0
<1> DEFINE M(f) == IF f.t = "WsData" THEN 1 ELSE 0
<1> DEFINE C(f) == IF f.t = "Credit" THEN f.n ELSE 0
<1> DEFINE ms(q) == [i \in DOMAIN q |-> M(q[i])]
<1> DEFINE cs(q) == [i \in DOMAIN q |-> C(q[i])]
<1>1. /\ \A q : Messages(q) = Total(ms(q)) /\ CreditsIn(q) = Total(cs(q))
      /\ \A f \in AnyFrame : M(f) \in Int /\ C(f) \in Int
  BY DEF Messages, CreditsIn, AnyFrame
<1> HIDE DEF M, C
<1>2. ms(s) \in Seq(Int) /\ cs(s) \in Seq(Int) /\ M(m) \in Int /\ C(m) \in Int
  BY <1>1
<1>3. ms(Append(s, m)) = Append(ms(s), M(m)) /\ cs(Append(s, m)) = Append(cs(s), C(m))
  BY <1>1, <1>2
<1>4. ASSUME s # <<>>
      PROVE  /\ 1 \in 1..Len(ms(s)) /\ ms(s)[1] = M(Head(s)) /\ ms(Tail(s)) = Tail(ms(s)) /\ ms(s) # <<>>
             /\ 1 \in 1..Len(cs(s)) /\ cs(s)[1] = C(Head(s)) /\ cs(Tail(s)) = Tail(cs(s)) /\ cs(s) # <<>>
  <2>1. 1 \in 1..Len(ms(s)) /\ ms(s)[1] = M(Head(s)) /\ 1 \in 1..Len(cs(s)) /\ cs(s)[1] = C(Head(s))
    BY <1>4
  <2>2. ms(Tail(s)) = Tail(ms(s)) /\ ms(s) # <<>>
    BY <1>4
  <2>3. cs(Tail(s)) = Tail(cs(s)) /\ cs(s) # <<>>
    BY <1>4
  <2> QED BY <2>1, <2>2, <2>3, Zenon
<1> HIDE DEF ms, cs
<1>5. /\ Total(ms(s)) \in Int /\ Total(Append(ms(s), M(m))) = Total(ms(s)) + M(m)
      /\ ms(s) # <<>> => Total(Tail(ms(s))) = Total(ms(s)) - ms(s)[1]
  BY <1>2, Totals, Zenon
<1>6. /\ Total(cs(s)) \in Int /\ Total(Append(cs(s), C(m))) = Total(cs(s)) + C(m)
      /\ cs(s) # <<>> => Total(Tail(cs(s))) = Total(cs(s)) - cs(s)[1]
  BY <1>2, Totals, Zenon
<1>7. ASSUME s # <<>>
      PROVE  Messages(Tail(s)) = Messages(s) - M(Head(s)) /\ CreditsIn(Tail(s)) = CreditsIn(s) - C(Head(s))
  <2>1. Total(Tail(ms(s))) = Total(ms(s)) - ms(s)[1] /\ Total(Tail(cs(s))) = Total(cs(s)) - cs(s)[1]
    BY <1>4, <1>5, <1>6, <1>7, Zenon
  <2>2. Messages(Tail(s)) = Total(Tail(ms(s))) /\ CreditsIn(Tail(s)) = Total(Tail(cs(s)))
    BY <1>1, <1>4, <1>7, Zenon
  <2>3. ms(s)[1] = M(Head(s)) /\ cs(s)[1] = C(Head(s)) /\ Messages(s) = Total(ms(s)) /\ CreditsIn(s) = Total(cs(s))
    BY <1>1, <1>4, <1>7, Zenon
  <2> QED BY <2>1, <2>2, <2>3, Zenon
<1>8. Messages(Append(s, m)) = Messages(s) + M(m) /\ CreditsIn(Append(s, m)) = CreditsIn(s) + C(m)
  BY <1>1, <1>3, <1>5, <1>6, Zenon
<1>9. Messages(s) \in Int /\ CreditsIn(s) \in Int
  BY <1>1, <1>5, <1>6, Zenon
<1> QED
  BY <1>7, <1>8, <1>9, Zenon DEF M, C

\* The frames of the lane, each way.
LEMMA DownLane ==
    ASSUME NEW s \in Seq(DownFrame), NEW f \in DownFrame
    PROVE  /\ Append(s, f) \in Seq(DownFrame)
           /\ Messages(Append(s, f)) = Messages(s) + IF f.t = "WsData" THEN 1 ELSE 0
           /\ Messages(s) \in Int /\ s \in Seq(AnyFrame)
           /\ s # <<>> => /\ Head(s) \in DownFrame /\ Tail(s) \in Seq(DownFrame)
                          /\ Messages(Tail(s)) = Messages(s) - IF Head(s).t = "WsData" THEN 1 ELSE 0
<1>1. f \in AnyFrame /\ \A m \in DownFrame : m \in AnyFrame
  BY Zenon DEF AnyFrame, DownFrame
<1>2. s \in Seq(AnyFrame) /\ Append(s, f) \in Seq(DownFrame)
  BY <1>1
<1>3. s # <<>> => Head(s) \in DownFrame /\ Tail(s) \in Seq(DownFrame)
  OBVIOUS
<1> QED BY <1>1, <1>2, <1>3, LaneCounts, Zenon

\* The same for the frames of the page, with the credits they carry.
LEMMA UpLane ==
    ASSUME NEW s \in Seq(UpFrame), NEW f \in UpFrame
    PROVE  /\ Append(s, f) \in Seq(UpFrame)
           /\ CreditsIn(Append(s, f)) = CreditsIn(s) + IF f.t = "Credit" THEN f.n ELSE 0
           /\ CreditsIn(s) \in Int /\ s \in Seq(AnyFrame)
           /\ s # <<>> => /\ Head(s) \in UpFrame /\ Tail(s) \in Seq(UpFrame)
                          /\ CreditsIn(Tail(s)) = CreditsIn(s) - IF Head(s).t = "Credit" THEN Head(s).n ELSE 0
<1>1. f \in AnyFrame /\ \A m \in UpFrame : m \in AnyFrame
  BY Zenon DEF AnyFrame, UpFrame
<1>2. s \in Seq(AnyFrame) /\ Append(s, f) \in Seq(UpFrame)
  BY <1>1
<1>3. s # <<>> => Head(s) \in UpFrame /\ Tail(s) \in Seq(UpFrame)
  OBVIOUS
<1> QED BY <1>1, <1>2, <1>3, LaneCounts, Zenon

\* A lane that carries neither messages nor credits counts none.
LEMMA QuietLane ==
    ASSUME NEW s \in Seq(AnyFrame), \A i \in 1..Len(s) : s[i].t \notin {"WsData", "Credit"}
    PROVE  Messages(s) = 0 /\ CreditsIn(s) = 0
<1> DEFINE zero == [i \in 1..Len(s) |-> 0]
<1> DEFINE f == [i \in 0..Len(s) |-> 0]
<1>1. /\ [i \in DOMAIN s |-> IF s[i].t = "WsData" THEN 1 ELSE 0] = zero
      /\ [i \in DOMAIN s |-> IF s[i].t = "Credit" THEN s[i].n ELSE 0] = zero
  OBVIOUS
<1>2. zero \in Seq(Int) /\ Adds(f, zero) /\ f[Len(zero)] = 0
  BY DEF Adds
<1> HIDE DEF zero, f
<1>3. Total(zero) = 0
  BY <1>2, TotalIs, Zenon
<1> QED
  BY <1>1, <1>3, Zenon DEF Messages, CreditsIn

\* An empty lane has nothing to add to what the node holds.
LEMMA FollowsNothing ==
    Follows(<<>>, <<>>, 0)
<1> DEFINE pos == [i \in 0..0 |-> 0]
<1>1. Len(<<>>) = 0 /\ pos \in [0..0 -> 0..0] /\ pos[0] = 0 /\ 1..0 = {}
  OBVIOUS
<1> HIDE DEF pos
<1>2. Continues(<<>>, <<>>, 0, pos)
  BY <1>1 DEF Continues
<1> QED
  BY <1>1, <1>2, Zenon DEF Follows

\* A message framed and sent continues the messages under way, unless the close was
\* sent before it; and any other frame leaves them as they are.
LEMMA FollowsSent ==
    ASSUME NEW up \in Seq(UpFrame), NEW framed \in Seq(Nat), NEW from \in Nat, NEW m \in UpFrame,
           Follows(up, framed, from)
    PROVE  /\ m.t # "WsData" => Follows(Append(up, m), framed, from)
           /\ (m.t = "WsData" /\ \A i \in 1..Len(up) : up[i].t # "WsClose")
                => Follows(Append(up, m), Append(framed, m.n), from)
<1> DEFINE k == Len(up)
<1> DEFINE l == Len(framed)
<1> DEFINE more == Append(up, m)
<1> DEFINE longer == Append(framed, m.n)
<1>1. PICK pos \in [0..k -> 0..l] : Continues(up, framed, from, pos)
  BY Zenon DEF Follows
<1>2. /\ k \in Nat /\ l \in Nat /\ Len(more) = k + 1 /\ more[k + 1] = m
      /\ \A i \in 1..k : more[i] = up[i]
      /\ Len(longer) = l + 1 /\ longer[l + 1] = m.n /\ \A i \in 1..l : longer[i] = framed[i]
  BY DEF UpFrame
<1>3. /\ pos[0] = from /\ pos[k] = l
      /\ \A i \in 1..k : IF up[i].t = "WsData" THEN pos[i] = pos[i - 1] + 1 /\ framed[pos[i]] = up[i].n
                         ELSE pos[i] = pos[i - 1]
      /\ \A i \in 1..k : up[i].t = "WsClose" => pos[i] = l
  BY <1>1, Zenon DEF Continues
<1> HIDE DEF k, l, more, longer
<1>4. ASSUME m.t # "WsData" PROVE Follows(more, framed, from)
  <2> DEFINE new == [i \in 0..(k + 1) |-> IF i = k + 1 THEN l ELSE pos[i]]
  <2>1. /\ new \in [0..(k + 1) -> 0..l] /\ new[k + 1] = l /\ new[0] = from
        /\ \A i \in 0..k : new[i] = pos[i]
    BY <1>2, <1>3
  <2> HIDE DEF new
  <2>2. ASSUME NEW i \in 1..(k + 1)
        PROVE  /\ IF more[i].t = "WsData" THEN new[i] = new[i - 1] + 1 /\ framed[new[i]] = more[i].n
                  ELSE new[i] = new[i - 1]
               /\ more[i].t = "WsClose" => new[i] = l
    <3>1. CASE i = k + 1
      BY <1>2, <1>3, <1>4, <2>1, <3>1
    <3>2. CASE i # k + 1
      <4>1. i \in 1..k /\ i \in 0..k /\ i - 1 \in 0..k
        BY <1>2, <3>2
      <4>2. new[i] = pos[i] /\ new[i - 1] = pos[i - 1] /\ more[i] = up[i]
        BY <1>2, <2>1, <4>1, Zenon
      <4> QED BY <1>3, <4>1, <4>2, Zenon
    <3> QED BY <3>1, <3>2, Zenon
  <2>3. Continues(more, framed, from, new)
    BY <1>2, <2>1, <2>2, Zenon DEF Continues, l
  <2> QED BY <1>2, <2>1, <2>3, Zenon DEF Follows, l
<1>5. ASSUME m.t = "WsData", \A i \in 1..k : up[i].t # "WsClose"
      PROVE  Follows(more, longer, from)
  <2> DEFINE new == [i \in 0..(k + 1) |-> IF i = k + 1 THEN l + 1 ELSE pos[i]]
  <2>1. /\ new \in [0..(k + 1) -> 0..(l + 1)] /\ new[k + 1] = l + 1 /\ new[0] = from
        /\ \A i \in 0..k : new[i] = pos[i]
    BY <1>2, <1>3
  <2> HIDE DEF new
  <2>2. ASSUME NEW i \in 1..(k + 1)
        PROVE  /\ IF more[i].t = "WsData" THEN new[i] = new[i - 1] + 1 /\ longer[new[i]] = more[i].n
                  ELSE new[i] = new[i - 1]
               /\ more[i].t = "WsClose" => new[i] = l + 1
    <3>1. CASE i = k + 1
      BY <1>2, <1>3, <1>5, <2>1, <3>1
    <3>2. CASE i # k + 1
      <4>1. i \in 1..k /\ i \in 0..k /\ i - 1 \in 0..k
        BY <1>2, <3>2
      <4>2. new[i] = pos[i] /\ new[i - 1] = pos[i - 1] /\ more[i] = up[i] /\ up[i].t # "WsClose"
        BY <1>2, <1>5, <2>1, <4>1, Zenon
      <4>3. ASSUME up[i].t = "WsData" PROVE longer[pos[i]] = framed[pos[i]]
        BY <1>2, <1>3, <4>1, <4>3
      <4> QED BY <1>3, <4>1, <4>2, <4>3, Zenon
    <3> QED BY <3>1, <3>2, Zenon
  <2>3. Continues(more, longer, from, new)
    BY <1>2, <2>1, <2>2, Zenon DEF Continues
  <2> QED BY <1>2, <2>1, <2>3, Zenon DEF Follows
<1> QED
  BY <1>4, <1>5, Zenon DEF more, longer, k

\* The message the node receives is the next one framed; the close comes after the last.
LEMMA FollowsReceived ==
    ASSUME NEW up \in Seq(UpFrame), NEW framed \in Seq(Nat), NEW from \in Nat, up # <<>>,
           Follows(up, framed, from)
    PROVE  /\ Head(up).t = "WsData" => /\ from + 1 <= Len(framed) /\ framed[from + 1] = Head(up).n
                                       /\ Follows(Tail(up), framed, from + 1)
           /\ Head(up).t # "WsData" => Follows(Tail(up), framed, from)
           /\ Head(up).t = "WsClose" => from = Len(framed)
<1> DEFINE k == Len(up)
<1> DEFINE l == Len(framed)
<1> DEFINE rest == Tail(up)
<1>1. PICK pos \in [0..k -> 0..l] : Continues(up, framed, from, pos)
  BY Zenon DEF Follows
<1>2. /\ k \in Nat \ {0} /\ l \in Nat /\ Len(rest) = k - 1 /\ k - 1 \in Nat /\ Head(up) = up[1]
      /\ \A i \in 1..(k - 1) : rest[i] = up[i + 1]
  OBVIOUS
<1>3. /\ pos[0] = from /\ pos[k] = l
      /\ \A i \in 1..k : IF up[i].t = "WsData" THEN pos[i] = pos[i - 1] + 1 /\ framed[pos[i]] = up[i].n
                         ELSE pos[i] = pos[i - 1]
      /\ \A i \in 1..k : up[i].t = "WsClose" => pos[i] = l
  BY <1>1, Zenon DEF Continues
<1> HIDE DEF k, l, rest
<1> DEFINE new == [i \in 0..(k - 1) |-> pos[i + 1]]
<1>4. /\ new \in [0..(k - 1) -> 0..l] /\ new[k - 1] = l /\ new[0] = pos[1]
      /\ \A i \in 0..(k - 1) : new[i] = pos[i + 1]
  BY <1>2, <1>3
<1> HIDE DEF new
<1>5. ASSUME NEW i \in 1..(k - 1)
      PROVE  /\ IF rest[i].t = "WsData" THEN new[i] = new[i - 1] + 1 /\ framed[new[i]] = rest[i].n
                ELSE new[i] = new[i - 1]
             /\ rest[i].t = "WsClose" => new[i] = l
  <2>1. i + 1 \in 1..k /\ i \in 0..(k - 1) /\ i - 1 \in 0..(k - 1) /\ (i + 1) - 1 = i /\ (i - 1) + 1 = i
    BY <1>2
  <2>2. new[i] = pos[i + 1] /\ new[i - 1] = pos[i] /\ rest[i] = up[i + 1]
    BY <1>2, <1>4, <2>1, Zenon
  <2> QED BY <1>3, <2>1, <2>2, Zenon
<1>6. Continues(rest, framed, pos[1], new)
  BY <1>2, <1>4, <1>5, Zenon DEF Continues, l
<1>7. Follows(rest, framed, pos[1])
  BY <1>2, <1>4, <1>6, Zenon DEF Follows, l
<1>8. /\ up[1].t = "WsData" => pos[1] = from + 1 /\ framed[from + 1] = up[1].n /\ from + 1 <= l
      /\ up[1].t # "WsData" => pos[1] = from
      /\ up[1].t = "WsClose" => pos[1] = l
  BY <1>2, <1>3
<1>9. up[1].t = "WsClose" => up[1].t # "WsData"
  OBVIOUS
<1> QED
  BY <1>2, <1>7, <1>8, <1>9, Zenon DEF rest, l

-----------------------------------------------------------------------------
(* The node's own steps.                                                      *)
\* What every step of the dialler, the writer and the pump, and the closing of the
\* session, has in common: the queue and what was received stay, nobody is listed
\* again, and the page is told over a lane that is up.
NodeStep ==
    /\ UNCHANGED <<socket, wsUp, link>>
    /\ stream'.ring = stream.ring /\ stream'.closing = stream.closing
    /\ upstream'.received = upstream.received
    /\ stream'.listed => stream.listed /\ ~stream'.once
    /\ stream'.cancelled => stream'.once
    /\ stream'.status = "none" <=> stream.status = "none"
    /\ stream.status = "none" => stream'.once = stream.once
    /\ stream'.status # "open" => stream.status # "open" /\ stream'.writer = "none" /\ stream'.pump = "none"
    /\ stream'.status \in {"stored", "open"} => stream'.conn
    /\ stream'.writer = "write" => stream.writer = "write" /\ stream'.held = stream.held
    /\ stream'.writer \in {"none", "idle"} => stream.writer \in {"none", "idle"}
    /\ stream'.writer = "handshake" => stream.writer = "handshake"
    /\ stream'.writer \in {"handshake", "done"} => stream'.once
    /\ upstream'.closedBy = "page" => upstream.closedBy = "page" \/ stream.writer = "handshake"
    /\ \/ wsDown' = wsDown
       \/ /\ link = "up"
          /\ \E f \in DownFrame : /\ wsDown' = Append(wsDown, f)
                                  /\ stream'.status = "open" \/ f.t \in {"WsClose", "ResErr"}

Held(s) == IF s.pump \in {"read", "send"} THEN 1 ELSE 0

\* A step of that kind keeps the invariant if it keeps the credits while the socket is
\* listed.
LEMMA NodeStepKeeps ==
    ASSUME RelayIInv, NodeStep, RelayTypes',
           stream'.listed => stream'.credits + Held(stream)' + Messages(wsDown')
                               = stream.credits + Held(stream) + Messages(wsDown)
    PROVE  RelayIInv'
<1>1. RelayTypes /\ Listing /\ Opening /\ CloseAsked /\ InOrder /\ UnderWay /\ SocketCreditsConserved
  BY Zenon DEF RelayIInv
<1>2. /\ socket' = socket /\ wsUp' = wsUp /\ link' = link /\ upstream'.received = upstream.received
      /\ stream'.ring = stream.ring /\ stream'.closing = stream.closing
  BY Zenon DEF NodeStep
<1>3. Listing'
  <2>1. stream'.once => ~stream'.listed
    BY Zenon DEF NodeStep
  <2>2. link' = "down" => wsDown' = <<>>
    <3>1. "up" # "down"
      OBVIOUS
    <3> QED BY <1>1, <3>1, Zenon DEF NodeStep, Listing
  <2> QED BY <1>1, <2>1, <2>2, Zenon DEF NodeStep, Listing
<1>4. Opening'
  <2>1. ASSUME stream'.status # "open", NEW i \in 1..Len(wsDown')
        PROVE  wsDown'[i].t \in {"WsClose", "ResErr"}
    <3>1. wsDown \in Seq(DownFrame) /\ \A k \in 1..Len(wsDown) : wsDown[k].t \in {"WsClose", "ResErr"}
      BY <1>1, <2>1, Zenon DEF NodeStep, Opening, RelayTypes
    <3>2. CASE wsDown' = wsDown
      BY <2>1, <3>1, <3>2, Zenon
    <3>3. ASSUME NEW f \in DownFrame, wsDown' = Append(wsDown, f), f.t \in {"WsClose", "ResErr"}
          PROVE  wsDown'[i].t \in {"WsClose", "ResErr"}
      BY <2>1, <3>1, <3>3
    <3> QED BY <2>1, <3>2, <3>3, Zenon DEF NodeStep
  <2>2. /\ stream'.status # "open" => stream.status # "open"
        /\ stream'.status = "none" =>
             stream.status = "none" /\ stream'.once = stream.once /\ ~stream'.listed
               /\ stream'.closing = stream.closing /\ stream'.ring = stream.ring
        /\ stream.status = "none" <=> stream'.status = "none"
    BY <1>1, Zenon DEF NodeStep, Opening
  <2> QED BY <1>1, <1>2, <2>1, <2>2, ZenonT(40) DEF Opening
<1>5. CloseAsked'
  <2>1. stream'.writer = "handshake" \/ upstream'.closedBy = "page"
          => stream.writer = "handshake" \/ upstream.closedBy = "page"
    BY Zenon DEF NodeStep
  <2> QED BY <1>1, <1>2, <2>1 DEF CloseAsked
<1>6. ASSUME stream'.writer \in {"none", "idle", "write"}
      PROVE  stream.writer \in {"none", "idle", "write"} /\ Taken' = Taken
  <2>1. /\ stream.writer \in {"none", "idle", "write"}
        /\ stream'.writer = "write" <=> stream.writer = "write"
    <3>1. "write" \notin {"none", "idle"}
      OBVIOUS
    <3> QED BY <1>6, <3>1, Zenon DEF NodeStep
  <2>2. CASE stream.writer = "write"
    BY <1>2, <2>1, <2>2, Zenon DEF Taken
  <2>3. CASE stream.writer # "write"
    BY <1>2, <2>1, <2>3, Zenon DEF Taken
  <2> QED BY <2>1, <2>2, <2>3, Zenon
<1>7. InOrder'
  <2>1. /\ stream'.writer = "write" => stream.writer = "write" /\ stream'.held = stream.held
        /\ stream'.writer = "handshake" \/ upstream'.closedBy = "page"
             => stream.writer = "handshake" \/ upstream.closedBy = "page"
    BY Zenon DEF NodeStep
  <2>2. stream'.writer = "write" => Taken' = Taken
    BY <1>6, Zenon
  <2>3. stream'.writer = "write" => Taken' <= Len(socket.framed) /\ socket.framed[Taken'] = stream'.held
    BY <1>1, <2>1, <2>2, Zenon DEF InOrder
  <2>4. ASSUME stream'.writer \in {"none", "idle", "write"}
        PROVE  /\ \A i \in 1..Len(stream.ring) : stream.ring[i].t = "WsData" =>
                     Taken' + i <= Len(socket.framed) /\ socket.framed[Taken' + i] = stream.ring[i].n
               /\ stream.ring # <<>> /\ stream.closing => Len(socket.framed) = Taken' + Len(stream.ring) - 1
    <3>1. Taken' = Taken /\ stream.writer \in {"none", "idle", "write"}
      BY <1>6, <2>4, Zenon
    <3> QED BY <1>1, <3>1, Zenon DEF InOrder
  <2>5. stream'.writer = "handshake" \/ upstream'.closedBy = "page" => upstream.received = socket.framed
    BY <1>1, <2>1, Zenon DEF InOrder
  <2> HIDE DEF Taken
  <2> QED BY <1>1, <1>2, <2>3, <2>4, <2>5, Zenon DEF InOrder
<1>8. UnderWay'
  <2>1. ASSUME stream'.listed \/ stream'.status = "none"
        PROVE  /\ stream.listed \/ stream.status = "none"
               /\ stream'.writer \in {"none", "idle", "write"}
    <3>1. stream'.writer \in {"none", "idle", "write", "handshake", "done"}
      BY Zenon DEF RelayTypes, StreamRecord
    <3>2. "none" # "open"
      OBVIOUS
    <3> QED BY <2>1, <3>1, <3>2, Zenon DEF NodeStep
  <2> QED BY <1>1, <1>2, <1>6, <2>1, Zenon DEF NodeStep, UnderWay
<1>9. SocketCreditsConserved'
  <2>1. SUFFICES ASSUME socket.listed, stream'.listed, link = "up"
                 PROVE  stream'.credits + Held(stream)' + Messages(wsDown') + socket.consumed + CreditsIn(wsUp) = Credits
    BY <1>2, Zenon DEF SocketCreditsConserved, Held
  <2>2. stream.credits + Held(stream) + Messages(wsDown) + socket.consumed + CreditsIn(wsUp) = Credits
    BY <1>1, <2>1, Zenon DEF SocketCreditsConserved, NodeStep, Held
  <2> QED BY <2>1, <2>2, Zenon
<1> QED
  BY <1>3, <1>4, <1>5, <1>7, <1>8, <1>9, Zenon DEF RelayIInv

\* The fields of a stream that a close leaves alone.
SameDuties(a, b) ==
    /\ a.status = b.status /\ a.conn = b.conn /\ a.ring = b.ring /\ a.closing = b.closing
    /\ a.writer = b.writer /\ a.held = b.held /\ a.pump = b.pump /\ a.credits = b.credits

\* closeOnce forgets the socket and cancels its context, and touches nothing else.
LEMMA TornStream ==
    ASSUME NEW n \in StreamRecord
    PROVE  LET torn == [Torn(n) EXCEPT !.reports = @ + 1]
           IN /\ torn \in StreamRecord /\ torn.once /\ ~torn.listed /\ SameDuties(torn, n)
              /\ Torn(n) \in StreamRecord /\ Torn(n).once /\ ~Torn(n).listed /\ SameDuties(Torn(n), n)
<1>1. /\ Torn(n) \in StreamRecord /\ Torn(n).once /\ ~Torn(n).listed /\ SameDuties(Torn(n), n)
  BY Zenon DEF StreamRecord, Torn, SameDuties
<1> DEFINE t == Torn(n)
<1> HIDE DEF t
<1>2. t.reports + 1 \in Nat
  BY <1>1 DEF StreamRecord, t
<1> DEFINE torn == [t EXCEPT !.reports = @ + 1]
<1>3. torn \in StreamRecord /\ torn.once = t.once /\ torn.listed = t.listed /\ SameDuties(torn, t)
  BY <1>1, <1>2, Zenon DEF StreamRecord, SameDuties, t
<1> HIDE DEF torn
<1>4. SameDuties(torn, n)
  BY <1>1, <1>3, Zenon DEF SameDuties, t
<1> QED BY <1>1, <1>3, <1>4, Zenon DEF torn, t

\* The node drops the upstream without touching what it received, and not on behalf of
\* the page.
LEMMA UpstreamDropped ==
    ASSUME RelayTypes, NEW n
    PROVE  /\ Dropped(n, "node") \in UpstreamRecord /\ Dropped(n, "node").received = upstream.received
           /\ Dropped(n, "node").closedBy = "page" => upstream.closedBy = "page"
<1>1. upstream \in UpstreamRecord /\ "node" # "page"
  BY Zenon DEF RelayTypes
<1> DEFINE u == [upstream EXCEPT !.conn = "closed", !.closedBy = "node"]
<1>2. u \in UpstreamRecord /\ u.received = upstream.received /\ u.closedBy = "node"
  BY <1>1, Zenon DEF UpstreamRecord
<1> HIDE DEF u
<1>3. Dropped(n, "node") = u \/ Dropped(n, "node") = upstream
  BY Zenon DEF Dropped, u
<1> QED BY <1>1, <1>2, <1>3, Zenon

\* What is sent is a frame.
LEMMA FramesTyped ==
    ASSUME NEW t, NEW n \in Nat
    PROVE  /\ t \in {"WsOpened", "WsData", "WsClose", "ResErr"} => Frame(t, n) \in DownFrame
           /\ t \in {"WsOpen", "WsData", "WsClose", "Credit"} => Frame(t, n) \in UpFrame
           /\ Frame(t, n).t = t /\ Frame(t, n).n = n
  BY Zenon DEF Frame, DownFrame, UpFrame

\* Whoever closes the socket: it is closed once, and the page told if the lane is up.
LEMMA CloseTells ==
    ASSUME RelayTypes, NEW n \in StreamRecord, NEW type \in {"WsClose", "ResErr"},
           n.once => ~n.listed, closeWebSocket(n, type)
    PROVE  /\ stream' \in StreamRecord /\ upstream' \in UpstreamRecord /\ wsDown' \in Seq(DownFrame)
           /\ stream'.once /\ ~stream'.listed /\ SameDuties(stream', n)
           /\ upstream'.received = upstream.received
           /\ upstream'.closedBy = "page" => upstream.closedBy = "page"
           /\ \/ wsDown' = wsDown
              \/ link = "up" /\ \E f \in DownFrame : f.t = type /\ wsDown' = Append(wsDown, f)
<1>1. CASE n.once
  <2>1. stream' = n /\ upstream' = upstream /\ wsDown' = wsDown
    BY <1>1, Zenon DEF closeWebSocket
  <2> QED BY <1>1, <2>1, Zenon DEF RelayTypes, SameDuties
<1>2. CASE ~n.once
  <2>1. /\ stream' = [Torn(n) EXCEPT !.reports = @ + 1] /\ upstream' = Dropped(n, "node")
        /\ wsDown' = IF Sendable THEN Append(wsDown, Frame(type, 0)) ELSE wsDown
    BY <1>2, Zenon DEF closeWebSocket
  <2>2. stream' \in StreamRecord /\ stream'.once /\ ~stream'.listed /\ SameDuties(stream', n)
    BY <2>1, TornStream, Zenon
  <2>3. 0 \in Nat /\ wsDown \in Seq(DownFrame)
    BY Zenon DEF RelayTypes
  <2>4. Frame(type, 0) \in DownFrame /\ Frame(type, 0).t = type
    BY <2>3, FramesTyped, Zenon
  <2>5. Append(wsDown, Frame(type, 0)) \in Seq(DownFrame)
    BY <2>3, <2>4
  <2>6. /\ wsDown' \in Seq(DownFrame)
        /\ \/ wsDown' = wsDown
           \/ link = "up" /\ \E f \in DownFrame : f.t = type /\ wsDown' = Append(wsDown, f)
    BY <2>1, <2>3, <2>4, <2>5, Zenon DEF Sendable
  <2> QED BY <2>1, <2>2, <2>6, UpstreamDropped, Zenon
<1> QED BY <1>1, <1>2, Zenon

\* A step of the node that ends in closeWebSocket or failWebSocket.
LEMMA ClosingStep ==
    ASSUME RelayIInv, NEW n \in StreamRecord, NEW type \in {"WsClose", "ResErr"}, closeWebSocket(n, type),
           UNCHANGED <<socket, wsUp, link>>, n.once = stream.once, n.listed = stream.listed,
           n.ring = stream.ring, n.closing = stream.closing, stream.status # "none", n.status \notin {"none", "stored"},
           n.status # "open" => stream.status # "open" /\ n.writer = "none" /\ n.pump = "none",
           n.status = "open" => n.conn,
           n.writer = "done" \/ (n.writer = stream.writer /\ n.held = stream.held)
    PROVE  RelayIInv'
<1>1. RelayTypes /\ Listing
  BY Zenon DEF RelayIInv
<1>2. n.once => ~n.listed
  BY <1>1, Zenon DEF Listing
<1>3. /\ stream' \in StreamRecord /\ upstream' \in UpstreamRecord /\ wsDown' \in Seq(DownFrame)
      /\ stream'.once /\ ~stream'.listed /\ SameDuties(stream', n)
      /\ upstream'.received = upstream.received
      /\ upstream'.closedBy = "page" => upstream.closedBy = "page"
      /\ \/ wsDown' = wsDown
         \/ link = "up" /\ \E f \in DownFrame : f.t = type /\ wsDown' = Append(wsDown, f)
  BY <1>1, <1>2, CloseTells, Zenon
<1>4. RelayTypes'
  BY <1>1, <1>3, Zenon DEF RelayTypes
<1>5. /\ stream'.status = n.status /\ stream'.conn = n.conn /\ stream'.ring = n.ring
      /\ stream'.closing = n.closing /\ stream'.writer = n.writer /\ stream'.held = n.held
      /\ stream'.pump = n.pump
  BY <1>3, Zenon DEF SameDuties
<1>6. "done" \notin {"none", "idle", "write", "handshake"}
  OBVIOUS
<1>7. NodeStep
  <2>1. /\ stream'.writer = "write" => stream.writer = "write" /\ stream'.held = stream.held
        /\ stream'.writer \in {"none", "idle"} => stream.writer \in {"none", "idle"}
        /\ stream'.writer = "handshake" => stream.writer = "handshake"
    <3>1. CASE n.writer = "done"
      BY <1>5, <1>6, <3>1, Zenon
    <3>2. CASE n.writer = stream.writer /\ n.held = stream.held
      BY <1>5, <3>2, Zenon
    <3> QED BY <3>1, <3>2, Zenon
  <2>2. \/ wsDown' = wsDown
        \/ /\ link = "up"
           /\ \E f \in DownFrame : /\ wsDown' = Append(wsDown, f)
                                   /\ stream'.status = "open" \/ f.t \in {"WsClose", "ResErr"}
    BY <1>3, Zenon
  <2> HIDE DEF SameDuties
  <2>3. /\ stream'.ring = stream.ring /\ stream'.closing = stream.closing /\ stream'.status # "none"
        /\ stream'.status \in {"stored", "open"} => stream'.conn
        /\ stream'.status # "open" => stream.status # "open" /\ stream'.writer = "none" /\ stream'.pump = "none"
    BY <1>5, Zenon
  <2> QED BY <1>3, <2>1, <2>2, <2>3, Zenon DEF NodeStep
<1> QED BY <1>3, <1>4, <1>7, NodeStepKeeps, Zenon

\* dialWebSocket, until it starts the writer and goes on as the pump.
LEMMA DialKeeps ==
    ASSUME RelayIInv, DialFails \/ DialReturns \/ StoreConn \/ ReportOpened
    PROVE  RelayIInv'
<1>1. RelayTypes /\ Listing /\ Opening /\ stream \in StreamRecord /\ upstream \in UpstreamRecord
  BY Zenon DEF RelayIInv, RelayTypes
<1>2. /\ "dialling" \notin {"none", "open"} /\ "stored" \notin {"none", "open", "dialling"}
      /\ "over" \notin {"none", "open", "stored"} /\ "none" # "open" /\ "take" \notin {"read", "send"}
      /\ "none" \notin {"read", "send"} /\ "idle" \notin {"write", "handshake", "done"}
      /\ "live" # "none"
  OBVIOUS
<1>3. UNCHANGED <<socket, wsUp, link>>
  BY Zenon DEF DialFails, DialReturns, StoreConn, ReportOpened
<1>4. stream.status # "open" => stream.writer = "none" /\ stream.pump = "none"
  BY <1>1, Zenon DEF Listing
<1>5. ASSUME NEW type \in {"WsClose", "ResErr"}, stream.status \in {"dialling", "stored"},
             closeWebSocket([stream EXCEPT !.status = "over"], type)
      PROVE  RelayIInv'
  <2> DEFINE n == [stream EXCEPT !.status = "over"]
  <2>1. /\ n \in StreamRecord /\ n.status = "over" /\ n.once = stream.once /\ n.listed = stream.listed
        /\ n.ring = stream.ring /\ n.closing = stream.closing /\ n.writer = stream.writer
        /\ n.held = stream.held /\ n.pump = stream.pump
    BY <1>1, Zenon DEF StreamRecord
  <2>2. closeWebSocket(n, type)
    BY <1>5
  <2> HIDE DEF n
  <2>3. n.writer = "none" /\ n.pump = "none" /\ stream.status # "open"
    BY <1>2, <1>4, <1>5, <2>1, Zenon
  <2> QED BY <1>2, <1>3, <1>5, <2>1, <2>2, <2>3, ClosingStep, Zenon
<1>6. CASE DialFails
  BY <1>5, <1>6, Zenon DEF DialFails
<1>7. CASE DialReturns
  <2>1. stream' = stream /\ wsDown' = wsDown /\ upstream' = [upstream EXCEPT !.conn = "live"]
    BY <1>7, Zenon DEF DialReturns
  <2>2. /\ upstream' \in UpstreamRecord /\ upstream'.received = upstream.received
        /\ upstream'.closedBy = upstream.closedBy
    BY <1>1, <2>1, Zenon DEF UpstreamRecord
  <2>3. RelayTypes'
    BY <1>1, <1>3, <2>1, <2>2, Zenon DEF RelayTypes
  <2>4. NodeStep
    BY <1>1, <1>3, <2>1, <2>2, Zenon DEF NodeStep, Listing
  <2> QED BY <2>1, <2>3, <2>4, NodeStepKeeps, Zenon DEF Held
<1>8. CASE StoreConn
  <2>1. /\ stream' = [stream EXCEPT !.status = "stored", !.conn = TRUE] /\ wsDown' = wsDown
        /\ upstream' = upstream /\ stream.status = "dialling"
    BY <1>8, Zenon DEF StoreConn
  <2>2. /\ stream' \in StreamRecord /\ stream'.status = "stored" /\ stream'.listed = stream.listed
        /\ stream'.once = stream.once /\ stream'.cancelled = stream.cancelled /\ stream'.ring = stream.ring
        /\ stream'.closing = stream.closing /\ stream'.writer = stream.writer /\ stream'.held = stream.held
        /\ stream'.pump = stream.pump /\ stream'.credits = stream.credits /\ stream'.conn
    BY <1>1, <2>1, Zenon DEF StreamRecord
  <2>3. RelayTypes'
    BY <1>1, <1>3, <2>1, <2>2, Zenon DEF RelayTypes
  <2>4. NodeStep
    BY <1>1, <1>2, <1>3, <2>1, <2>2, Zenon DEF NodeStep, Listing
  <2> QED BY <2>1, <2>2, <2>3, <2>4, NodeStepKeeps, Zenon DEF Held
<1>9. CASE ReportOpened
  <2>1. CASE ~Sendable
    BY <1>5, <1>9, <2>1, Zenon DEF ReportOpened
  <2>2. CASE Sendable
    <3>1. /\ stream' = [stream EXCEPT !.status = "open", !.writer = "idle", !.pump = "take"]
          /\ wsDown' = Append(wsDown, Frame("WsOpened", 0)) /\ upstream' = upstream
          /\ stream.status = "stored" /\ link = "up"
      BY <1>9, <2>2, Zenon DEF ReportOpened, Sendable
    <3>2. /\ stream' \in StreamRecord /\ stream'.status = "open" /\ stream'.listed = stream.listed
          /\ stream'.once = stream.once /\ stream'.cancelled = stream.cancelled /\ stream'.ring = stream.ring
          /\ stream'.closing = stream.closing /\ stream'.writer = "idle" /\ stream'.conn = stream.conn
          /\ stream'.pump = "take" /\ stream'.credits = stream.credits
      BY <1>1, <3>1, Zenon DEF StreamRecord
    <3>3. /\ Frame("WsOpened", 0) \in DownFrame /\ Frame("WsOpened", 0).t = "WsOpened"
      <4>1. 0 \in Nat
        OBVIOUS
      <4> QED BY <4>1, FramesTyped, Zenon
    <3>4. wsDown' \in Seq(DownFrame) /\ Messages(wsDown') = Messages(wsDown)
      <4>1. wsDown \in Seq(DownFrame) /\ "WsOpened" # "WsData"
        BY <1>1, Zenon DEF RelayTypes
      <4>2. Messages(wsDown) \in Int /\ Messages(wsDown') = Messages(wsDown) + 0 /\ wsDown' \in Seq(DownFrame)
        BY <3>1, <3>3, <4>1, DownLane, Zenon
      <4> QED BY <4>2
    <3>5. RelayTypes'
      BY <1>1, <1>3, <3>1, <3>2, <3>4, Zenon DEF RelayTypes
    <3>6. NodeStep
      BY <1>1, <1>2, <1>3, <1>4, <3>1, <3>2, <3>3, ZenonT(40) DEF NodeStep, Listing
    <3>7. Held(stream) = 0 /\ Held(stream)' = 0
      BY <1>2, <1>4, <3>1, <3>2, Zenon DEF Held
    <3> QED BY <3>2, <3>4, <3>5, <3>6, <3>7, NodeStepKeeps, Zenon
  <2> QED BY <2>1, <2>2, Zenon
<1> QED BY <1>6, <1>7, <1>8, <1>9, Zenon

\* The end of the writer: a write that fails, the handshake, a cancelled context.
LEMMA WriterEndKeeps ==
    ASSUME RelayIInv, WriteFails \/ HandshakeDone \/ WriterEnds
    PROVE  RelayIInv'
<1>1. RelayTypes /\ Listing /\ Opening /\ stream \in StreamRecord /\ upstream \in UpstreamRecord
  BY Zenon DEF RelayIInv, RelayTypes
<1>2. /\ "done" \notin {"none", "idle", "write", "handshake"} /\ "write" # "none" /\ "handshake" # "none"
      /\ "idle" # "none" /\ "open" \notin {"none", "stored"}
  OBVIOUS
<1>3. UNCHANGED <<socket, wsUp, link>>
  BY Zenon DEF WriteFails, HandshakeDone, WriterEnds
<1>4. stream.status = "open" /\ stream.conn
  <2>1. stream.writer # "none"
    BY <1>2, Zenon DEF WriteFails, HandshakeDone, WriterEnds
  <2>2. stream.status = "open"
    BY <1>1, <2>1, Zenon DEF Listing
  <2> QED BY <1>1, <2>2, Zenon DEF Listing
<1>5. CASE WriteFails
  <2> DEFINE n == [stream EXCEPT !.writer = "done", !.held = 0]
  <2>0. 0 \in Nat
    OBVIOUS
  <2>1. /\ n \in StreamRecord /\ n.status = stream.status /\ n.once = stream.once /\ n.listed = stream.listed
        /\ n.ring = stream.ring /\ n.closing = stream.closing /\ n.writer = "done"
        /\ n.pump = stream.pump /\ n.conn = stream.conn
    BY <1>1, <2>0, Zenon DEF StreamRecord
  <2>2. closeWebSocket(n, "WsClose")
    BY <1>5, Zenon DEF WriteFails
  <2> HIDE DEF n
  <2>3. n.status \notin {"none", "stored"} /\ n.status = "open" /\ stream.status # "none" /\ n.conn
    BY <1>2, <1>4, <2>1, Zenon
  <2> QED BY <1>3, <2>1, <2>2, <2>3, ClosingStep, Zenon
<1>6. CASE HandshakeDone
  <2> DEFINE s == [stream EXCEPT !.writer = "done", !.cancelled = TRUE, !.reports = @ + 1]
  <2> DEFINE u == [upstream EXCEPT !.conn = "closed", !.closedBy = "page"]
  <2>0. stream.reports + 1 \in Nat /\ 0 \in Nat /\ "WsClose" # "WsData"
    BY <1>1 DEF StreamRecord
  <2>1. /\ s \in StreamRecord /\ s.status = stream.status /\ s.listed = stream.listed
        /\ s.once = stream.once /\ s.ring = stream.ring /\ s.conn = stream.conn
        /\ s.closing = stream.closing /\ s.writer = "done"
        /\ s.pump = stream.pump /\ s.credits = stream.credits
    BY <1>1, <2>0, Zenon DEF StreamRecord
  <2>2. u \in UpstreamRecord /\ u.received = upstream.received
    BY <1>1, Zenon DEF UpstreamRecord
  <2>3. /\ stream' = s /\ upstream' \in {u, upstream} /\ stream.writer = "handshake"
        /\ wsDown' = wsDown \/ (link = "up" /\ wsDown' = Append(wsDown, Frame("WsClose", 0)))
    BY <1>6, Zenon DEF HandshakeDone, Sendable
  <2> HIDE DEF s, u
  <2>4. Frame("WsClose", 0) \in DownFrame /\ Frame("WsClose", 0).t = "WsClose"
    BY <2>0, FramesTyped, Zenon
  <2>5. wsDown \in Seq(DownFrame) /\ wsDown' \in Seq(DownFrame)
    BY <1>1, <2>3, <2>4, DownLane, Zenon DEF RelayTypes
  <2>6. RelayTypes'
    BY <1>1, <1>3, <2>1, <2>2, <2>3, <2>5, Zenon DEF RelayTypes
  <2>7. stream.once /\ ~stream.listed
    BY <1>1, <2>3, Zenon DEF Listing
  <2>8. /\ stream'.once /\ ~stream'.listed /\ stream'.status = "open" /\ stream'.conn
        /\ stream'.writer = "done" /\ stream'.ring = stream.ring /\ stream'.closing = stream.closing
        /\ upstream'.received = upstream.received
    BY <1>4, <2>1, <2>2, <2>3, <2>7, Zenon
  <2>9. NodeStep
    BY <1>2, <1>3, <1>4, <2>3, <2>4, <2>8, Zenon DEF NodeStep
  <2> QED BY <2>6, <2>8, <2>9, NodeStepKeeps, Zenon
<1>7. CASE WriterEnds
  <2>1. /\ stream' = [stream EXCEPT !.writer = "done"] /\ stream.cancelled
        /\ upstream' = upstream /\ wsDown' = wsDown
    BY <1>7, Zenon DEF WriterEnds
  <2>2. /\ stream' \in StreamRecord /\ stream'.status = stream.status /\ stream'.listed = stream.listed
        /\ stream'.once = stream.once /\ stream'.ring = stream.ring /\ stream'.conn = stream.conn
        /\ stream'.closing = stream.closing /\ stream'.writer = "done"
    BY <1>1, <2>1, Zenon DEF StreamRecord
  <2>3. RelayTypes'
    BY <1>1, <1>3, <2>1, <2>2, Zenon DEF RelayTypes
  <2>4. stream.once /\ ~stream.listed
    BY <1>1, <2>1, Zenon DEF Listing
  <2>5. NodeStep
    BY <1>2, <1>3, <1>4, <2>1, <2>2, <2>4, Zenon DEF NodeStep
  <2> QED BY <2>2, <2>3, <2>4, <2>5, NodeStepKeeps, Zenon
<1> QED BY <1>5, <1>6, <1>7, Zenon

\* The stream with its pump moved on and its credits counted, and nothing else.
PumpMoves(p, c) ==
    /\ stream' \in StreamRecord /\ stream'.pump = p /\ stream'.credits = c
    /\ stream'.status = stream.status /\ stream'.listed = stream.listed /\ stream'.once = stream.once
    /\ stream'.cancelled = stream.cancelled /\ stream'.ring = stream.ring /\ stream'.conn = stream.conn
    /\ stream'.closing = stream.closing /\ stream'.writer = stream.writer /\ stream'.held = stream.held

\* pumpWebSocket.
LEMMA PumpKeeps ==
    ASSUME RelayIInv, PumpTakes \/ PumpReads \/ PumpSends \/ PumpEnds
    PROVE  RelayIInv'
<1>1. RelayTypes /\ Listing /\ Opening /\ stream \in StreamRecord /\ upstream \in UpstreamRecord
  BY Zenon DEF RelayIInv, RelayTypes
<1>2. /\ "take" \notin {"none", "read", "send"} /\ "read" \notin {"none", "take"} /\ "send" \notin {"none", "take"}
      /\ "open" \notin {"none", "stored"} /\ "WsData" = "WsData"
  OBVIOUS
<1>3. UNCHANGED <<socket, wsUp, link>>
  BY Zenon DEF PumpTakes, PumpReads, PumpSends, PumpEnds
<1>4. stream.status = "open" /\ stream.conn
  <2>1. stream.pump # "none"
    BY <1>2, Zenon DEF PumpTakes, PumpReads, PumpSends, PumpEnds
  <2>2. stream.status = "open"
    BY <1>1, <2>1, Zenon DEF Listing
  <2> QED BY <1>1, <2>2, Zenon DEF Listing
<1>5. ASSUME NEW p, NEW c, PumpMoves(p, c), upstream' \in UpstreamRecord, upstream'.received = upstream.received,
             upstream'.closedBy = "page" => upstream.closedBy = "page",
             \/ wsDown' = wsDown
             \/ link = "up" /\ \E f \in DownFrame : wsDown' = Append(wsDown, f)
      PROVE  NodeStep /\ RelayTypes'
  <2>1. wsDown' \in Seq(DownFrame)
    BY <1>1, <1>5, DownLane, Zenon DEF RelayTypes
  <2>2. RelayTypes'
    BY <1>1, <1>3, <1>5, <2>1, Zenon DEF RelayTypes, PumpMoves
  <2>3. /\ stream'.listed => stream.listed /\ ~stream'.once
        /\ stream'.cancelled => stream'.once
        /\ stream'.writer \in {"handshake", "done"} => stream'.once
    BY <1>1, <1>5, Zenon DEF PumpMoves, Listing
  <2>4. /\ stream'.status = "open" /\ stream'.conn /\ stream'.ring = stream.ring
        /\ stream'.closing = stream.closing /\ stream'.writer = stream.writer /\ stream'.held = stream.held
    BY <1>4, <1>5, Zenon DEF PumpMoves
  <2>5. NodeStep
    BY <1>2, <1>3, <1>4, <1>5, <2>3, <2>4, Zenon DEF NodeStep
  <2> QED BY <2>2, <2>5, Zenon
<1>6. CASE PumpTakes
  <2>1. /\ stream' = [stream EXCEPT !.pump = "read", !.credits = @ - 1] /\ stream.pump = "take"
        /\ upstream' = upstream /\ wsDown' = wsDown
    BY <1>6, Zenon DEF PumpTakes
  <2>2. stream.credits \in Int /\ stream.credits - 1 \in Int
    BY <1>1 DEF StreamRecord
  <2>3. PumpMoves("read", stream.credits - 1)
    BY <1>1, <2>1, <2>2, Zenon DEF StreamRecord, PumpMoves
  <2>4. Held(stream) = 0 /\ Held(stream)' = 1 /\ stream'.credits = stream.credits - 1
    BY <1>2, <2>1, <2>3, Zenon DEF Held, PumpMoves
  <2>5. stream'.credits + Held(stream)' = stream.credits + Held(stream)
    BY <2>2, <2>4
  <2>6. NodeStep /\ RelayTypes'
    BY <1>1, <1>5, <2>1, <2>3, Zenon
  <2> QED BY <2>1, <2>5, <2>6, NodeStepKeeps, Zenon
<1>7. CASE PumpReads
  <2>1. /\ stream' = [stream EXCEPT !.pump = "send"] /\ stream.pump = "read"
        /\ upstream' = [upstream EXCEPT !.offered = @ + 1] /\ wsDown' = wsDown
    BY <1>7, Zenon DEF PumpReads
  <2>2. upstream.offered + 1 \in Nat
    BY <1>1 DEF UpstreamRecord
  <2>3. /\ upstream' \in UpstreamRecord /\ upstream'.received = upstream.received
        /\ upstream'.closedBy = upstream.closedBy
    BY <1>1, <2>1, <2>2, Zenon DEF UpstreamRecord
  <2>4. PumpMoves("send", stream.credits)
    BY <1>1, <2>1, Zenon DEF StreamRecord, PumpMoves
  <2>5. Held(stream) = 1 /\ Held(stream)' = 1 /\ stream'.credits = stream.credits
    BY <1>2, <2>1, <2>4, Zenon DEF Held, PumpMoves
  <2>6. NodeStep /\ RelayTypes'
    BY <1>5, <2>1, <2>3, <2>4, Zenon
  <2> QED BY <2>1, <2>5, <2>6, NodeStepKeeps, Zenon
<1>8. CASE PumpSends
  <2>1. /\ stream' = [stream EXCEPT !.pump = "take"] /\ stream.pump = "send" /\ upstream' = upstream
        /\ wsDown' = Append(wsDown, Frame("WsData", 0)) /\ link = "up"
    BY <1>8, Zenon DEF PumpSends, Sendable
  <2>2. PumpMoves("take", stream.credits)
    BY <1>1, <2>1, Zenon DEF StreamRecord, PumpMoves
  <2>3. Held(stream) = 1 /\ Held(stream)' = 0 /\ stream'.credits = stream.credits
    BY <1>2, <2>1, <2>2, Zenon DEF Held, PumpMoves
  <2>4. Frame("WsData", 0) \in DownFrame /\ Frame("WsData", 0).t = "WsData"
    <3>1. 0 \in Nat
      OBVIOUS
    <3> QED BY <3>1, FramesTyped, Zenon
  <2>5. Messages(wsDown) \in Int /\ Messages(wsDown') = Messages(wsDown) + 1 /\ stream.credits \in Int
    BY <1>1, <2>1, <2>4, DownLane, Zenon DEF RelayTypes, StreamRecord
  <2>6. stream'.credits + Held(stream)' + Messages(wsDown') = stream.credits + Held(stream) + Messages(wsDown)
    BY <2>3, <2>5
  <2>7. NodeStep /\ RelayTypes'
    BY <1>1, <1>5, <2>1, <2>2, <2>4, Zenon
  <2> QED BY <2>6, <2>7, NodeStepKeeps, Zenon
<1>9. CASE PumpEnds
  <2> DEFINE n == [stream EXCEPT !.pump = "done"]
  <2>1. /\ n \in StreamRecord /\ n.status = stream.status /\ n.listed = stream.listed /\ n.once = stream.once
        /\ n.cancelled = stream.cancelled /\ n.ring = stream.ring /\ n.conn = stream.conn
        /\ n.closing = stream.closing /\ n.writer = stream.writer /\ n.held = stream.held
        /\ n.pump = "done" /\ n.credits = stream.credits
    BY <1>1, Zenon DEF StreamRecord
  <2>2. CASE stream.once
    <3>1. stream' = n /\ upstream' \in {Dropped(stream, "node"), upstream} /\ wsDown' = wsDown
      BY <1>9, <2>2, Zenon DEF PumpEnds
    <3> HIDE DEF n
    <3>2. PumpMoves("done", stream.credits)
      BY <2>1, <3>1, Zenon DEF PumpMoves
    <3>3. /\ upstream' \in UpstreamRecord /\ upstream'.received = upstream.received
          /\ upstream'.closedBy = "page" => upstream.closedBy = "page"
      BY <1>1, <3>1, UpstreamDropped, Zenon
    <3>4. ~stream'.listed
      BY <1>1, <2>2, <3>2, Zenon DEF Listing, PumpMoves
    <3>5. NodeStep /\ RelayTypes'
      BY <1>5, <3>1, <3>2, <3>3, Zenon
    <3> QED BY <3>4, <3>5, NodeStepKeeps, Zenon
  <2>3. CASE ~stream.once
    <3>1. closeWebSocket(n, "WsClose")
      BY <1>9, <2>3, Zenon DEF PumpEnds
    <3> HIDE DEF n
    <3>2. n.status \notin {"none", "stored"} /\ n.status = "open" /\ stream.status # "none" /\ n.conn
      BY <1>2, <1>4, <2>1, Zenon
    <3> QED BY <1>3, <2>1, <3>1, <3>2, ClosingStep, Zenon
  <2> QED BY <2>2, <2>3, Zenon
<1> QED BY <1>6, <1>7, <1>8, <1>9, Zenon

\* PeerSession.Close, and an upstream that closes its connection.
LEMMA EndKeeps ==
    ASSUME RelayIInv, ClosePeer \/ UpstreamCloses
    PROVE  RelayIInv'
<1>1. RelayTypes /\ Listing /\ Opening /\ stream \in StreamRecord /\ upstream \in UpstreamRecord
  BY Zenon DEF RelayIInv, RelayTypes
<1>2. UNCHANGED <<socket, wsUp, wsDown, link>>
  BY Zenon DEF ClosePeer, UpstreamCloses
<1>3. CASE ClosePeer
  <2> DEFINE a == [Torn(stream) EXCEPT !.open = FALSE]
  <2> DEFINE b == [stream EXCEPT !.open = FALSE, !.listed = FALSE]
  <2>1. /\ a \in StreamRecord /\ ~a.listed /\ a.once /\ SameDuties(a, stream)
    <3>1. Torn(stream) \in StreamRecord /\ Torn(stream).once /\ ~Torn(stream).listed /\ SameDuties(Torn(stream), stream)
      BY <1>1, TornStream, Zenon
    <3> DEFINE t == Torn(stream)
    <3> HIDE DEF t
    <3>2. t \in StreamRecord /\ t.once /\ ~t.listed /\ SameDuties(t, stream)
      BY <3>1, Zenon DEF t
    <3> DEFINE c == [t EXCEPT !.open = FALSE]
    <3>3. c \in StreamRecord /\ c.once = t.once /\ c.listed = t.listed /\ SameDuties(c, t)
      BY <3>2, Zenon DEF StreamRecord, SameDuties
    <3>4. a = c
      BY Zenon DEF t
    <3> HIDE DEF c, a
    <3> QED BY <3>2, <3>3, <3>4, Zenon DEF SameDuties
  <2>2. /\ b \in StreamRecord /\ ~b.listed /\ b.once = stream.once /\ b.cancelled = stream.cancelled
        /\ SameDuties(b, stream)
    BY <1>1, Zenon DEF StreamRecord, SameDuties
  <2>3. \/ stream' = a /\ upstream' = Dropped(stream, "node") /\ stream.listed
        \/ stream' = b /\ upstream' = upstream
    BY <1>3, Zenon DEF ClosePeer
  <2> HIDE DEF a, b
  <2>4. /\ stream' \in StreamRecord /\ ~stream'.listed /\ SameDuties(stream', stream)
        /\ stream.status = "none" => stream'.once = stream.once
        /\ stream'.cancelled => stream'.once
    <3>1. stream.status = "none" => ~stream.listed
      BY <1>1, Zenon DEF Opening
    <3>2. stream.cancelled => stream.once
      BY <1>1, Zenon DEF Listing
    <3> QED BY <2>1, <2>2, <2>3, <3>1, <3>2, Zenon
  <2>5. /\ upstream' \in UpstreamRecord /\ upstream'.received = upstream.received
        /\ upstream'.closedBy = "page" => upstream.closedBy = "page"
    BY <1>1, <2>3, UpstreamDropped, Zenon
  <2>6. RelayTypes'
    BY <1>1, <1>2, <2>4, <2>5, Zenon DEF RelayTypes
  <2>7. stream.once => stream'.once
    BY <2>1, <2>2, <2>3, Zenon
  <2>8. NodeStep
    <3>1. /\ stream'.status = stream.status /\ stream'.conn = stream.conn /\ stream'.ring = stream.ring
          /\ stream'.closing = stream.closing /\ stream'.writer = stream.writer
          /\ stream'.held = stream.held /\ stream'.pump = stream.pump
      BY <2>4, Zenon DEF SameDuties
    <3>2. /\ stream'.status # "open" => stream.status # "open" /\ stream'.writer = "none" /\ stream'.pump = "none"
          /\ stream'.status \in {"stored", "open"} => stream'.conn
          /\ stream'.writer \in {"handshake", "done"} => stream'.once
      BY <1>1, <2>7, <3>1, Zenon DEF Listing
    <3> QED BY <1>2, <2>4, <2>5, <3>1, <3>2, Zenon DEF NodeStep
  <2> QED BY <2>4, <2>6, <2>8, NodeStepKeeps, Zenon
<1>4. CASE UpstreamCloses
  <2>1. stream' = stream /\ upstream' = [upstream EXCEPT !.conn = "closed", !.closedBy = "upstream"]
    BY <1>4, Zenon DEF UpstreamCloses
  <2>2. upstream' \in UpstreamRecord /\ upstream'.received = upstream.received /\ upstream'.closedBy = "upstream"
    BY <1>1, <2>1, Zenon DEF UpstreamRecord
  <2>3. RelayTypes'
    BY <1>1, <1>2, <2>1, <2>2, Zenon DEF RelayTypes
  <2>4. "upstream" # "page"
    OBVIOUS
  <2>5. NodeStep
    BY <1>1, <1>2, <2>1, <2>2, <2>4, Zenon DEF NodeStep, Listing
  <2> QED BY <1>2, <2>1, <2>3, <2>5, NodeStepKeeps, Zenon DEF Held
<1> QED BY <1>3, <1>4, Zenon

-----------------------------------------------------------------------------
(* The writer.                                                                *)
\* A step that leaves both lanes, the page and the credits as they are.
LEMMA WriterStep ==
    ASSUME RelayIInv, UNCHANGED <<socket, wsUp, wsDown, link>>, stream' \in StreamRecord,
           upstream' \in UpstreamRecord, stream'.status = stream.status, stream'.conn = stream.conn,
           stream'.closing = stream.closing, stream'.pump = stream.pump, stream'.credits = stream.credits,
           stream.status = "open", stream'.listed => stream.listed, stream'.once => ~stream'.listed,
           stream'.cancelled => stream'.once, stream'.writer \in {"handshake", "done"} => stream'.once,
           InOrder', CloseAsked', ~stream.closing /\ stream'.listed => Taken' + Len(stream'.ring) = Taken + Len(stream.ring)
    PROVE  RelayIInv'
<1>1. RelayTypes /\ Listing /\ Opening /\ UnderWay /\ SocketCreditsConserved /\ "none" # "open"
  BY Zenon DEF RelayIInv
<1>2. RelayTypes'
  BY <1>1, Zenon DEF RelayTypes
<1>3. Listing'
  BY <1>1, Zenon DEF Listing
<1>4. Opening'
  BY <1>1, Zenon DEF Opening
<1>5. UnderWay'
  <2>1. ASSUME link' = "up", ~stream'.closing, stream'.listed \/ stream'.status = "none"
        PROVE  Follows(wsUp', socket'.framed, Taken' + Len(stream'.ring))
    <3>1. stream'.listed /\ ~stream.closing /\ stream.listed /\ link = "up"
      BY <1>1, <2>1, Zenon
    <3>2. Follows(wsUp, socket.framed, Taken + Len(stream.ring))
      BY <1>1, <3>1, Zenon DEF UnderWay
    <3>3. Taken' + Len(stream'.ring) = Taken + Len(stream.ring)
      BY <3>1, Zenon
    <3> QED BY <3>2, <3>3, Zenon
  <2> QED BY <2>1, Zenon DEF UnderWay
<1>6. SocketCreditsConserved'
  BY <1>1, Zenon DEF SocketCreditsConserved
<1> QED BY <1>2, <1>3, <1>4, <1>5, <1>6, Zenon DEF RelayIInv

\* writeWebSocketLoop's write reaches the upstream: the next message framed.
LEMMA WriteDoneKeeps ==
    ASSUME RelayIInv, WriteDone
    PROVE  RelayIInv'
<1>1. /\ RelayTypes /\ Listing /\ Opening /\ CloseAsked /\ InOrder
      /\ stream \in StreamRecord /\ upstream \in UpstreamRecord /\ socket \in SocketRecord
  BY Zenon DEF RelayIInv, RelayTypes
<1>2. /\ UNCHANGED <<socket, wsUp, wsDown, link>> /\ stream.writer = "write"
      /\ stream' = [stream EXCEPT !.writer = "idle", !.held = 0]
      /\ upstream' = [upstream EXCEPT !.received = Append(@, stream.held)]
  BY Zenon DEF WriteDone
<1>3. /\ "write" \notin {"none", "idle", "handshake"} /\ 0 \in Nat
      /\ "idle" \notin {"write", "handshake", "done"} /\ "idle" \in {"none", "idle", "write"}
  OBVIOUS
<1>4. /\ stream' \in StreamRecord /\ stream'.writer = "idle" /\ stream'.status = stream.status
      /\ stream'.conn = stream.conn /\ stream'.closing = stream.closing /\ stream'.pump = stream.pump
      /\ stream'.credits = stream.credits /\ stream'.listed = stream.listed /\ stream'.once = stream.once
      /\ stream'.cancelled = stream.cancelled /\ stream'.ring = stream.ring
  BY <1>1, <1>2, <1>3, Zenon DEF StreamRecord
<1> DEFINE r == upstream.received
<1> DEFINE f == socket.framed
<1>5. r \in Seq(Nat) /\ f \in Seq(Nat) /\ stream.held \in Nat
  BY <1>1, Zenon DEF UpstreamRecord, SocketRecord, StreamRecord
<1>6. /\ Append(r, stream.held) \in Seq(Nat) /\ Len(Append(r, stream.held)) = Len(r) + 1
      /\ \A i \in 1..Len(r) : Append(r, stream.held)[i] = r[i]
      /\ Append(r, stream.held)[Len(r) + 1] = stream.held /\ Len(r) \in Nat
      /\ \A i \in 1..(Len(r) + 1) : i = Len(r) + 1 \/ i \in 1..Len(r)
      /\ Len(r) + 1 + 0 = Len(r) + 1
  BY <1>5
<1>7. /\ upstream' \in UpstreamRecord /\ upstream'.received = Append(r, stream.held)
      /\ upstream'.closedBy = upstream.closedBy
  BY <1>1, <1>2, <1>6, Zenon DEF UpstreamRecord
<1>8. Taken = Len(r) + 1 /\ Taken' = Taken
  BY <1>2, <1>3, <1>4, <1>6, <1>7, Zenon DEF Taken
<1>9. Len(r) + 1 <= Len(f) /\ f[Len(r) + 1] = stream.held
  BY <1>1, <1>2, <1>8, Zenon DEF InOrder
<1>10. upstream.closedBy # "page"
  <2>1. upstream.closedBy = "page" => r = f
    BY <1>1, Zenon DEF InOrder
  <2> QED BY <1>5, <1>9, <2>1
<1>11. InOrder'
  <2>1. Len(upstream'.received) <= Len(f)
    BY <1>6, <1>7, <1>9, Zenon
  <2>2. \A i \in 1..Len(upstream'.received) : upstream'.received[i] = f[i]
    <3>1. \A i \in 1..Len(r) : r[i] = f[i]
      BY <1>1, Zenon DEF InOrder
    <3>2. ASSUME NEW i \in 1..(Len(r) + 1) PROVE Append(r, stream.held)[i] = f[i]
      BY <1>6, <1>9, <3>1, Zenon
    <3> QED BY <1>6, <1>7, <3>2, Zenon
  <2>3. /\ \A i \in 1..Len(stream.ring) : stream.ring[i].t = "WsData" =>
             Taken + i <= Len(f) /\ f[Taken + i] = stream.ring[i].n
        /\ stream.ring # <<>> /\ stream.closing => Len(f) = Taken + Len(stream.ring) - 1
    BY <1>1, <1>2, <1>3, Zenon DEF InOrder
  <2>4. socket'.framed = f
    BY <1>2, Zenon
  <2> HIDE DEF f
  <2> QED BY <1>3, <1>4, <1>7, <1>8, <1>10, <2>1, <2>2, <2>3, <2>4, ZenonT(40) DEF InOrder
<1>12. CloseAsked'
  <2>1. /\ stream'.ring = stream.ring /\ stream'.closing = stream.closing /\ stream'.writer # "handshake"
        /\ upstream'.closedBy = upstream.closedBy /\ wsUp' = wsUp /\ socket' = socket /\ CloseAsked
    BY <1>1, <1>2, <1>3, <1>4, <1>7, Zenon
  <2> QED BY <2>1 DEF CloseAsked
<1>13. stream.status = "open" /\ (stream'.once => ~stream'.listed) /\ (stream'.cancelled => stream'.once)
  BY <1>1, <1>2, <1>3, <1>4, Zenon DEF Listing
<1>14. Taken' + Len(stream'.ring) = Taken + Len(stream.ring)
  BY <1>4, <1>8, Zenon
<1> QED BY <1>2, <1>3, <1>4, <1>7, <1>11, <1>12, <1>13, <1>14, WriterStep, Zenon

\* writeWebSocketLoop takes the next item: a message, or the page's close, before
\* which the upstream has received all that was framed.
LEMMA TakeWriteKeeps ==
    ASSUME RelayIInv, TakeWrite
    PROVE  RelayIInv'
<1>1. /\ RelayTypes /\ Listing /\ Opening /\ CloseAsked /\ InOrder
      /\ stream \in StreamRecord /\ upstream \in UpstreamRecord /\ socket \in SocketRecord
  BY Zenon DEF RelayIInv, RelayTypes
<1> DEFINE item == Head(stream.ring)
<1> DEFINE rest == [stream EXCEPT !.ring = Tail(@)]
<1>2. /\ UNCHANGED <<socket, wsUp, wsDown, link, upstream>> /\ stream.writer = "idle" /\ stream.ring # <<>>
      /\ stream' = IF item.t = "WsData" THEN [rest EXCEPT !.writer = "write", !.held = item.n]
                   ELSE IF stream.once THEN [rest EXCEPT !.writer = "done"]
                   ELSE [rest EXCEPT !.writer = "handshake", !.once = TRUE, !.listed = FALSE]
  BY Zenon DEF TakeWrite
<1>3. /\ "write" \notin {"none", "idle", "handshake", "done"} /\ "done" \notin {"none", "idle", "write", "handshake"}
      /\ "handshake" \notin {"none", "idle", "write", "done"} /\ "idle" # "none"
      /\ "idle" \notin {"write", "handshake", "done"} /\ "WsData" # "WsClose"
  OBVIOUS
<1> DEFINE q == stream.ring
<1> DEFINE r == upstream.received
<1> DEFINE f == socket.framed
<1>4. r \in Seq(Nat) /\ f \in Seq(Nat) /\ q \in Seq(Item)
  BY <1>1, Zenon DEF UpstreamRecord, SocketRecord, StreamRecord
<1>5. /\ item \in Item /\ Tail(q) \in Seq(Item) /\ Len(Tail(q)) = Len(q) - 1 /\ item = q[1]
      /\ \A i \in 1..Len(Tail(q)) : Tail(q)[i] = q[i + 1] /\ i + 1 \in 1..Len(q)
      /\ 1 \in 1..Len(q) /\ Len(q) \in Nat
  BY <1>2, <1>4
<1>6. item.n \in Nat /\ item.t \in {"WsData", "WsClose"}
  BY <1>5, Zenon DEF Item
<1>7. /\ rest \in StreamRecord /\ rest.status = stream.status /\ rest.conn = stream.conn
      /\ rest.closing = stream.closing /\ rest.pump = stream.pump /\ rest.credits = stream.credits
      /\ rest.listed = stream.listed /\ rest.once = stream.once /\ rest.cancelled = stream.cancelled
      /\ rest.ring = Tail(q)
  BY <1>1, <1>5, Zenon DEF StreamRecord
<1> HIDE DEF rest
<1>8. /\ stream' \in StreamRecord /\ stream'.status = stream.status /\ stream'.conn = stream.conn
      /\ stream'.closing = stream.closing /\ stream'.pump = stream.pump /\ stream'.credits = stream.credits
      /\ stream'.cancelled = stream.cancelled /\ stream'.ring = Tail(q)
      /\ item.t = "WsData" => /\ stream'.writer = "write" /\ stream'.held = item.n
                              /\ stream'.listed = stream.listed /\ stream'.once = stream.once
      /\ item.t # "WsData" /\ stream.once =>
           stream'.writer = "done" /\ stream'.listed = stream.listed /\ stream'.once = stream.once
      /\ item.t # "WsData" /\ ~stream.once => stream'.writer = "handshake" /\ ~stream'.listed /\ stream'.once
  <2>1. CASE item.t = "WsData"
    <3>1. stream' = [rest EXCEPT !.writer = "write", !.held = item.n]
      BY <1>2, <2>1, Zenon
    <3> QED BY <1>6, <1>7, <2>1, <3>1, Zenon DEF StreamRecord
  <2>2. CASE item.t # "WsData" /\ stream.once
    <3>1. stream' = [rest EXCEPT !.writer = "done"]
      BY <1>2, <2>2, Zenon
    <3> QED BY <1>7, <2>2, <3>1, Zenon DEF StreamRecord
  <2>3. CASE item.t # "WsData" /\ ~stream.once
    <3>1. stream' = [rest EXCEPT !.writer = "handshake", !.once = TRUE, !.listed = FALSE]
      BY <1>2, <2>3, Zenon
    <3> QED BY <1>7, <2>3, <3>1, Zenon DEF StreamRecord
  <2> QED BY <2>1, <2>2, <2>3, Zenon
<1> HIDE DEF item
<1>9. /\ stream.status = "open" /\ (stream'.listed => stream.listed) /\ (stream'.once => ~stream'.listed)
      /\ (stream'.cancelled => stream'.once) /\ (stream'.writer \in {"handshake", "done"} => stream'.once)
  <2>1. /\ stream.status = "open" /\ (stream.once => ~stream.listed) /\ (stream.cancelled => stream.once)
    BY <1>1, <1>2, <1>3, Zenon DEF Listing
  <2> QED BY <1>3, <1>8, <2>1, Zenon
<1>10. /\ \A i \in 1..Len(q) : q[i].t = "WsClose" <=> i = Len(q) /\ stream.closing
       /\ \A i \in 1..Len(q) : q[i].t = "WsData" => Taken + i <= Len(f) /\ f[Taken + i] = q[i].n
       /\ stream.closing => Len(f) = Taken + Len(q) - 1
       /\ Len(r) <= Len(f) /\ \A i \in 1..Len(r) : r[i] = f[i]
       /\ upstream.closedBy = "page" => r = f
  BY <1>1, <1>2, <1>3, Zenon DEF InOrder, CloseAsked
<1>11. Taken = Len(r) /\ Len(r) \in Nat /\ Len(f) \in Nat
  <2>1. Len(r) \in Nat /\ Len(f) \in Nat /\ Len(r) + 0 = Len(r)
    BY <1>4
  <2> QED BY <1>2, <1>3, <2>1, Zenon DEF Taken
<1> HIDE DEF q, r, f
<1>12. item.t # "WsData" => Len(q) = 1 /\ stream.closing /\ r = f
  <2> SUFFICES ASSUME item.t # "WsData" PROVE Len(q) = 1 /\ stream.closing /\ r = f
    BY Zenon
  <2>1. q[1].t = "WsClose"
    BY <1>5, <1>6, Zenon
  <2>2. 1 = Len(q) /\ stream.closing
    BY <1>5, <1>10, <2>1, Zenon
  <2>3. Len(f) = Taken + Len(q) - 1 /\ \A i \in 1..Len(r) : r[i] = f[i]
    BY <1>10, <2>2, Zenon
  <2>4. Len(f) = Len(r)
    <3>1. \A a \in Nat : a + 1 - 1 = a
      OBVIOUS
    <3> QED BY <1>11, <2>2, <2>3, <3>1, Zenon
  <2>5. r = f
    BY <1>4, <2>3, <2>4
  <2> QED BY <2>2, <2>5, Zenon
<1>13. \A i \in 1..Len(Tail(q)) : Tail(q)[i].t = "WsClose" <=> i = Len(Tail(q)) /\ stream.closing
  <2> TAKE i \in 1..Len(Tail(q))
  <2>1. Tail(q)[i] = q[i + 1] /\ i + 1 \in 1..Len(q)
    BY <1>5, Zenon
  <2>2. i + 1 = Len(q) <=> i = Len(Tail(q))
    BY <1>5
  <2> QED BY <1>10, <2>1, <2>2, Zenon
<1>14. CloseAsked'
  <2>1. /\ \A i \in 1..Len(wsUp) : wsUp[i].t = "WsClose" => socket.state \in {"closing", "closed"}
        /\ stream.closing \/ upstream.closedBy = "page" => socket.state \in {"closing", "closed"}
    BY <1>1, Zenon DEF CloseAsked
  <2>2. stream'.writer = "handshake" => stream.closing
    BY <1>3, <1>8, <1>12, Zenon
  <2>3. /\ stream'.ring = Tail(q) /\ stream'.closing = stream.closing
        /\ upstream' = upstream /\ wsUp' = wsUp /\ socket' = socket
    BY <1>2, <1>8, Zenon
  <2> QED BY <1>13, <2>1, <2>2, <2>3 DEF CloseAsked
<1>15. CASE item.t = "WsData"
  <2>1. Taken' = Len(r) + 1
    BY <1>2, <1>8, <1>15, Zenon DEF Taken, r
  <2>2. Len(r) + 1 <= Len(f) /\ f[Len(r) + 1] = item.n
    BY <1>5, <1>10, <1>11, <1>15, Zenon
  <2>3. ASSUME NEW i \in 1..Len(Tail(q)), Tail(q)[i].t = "WsData"
        PROVE  Len(r) + 1 + i <= Len(f) /\ f[Len(r) + 1 + i] = Tail(q)[i].n
    <3>1. Tail(q)[i] = q[i + 1] /\ i + 1 \in 1..Len(q)
      BY <1>5, Zenon
    <3>2. Len(r) + (i + 1) <= Len(f) /\ f[Len(r) + (i + 1)] = Tail(q)[i].n
      <4>1. q[i + 1].t = "WsData" /\ q[i + 1].n = Tail(q)[i].n
        BY <2>3, <3>1, Zenon
      <4>2. Len(r) + (i + 1) <= Len(f) /\ f[Len(r) + (i + 1)] = q[i + 1].n
        BY <1>10, <1>11, <3>1, <4>1, Zenon
      <4> QED BY <4>1, <4>2, Zenon
    <3>3. Len(r) + (i + 1) = Len(r) + 1 + i
      BY <1>11
    <3> QED BY <3>2, <3>3, Zenon
  <2>4. stream.closing => Len(f) = Len(r) + 1 + Len(Tail(q)) - 1
    <3>1. stream.closing => Len(f) = Taken + Len(q) - 1
      BY <1>10, Zenon
    <3>2. Taken + Len(q) - 1 = Len(r) + 1 + Len(Tail(q)) - 1
      <4>1. Taken = Len(r) /\ Len(Tail(q)) = Len(q) - 1 /\ Len(r) \in Nat /\ Len(q) \in Nat
        BY <1>5, <1>11, Zenon
      <4>2. \A a, b \in Nat : a + b - 1 = a + 1 + (b - 1) - 1
        OBVIOUS
      <4> QED BY <4>1, <4>2, Zenon
    <3> QED BY <3>1, <3>2, Zenon
  <2>5. InOrder'
    <3>1. stream'.writer = "write" /\ stream'.held = item.n /\ upstream' = upstream /\ socket' = socket
      BY <1>2, <1>8, <1>15, Zenon
    <3>2. stream'.writer # "handshake"
      BY <1>3, <3>1, Zenon
    <3> QED BY <1>8, <1>10, <2>1, <2>2, <2>3, <2>4, <3>1, <3>2, ZenonT(40) DEF InOrder, r, f
  <2>6. Taken' + Len(stream'.ring) = Taken + Len(stream.ring)
    <3>1. Taken = Len(r) /\ Len(Tail(q)) = Len(q) - 1 /\ Len(r) \in Nat /\ Len(q) \in Nat
      BY <1>5, <1>11, Zenon
    <3>2. Len(r) + 1 + Len(Tail(q)) = Len(r) + Len(q)
      <4>1. \A a, b \in Nat : a + 1 + (b - 1) = a + b
        OBVIOUS
      <4> QED BY <3>1, <4>1, Zenon
    <3>3. stream'.ring = Tail(q) /\ stream.ring = q
      BY <1>8, Zenon DEF q
    <3> QED BY <2>1, <3>1, <3>2, <3>3, Zenon
  <2> QED BY <1>1, <1>2, <1>8, <1>9, <1>14, <2>5, <2>6, WriterStep, Zenon
<1>16. CASE item.t # "WsData"
  <2>1. stream'.writer \in {"done", "handshake"} /\ upstream' = upstream /\ socket' = socket /\ stream.closing
    BY <1>2, <1>8, <1>12, <1>16, Zenon
  <2>2. stream'.writer \notin {"none", "idle", "write"}
    BY <1>3, <2>1, Zenon
  <2>3. InOrder'
    BY <1>10, <1>12, <1>16, <2>1, <2>2, Zenon DEF InOrder, r, f
  <2> QED BY <1>1, <1>2, <1>8, <1>9, <1>14, <2>1, <2>3, WriterStep, Zenon
<1> QED BY <1>15, <1>16, Zenon

\* The positions are numbers.
LEMMA Positions ==
    ASSUME RelayTypes
    PROVE  /\ Taken \in Nat /\ Len(stream.ring) \in Nat /\ Taken + Len(stream.ring) \in Nat
           /\ Len(socket.framed) \in Nat /\ stream.ring \in Seq(Item) /\ socket.framed \in Seq(Nat)
<1>1. stream.ring \in Seq(Item) /\ upstream.received \in Seq(Nat) /\ socket.framed \in Seq(Nat)
  BY Zenon DEF RelayTypes, StreamRecord, UpstreamRecord, SocketRecord
<1>2. Len(stream.ring) \in Nat /\ Len(upstream.received) \in Nat /\ Len(socket.framed) \in Nat
  BY <1>1
<1>3. \A a \in Nat : a + 0 \in Nat /\ a + 1 \in Nat /\ \A b \in Nat : a + b \in Nat
  OBVIOUS
<1>4. Taken \in Nat
  BY <1>2, <1>3, Zenon DEF Taken
<1> QED BY <1>1, <1>2, <1>3, <1>4, Zenon

-----------------------------------------------------------------------------
(* The lane's delivery on the node.                                           *)
\* The frame taken is the first, the others move up; only a lane that is up has one.
LEMMA Delivered ==
    ASSUME RelayIInv, wsUp # <<>>
    PROVE  /\ link = "up" /\ Head(wsUp) \in UpFrame /\ Tail(wsUp) \in Seq(UpFrame) /\ Head(wsUp) = wsUp[1]
           /\ \A i \in 1..Len(Tail(wsUp)) : Tail(wsUp)[i] = wsUp[i + 1] /\ i + 1 \in 1..Len(wsUp) /\ i + 1 # 1
           /\ 1 \in 1..Len(wsUp)
           /\ Head(wsUp).t = "WsOpen" <=> stream.status = "none"
<1>1. RelayTypes /\ Listing /\ Opening /\ wsUp \in Seq(UpFrame) /\ link \in {"up", "down"}
  BY Zenon DEF RelayIInv, RelayTypes
<1>2. link = "up"
  BY <1>1, Zenon DEF Listing
<1>3. /\ Head(wsUp) \in UpFrame /\ Tail(wsUp) \in Seq(UpFrame) /\ Head(wsUp) = wsUp[1] /\ 1 \in 1..Len(wsUp)
      /\ \A i \in 1..Len(Tail(wsUp)) : Tail(wsUp)[i] = wsUp[i + 1] /\ i + 1 \in 1..Len(wsUp) /\ i + 1 # 1
  BY <1>1
<1>4. wsUp[1].t = "WsOpen" <=> stream.status = "none"
  BY <1>1, <1>3, Zenon DEF Opening
<1> QED BY <1>2, <1>3, <1>4, Zenon

\* The queue stays as it is.
SameQueue ==
    /\ stream'.ring = stream.ring /\ stream'.closing = stream.closing /\ stream'.writer = stream.writer
    /\ stream'.held = stream.held /\ upstream'.received = upstream.received
    /\ upstream'.closedBy = "page" => upstream.closedBy = "page"

\* A delivery that leaves the queue alone keeps its order and the page's close in place.
LEMMA SameQueueKeeps ==
    ASSUME RelayIInv, wsUp # <<>>, wsUp' = Tail(wsUp), socket' = socket, SameQueue
    PROVE  InOrder' /\ CloseAsked' /\ Taken' = Taken
<1>1. InOrder /\ CloseAsked
  BY Zenon DEF RelayIInv
<1>2. Taken' = Taken
  BY Zenon DEF SameQueue, Taken
<1>3. InOrder'
  BY <1>1, <1>2, Zenon DEF SameQueue, InOrder
<1>4. CloseAsked'
  <2>1. ASSUME NEW i \in 1..Len(Tail(wsUp)), Tail(wsUp)[i].t = "WsClose" PROVE socket.state \in {"closing", "closed"}
    BY <1>1, <2>1, Delivered, Zenon DEF CloseAsked
  <2>2. /\ stream.closing \/ stream.writer = "handshake" \/ upstream.closedBy = "page"
             => socket.state \in {"closing", "closed"}
        /\ \A i \in 1..Len(stream.ring) : stream.ring[i].t = "WsClose" <=> i = Len(stream.ring) /\ stream.closing
    BY <1>1, Zenon DEF CloseAsked
  <2>3. stream'.ring = stream.ring /\ stream'.closing = stream.closing
    BY Zenon DEF SameQueue
  <2>4. stream'.closing \/ stream'.writer = "handshake" \/ upstream'.closedBy = "page"
           => socket.state \in {"closing", "closed"}
    BY <2>2, Zenon DEF SameQueue
  <2> QED BY <2>1, <2>2, <2>3, <2>4 DEF CloseAsked
<1> QED BY <1>2, <1>3, <1>4, Zenon

\* What a delivery has to keep up.
LEMMA DeliveryStep ==
    ASSUME RelayIInv, wsUp # <<>>, wsUp' = Tail(wsUp), UNCHANGED <<socket, link>>,
           stream' \in StreamRecord, upstream' \in UpstreamRecord, wsDown' \in Seq(DownFrame),
           stream'.status # "none",
           stream'.status # "open" => stream.status # "open" /\ stream'.writer = "none" /\ stream'.pump = "none",
           stream'.status \in {"stored", "open"} => stream'.conn,
           stream'.once => ~stream'.listed, stream'.cancelled => stream'.once,
           stream'.writer \in {"handshake", "done"} => stream'.once,
           \/ wsDown' = wsDown
           \/ \E f \in DownFrame : f.t \in {"WsClose", "ResErr"} /\ wsDown' = Append(wsDown, f),
           InOrder', CloseAsked', SocketCreditsConserved',
           stream'.listed /\ ~stream'.closing => Follows(Tail(wsUp), socket.framed, Taken' + Len(stream'.ring))
    PROVE  RelayIInv'
<1>1. RelayTypes /\ Listing /\ Opening /\ link = "up" /\ "up" # "down"
  BY Delivered, Zenon DEF RelayIInv
<1>2. RelayTypes'
  <2>1. Tail(wsUp) \in Seq(UpFrame)
    BY Delivered, Zenon
  <2> QED BY <1>1, <2>1, Zenon DEF RelayTypes
<1>3. Listing'
  BY <1>1, Zenon DEF Listing
<1>4. Opening'
  <2>1. ASSUME NEW i \in 1..Len(Tail(wsUp)) PROVE Tail(wsUp)[i].t # "WsOpen"
    BY <1>1, Delivered, Zenon DEF Opening
  <2>2. socket.state # "none"
    BY <1>1, Zenon DEF Opening
  <2>3. ASSUME stream.status # "open", NEW i \in 1..Len(Tail(wsUp)) PROVE Tail(wsUp)[i].t \in {"WsOpen", "WsClose"}
    BY <1>1, <2>3, Delivered, Zenon DEF Opening
  <2>4. ASSUME stream.status # "open", NEW i \in 1..Len(wsDown') PROVE wsDown'[i].t \in {"WsClose", "ResErr"}
    <3>1. wsDown \in Seq(DownFrame) /\ \A k \in 1..Len(wsDown) : wsDown[k].t \in {"WsClose", "ResErr"}
      BY <1>1, <2>4, Zenon DEF Opening, RelayTypes
    <3>2. CASE wsDown' = wsDown
      BY <2>4, <3>1, <3>2, Zenon
    <3>3. ASSUME NEW f \in DownFrame, wsDown' = Append(wsDown, f), f.t \in {"WsClose", "ResErr"}
          PROVE  wsDown'[i].t \in {"WsClose", "ResErr"}
      BY <2>4, <3>1, <3>3
    <3> QED BY <3>2, <3>3, Zenon
  <2>5. stream.status # "open" => /\ socket.state # "open" /\ socket.framed = <<>>
                                  /\ socket.blobs = {} /\ socket.consumed = 0
    BY <1>1, Zenon DEF Opening
  <2> QED BY <2>1, <2>2, <2>3, <2>4, <2>5, Zenon DEF Opening
<1>5. UnderWay'
  BY Zenon DEF UnderWay
<1> QED BY <1>2, <1>3, <1>4, <1>5, Zenon DEF RelayIInv

\* A frame without credit leaves the window as it is.
LEMMA CreditsKept ==
    ASSUME RelayIInv, wsUp # <<>>, wsUp' = Tail(wsUp), UNCHANGED <<socket, link, wsDown>>,
           Head(wsUp).t # "Credit", stream'.listed => stream.listed,
           stream'.credits = stream.credits, stream'.pump = stream.pump
    PROVE  SocketCreditsConserved'
<1>1. SocketCreditsConserved /\ wsUp \in Seq(UpFrame)
  BY Zenon DEF RelayIInv, RelayTypes
<1>2. CreditsIn(wsUp) \in Int /\ CreditsIn(Tail(wsUp)) = CreditsIn(wsUp) - 0
  BY <1>1, Delivered, UpLane, Zenon
<1>3. CreditsIn(wsUp') = CreditsIn(wsUp)
  BY <1>2
<1> QED BY <1>1, <1>3, Zenon DEF SocketCreditsConserved

\* beginWebSocket.
LEMMA BeginKeeps ==
    ASSUME RelayIInv, wsUp # <<>>, wsUp' = Tail(wsUp), UNCHANGED <<socket, link, upstream>>,
           Head(wsUp).t = "WsOpen", beginWebSocket
    PROVE  RelayIInv'
<1>1. /\ RelayTypes /\ Listing /\ Opening /\ UnderWay /\ stream \in StreamRecord /\ upstream \in UpstreamRecord
      /\ wsDown \in Seq(DownFrame) /\ wsUp \in Seq(UpFrame) /\ socket \in SocketRecord
  BY Zenon DEF RelayIInv, RelayTypes
<1>2. stream.status = "none" /\ link = "up" /\ Tail(wsUp) \in Seq(UpFrame)
  BY Delivered, Zenon
<1>3. /\ "none" # "open" /\ "refused" \notin {"none", "open", "stored"} /\ "dialling" \notin {"none", "open", "stored"}
      /\ 0 \in Nat /\ "none" \notin {"handshake", "done", "read", "send"} /\ "WsOpen" \notin {"WsData", "WsClose", "Credit"}
      /\ "ResErr" \in {"WsOpened", "WsData", "WsClose", "ResErr"}
  OBVIOUS
<1>4. /\ stream.writer = "none" /\ stream.pump = "none" /\ ~stream.once /\ ~stream.listed /\ ~stream.closing
      /\ ~stream.cancelled
  BY <1>1, <1>2, <1>3, Zenon DEF Listing, Opening
<1>5. stream.reports + 1 \in Nat /\ Credits \in Int
  BY <1>1, RelayAssumption DEF StreamRecord
<1>6. ASSUME stream' = [stream EXCEPT !.reports = @ + 1, !.status = "refused"],
             wsDown' = Append(wsDown, Frame("ResErr", 0))
      PROVE  RelayIInv'
  <2>1. /\ stream' \in StreamRecord /\ stream'.status = "refused" /\ stream'.listed = stream.listed
        /\ stream'.once = stream.once /\ stream'.cancelled = stream.cancelled /\ stream'.ring = stream.ring
        /\ stream'.closing = stream.closing /\ stream'.writer = stream.writer /\ stream'.held = stream.held
        /\ stream'.pump = stream.pump
    BY <1>1, <1>5, <1>6, Zenon DEF StreamRecord
  <2>2. Frame("ResErr", 0) \in DownFrame /\ Frame("ResErr", 0).t = "ResErr"
    BY <1>3, FramesTyped, ZenonT(40)
  <2>3. wsDown' \in Seq(DownFrame)
    BY <1>1, <1>6, <2>2, DownLane, Zenon
  <2>4. SameQueue
    BY <2>1, Zenon DEF SameQueue
  <2>5. InOrder' /\ CloseAsked'
    BY <2>4, SameQueueKeeps, Zenon
  <2>6. ~stream'.listed /\ ~stream'.once /\ ~stream'.cancelled /\ stream'.writer = "none" /\ stream'.pump = "none"
    BY <1>4, <2>1, Zenon
  <2>7. SocketCreditsConserved'
    BY <2>6, Zenon DEF SocketCreditsConserved
  <2> QED BY <1>1, <1>2, <1>3, <1>6, <2>1, <2>2, <2>3, <2>5, <2>6, <2>7, DeliveryStep, Zenon
<1>7. ASSUME stream' = [stream EXCEPT !.status = "dialling", !.listed = TRUE, !.credits = Credits],
             wsDown' = wsDown
      PROVE  RelayIInv'
  <2>1. /\ stream' \in StreamRecord /\ stream'.status = "dialling" /\ stream'.listed /\ stream'.credits = Credits
        /\ stream'.once = stream.once /\ stream'.cancelled = stream.cancelled /\ stream'.ring = stream.ring
        /\ stream'.closing = stream.closing /\ stream'.writer = stream.writer /\ stream'.held = stream.held
        /\ stream'.pump = stream.pump
    BY <1>1, <1>5, <1>7, Zenon DEF StreamRecord
  <2>2. SameQueue
    BY <2>1, Zenon DEF SameQueue
  <2>3. InOrder' /\ CloseAsked' /\ Taken' = Taken
    BY <2>2, SameQueueKeeps, Zenon
  <2>4. ~stream'.once /\ ~stream'.cancelled /\ stream'.writer = "none" /\ stream'.pump = "none"
    BY <1>4, <2>1, Zenon
  <2>5. Follows(Tail(wsUp), socket.framed, Taken' + Len(stream'.ring))
    <3>1. Follows(wsUp, socket.framed, Taken + Len(stream.ring))
      BY <1>1, <1>2, <1>4, Zenon DEF UnderWay
    <3>2. Taken + Len(stream.ring) \in Nat /\ socket.framed \in Seq(Nat)
      BY <1>1, Positions, Zenon
    <3>3. Follows(Tail(wsUp), socket.framed, Taken + Len(stream.ring))
      BY <1>1, <1>3, <3>1, <3>2, FollowsReceived, Zenon
    <3> QED BY <2>1, <2>3, <3>3, Zenon
  <2>6. SocketCreditsConserved'
    <3>1. Messages(wsDown) = 0
      <4>1. \A i \in 1..Len(wsDown) : wsDown[i].t \in {"WsClose", "ResErr"}
        BY <1>1, <1>2, <1>3, Zenon DEF Opening
      <4>2. wsDown \in Seq(AnyFrame)
        <5>1. \E f : f \in DownFrame
          BY <1>3, FramesTyped, Zenon
        <5> QED BY <1>1, <5>1, DownLane, Zenon
      <4>3. \A i \in 1..Len(wsDown) : wsDown[i].t \notin {"WsData", "Credit"}
        BY <4>1
      <4> QED BY <4>2, <4>3, QuietLane, Zenon
    <3>2. CreditsIn(Tail(wsUp)) = 0
      <4>1. ASSUME NEW i \in 1..Len(Tail(wsUp)) PROVE Tail(wsUp)[i].t \in {"WsOpen", "WsClose"}
        BY <1>1, <1>2, <1>3, Delivered, Zenon DEF Opening
      <4>2. Tail(wsUp) \in Seq(AnyFrame)
        BY <1>2, Delivered, UpLane, Zenon
      <4>3. {"WsOpen", "WsClose"} \cap {"WsData", "Credit"} = {}
        OBVIOUS
      <4>4. \A i \in 1..Len(Tail(wsUp)) : Tail(wsUp)[i].t \notin {"WsData", "Credit"}
        BY <4>1, <4>3, Zenon
      <4> QED BY <4>2, <4>4, QuietLane, Zenon
    <3>3. socket.consumed = 0
      BY <1>1, <1>2, <1>3, Zenon DEF Opening
    <3>4. /\ stream'.credits = Credits /\ (IF stream'.pump \in {"read", "send"} THEN 1 ELSE 0) = 0
          /\ Messages(wsDown') = 0 /\ socket'.consumed = 0 /\ CreditsIn(wsUp') = 0
      BY <1>3, <1>7, <2>1, <2>4, <3>1, <3>2, <3>3, Zenon
    <3>5. Credits + 0 + 0 + 0 + 0 = Credits
      BY <1>5
    <3> QED BY <3>4, <3>5, Zenon DEF SocketCreditsConserved
  <2> QED BY <1>1, <1>2, <1>3, <1>7, <2>1, <2>3, <2>4, <2>5, <2>6, DeliveryStep, Zenon
<1> QED BY <1>6, <1>7, Zenon DEF beginWebSocket

\* closeWebSocket on the delivery goroutine.
LEMMA DeliveryCloses ==
    ASSUME RelayIInv, wsUp # <<>>, wsUp' = Tail(wsUp), UNCHANGED <<socket, link>>, stream.status # "none",
           closeWebSocket(stream, "WsClose")
    PROVE  RelayIInv'
<1>1. RelayTypes /\ Listing /\ stream \in StreamRecord /\ (stream.once => ~stream.listed)
  BY Zenon DEF RelayIInv, RelayTypes, Listing
<1>2. /\ stream' \in StreamRecord /\ upstream' \in UpstreamRecord /\ wsDown' \in Seq(DownFrame)
      /\ stream'.once /\ ~stream'.listed /\ SameDuties(stream', stream)
      /\ upstream'.received = upstream.received
      /\ upstream'.closedBy = "page" => upstream.closedBy = "page"
      /\ \/ wsDown' = wsDown
         \/ link = "up" /\ \E f \in DownFrame : f.t = "WsClose" /\ wsDown' = Append(wsDown, f)
  BY <1>1, CloseTells, Zenon
<1>3. /\ stream'.status = stream.status /\ stream'.conn = stream.conn /\ stream'.writer = stream.writer
      /\ stream'.pump = stream.pump
  BY <1>2, Zenon DEF SameDuties
<1>4. SameQueue
  BY <1>2, Zenon DEF SameQueue, SameDuties
<1>5. InOrder' /\ CloseAsked'
  BY <1>4, SameQueueKeeps, Zenon
<1>6. SocketCreditsConserved'
  BY <1>2, Zenon DEF SocketCreditsConserved
<1>7. /\ stream'.status # "open" => stream.status # "open" /\ stream'.writer = "none" /\ stream'.pump = "none"
      /\ stream'.status \in {"stored", "open"} => stream'.conn
      /\ stream'.status # "none"
  BY <1>1, <1>3, Zenon DEF Listing
<1>8. \/ wsDown' = wsDown
      \/ \E f \in DownFrame : f.t \in {"WsClose", "ResErr"} /\ wsDown' = Append(wsDown, f)
  BY <1>2, Zenon
<1> QED BY <1>2, <1>5, <1>6, <1>7, <1>8, DeliveryStep, Zenon

\* A sequence with an element more at its end.
LEMMA Appended ==
    ASSUME NEW T, NEW s \in Seq(T), NEW x \in T
    PROVE  /\ Append(s, x) \in Seq(T) /\ Len(Append(s, x)) = Len(s) + 1 /\ Append(s, x)[Len(s) + 1] = x
           /\ \A i \in 1..Len(s) : Append(s, x)[i] = s[i] /\ i # Len(s) + 1
           /\ \A i \in 1..(Len(s) + 1) : i = Len(s) + 1 \/ i \in 1..Len(s)
           /\ Append(s, x) # <<>>
<1>1. Len(s) \in Nat /\ Append(s, x) \in Seq(T) /\ Len(Append(s, x)) = Len(s) + 1 /\ Append(s, x)[Len(s) + 1] = x
  OBVIOUS
<1>2. \A i \in 1..Len(s) : Append(s, x)[i] = s[i]
  OBVIOUS
<1>3. /\ \A i \in 1..Len(s) : i # Len(s) + 1
      /\ \A i \in 1..(Len(s) + 1) : i = Len(s) + 1 \/ i \in 1..Len(s)
  BY <1>1
<1>4. Append(s, x) # <<>>
  BY <1>1
<1> QED BY <1>1, <1>2, <1>3, <1>4, Zenon

\* enqueueWrite: a message joins the queue at its position, the page's close after
\* the last message; nothing joins it after a close.
LEMMA EnqueueKeeps ==
    ASSUME RelayIInv, wsUp # <<>>, wsUp' = Tail(wsUp), UNCHANGED <<socket, link, upstream, wsDown>>,
           Head(wsUp).t \in {"WsData", "WsClose"}, stream.listed, stream' = enqueueWrite(stream, Head(wsUp))
    PROVE  RelayIInv'
<1> DEFINE m == Head(wsUp)
<1> DEFINE q == stream.ring
<1> DEFINE f == socket.framed
<1>1. /\ RelayTypes /\ Listing /\ Opening /\ CloseAsked /\ InOrder /\ UnderWay
      /\ stream \in StreamRecord /\ upstream \in UpstreamRecord
      /\ wsDown \in Seq(DownFrame) /\ wsUp \in Seq(UpFrame)
  BY Zenon DEF RelayIInv, RelayTypes
<1>2. /\ link = "up" /\ m \in UpFrame /\ m = wsUp[1] /\ 1 \in 1..Len(wsUp)
      /\ m.t = "WsOpen" <=> stream.status = "none"
  BY Delivered, Zenon
<1>3. /\ "WsOpen" \notin {"WsData", "WsClose"} /\ "Credit" \notin {"WsData", "WsClose"} /\ "WsData" # "WsClose"
      /\ {"none", "idle", "write", "handshake", "done"} \ {"handshake", "done"} = {"none", "idle", "write"}
  OBVIOUS
<1>4. /\ stream.status # "none" /\ ~stream.once /\ ~stream.cancelled /\ m.t # "Credit"
      /\ stream.writer \in {"none", "idle", "write"}
  <2>1. /\ stream.status # "none" /\ ~stream.once /\ ~stream.cancelled /\ stream.writer \notin {"handshake", "done"}
    BY <1>1, <1>2, <1>3, Zenon DEF Listing
  <2>2. stream.writer \in {"none", "idle", "write", "handshake", "done"}
    BY <1>1, Zenon DEF StreamRecord
  <2>3. m.t # "Credit"
    BY <1>3, Zenon
  <2> QED BY <1>3, <2>1, <2>2, <2>3, Zenon
<1>5. /\ stream.status # "open" => stream.writer = "none" /\ stream.pump = "none"
      /\ stream.status \in {"stored", "open"} => stream.conn
  BY <1>1, Zenon DEF Listing
<1>6. CASE stream.closing
  <2>1. stream' = stream
    BY <1>6, Zenon DEF enqueueWrite
  <2>2. SameQueue
    BY <2>1, Zenon DEF SameQueue
  <2>3. InOrder' /\ CloseAsked'
    BY <2>2, SameQueueKeeps, Zenon
  <2>4. SocketCreditsConserved'
    BY <1>4, <2>1, CreditsKept, Zenon
  <2>5. /\ stream' \in StreamRecord /\ upstream' \in UpstreamRecord /\ wsDown' \in Seq(DownFrame) /\ wsDown' = wsDown
        /\ stream'.status # "none" /\ stream'.closing /\ ~stream'.once /\ ~stream'.cancelled
        /\ stream'.writer \notin {"handshake", "done"}
        /\ stream'.status # "open" => stream.status # "open" /\ stream'.writer = "none" /\ stream'.pump = "none"
        /\ stream'.status \in {"stored", "open"} => stream'.conn
    <3>1. stream.writer \notin {"handshake", "done"}
      BY <1>1, <1>4, Zenon DEF Listing
    <3> QED BY <1>1, <1>4, <1>5, <1>6, <2>1, <3>1, Zenon
  <2> QED BY <2>3, <2>4, <2>5, DeliveryStep, Zenon
<1>7. CASE ~stream.closing
  <2>1. /\ q \in Seq(Item) /\ f \in Seq(Nat) /\ Taken \in Nat /\ Len(q) \in Nat /\ Len(f) \in Nat
        /\ Taken + Len(q) \in Nat
    BY <1>1, Positions, Zenon
  <2>2. m \in Item
    BY <1>2, Zenon DEF Item, UpFrame
  <2>3. /\ Append(q, m) \in Seq(Item) /\ Len(Append(q, m)) = Len(q) + 1 /\ Append(q, m)[Len(q) + 1] = m
        /\ \A i \in 1..Len(q) : Append(q, m)[i] = q[i] /\ i # Len(q) + 1
        /\ \A i \in 1..(Len(q) + 1) : i = Len(q) + 1 \/ i \in 1..Len(q)
        /\ Append(q, m) # <<>>
    <3> HIDE DEF q, m
    <3> QED BY <2>1, <2>2, Appended, Zenon
  <2> DEFINE last == m.t = "WsClose"
  <2>4. stream' = [stream EXCEPT !.ring = Append(q, m), !.closing = last]
    BY <1>7, Zenon DEF enqueueWrite
  <2>5. last \in BOOLEAN
    BY Zenon
  <2> HIDE DEF last
  <2>6. /\ stream' \in StreamRecord /\ stream'.ring = Append(q, m) /\ stream'.closing = (m.t = "WsClose")
        /\ stream'.status = stream.status /\ stream'.conn = stream.conn /\ stream'.once = stream.once
        /\ stream'.listed = stream.listed /\ stream'.cancelled = stream.cancelled
        /\ stream'.writer = stream.writer /\ stream'.held = stream.held /\ stream'.pump = stream.pump
        /\ stream'.credits = stream.credits
    <3>1. stream \in StreamRecord /\ Append(q, m) \in Seq(Item) /\ last \in BOOLEAN
      BY <1>1, <2>3, <2>5, Zenon
    <3>2. /\ stream' \in StreamRecord /\ stream'.ring = Append(q, m) /\ stream'.closing = last
          /\ stream'.status = stream.status /\ stream'.conn = stream.conn /\ stream'.once = stream.once
          /\ stream'.listed = stream.listed /\ stream'.cancelled = stream.cancelled
          /\ stream'.writer = stream.writer /\ stream'.held = stream.held /\ stream'.pump = stream.pump
          /\ stream'.credits = stream.credits
      <4> HIDE DEF q, m
      <4> DEFINE a == Append(q, m)
      <4>1. stream \in StreamRecord /\ a \in Seq(Item) /\ last \in BOOLEAN /\ stream' = [stream EXCEPT !.ring = a, !.closing = last]
        BY <2>4, <3>1, Zenon
      <4> HIDE DEF a
      <4>2. stream' \in StreamRecord
        BY <4>1, Zenon DEF StreamRecord
      <4>3. stream'.ring = a /\ stream'.closing = last
        BY <4>1, Zenon DEF StreamRecord
      <4>4. /\ stream'.status = stream.status /\ stream'.conn = stream.conn /\ stream'.once = stream.once
            /\ stream'.listed = stream.listed /\ stream'.cancelled = stream.cancelled
            /\ stream'.writer = stream.writer /\ stream'.held = stream.held /\ stream'.pump = stream.pump
            /\ stream'.credits = stream.credits
        BY <4>1, Zenon DEF StreamRecord
      <4> QED BY <4>2, <4>3, <4>4, Zenon DEF a
    <3> QED BY <3>2, Zenon DEF last
  <2>7. Follows(wsUp, f, Taken + Len(q))
    BY <1>1, <1>2, <1>7, Zenon DEF UnderWay
  <2>8. /\ m.t = "WsData" => /\ Taken + Len(q) + 1 <= Len(f) /\ f[Taken + Len(q) + 1] = m.n
                             /\ Follows(Tail(wsUp), f, Taken + Len(q) + 1)
        /\ m.t = "WsClose" => Taken + Len(q) = Len(f)
    BY <1>1, <2>1, <2>7, FollowsReceived, Zenon
  <2>9. Taken' = Taken
    BY <2>6, Zenon DEF Taken
  <2>10. /\ Taken + (Len(q) + 1) = Taken + Len(q) + 1 /\ Taken + (Len(q) + 1) - 1 = Taken + Len(q)
    <3>1. \A a, b \in Nat : a + (b + 1) = a + b + 1 /\ a + (b + 1) - 1 = a + b
      OBVIOUS
    <3> QED BY <2>1, <3>1, Zenon
  <2> HIDE DEF m, q, f
  <2>11. InOrder'
    <3>1. ASSUME NEW i \in 1..(Len(q) + 1), Append(q, m)[i].t = "WsData"
          PROVE  Taken + i <= Len(f) /\ f[Taken + i] = Append(q, m)[i].n
      <4>1. CASE i = Len(q) + 1
        <5>1. m.t = "WsData"
          BY <2>3, <3>1, <4>1, Zenon
        <5> QED BY <2>3, <2>8, <2>10, <4>1, <5>1, Zenon
      <4>2. CASE i \in 1..Len(q)
        <5>1. q[i].t = "WsData" => Taken + i <= Len(f) /\ f[Taken + i] = q[i].n
          BY <1>1, <1>4, <4>2, Zenon DEF InOrder, q, f
        <5> QED BY <2>3, <3>1, <4>2, <5>1, Zenon
      <4> QED BY <2>3, <4>1, <4>2, Zenon
    <3>2. stream'.closing => Len(f) = Taken + Len(Append(q, m)) - 1
      BY <2>3, <2>6, <2>8, <2>10, Zenon
    <3>3. /\ Len(upstream.received) <= Len(f) /\ \A i \in 1..Len(upstream.received) : upstream.received[i] = f[i]
          /\ stream.writer = "write" => Taken <= Len(f) /\ f[Taken] = stream.held
          /\ stream.writer = "handshake" \/ upstream.closedBy = "page" => upstream.received = f
      BY <1>1, Zenon DEF InOrder, f
    <3>4. socket'.framed = f /\ upstream' = upstream
      BY Zenon DEF f
    <3>5. ASSUME NEW i \in 1..Len(stream'.ring), stream'.ring[i].t = "WsData"
          PROVE  Taken' + i <= Len(f) /\ f[Taken' + i] = stream'.ring[i].n
      <4>1. stream'.ring = Append(q, m) /\ Len(stream'.ring) = Len(q) + 1
        BY <2>3, <2>6, Zenon
      <4>2. i \in 1..(Len(q) + 1) /\ Append(q, m)[i].t = "WsData"
        BY <3>5, <4>1, Zenon
      <4>3. Taken + i <= Len(f) /\ f[Taken + i] = Append(q, m)[i].n
        BY <3>1, <4>2, Zenon
      <4> QED BY <2>9, <4>1, <4>3, Zenon
    <3>6. stream'.closing => Len(f) = Taken' + Len(stream'.ring) - 1
      BY <2>6, <2>9, <3>2, Zenon
    <3>7. /\ Len(upstream'.received) <= Len(socket'.framed)
          /\ \A i \in 1..Len(upstream'.received) : upstream'.received[i] = socket'.framed[i]
      BY <3>3, <3>4, Zenon
    <3>8. stream'.writer = "write" => Taken' <= Len(socket'.framed) /\ socket'.framed[Taken'] = stream'.held
      BY <2>6, <2>9, <3>3, <3>4, Zenon
    <3>9. \A i \in 1..Len(stream'.ring) : stream'.ring[i].t = "WsData" =>
             Taken' + i <= Len(socket'.framed) /\ socket'.framed[Taken' + i] = stream'.ring[i].n
      BY <3>4, <3>5, Zenon
    <3>10. stream'.writer = "handshake" \/ upstream'.closedBy = "page" => upstream'.received = socket'.framed
      BY <2>6, <3>3, <3>4, Zenon
    <3>11. stream'.closing => Len(socket'.framed) = Taken' + Len(stream'.ring) - 1
      BY <3>4, <3>6, Zenon
    <3> QED BY <3>7, <3>8, <3>9, <3>10, <3>11, ZenonT(40) DEF InOrder
  <2>12. CloseAsked'
    <3>1. ASSUME NEW i \in 1..Len(Tail(wsUp)), Tail(wsUp)[i].t = "WsClose" PROVE socket.state \in {"closing", "closed"}
      BY <1>1, <3>1, Delivered, Zenon DEF CloseAsked
    <3>2. m.t = "WsClose" => socket.state \in {"closing", "closed"}
      BY <1>1, <1>2, Zenon DEF CloseAsked
    <3>3. stream.writer = "handshake" \/ upstream.closedBy = "page" => socket.state \in {"closing", "closed"}
      BY <1>1, Zenon DEF CloseAsked
    <3>4. \A i \in 1..Len(q) : q[i].t # "WsClose"
      BY <1>1, <1>7, Zenon DEF CloseAsked, q
    <3>5. ASSUME NEW i \in 1..(Len(q) + 1)
          PROVE  Append(q, m)[i].t = "WsClose" <=> i = Len(q) + 1 /\ m.t = "WsClose"
      BY <2>3, <3>4, Zenon
    <3>6. ASSUME NEW i \in 1..Len(stream'.ring)
          PROVE  stream'.ring[i].t = "WsClose" <=> i = Len(stream'.ring) /\ stream'.closing
      <4>1. stream'.ring = Append(q, m) /\ Len(stream'.ring) = Len(q) + 1 /\ stream'.closing = (m.t = "WsClose")
        BY <2>3, <2>6, Zenon
      <4>2. i \in 1..(Len(q) + 1)
        BY <3>6, <4>1, Zenon
      <4> QED BY <3>5, <4>1, <4>2, Zenon
    <3>7. stream'.closing \/ stream'.writer = "handshake" \/ upstream'.closedBy = "page"
             => socket.state \in {"closing", "closed"}
      BY <2>6, <3>2, <3>3, Zenon
    <3> QED BY <3>1, <3>6, <3>7, Zenon DEF CloseAsked
  <2>13. SocketCreditsConserved'
    BY <1>4, <2>6, CreditsKept, Zenon DEF m
  <2>14. stream'.listed /\ ~stream'.closing => Follows(Tail(wsUp), f, Taken' + Len(stream'.ring))
    <3>1. ~stream'.closing => m.t = "WsData"
      BY <2>6, Zenon DEF m
    <3>2. Taken' + Len(stream'.ring) = Taken + Len(q) + 1
      BY <2>3, <2>6, <2>9, <2>10, Zenon
    <3> QED BY <2>8, <3>1, <3>2, Zenon
  <2>15. /\ stream'.status # "none" /\ ~stream'.once /\ ~stream'.cancelled /\ stream'.writer \notin {"handshake", "done"}
         /\ stream'.status # "open" => stream.status # "open" /\ stream'.writer = "none" /\ stream'.pump = "none"
         /\ stream'.status \in {"stored", "open"} => stream'.conn
    <3>1. stream.writer \notin {"handshake", "done"}
      BY <1>1, <1>4, Zenon DEF Listing
    <3> QED BY <1>4, <1>5, <2>6, <3>1, Zenon
  <2>16. upstream' \in UpstreamRecord /\ wsDown' \in Seq(DownFrame) /\ wsDown' = wsDown
    BY <1>1, Zenon
  <2> QED BY <2>6, <2>11, <2>12, <2>13, <2>14, <2>15, <2>16, DeliveryStep, Zenon DEF f
<1> QED BY <1>6, <1>7, Zenon

\* OnMessage, every kind of frame.
LEMMA OnMessageKeeps ==
    ASSUME RelayIInv, OnMessage
    PROVE  RelayIInv'
<1> DEFINE m == Head(wsUp)
<1>1. /\ RelayTypes /\ Listing /\ Opening /\ SocketCreditsConserved
      /\ stream \in StreamRecord /\ upstream \in UpstreamRecord
      /\ wsDown \in Seq(DownFrame) /\ wsUp \in Seq(UpFrame)
  BY Zenon DEF RelayIInv, RelayTypes
<1>2. wsUp # <<>> /\ wsUp' = Tail(wsUp) /\ socket' = socket /\ link' = link
  BY Zenon DEF OnMessage
<1>3. link = "up" /\ m \in UpFrame /\ m = wsUp[1] /\ 1 \in 1..Len(wsUp) /\ (m.t = "WsOpen" <=> stream.status = "none")
  BY <1>2, Delivered, Zenon
<1>4. /\ "WsData" \notin {"WsOpen", "WsClose"} /\ "WsClose" # "WsOpen" /\ "Credit" \notin {"WsOpen", "WsData", "WsClose"}
  OBVIOUS
<1>5. /\ stream.status # "open" => stream.writer = "none" /\ stream.pump = "none"
      /\ stream.status \in {"stored", "open"} => stream.conn
      /\ stream.once => ~stream.listed
      /\ stream.cancelled => stream.once /\ (stream.writer \in {"handshake", "done"} => stream.once)
      /\ stream.writer \in {"handshake", "done"} => stream.once
  BY <1>1, Zenon DEF Listing
<1>6. CASE m.t = "WsOpen" /\ beginWebSocket /\ UNCHANGED upstream
  BY <1>2, <1>6, BeginKeeps, Zenon
<1>7. CASE /\ m.t # "WsOpen" /\ (~stream.listed \/ (m.t = "WsData" /\ ~stream.conn))
           /\ UNCHANGED <<stream, wsDown, upstream>>
  <2>1. ~stream.listed
    <3>1. m.t = "WsData" => stream.status = "open"
      <4>1. stream.status # "open" => \A i \in 1..Len(wsUp) : wsUp[i].t \in {"WsOpen", "WsClose"}
        BY <1>1, Zenon DEF Opening
      <4>2. stream.status # "open" => wsUp[1].t \in {"WsOpen", "WsClose"}
        BY <1>3, <4>1, Zenon
      <4>3. m.t = wsUp[1].t
        BY <1>3, Zenon
      <4> QED BY <1>4, <4>2, <4>3, Zenon
    <3> QED BY <1>5, <1>7, <3>1, Zenon
  <2>2. stream' = stream /\ wsDown' = wsDown /\ upstream' = upstream /\ stream.status # "none"
    BY <1>3, <1>4, <1>7, Zenon
  <2>3. SameQueue
    BY <2>2, Zenon DEF SameQueue
  <2>4. InOrder' /\ CloseAsked'
    BY <1>2, <2>3, SameQueueKeeps, Zenon
  <2>5. SocketCreditsConserved'
    BY <2>1, <2>2, Zenon DEF SocketCreditsConserved
  <2>6. /\ stream' \in StreamRecord /\ upstream' \in UpstreamRecord /\ wsDown' \in Seq(DownFrame) /\ wsDown' = wsDown
        /\ stream'.status # "none" /\ ~stream'.listed
        /\ stream'.status # "open" => stream.status # "open" /\ stream'.writer = "none" /\ stream'.pump = "none"
        /\ stream'.status \in {"stored", "open"} => stream'.conn
        /\ stream'.cancelled => stream'.once
        /\ stream'.writer \in {"handshake", "done"} => stream'.once
    <3>1. stream.cancelled => stream.once
      BY <1>1, Zenon DEF Listing
    <3> QED BY <1>1, <1>5, <2>1, <2>2, <3>1, Zenon
  <2> QED BY <1>2, <2>4, <2>5, <2>6, DeliveryStep, Zenon
<1>8. CASE /\ m.t = "WsData" /\ stream.listed /\ stream.conn
           /\ IF QueueFull(stream)
              THEN closeWebSocket(stream, "WsClose")
              ELSE stream' = enqueueWrite(stream, m) /\ UNCHANGED <<wsDown, upstream>>
  <2>1. stream.status # "none" /\ m.t \in {"WsData", "WsClose"}
    BY <1>3, <1>4, <1>8, Zenon
  <2> QED BY <1>2, <1>8, <2>1, DeliveryCloses, EnqueueKeeps, Zenon
<1>9. CASE /\ m.t = "WsClose" /\ stream.listed
           /\ IF ~stream.conn
              THEN closeWebSocket(stream, "WsClose")
              ELSE stream' = enqueueWrite(stream, m) /\ UNCHANGED <<wsDown, upstream>>
  <2>1. stream.status # "none" /\ m.t \in {"WsData", "WsClose"}
    BY <1>3, <1>4, <1>9, Zenon
  <2> QED BY <1>2, <1>9, <2>1, DeliveryCloses, EnqueueKeeps, Zenon
<1>10. CASE /\ m.t = "Credit" /\ stream.listed
            /\ stream' = [stream EXCEPT !.credits = @ + m.n]
            /\ UNCHANGED <<wsDown, upstream>>
  <2>1. stream.credits \in Int /\ m.n \in Nat
    BY <1>1, <1>3, Zenon DEF StreamRecord, UpFrame
  <2>2. stream.credits + m.n \in Int
    BY <2>1
  <2>3. /\ stream' \in StreamRecord /\ stream'.status = stream.status /\ stream'.listed = stream.listed
        /\ stream'.once = stream.once /\ stream'.cancelled = stream.cancelled /\ stream'.ring = stream.ring
        /\ stream'.closing = stream.closing /\ stream'.writer = stream.writer /\ stream'.held = stream.held
        /\ stream'.pump = stream.pump /\ stream'.conn = stream.conn /\ stream'.credits = stream.credits + m.n
    BY <1>1, <1>10, <2>2, Zenon DEF StreamRecord
  <2>4. SameQueue
    BY <1>10, <2>3, Zenon DEF SameQueue
  <2>5. InOrder' /\ CloseAsked' /\ Taken' = Taken
    BY <1>2, <2>4, SameQueueKeeps, Zenon
  <2>6. stream'.listed /\ ~stream'.closing => Follows(Tail(wsUp), socket.framed, Taken' + Len(stream'.ring))
    <3>1. ~stream.closing => Follows(wsUp, socket.framed, Taken + Len(stream.ring))
      BY <1>3, <1>10, Zenon DEF RelayIInv, UnderWay
    <3>2. Taken + Len(stream.ring) \in Nat /\ socket.framed \in Seq(Nat)
      BY <1>1, Positions, Zenon
    <3>3. ~stream.closing => Follows(Tail(wsUp), socket.framed, Taken + Len(stream.ring))
      BY <1>1, <1>2, <1>4, <1>10, <3>1, <3>2, FollowsReceived, Zenon
    <3> QED BY <2>3, <2>5, <3>3, Zenon
  <2>7. SocketCreditsConserved'
    <3> DEFINE h == IF stream.pump \in {"read", "send"} THEN 1 ELSE 0
    <3>1. CreditsIn(wsUp) \in Int /\ CreditsIn(Tail(wsUp)) = CreditsIn(wsUp) - m.n
      BY <1>1, <1>2, <1>3, <1>10, UpLane, Zenon
    <3>2. Messages(wsDown) \in Int
      <4>1. \E f : f \in DownFrame
        <5>1. 0 \in Nat
          OBVIOUS
        <5> QED BY <5>1, FramesTyped, Zenon
      <4> QED BY <1>1, <4>1, DownLane, Zenon
    <3>3. socket.consumed \in Nat
      BY <1>1, Zenon DEF RelayTypes, SocketRecord
    <3>4. h \in Int
      OBVIOUS
    <3> HIDE DEF h
    <3>5. /\ stream'.credits = stream.credits + m.n /\ (IF stream'.pump \in {"read", "send"} THEN 1 ELSE 0) = h
          /\ Messages(wsDown') = Messages(wsDown) /\ socket'.consumed = socket.consumed
          /\ CreditsIn(wsUp') = CreditsIn(wsUp) - m.n
      BY <1>2, <1>10, <2>3, <3>1, Zenon DEF h
    <3>6. (stream.credits + m.n) + h + Messages(wsDown) + socket.consumed + (CreditsIn(wsUp) - m.n)
            = stream.credits + h + Messages(wsDown) + socket.consumed + CreditsIn(wsUp)
      <4> HIDE DEF m
      <4> QED BY <2>1, <3>1, <3>2, <3>3, <3>4
    <3>7. socket.listed /\ link = "up" =>
            stream.credits + h + Messages(wsDown) + socket.consumed + CreditsIn(wsUp) = Credits
      BY <1>1, <1>10, Zenon DEF SocketCreditsConserved, h
    <3> QED BY <1>2, <3>5, <3>6, <3>7, Zenon DEF SocketCreditsConserved
  <2>8. /\ upstream' \in UpstreamRecord /\ wsDown' \in Seq(DownFrame) /\ wsDown' = wsDown
        /\ stream'.status # "none"
        /\ stream'.status # "open" => stream.status # "open" /\ stream'.writer = "none" /\ stream'.pump = "none"
        /\ stream'.status \in {"stored", "open"} => stream'.conn
        /\ ~stream'.once /\ ~stream'.cancelled /\ stream'.writer \notin {"handshake", "done"}
    <3>1. ~stream.once /\ ~stream.cancelled /\ stream.writer \notin {"handshake", "done"} /\ stream.status # "none"
      BY <1>1, <1>3, <1>4, <1>10, Zenon DEF Listing
    <3> QED BY <1>1, <1>5, <1>10, <2>3, <3>1, Zenon
  <2> QED BY <1>2, <2>3, <2>5, <2>6, <2>7, <2>8, DeliveryStep, Zenon
<1> QED BY <1>6, <1>7, <1>8, <1>9, <1>10, Zenon DEF OnMessage

-----------------------------------------------------------------------------
(* The page.                                                                  *)
\* What the page may send, and when.
PageSends(f) ==
    /\ link = "up" /\ wsUp' = Append(wsUp, f)
    /\ \/ f.t = "WsOpen" /\ socket.state = "none" /\ socket'.framed = socket.framed
       \/ /\ f.t = "WsClose" /\ socket.state # "none" /\ socket'.framed = socket.framed
          /\ socket'.state \in {"closing", "closed"}
       \/ f.t = "Credit" /\ stream.status = "open" /\ socket'.framed = socket.framed
       \/ f.t = "WsData" /\ socket.state = "open" /\ socket'.framed = Append(socket.framed, f.n)

\* What a step of the page has to keep up.
LEMMA PageStep ==
    ASSUME RelayIInv, UNCHANGED <<stream, upstream, link>>, socket' \in SocketRecord,
           socket'.listed <=> socket'.state \in {"connecting", "open", "closing"},
           socket'.listed => socket.listed \/ link = "up",
           socket.state \in {"closing", "closed"} => socket'.state \in {"closing", "closed"},
           socket'.state = "none" => socket.state = "none",
           socket'.state = "open" => stream.status = "open",
           stream.status # "open" => socket'.blobs = {} /\ socket'.consumed = 0,
           \/ wsUp' = wsUp /\ socket'.framed = socket.framed /\ (link = "up" /\ socket.state = "none" => socket'.state = "none")
           \/ socket'.state # "none" /\ \E f \in UpFrame : PageSends(f),
           \/ wsDown' = wsDown
           \/ wsDown # <<>> /\ wsDown' = Tail(wsDown),
           SocketCreditsConserved'
    PROVE  RelayIInv'
<1>1. /\ RelayTypes /\ Listing /\ Opening /\ CloseAsked /\ InOrder /\ UnderWay
      /\ wsDown \in Seq(DownFrame) /\ wsUp \in Seq(UpFrame)
  BY Zenon DEF RelayIInv, RelayTypes
<1>2. /\ "WsOpen" \notin {"WsClose", "WsData", "Credit"} /\ "WsClose" # "WsData" /\ "up" # "down" /\ "none" # "open"
      /\ "Credit" \notin {"WsClose", "WsData"} /\ "open" \notin {"closing", "closed"}
  OBVIOUS
<1>3. /\ stream' = stream /\ upstream' = upstream /\ link' = link
  BY Zenon
<1>4. /\ wsDown' \in Seq(DownFrame)
      /\ stream.status # "open" => \A i \in 1..Len(wsDown') : wsDown'[i].t \in {"WsClose", "ResErr"}
      /\ wsDown = <<>> => wsDown' = <<>>
  <2>1. stream.status # "open" => \A i \in 1..Len(wsDown) : wsDown[i].t \in {"WsClose", "ResErr"}
    BY <1>1, Zenon DEF Opening
  <2>2. CASE wsDown' = wsDown
    BY <1>1, <2>1, <2>2, Zenon
  <2>3. CASE wsDown # <<>> /\ wsDown' = Tail(wsDown)
    <3>1. Tail(wsDown) \in Seq(DownFrame) /\ \A i \in 1..Len(Tail(wsDown)) : Tail(wsDown)[i] = wsDown[i + 1] /\ i + 1 \in 1..Len(wsDown)
      BY <1>1, <2>3
    <3> QED BY <2>1, <2>3, <3>1, Zenon
  <2> QED BY <2>2, <2>3, Zenon
<1>5. /\ wsUp' \in Seq(UpFrame)
      /\ wsUp' = wsUp \/ link = "up"
      /\ (\E f \in UpFrame : PageSends(f)) => wsUp' # <<>>
      /\ \A i \in 1..Len(wsUp') : \/ i \in 1..Len(wsUp) /\ wsUp'[i] = wsUp[i]
                                  \/ \E f \in UpFrame : i = Len(wsUp) + 1 /\ wsUp'[i] = f /\ PageSends(f)
  <2>1. ASSUME wsUp' = wsUp
        PROVE  wsUp' \in Seq(UpFrame) /\ \A i \in 1..Len(wsUp') : i \in 1..Len(wsUp) /\ wsUp'[i] = wsUp[i]
    BY <1>1, <2>1, Zenon
  <2>2. ASSUME NEW f \in UpFrame, PageSends(f)
        PROVE  /\ wsUp' \in Seq(UpFrame)
               /\ link = "up" /\ wsUp' # <<>>
               /\ \A i \in 1..Len(wsUp') : \/ i \in 1..Len(wsUp) /\ wsUp'[i] = wsUp[i]
                                           \/ i = Len(wsUp) + 1 /\ wsUp'[i] = f
    <3>1. wsUp' = Append(wsUp, f) /\ link = "up"
      BY <2>2, Zenon DEF PageSends
    <3> DEFINE more == Append(wsUp, f)
    <3>2. wsUp \in Seq(UpFrame) /\ f \in UpFrame
      BY <1>1, <2>2, Zenon
    <3>3. more \in Seq(UpFrame) /\ Len(more) = Len(wsUp) + 1 /\ more # <<>>
      BY <3>2
    <3>4. ASSUME NEW i \in 1..(Len(wsUp) + 1)
          PROVE  \/ i \in 1..Len(wsUp) /\ more[i] = wsUp[i]
                 \/ i = Len(wsUp) + 1 /\ more[i] = f
      BY <3>2
    <3>5. wsUp' = more
      BY <3>1, Zenon
    <3> HIDE DEF more
    <3>6. ASSUME NEW i \in 1..Len(wsUp')
          PROVE  \/ i \in 1..Len(wsUp) /\ wsUp'[i] = wsUp[i]
                 \/ i = Len(wsUp) + 1 /\ wsUp'[i] = f
      <4>1. i \in 1..(Len(wsUp) + 1)
        BY <3>3, <3>5, <3>6, Zenon
      <4> QED BY <3>4, <3>5, <4>1, Zenon
    <3>7. wsUp' \in Seq(UpFrame) /\ wsUp' # <<>>
      BY <3>3, <3>5, Zenon
    <3>8. link = "up"
      BY <3>1, Zenon
    <3>9. \A i \in 1..Len(wsUp') : \/ i \in 1..Len(wsUp) /\ wsUp'[i] = wsUp[i]
                                   \/ i = Len(wsUp) + 1 /\ wsUp'[i] = f
      BY <3>6
    <3> QED BY <3>7, <3>8, <3>9
  <2>3. CASE \E f \in UpFrame : PageSends(f)
    <3>1. PICK f \in UpFrame : PageSends(f)
      BY <2>3, Zenon
    <3>2. /\ wsUp' \in Seq(UpFrame) /\ link = "up" /\ wsUp' # <<>>
      BY <2>2, <3>1, Zenon
    <3>3. ASSUME NEW i \in 1..Len(wsUp')
          PROVE  \/ i \in 1..Len(wsUp) /\ wsUp'[i] = wsUp[i]
                 \/ \E g \in UpFrame : i = Len(wsUp) + 1 /\ wsUp'[i] = g /\ PageSends(g)
      <4>1. \/ i \in 1..Len(wsUp) /\ wsUp'[i] = wsUp[i]
            \/ i = Len(wsUp) + 1 /\ wsUp'[i] = f
        BY <2>2, <3>1, <3>3, Zenon
      <4> QED BY <3>1, <4>1, Zenon
    <3> QED BY <3>2, <3>3, Zenon
  <2>4. CASE ~\E f \in UpFrame : PageSends(f)
    <3>1. wsUp' = wsUp
      BY <2>4, Zenon
    <3>2. wsUp' \in Seq(UpFrame) /\ \A i \in 1..Len(wsUp') : i \in 1..Len(wsUp) /\ wsUp'[i] = wsUp[i]
      BY <2>1, <3>1, Zenon
    <3> QED BY <2>4, <3>1, <3>2, Zenon
  <2> QED BY <2>3, <2>4, Zenon
<1>6. RelayTypes'
  BY <1>1, <1>3, <1>4, <1>5, Zenon DEF RelayTypes
<1>7. Listing'
  BY <1>1, <1>2, <1>3, <1>4, <1>5, Zenon DEF Listing
<1>8. Opening'
  <2>1. ASSUME NEW i \in 1..Len(wsUp') PROVE wsUp'[i].t = "WsOpen" <=> i = 1 /\ stream.status = "none"
    <3>1. CASE i \in 1..Len(wsUp) /\ wsUp'[i] = wsUp[i]
      <4>1. \A k \in 1..Len(wsUp) : wsUp[k].t = "WsOpen" <=> k = 1 /\ stream.status = "none"
        BY <1>1, Zenon DEF Opening
      <4>2. wsUp[i].t = "WsOpen" <=> i = 1 /\ stream.status = "none"
        BY <3>1, <4>1, Zenon
      <4> QED BY <3>1, <4>2, Zenon
    <3>2. ASSUME NEW f \in UpFrame, i = Len(wsUp) + 1, wsUp'[i] = f, PageSends(f)
          PROVE  wsUp'[i].t = "WsOpen" <=> i = 1 /\ stream.status = "none"
      <4>1. CASE f.t = "WsOpen"
        <5>1. socket.state = "none"
          BY <1>2, <3>2, <4>1, Zenon DEF PageSends
        <5>2. wsUp = <<>> /\ stream.status = "none"
          BY <1>1, <5>1, ZenonT(40) DEF Opening
        <5>3. Len(<<>>) + 1 = 1
          OBVIOUS
        <5> QED BY <3>2, <4>1, <5>2, <5>3, Zenon
      <4>2. CASE f.t # "WsOpen"
        <5>1. socket.state # "none" \/ stream.status = "open"
          BY <3>2, <4>2, Zenon DEF PageSends
        <5>2. stream.status = "none" => wsUp # <<>>
          BY <1>1, <1>2, <3>2, <5>1, Zenon DEF Opening, PageSends
        <5>3. wsUp # <<>> => Len(wsUp) + 1 # 1
          BY <1>1
        <5> QED BY <3>2, <4>2, <5>2, <5>3, Zenon
      <4> QED BY <4>1, <4>2, Zenon
    <3> QED BY <1>5, <3>1, <3>2, Zenon
  <2>2. socket'.state = "none" => wsUp' = <<>> /\ stream.status = "none"
    BY <1>1, Zenon DEF Opening
  <2>3. stream.status = "none" /\ link = "up" /\ socket'.state # "none" => wsUp' # <<>>
    <3>1. stream.status = "none" /\ link = "up" /\ socket.state # "none" => wsUp # <<>>
      BY <1>1, Zenon DEF Opening
    <3> QED BY <1>5, <3>1, Zenon
  <2>4. stream.status # "open" => /\ socket'.state # "open" /\ socket'.framed = <<>>
                                  /\ socket'.blobs = {} /\ socket'.consumed = 0
    <3>1. stream.status # "open" => socket.framed = <<>> /\ socket.state # "open"
      BY <1>1, Zenon DEF Opening
    <3> QED BY <3>1, Zenon DEF PageSends
  <2>5. ASSUME stream.status # "open", NEW i \in 1..Len(wsUp') PROVE wsUp'[i].t \in {"WsOpen", "WsClose"}
    <3>1. socket.state # "open" /\ \A k \in 1..Len(wsUp) : wsUp[k].t \in {"WsOpen", "WsClose"}
      BY <1>1, <2>5, Zenon DEF Opening
    <3> QED BY <1>5, <2>5, <3>1, Zenon DEF PageSends
  <2>6. stream.status = "none" => /\ ~stream.listed /\ ~stream.once /\ ~stream.closing
                                  /\ stream.ring = <<>> /\ upstream.received = <<>>
    BY <1>1, Zenon DEF Opening
  <2> QED BY <1>3, <1>4, <2>1, <2>2, <2>3, <2>4, <2>5, <2>6, Zenon DEF Opening
<1>9. CloseAsked'
  <2>1. ASSUME NEW i \in 1..Len(wsUp'), wsUp'[i].t = "WsClose" PROVE socket'.state \in {"closing", "closed"}
    <3>1. ASSUME NEW k \in 1..Len(wsUp), wsUp[k].t = "WsClose" PROVE socket.state \in {"closing", "closed"}
      BY <1>1, <3>1, Zenon DEF CloseAsked
    <3>2. ASSUME NEW f \in UpFrame, f.t = "WsClose", PageSends(f) PROVE socket'.state \in {"closing", "closed"}
      BY <1>2, <3>2, Zenon DEF PageSends
    <3> QED BY <1>5, <2>1, <3>1, <3>2, Zenon
  <2>2. stream.closing \/ stream.writer = "handshake" \/ upstream.closedBy = "page"
          => socket.state \in {"closing", "closed"}
    BY <1>1, Zenon DEF CloseAsked
  <2>3. \A i \in 1..Len(stream.ring) : stream.ring[i].t = "WsClose" <=> i = Len(stream.ring) /\ stream.closing
    BY <1>1, Zenon DEF CloseAsked
  <2> QED BY <1>3, <2>1, <2>2, <2>3, Zenon DEF CloseAsked
<1>10. /\ socket.framed \in Seq(Nat) /\ socket'.framed \in Seq(Nat) /\ Taken \in Nat /\ Len(stream.ring) \in Nat
       /\ Taken + Len(stream.ring) \in Nat /\ Len(socket.framed) \in Nat /\ upstream.received \in Seq(Nat)
  BY <1>1, Positions, Zenon DEF SocketRecord, RelayTypes, UpstreamRecord
<1>11. /\ Len(socket.framed) <= Len(socket'.framed)
       /\ \A i \in 1..Len(socket.framed) : socket'.framed[i] = socket.framed[i]
       /\ socket.state # "open" => socket'.framed = socket.framed
  <2>1. CASE socket'.framed = socket.framed
    BY <1>10, <2>1
  <2>2. ASSUME NEW f \in UpFrame, socket.state = "open", socket'.framed = Append(socket.framed, f.n)
        PROVE  /\ Len(socket.framed) <= Len(socket'.framed)
               /\ \A i \in 1..Len(socket.framed) : socket'.framed[i] = socket.framed[i]
    <3>1. f.n \in Nat
      BY <2>2, Zenon DEF UpFrame
    <3> QED BY <1>10, <2>2, <3>1
  <2> QED BY <2>1, <2>2, Zenon DEF PageSends
<1> DEFINE g == socket'.framed
<1> DEFINE f == socket.framed
<1>12. Taken' = Taken
  BY <1>3, Zenon DEF Taken
<1>13. stream.closing \/ stream.writer = "handshake" \/ upstream.closedBy = "page" => g = f
  BY <1>1, <1>2, <1>11, Zenon DEF CloseAsked
<1>14. ASSUME NEW i \in Nat, i > 0, i <= Len(f) PROVE i <= Len(g) /\ g[i] = f[i]
  <2>1. Len(f) <= Len(g) /\ Len(f) \in Nat /\ Len(g) \in Nat
    BY <1>10, <1>11
  <2> HIDE DEF f, g
  <2>2. i \in 1..Len(f) /\ i <= Len(g)
    BY <1>14, <2>1
  <2> QED BY <1>11, <2>2, Zenon DEF f, g
<1>15. InOrder'
  <2>1. /\ Len(upstream.received) <= Len(g) /\ \A i \in 1..Len(upstream.received) : upstream.received[i] = g[i]
    <3>1. Len(upstream.received) \in Nat /\ Len(upstream.received) <= Len(f) /\ Len(f) <= Len(g) /\ Len(f) \in Nat /\ Len(g) \in Nat
      <4>1. Len(upstream.received) <= Len(f)
        BY <1>1, Zenon DEF InOrder
      <4> QED BY <1>10, <1>11, <4>1
    <3> HIDE DEF f, g
    <3>2. Len(upstream.received) <= Len(g)
      BY <3>1
    <3>3. ASSUME NEW i \in 1..Len(upstream.received) PROVE upstream.received[i] = g[i]
      <4>1. i \in Nat /\ i > 0 /\ i <= Len(f)
        BY <3>1
      <4>2. upstream.received[i] = f[i]
        BY <1>1, Zenon DEF InOrder, f
      <4> QED BY <1>14, <4>1, <4>2, Zenon
    <3> QED BY <3>2, <3>3, Zenon
  <2>2. stream.writer = "write" => Taken <= Len(g) /\ g[Taken] = stream.held
    <3> SUFFICES ASSUME stream.writer = "write" PROVE Taken <= Len(g) /\ g[Taken] = stream.held
      BY Zenon
    <3>1. Taken <= Len(f) /\ f[Taken] = stream.held
      BY <1>1, Zenon DEF InOrder
    <3>2. Taken > 0
      <4>1. Taken = Len(upstream.received) + 1
        BY Zenon DEF Taken
      <4>2. Len(upstream.received) \in Nat
        BY <1>10
      <4> QED BY <4>1, <4>2
    <3> QED BY <1>10, <1>14, <3>1, <3>2, Zenon
  <2>3. ASSUME stream.writer \in {"none", "idle", "write"}, NEW i \in 1..Len(stream.ring), stream.ring[i].t = "WsData"
        PROVE  Taken + i <= Len(g) /\ g[Taken + i] = stream.ring[i].n
    <3>1. Taken + i <= Len(f) /\ f[Taken + i] = stream.ring[i].n
      BY <1>1, <2>3, Zenon DEF InOrder
    <3>2. Taken + i \in Nat /\ Taken + i > 0
      BY <1>10
    <3> QED BY <1>14, <3>1, <3>2, Zenon
  <2>4. stream.writer \in {"none", "idle", "write"} =>
          (stream.ring # <<>> /\ stream.closing => Len(g) = Taken + Len(stream.ring) - 1)
    BY <1>1, <1>13, Zenon DEF InOrder
  <2>5. stream.writer = "handshake" \/ upstream.closedBy = "page" => upstream.received = g
    BY <1>1, <1>13, Zenon DEF InOrder
  <2> HIDE DEF Taken
  <2>6. /\ Len(upstream'.received) <= Len(socket'.framed)
        /\ \A i \in 1..Len(upstream'.received) : upstream'.received[i] = socket'.framed[i]
    BY <1>3, <2>1, Zenon
  <2>7. stream'.writer = "write" => Taken' <= Len(socket'.framed) /\ socket'.framed[Taken'] = stream'.held
    BY <1>3, <1>12, <2>2, Zenon
  <2>8. ASSUME stream'.writer \in {"none", "idle", "write"}
        PROVE  /\ \A i \in 1..Len(stream'.ring) : stream'.ring[i].t = "WsData" =>
                     Taken' + i <= Len(socket'.framed) /\ socket'.framed[Taken' + i] = stream'.ring[i].n
               /\ stream'.ring # <<>> /\ stream'.closing => Len(socket'.framed) = Taken' + Len(stream'.ring) - 1
    <3>1. stream.writer \in {"none", "idle", "write"}
      BY <1>3, <2>8, Zenon
    <3>2. \A i \in 1..Len(stream.ring) : stream.ring[i].t = "WsData" => Taken + i <= Len(g) /\ g[Taken + i] = stream.ring[i].n
      BY <2>3, <3>1, Zenon
    <3>3. stream.ring # <<>> /\ stream.closing => Len(g) = Taken + Len(stream.ring) - 1
      BY <2>4, <3>1, Zenon
    <3> QED BY <1>3, <1>12, <3>2, <3>3, Zenon
  <2>9. stream'.writer = "handshake" \/ upstream'.closedBy = "page" => upstream'.received = socket'.framed
    BY <1>3, <2>5, Zenon
  <2> QED BY <2>6, <2>7, <2>8, <2>9, Zenon DEF InOrder
<1>16. UnderWay'
  <2>1. ASSUME link = "up", ~stream.closing, stream.listed \/ stream.status = "none"
        PROVE  Follows(wsUp', g, Taken + Len(stream.ring))
    <3>1. Follows(wsUp, f, Taken + Len(stream.ring))
      BY <1>1, <2>1, Zenon DEF UnderWay
    <3>2. CASE wsUp' = wsUp /\ g = f
      BY <3>1, <3>2, Zenon
    <3>3. ASSUME NEW m \in UpFrame, PageSends(m) PROVE Follows(wsUp', g, Taken + Len(stream.ring))
      <4>1. /\ m.t # "WsData" => Follows(Append(wsUp, m), f, Taken + Len(stream.ring))
            /\ (m.t = "WsData" /\ \A i \in 1..Len(wsUp) : wsUp[i].t # "WsClose")
                 => Follows(Append(wsUp, m), Append(f, m.n), Taken + Len(stream.ring))
        BY <1>1, <1>10, <3>1, <3>3, FollowsSent, Zenon
      <4>2. m.t = "WsData" => socket.state = "open" /\ g = Append(f, m.n)
        BY <1>2, <3>3, Zenon DEF PageSends
      <4>3. socket.state = "open" => \A i \in 1..Len(wsUp) : wsUp[i].t # "WsClose"
        BY <1>1, <1>2, Zenon DEF CloseAsked
      <4>4. m.t # "WsData" => g = f
        BY <3>3, Zenon DEF PageSends
      <4>5. wsUp' = Append(wsUp, m)
        BY <3>3, Zenon DEF PageSends
      <4> QED BY <4>1, <4>2, <4>3, <4>4, <4>5, Zenon
    <3> QED BY <3>2, <3>3, Zenon
  <2> QED BY <1>3, <1>12, <2>1, Zenon DEF UnderWay
<1> QED BY <1>6, <1>7, <1>8, <1>9, <1>15, <1>16, Zenon DEF RelayIInv

\* Opening a socket, and closing it.
LEMMA OpenCloseKeeps ==
    ASSUME RelayIInv, openWebSocket \/ close
    PROVE  RelayIInv'
<1>1. /\ RelayTypes /\ Listing /\ Opening /\ SocketCreditsConserved /\ socket \in SocketRecord
      /\ wsDown \in Seq(DownFrame) /\ wsUp \in Seq(UpFrame)
  BY Zenon DEF RelayIInv, RelayTypes
<1>2. UNCHANGED <<stream, upstream, link, wsDown>> /\ 0 \in Nat
  BY Zenon DEF openWebSocket, close
<1>3. /\ "none" \notin {"connecting", "open", "closing", "closed"}
      /\ "connecting" \notin {"none", "open", "closing", "closed"}
      /\ "closing" \notin {"none", "open", "connecting"} /\ "closed" \notin {"none", "open", "connecting", "closing"}
      /\ "open" \notin {"closing", "closed"} /\ "WsOpen" # "Credit" /\ "WsClose" # "Credit" /\ "none" # "open"
  OBVIOUS
<1>4. stream.status # "open" => socket.blobs = {} /\ socket.consumed = 0 /\ socket.state # "open"
  BY <1>1, Zenon DEF Opening
<1>5. ASSUME NEW f \in UpFrame, f.t # "Credit", wsUp' = Append(wsUp, f), socket'.consumed = socket.consumed,
             stream.listed => socket.listed
      PROVE  SocketCreditsConserved'
  <2>1. CreditsIn(wsUp) \in Int /\ CreditsIn(Append(wsUp, f)) = CreditsIn(wsUp) + 0
    BY <1>1, <1>5, UpLane, Zenon
  <2>2. CreditsIn(wsUp') = CreditsIn(wsUp)
    BY <1>5, <2>1
  <2> QED BY <1>1, <1>2, <1>5, <2>2, Zenon DEF SocketCreditsConserved
<1>6. CASE openWebSocket /\ link = "up"
  <2>1. /\ socket' = [socket EXCEPT !.state = "connecting", !.listed = TRUE] /\ socket.state = "none"
        /\ wsUp' = Append(wsUp, Frame("WsOpen", 0))
    BY <1>6, Zenon DEF openWebSocket
  <2>2. /\ socket' \in SocketRecord /\ socket'.state = "connecting" /\ socket'.listed /\ socket'.blobs = socket.blobs
        /\ socket'.framed = socket.framed /\ socket'.consumed = socket.consumed
    BY <1>1, <2>1, Zenon DEF SocketRecord
  <2>3. Frame("WsOpen", 0) \in UpFrame /\ Frame("WsOpen", 0).t = "WsOpen"
    BY <1>2, FramesTyped, Zenon
  <2>4. PageSends(Frame("WsOpen", 0))
    BY <1>6, <2>1, <2>2, <2>3, Zenon DEF PageSends
  <2>5. ~stream.listed
    BY <1>1, <2>1, Zenon DEF Opening
  <2>6. SocketCreditsConserved'
    BY <1>2, <2>5, Zenon DEF SocketCreditsConserved
  <2> QED BY <1>2, <1>3, <1>4, <1>6, <2>1, <2>2, <2>3, <2>4, <2>6, PageStep, Zenon
<1>7. CASE openWebSocket /\ link # "up"
  <2>1. socket' = Closed(socket) /\ wsUp' = wsUp
    BY <1>7, Zenon DEF openWebSocket
  <2>2. /\ socket' \in SocketRecord /\ socket'.state = "closed" /\ ~socket'.listed /\ socket'.blobs = {}
        /\ socket'.framed = socket.framed /\ socket'.consumed = 0
    BY <1>1, <1>2, <2>1, Zenon DEF SocketRecord, Closed
  <2>3. SocketCreditsConserved'
    BY <2>2, Zenon DEF SocketCreditsConserved
  <2> QED BY <1>2, <1>3, <1>7, <2>1, <2>2, <2>3, PageStep, Zenon
<1>8. CASE close
  <2>1. /\ socket' = [socket EXCEPT !.state = "closing"] /\ socket.state \in {"connecting", "open"}
        /\ wsUp' = Append(wsUp, Frame("WsClose", 0))
    BY <1>8, Zenon DEF close
  <2>2. /\ socket' \in SocketRecord /\ socket'.state = "closing" /\ socket'.listed = socket.listed
        /\ socket'.blobs = socket.blobs /\ socket'.framed = socket.framed /\ socket'.consumed = socket.consumed
    BY <1>1, <2>1, Zenon DEF SocketRecord
  <2>3. Frame("WsClose", 0) \in UpFrame /\ Frame("WsClose", 0).t = "WsClose"
    BY <1>2, FramesTyped, Zenon
  <2>4. socket.listed /\ link = "up" /\ socket.state # "none"
    <3>1. link \in {"up", "down"}
      BY <1>1, Zenon DEF RelayTypes
    <3> QED BY <1>1, <1>3, <2>1, <3>1, Zenon DEF Listing
  <2>5. PageSends(Frame("WsClose", 0))
    BY <2>1, <2>2, <2>3, <2>4, Zenon DEF PageSends
  <2>6. SocketCreditsConserved'
    BY <1>3, <1>5, <2>1, <2>2, <2>3, <2>4, Zenon
  <2> QED BY <1>2, <1>3, <1>4, <2>1, <2>2, <2>3, <2>4, <2>5, <2>6, PageStep, Zenon
<1> QED BY <1>6, <1>7, <1>8, Zenon

\* send, of a text, a Blob or too much, and a Blob that has been read.
LEMMA SendKeeps ==
    ASSUME RelayIInv, SendText \/ SendBlob \/ SendTooLarge \/ \E n \in socket.blobs : BlobRead(n)
    PROVE  RelayIInv'
<1>1. /\ RelayTypes /\ Listing /\ Opening /\ SocketCreditsConserved /\ socket \in SocketRecord
      /\ wsDown \in Seq(DownFrame) /\ wsUp \in Seq(UpFrame)
  BY Zenon DEF RelayIInv, RelayTypes
<1>2. UNCHANGED <<stream, upstream, link, wsDown>> /\ 0 \in Nat
  BY Zenon DEF SendText, SendBlob, SendTooLarge, BlobRead
<1>3. /\ "open" \notin {"none", "closing", "closed"} /\ "closed" \notin {"none", "open", "connecting", "closing"}
      /\ "WsData" # "Credit"
  OBVIOUS
<1>4. stream.status # "open" => socket.blobs = {} /\ socket.consumed = 0 /\ socket.state # "open"
  BY <1>1, Zenon DEF Opening
<1>5. /\ socket.listed <=> socket.state \in {"connecting", "open", "closing"}
      /\ socket.state = "open" => link = "up"
  <2>1. link \in {"up", "down"}
    BY <1>1, Zenon DEF RelayTypes
  <2> QED BY <1>1, <2>1, Zenon DEF Listing
<1>6. ASSUME NEW n \in Nat, socket' \in SocketRecord, socket.state = "open", socket'.state = "open",
             socket'.listed = socket.listed, socket'.consumed = socket.consumed,
             socket'.framed = Append(socket.framed, n), transmit(n)
      PROVE  RelayIInv'
  <2>1. Frame("WsData", n) \in UpFrame /\ Frame("WsData", n).t = "WsData" /\ Frame("WsData", n).n = n
    BY <1>6, FramesTyped, Zenon
  <2>2. wsUp' = Append(wsUp, Frame("WsData", n))
    BY <1>6, Zenon DEF transmit
  <2>3. PageSends(Frame("WsData", n))
    BY <1>5, <1>6, <2>1, <2>2, Zenon DEF PageSends
  <2>4. CreditsIn(wsUp) \in Int /\ CreditsIn(wsUp') = CreditsIn(wsUp) + 0
    BY <1>1, <1>3, <2>1, <2>2, UpLane, Zenon
  <2>5. CreditsIn(wsUp') = CreditsIn(wsUp)
    BY <2>4
  <2>6. SocketCreditsConserved'
    BY <1>1, <1>2, <1>6, <2>5, Zenon DEF SocketCreditsConserved
  <2> QED BY <1>2, <1>3, <1>4, <1>5, <1>6, <2>1, <2>3, <2>6, PageStep, Zenon
<1>7. ASSUME socket' \in SocketRecord, wsUp' = wsUp, socket'.framed = socket.framed, socket.state # "none",
             \/ socket'.state = socket.state /\ socket'.listed = socket.listed /\ socket'.consumed = socket.consumed
             \/ socket'.state = "closed" /\ ~socket'.listed /\ socket'.consumed = 0,
             stream.status # "open" => socket'.blobs = {}
      PROVE  RelayIInv'
  <2>1. SocketCreditsConserved'
    <3>1. CASE socket'.state = socket.state /\ socket'.listed = socket.listed /\ socket'.consumed = socket.consumed
      BY <1>1, <1>2, <1>7, <3>1, Zenon DEF SocketCreditsConserved
    <3>2. CASE ~socket'.listed
      BY <3>2, Zenon DEF SocketCreditsConserved
    <3> QED BY <1>7, <3>1, <3>2, Zenon
  <2>2. CASE socket'.state = socket.state /\ socket'.listed = socket.listed /\ socket'.consumed = socket.consumed
    BY <1>2, <1>4, <1>5, <1>7, <2>1, <2>2, PageStep, Zenon
  <2>3. CASE socket'.state = "closed" /\ ~socket'.listed /\ socket'.consumed = 0
    BY <1>2, <1>3, <1>7, <2>1, <2>3, PageStep, Zenon
  <2> QED BY <1>7, <2>2, <2>3, Zenon
<1>8. socket.framed \in Seq(Nat) /\ socket.sends + 1 \in Nat /\ socket.blobs \subseteq Nat
  <2>1. socket.framed \in Seq(Nat) /\ socket.sends \in Nat /\ socket.blobs \in SUBSET Nat
    BY <1>1, Zenon DEF SocketRecord
  <2>2. socket.sends + 1 \in Nat
    BY <2>1
  <2> QED BY <2>1, <2>2, Zenon
<1>9. \A n \in Nat : Append(socket.framed, n) \in Seq(Nat)
  BY <1>8
<1>10. CASE SendText
  <2> DEFINE n == socket.sends + 1
  <2>1. /\ socket' = [socket EXCEPT !.sends = n, !.framed = Append(@, n)] /\ transmit(n) /\ socket.state = "open"
    BY <1>10, Zenon DEF SendText
  <2>2. n \in Nat
    BY <1>8, Zenon
  <2> HIDE DEF n
  <2>3. Append(socket.framed, n) \in Seq(Nat)
    BY <1>9, <2>2, Zenon
  <2>4. /\ socket' \in SocketRecord /\ socket'.state = socket.state /\ socket'.listed = socket.listed
        /\ socket'.consumed = socket.consumed /\ socket'.framed = Append(socket.framed, n)
    BY <1>1, <2>1, <2>2, <2>3, Zenon DEF SocketRecord
  <2> QED BY <1>6, <2>1, <2>2, <2>4, Zenon
<1>11. CASE SendBlob
  <2>1. /\ socket' = [socket EXCEPT !.sends = @ + 1, !.blobs = @ \cup {socket.sends + 1}]
        /\ socket.state = "open" /\ wsUp' = wsUp
    BY <1>11, Zenon DEF SendBlob
  <2>2. socket.blobs \cup {socket.sends + 1} \in SUBSET Nat
    BY <1>8, Zenon
  <2>3. /\ socket' \in SocketRecord /\ socket'.state = socket.state /\ socket'.listed = socket.listed
        /\ socket'.consumed = socket.consumed /\ socket'.framed = socket.framed
    BY <1>1, <1>8, <2>1, <2>2, Zenon DEF SocketRecord
  <2> QED BY <1>3, <1>4, <1>7, <2>1, <2>3, Zenon
<1>12. CASE SendTooLarge
  <2> DEFINE c == Closed(socket)
  <2>1. socket' = [c EXCEPT !.sends = @ + 1, !.gaveUp = TRUE] /\ socket.state = "open" /\ wsUp' = wsUp
    BY <1>12, Zenon DEF SendTooLarge
  <2>2. /\ c \in SocketRecord /\ c.state = "closed" /\ ~c.listed /\ c.blobs = {}
        /\ c.framed = socket.framed /\ c.consumed = 0 /\ c.sends = socket.sends
    BY <1>1, <1>2, Zenon DEF SocketRecord, Closed
  <2> HIDE DEF c
  <2>3. c.sends + 1 \in Nat
    BY <1>8, <2>2, Zenon
  <2>4. /\ socket' \in SocketRecord /\ socket'.state = c.state /\ socket'.listed = c.listed
        /\ socket'.consumed = c.consumed /\ socket'.framed = c.framed /\ socket'.blobs = c.blobs
    BY <2>1, <2>2, <2>3, Zenon DEF SocketRecord
  <2> QED BY <1>3, <1>7, <2>1, <2>2, <2>4, Zenon
<1>13. ASSUME NEW n \in socket.blobs, BlobRead(n) PROVE RelayIInv'
  <2>1. n \in Nat /\ socket.blobs \ {n} \in SUBSET Nat
    BY <1>8, <1>13, Zenon
  <2>2. CASE socket.state = "open"
    <3>1. socket' = [socket EXCEPT !.blobs = @ \ {n}, !.framed = Append(@, n)] /\ transmit(n)
      BY <1>13, <2>2, Zenon DEF BlobRead
    <3>2. Append(socket.framed, n) \in Seq(Nat)
      BY <1>9, <2>1, Zenon
    <3>3. /\ socket' \in SocketRecord /\ socket'.state = socket.state /\ socket'.listed = socket.listed
          /\ socket'.consumed = socket.consumed /\ socket'.framed = Append(socket.framed, n)
      BY <1>1, <2>1, <3>1, <3>2, Zenon DEF SocketRecord
    <3> QED BY <1>6, <2>1, <2>2, <3>1, <3>3, Zenon
  <2>3. CASE socket.state # "open"
    <3>1. socket' = [socket EXCEPT !.blobs = @ \ {n}] /\ wsUp' = wsUp
      BY <1>13, <2>3, Zenon DEF BlobRead
    <3>2. /\ socket' \in SocketRecord /\ socket'.state = socket.state /\ socket'.listed = socket.listed
          /\ socket'.consumed = socket.consumed /\ socket'.framed = socket.framed
      BY <1>1, <2>1, <3>1, Zenon DEF SocketRecord
    <3>3. stream.status = "open"
      BY <1>4, <1>13, Zenon
    <3>4. socket.state # "none"
      <4>1. "open" # "none"
        OBVIOUS
      <4> QED BY <1>1, <3>3, <4>1, Zenon DEF Opening
    <3> QED BY <1>7, <3>1, <3>2, <3>3, <3>4, Zenon
  <2> QED BY <2>2, <2>3, Zenon
<1> QED BY <1>10, <1>11, <1>12, <1>13, Zenon

\* A frame the page receives.
LEMMA ReceiveKeeps ==
    ASSUME RelayIInv, onSocketFrame
    PROVE  RelayIInv'
<1>1. /\ RelayTypes /\ Listing /\ Opening /\ SocketCreditsConserved /\ socket \in SocketRecord
      /\ wsDown \in Seq(DownFrame) /\ wsUp \in Seq(UpFrame)
  BY Zenon DEF RelayIInv, RelayTypes
<1> DEFINE m == Head(wsDown)
<1>2. /\ UNCHANGED <<stream, upstream, link>> /\ wsDown # <<>> /\ wsDown' = Tail(wsDown)
      /\ \/ ~socket.listed /\ UNCHANGED <<socket, wsUp>>
         \/ /\ socket.listed /\ m.t = "WsOpened"
            /\ socket' = [socket EXCEPT !.state = IF @ = "connecting" THEN "open" ELSE @]
            /\ UNCHANGED wsUp
         \/ socket.listed /\ m.t = "WsData" /\ replenishSocketCredit
         \/ /\ socket.listed /\ m.t \in {"WsClose", "ResErr"}
            /\ socket' = Closed(socket) /\ UNCHANGED wsUp
  BY Zenon DEF onSocketFrame
<1>3. /\ "open" \notin {"none", "connecting", "closing", "closed"}
      /\ "closed" \notin {"none", "open", "connecting", "closing"}
      /\ "connecting" \notin {"none", "closing", "closed"} /\ "none" \notin {"connecting", "open", "closing"}
      /\ "WsOpened" \notin {"WsData", "WsClose", "ResErr"} /\ "WsData" \notin {"WsClose", "ResErr"}
  OBVIOUS
<1>4. /\ m \in DownFrame /\ m.n \in Nat
      /\ Messages(wsDown) \in Int
      /\ Messages(wsDown') = Messages(wsDown) - IF m.t = "WsData" THEN 1 ELSE 0
      /\ stream.status # "open" => m.t \in {"WsClose", "ResErr"}
  <2>1. Len(wsDown) \in Nat /\ 1 \in 1..Len(wsDown) /\ m = wsDown[1] /\ m \in DownFrame
    BY <1>1, <1>2
  <2> HIDE DEF m
  <2>2. stream.status # "open" => m.t \in {"WsClose", "ResErr"}
    BY <1>1, <2>1, Zenon DEF Opening
  <2>3. m.n \in Nat
    BY <2>1, Zenon DEF DownFrame
  <2> QED BY <1>1, <1>2, <2>1, <2>2, <2>3, DownLane, Zenon DEF m
<1> HIDE DEF m
<1>5. stream.status # "open" => socket.blobs = {} /\ socket.consumed = 0 /\ socket.state # "open"
  BY <1>1, Zenon DEF Opening
<1>6. socket.listed <=> socket.state \in {"connecting", "open", "closing"}
  BY <1>1, Zenon DEF Listing
<1>7. m.t # "WsData" => Messages(wsDown') = Messages(wsDown)
  BY <1>4
<1>8. ASSUME m.t # "WsData", wsUp' = wsUp, socket'.listed => socket.listed, socket'.listed => socket'.consumed = socket.consumed
      PROVE  SocketCreditsConserved'
  BY <1>1, <1>2, <1>7, <1>8, Zenon DEF SocketCreditsConserved
<1>9. CASE ~socket.listed /\ UNCHANGED <<socket, wsUp>>
  <2>1. SocketCreditsConserved'
    BY <1>9, Zenon DEF SocketCreditsConserved
  <2> QED BY <1>1, <1>2, <1>5, <1>6, <1>9, <2>1, PageStep, Zenon
<1>10. CASE socket.listed /\ m.t = "WsOpened" /\ UNCHANGED wsUp
            /\ socket' = [socket EXCEPT !.state = IF @ = "connecting" THEN "open" ELSE @]
  <2> DEFINE st == IF socket.state = "connecting" THEN "open" ELSE socket.state
  <2>1. /\ socket' = [socket EXCEPT !.state = st]
        /\ st \in {"none", "connecting", "open", "closing", "closed"}
        /\ st = "open" \/ st = socket.state
        /\ st = socket.state \/ socket.state = "connecting"
    <3>1. socket.state \in {"none", "connecting", "open", "closing", "closed"}
      BY <1>1, Zenon DEF SocketRecord
    <3> QED BY <1>10, <3>1, Zenon
  <2> HIDE DEF st
  <2>2. /\ socket' \in SocketRecord /\ socket'.state = st /\ socket'.listed = socket.listed
        /\ socket'.consumed = socket.consumed /\ socket'.framed = socket.framed /\ socket'.blobs = socket.blobs
    BY <1>1, <2>1, Zenon DEF SocketRecord
  <2>3. SocketCreditsConserved'
    BY <1>3, <1>8, <1>10, <2>2, Zenon
  <2>4. stream.status = "open"
    BY <1>3, <1>4, <1>10, Zenon
  <2>5. /\ socket'.listed <=> socket'.state \in {"connecting", "open", "closing"}
        /\ socket.state \in {"closing", "closed"} => socket'.state \in {"closing", "closed"}
        /\ socket'.state # "none" /\ socket.state # "none"
    BY <1>3, <1>6, <1>10, <2>1, <2>2, Zenon
  <2> QED BY <1>2, <1>10, <2>2, <2>3, <2>4, <2>5, PageStep, Zenon
<1>11. CASE socket.listed /\ m.t \in {"WsClose", "ResErr"} /\ socket' = Closed(socket) /\ UNCHANGED wsUp
  <2>1. 0 \in Nat
    OBVIOUS
  <2>2. /\ socket' \in SocketRecord /\ socket'.state = "closed" /\ ~socket'.listed /\ socket'.blobs = {}
        /\ socket'.framed = socket.framed /\ socket'.consumed = 0
    BY <1>1, <1>11, <2>1, Zenon DEF SocketRecord, Closed
  <2>3. SocketCreditsConserved'
    BY <2>2, Zenon DEF SocketCreditsConserved
  <2>4. socket.state # "none"
    BY <1>3, <1>6, <1>11, Zenon
  <2> QED BY <1>2, <1>3, <1>11, <2>2, <2>3, <2>4, PageStep, Zenon
<1>12. CASE socket.listed /\ m.t = "WsData" /\ replenishSocketCredit
  <2> DEFINE n == socket.consumed + 1
  <2>1. /\ socket.consumed \in Nat /\ n \in Nat /\ 0 \in Nat
    <3>1. socket.consumed \in Nat
      BY <1>1, Zenon DEF SocketRecord
    <3> QED BY <3>1
  <2>2. \/ socket' = [socket EXCEPT !.consumed = n] /\ UNCHANGED wsUp
        \/ socket' = [socket EXCEPT !.consumed = 0] /\ wsUp' = Append(wsUp, Frame("Credit", n))
    BY <1>12, Zenon DEF replenishSocketCredit
  <2>3. stream.status = "open" /\ Messages(wsDown') = Messages(wsDown) - 1
    BY <1>3, <1>4, <1>12, Zenon
  <2>4. socket.state # "none" /\ link = "up"
    <3>1. link \in {"up", "down"}
      BY <1>1, Zenon DEF RelayTypes
    <3> QED BY <1>1, <1>3, <1>6, <1>12, <3>1, Zenon DEF Listing
  <2>5. CreditsIn(wsUp) \in Int /\ Frame("Credit", n) \in UpFrame /\ Frame("Credit", n).t = "Credit"
        /\ CreditsIn(Append(wsUp, Frame("Credit", n))) = CreditsIn(wsUp) + n
    <3>1. Frame("Credit", n) \in UpFrame /\ Frame("Credit", n).t = "Credit" /\ Frame("Credit", n).n = n
      BY <2>1, FramesTyped, Zenon
    <3> HIDE DEF n
    <3> QED BY <1>1, <3>1, UpLane, Zenon
  <2>6. ASSUME socket'.listed = socket.listed, socket'.consumed + CreditsIn(wsUp') = socket.consumed + CreditsIn(wsUp) + 1,
               socket'.consumed \in Nat, CreditsIn(wsUp') \in Int
        PROVE  SocketCreditsConserved'
    <3> DEFINE h == IF stream.pump \in {"read", "send"} THEN 1 ELSE 0
    <3>1. stream.listed => stream.credits + h + Messages(wsDown) + socket.consumed + CreditsIn(wsUp) = Credits
      BY <1>1, <1>12, <2>4, Zenon DEF SocketCreditsConserved
    <3>2. h \in Int /\ stream.credits \in Int
      <4>1. stream.credits \in Int
        BY <1>1, Zenon DEF RelayTypes, StreamRecord
      <4> QED BY <4>1
    <3> HIDE DEF h
    <3>3. stream.listed => stream.credits + h + Messages(wsDown') + socket'.consumed + CreditsIn(wsUp') = Credits
      BY <1>4, <2>1, <2>3, <2>5, <2>6, <3>1, <3>2
    <3> QED BY <1>2, <3>3, Zenon DEF SocketCreditsConserved, h
  <2>7. CASE socket' = [socket EXCEPT !.consumed = n] /\ UNCHANGED wsUp
    <3>1. /\ socket' \in SocketRecord /\ socket'.state = socket.state /\ socket'.listed = socket.listed
          /\ socket'.consumed = n /\ socket'.framed = socket.framed /\ socket'.blobs = socket.blobs
      BY <1>1, <2>1, <2>7, Zenon DEF SocketRecord
    <3>2. n + CreditsIn(wsUp) = socket.consumed + CreditsIn(wsUp) + 1
      BY <2>1, <2>5
    <3> HIDE DEF n
    <3>3. SocketCreditsConserved'
      BY <2>1, <2>5, <2>6, <2>7, <3>1, <3>2, Zenon
    <3> QED BY <1>2, <1>5, <1>6, <2>3, <2>4, <2>7, <3>1, <3>3, PageStep, Zenon
  <2>8. CASE socket' = [socket EXCEPT !.consumed = 0] /\ wsUp' = Append(wsUp, Frame("Credit", n))
    <3>1. /\ socket' \in SocketRecord /\ socket'.state = socket.state /\ socket'.listed = socket.listed
          /\ socket'.consumed = 0 /\ socket'.framed = socket.framed /\ socket'.blobs = socket.blobs
      BY <1>1, <2>1, <2>8, Zenon DEF SocketRecord
    <3>2. CreditsIn(wsUp') = CreditsIn(wsUp) + n
      BY <2>5, <2>8, Zenon
    <3>3. socket'.consumed + CreditsIn(wsUp') = socket.consumed + CreditsIn(wsUp) + 1 /\ CreditsIn(wsUp') \in Int
      BY <2>1, <2>5, <3>1, <3>2
    <3> HIDE DEF n
    <3>4. SocketCreditsConserved'
      BY <2>1, <2>6, <3>1, <3>3, Zenon
    <3>5. PageSends(Frame("Credit", n))
      BY <2>3, <2>4, <2>5, <2>8, <3>1, Zenon DEF PageSends
    <3> QED BY <1>2, <1>5, <1>6, <2>3, <2>4, <2>5, <2>8, <3>1, <3>4, <3>5, PageStep, Zenon
  <2> QED BY <2>2, <2>7, <2>8, Zenon
<1> QED BY <1>2, <1>9, <1>10, <1>11, <1>12, Zenon

\* The teardown: the lane loses what it carried, and the page its socket.
LEMMA SocketsFailKeep ==
    ASSUME RelayIInv, failAllSockets
    PROVE  RelayIInv'
<1>1. /\ RelayTypes /\ Listing /\ Opening /\ CloseAsked /\ InOrder /\ socket \in SocketRecord
  BY Zenon DEF RelayIInv, RelayTypes
<1>2. /\ stream' = stream /\ upstream' = upstream /\ link' = "down" /\ wsUp' = <<>> /\ wsDown' = <<>>
      /\ socket' = IF socket.listed THEN Closed(socket) ELSE socket
  BY Zenon DEF failAllSockets
<1>3. /\ "down" # "up" /\ 0 \in Nat /\ 1..Len(<<>>) = {} /\ <<>> \in Seq(UpFrame) /\ <<>> \in Seq(DownFrame)
      /\ "closed" \notin {"none", "open", "connecting", "closing"} /\ "none" \notin {"connecting", "open", "closing"}
  OBVIOUS
<1>4. /\ socket' \in SocketRecord /\ ~socket'.listed /\ socket'.framed = socket.framed
      /\ socket'.state = "closed" \/ socket' = socket
      /\ socket'.state = "none" => socket' = socket
      /\ socket' = socket \/ (socket'.blobs = {} /\ socket'.consumed = 0)
  <2>1. CASE socket.listed
    <3>1. socket' = Closed(socket)
      BY <1>2, <2>1, Zenon
    <3>2. /\ socket' \in SocketRecord /\ ~socket'.listed /\ socket'.framed = socket.framed
          /\ socket'.state = "closed" /\ socket'.blobs = {} /\ socket'.consumed = 0
      BY <1>1, <1>3, <3>1, Zenon DEF SocketRecord, Closed
    <3> QED BY <1>3, <3>2, Zenon
  <2>2. CASE ~socket.listed
    BY <1>1, <1>2, <2>2, Zenon
  <2> QED BY <2>1, <2>2, Zenon
<1>5. RelayTypes'
  BY <1>1, <1>2, <1>3, <1>4, Zenon DEF RelayTypes
<1>6. Listing'
  <2>1. socket'.listed <=> socket'.state \in {"connecting", "open", "closing"}
    BY <1>1, <1>3, <1>4, Zenon DEF Listing
  <2> QED BY <1>1, <1>2, <1>4, <2>1, Zenon DEF Listing
<1>7. Opening'
  <2>1. /\ socket'.state = "none" => stream.status = "none"
        /\ stream.status # "open" => socket'.state # "open" /\ socket'.framed = <<>> /\ socket'.blobs = {} /\ socket'.consumed = 0
    BY <1>1, <1>3, <1>4, Zenon DEF Opening
  <2>2. stream.status = "none" => /\ ~stream.listed /\ ~stream.once /\ ~stream.closing
                                  /\ stream.ring = <<>> /\ upstream.received = <<>>
    BY <1>1, Zenon DEF Opening
  <2>3. 1..Len(wsUp') = {} /\ 1..Len(wsDown') = {}
    BY <1>2, <1>3, Zenon
  <2> QED BY <1>2, <1>3, <2>1, <2>2, <2>3, Zenon DEF Opening
<1>8. CloseAsked'
  <2>1. 1..Len(wsUp') = {}
    BY <1>2, <1>3, Zenon
  <2> QED BY <1>1, <1>2, <1>4, <2>1, Zenon DEF CloseAsked
<1>9. InOrder'
  <2>1. Taken' = Taken
    BY <1>2, Zenon DEF Taken
  <2> QED BY <1>1, <1>2, <1>4, <2>1, Zenon DEF InOrder
<1>10. UnderWay' /\ SocketCreditsConserved'
  BY <1>2, <1>3, Zenon DEF UnderWay, SocketCreditsConserved
<1> QED BY <1>5, <1>6, <1>7, <1>8, <1>9, <1>10, Zenon DEF RelayIInv

-----------------------------------------------------------------------------
(* The theorems.                                                              *)
\* Nothing is open at first, and nothing is under way.
LEMMA RelayStarts ==
    ASSUME RelayInit
    PROVE  RelayIInv
<1>1. /\ socket = [state |-> "none", listed |-> FALSE, blobs |-> {}, sends |-> 0,
                   framed |-> <<>>, consumed |-> 0, gaveUp |-> FALSE]
      /\ wsUp = <<>> /\ wsDown = <<>> /\ link = "up"
      /\ stream = [status |-> "none", open |-> TRUE, listed |-> FALSE, once |-> FALSE,
                   cancelled |-> FALSE, conn |-> FALSE, ring |-> <<>>, closing |-> FALSE,
                   writer |-> "none", held |-> 0, pump |-> "none", credits |-> 0, reports |-> 0]
      /\ upstream = [conn |-> "none", received |-> <<>>, offered |-> 0, closedBy |-> "none"]
  BY Zenon DEF RelayInit
<1>2. /\ 0 \in Nat /\ 0 \in Int /\ \A S : <<>> \in Seq(S) /\ Len(<<>>) = 0 /\ 1..0 = {}
      /\ 0 + 0 = 0 /\ 0 <= 0 /\ {} \in SUBSET Nat
  OBVIOUS
<1>3. socket \in SocketRecord /\ stream \in StreamRecord /\ upstream \in UpstreamRecord
  <2>1. <<>> \in Seq(Nat) /\ <<>> \in Seq(Item)
    BY <1>2, Zenon
  <2>2. socket \in SocketRecord
    BY <1>1, <1>2, <2>1, Zenon DEF SocketRecord
  <2>3. stream \in StreamRecord
    BY <1>1, <1>2, <2>1, Zenon DEF StreamRecord
  <2>4. upstream \in UpstreamRecord
    BY <1>1, <1>2, <2>1, Zenon DEF UpstreamRecord
  <2> QED BY <2>2, <2>3, <2>4, Zenon
<1>4. /\ socket.state = "none" /\ ~socket.listed /\ socket.blobs = {} /\ socket.framed = <<>> /\ socket.consumed = 0
      /\ stream.status = "none" /\ ~stream.listed /\ ~stream.once /\ ~stream.cancelled /\ ~stream.closing
      /\ stream.ring = <<>> /\ stream.writer = "none" /\ stream.pump = "none"
      /\ upstream.received = <<>> /\ upstream.closedBy = "none"
  BY <1>1, Zenon
<1>5. /\ "none" \notin {"connecting", "open", "closing", "closed", "stored", "handshake", "done", "write", "page"}
      /\ "up" # "down"
  OBVIOUS
<1>6. 1..Len(wsUp) = {} /\ 1..Len(wsDown) = {} /\ 1..Len(stream.ring) = {} /\ 1..Len(upstream.received) = {}
  BY <1>1, <1>2, <1>4, Zenon
<1>7. RelayTypes
  BY <1>1, <1>2, <1>3, Zenon DEF RelayTypes
<1>8. Listing
  BY <1>1, <1>4, <1>5, Zenon DEF Listing
<1>9. Opening
  <2>1. wsUp = <<>>
    BY <1>1, Zenon
  <2>2. "none" # "open"
    OBVIOUS
  <2>3. /\ \A i \in 1..Len(wsUp) : wsUp[i].t = "WsOpen" <=> i = 1 /\ stream.status = "none"
        /\ \A i \in 1..Len(wsUp) : wsUp[i].t \in {"WsOpen", "WsClose"}
        /\ \A i \in 1..Len(wsDown) : wsDown[i].t \in {"WsClose", "ResErr"}
    BY <1>6, Zenon
  <2> QED BY <1>4, <2>1, <2>2, <2>3, Zenon DEF Opening
<1>10. CloseAsked
  BY <1>4, <1>5, <1>6, Zenon DEF CloseAsked
<1>11. Taken = 0
  BY <1>2, <1>4, <1>5, Zenon DEF Taken
<1>12. InOrder
  <2>1. Len(upstream.received) <= Len(socket.framed)
    BY <1>2, <1>4, Zenon
  <2> QED BY <1>4, <1>5, <1>6, <2>1, Zenon DEF InOrder
<1>13. UnderWay
  <2>1. Taken + Len(stream.ring) = 0
    BY <1>2, <1>4, <1>11, Zenon
  <2> QED BY <1>1, <1>4, <2>1, FollowsNothing, Zenon DEF UnderWay
<1>14. SocketCreditsConserved
  BY <1>4, Zenon DEF SocketCreditsConserved
<1> QED BY <1>7, <1>8, <1>9, <1>10, <1>12, <1>13, <1>14, Zenon DEF RelayIInv

\* A step that changes nothing keeps the invariant.
LEMMA RelayStutters ==
    ASSUME RelayIInv, UNCHANGED relayVars
    PROVE  RelayIInv'
<1>1. /\ socket' = socket /\ wsUp' = wsUp /\ wsDown' = wsDown /\ link' = link /\ stream' = stream
      /\ upstream' = upstream
  BY Zenon DEF relayVars
<1>2. RelayTypes /\ Listing /\ Opening /\ CloseAsked /\ InOrder /\ UnderWay /\ SocketCreditsConserved
  BY Zenon DEF RelayIInv
<1>3. Taken' = Taken
  BY <1>1, Zenon DEF Taken
<1>4. RelayTypes'
  BY <1>1, <1>2, Zenon DEF RelayTypes
<1>5. Listing'
  BY <1>1, <1>2, Zenon DEF Listing
<1>6. Opening'
  BY <1>1, <1>2, Zenon DEF Opening
<1>7. CloseAsked'
  BY <1>1, <1>2, Zenon DEF CloseAsked
<1>8. InOrder'
  BY <1>1, <1>2, <1>3, Zenon DEF InOrder
<1>9. UnderWay'
  BY <1>1, <1>2, <1>3, Zenon DEF UnderWay
<1>10. SocketCreditsConserved'
  BY <1>1, <1>2, Zenon DEF SocketCreditsConserved
<1> QED BY <1>4, <1>5, <1>6, <1>7, <1>8, <1>9, <1>10, Zenon DEF RelayIInv

\* The relay's invariant holds in every reachable state, for every window, batch and
\* queue length.
THEOREM RelayInvariance == RelaySpec => []RelayIInv
<1>1. RelayInit => RelayIInv
  BY RelayStarts, Zenon
<1>2. RelayIInv /\ [RelayNext]_relayVars => RelayIInv'
  <2> SUFFICES ASSUME RelayIInv, [RelayNext]_relayVars PROVE RelayIInv'
    OBVIOUS
  <2>1. CASE openWebSocket \/ close
    BY <2>1, OpenCloseKeeps, Zenon
  <2>2. CASE SendText \/ SendBlob \/ SendTooLarge \/ \E n \in socket.blobs : BlobRead(n)
    BY <2>2, SendKeeps, Zenon
  <2>3. CASE onSocketFrame
    BY <2>3, ReceiveKeeps, Zenon
  <2>4. CASE failAllSockets
    BY <2>4, SocketsFailKeep, Zenon
  <2>5. CASE OnMessage
    BY <2>5, OnMessageKeeps, Zenon
  <2>6. CASE DialFails \/ DialReturns \/ StoreConn \/ ReportOpened
    BY <2>6, DialKeeps, Zenon
  <2>7. CASE TakeWrite
    BY <2>7, TakeWriteKeeps, Zenon
  <2>8. CASE WriteDone
    BY <2>8, WriteDoneKeeps, Zenon
  <2>9. CASE WriteFails \/ HandshakeDone \/ WriterEnds
    BY <2>9, WriterEndKeeps, Zenon
  <2>10. CASE PumpTakes \/ PumpReads \/ PumpSends \/ PumpEnds
    BY <2>10, PumpKeeps, Zenon
  <2>11. CASE ClosePeer \/ UpstreamCloses
    BY <2>11, EndKeeps, Zenon
  <2>12. CASE UNCHANGED relayVars
    BY <2>12, RelayStutters, Zenon
  <2> QED
    BY <2>1, <2>2, <2>3, <2>4, <2>5, <2>6, <2>7, <2>8, <2>9, <2>10, <2>11, <2>12, Zenon DEF RelayNext, RelayStep
<1> HIDE DEF RelayIInv, RelayInit, RelayNext
<1> QED
  BY <1>1, <1>2, PTL DEF RelaySpec

\* The upstream receives what the page framed, in that order and without a gap, and an
\* upstream that sees the page's close has all of it, however the writer, the pump, the
\* lane and both ends' closes interleave.
THEOREM UpstreamInOrder == RelaySpec => []UpstreamSeesAPrefix
<1>1. RelayIInv => UpstreamSeesAPrefix
  <2> SUFFICES ASSUME RelayIInv PROVE UpstreamSeesAPrefix
    OBVIOUS
  <2>1. InOrder /\ upstream.received \in Seq(Nat)
    BY Zenon DEF RelayIInv, RelayTypes, UpstreamRecord
  <2>2. DOMAIN upstream.received = 1..Len(upstream.received)
    BY <2>1
  <2> QED BY <2>1, <2>2, Zenon DEF InOrder, UpstreamSeesAPrefix
<1> HIDE DEF RelayIInv, UpstreamSeesAPrefix
<1> QED
  BY <1>1, RelayInvariance, PTL

\* While a socket lives at both ends no credit of its window is lost or made up: each one
\* is the node's, with a message under way, counted by the page or on its way back.
THEOREM WindowRefills == RelaySpec => []SocketCreditsConserved
<1>1. RelayIInv => SocketCreditsConserved
  BY Zenon DEF RelayIInv
<1> HIDE DEF RelayIInv, SocketCreditsConserved
<1> QED
  BY <1>1, RelayInvariance, PTL


\* Who has closed the socket, and who is about to, has told the page so at most once.
Told ==
    /\ stream.reports \in {0, 1}
    /\ ~stream.once => stream.reports = 0 \/ stream.status = "refused"
    /\ stream.writer = "handshake" => stream.reports = 0
    /\ stream.status = "refused" => ~stream.listed

\* A step of the node that reports nothing, and one that reports the end of the socket.
LEMMA ToldStep ==
    ASSUME Told,
           stream'.status = "refused" => ~stream'.listed,
           \/ /\ stream'.reports = stream.reports
              /\ stream.once => stream'.once
              /\ stream.status = "refused" => stream'.status = "refused"
              /\ stream'.writer = "handshake" =>
                   stream.writer = "handshake" \/ (~stream.once /\ stream.status # "refused")
           \/ /\ stream'.reports = stream.reports + 1 /\ stream.reports = 0
              /\ stream'.once \/ stream'.status = "refused"
              /\ stream'.writer # "handshake"
    PROVE  Told'
<1>1. 0 + 1 = 1
  OBVIOUS
<1>2. CASE /\ stream'.reports = stream.reports
           /\ stream.once => stream'.once
           /\ stream.status = "refused" => stream'.status = "refused"
           /\ stream'.writer = "handshake" =>
                stream.writer = "handshake" \/ (~stream.once /\ stream.status # "refused")
  BY <1>2, Zenon DEF Told
<1>3. CASE /\ stream'.reports = stream.reports + 1 /\ stream.reports = 0
           /\ stream'.once \/ stream'.status = "refused"
           /\ stream'.writer # "handshake"
  BY <1>1, <1>3, Zenon DEF Told
<1> QED BY <1>2, <1>3, Zenon

\* closeWebSocket and failWebSocket: whoever runs closeOnce first tells the page.
LEMMA CloseToldOnce ==
    ASSUME RelayTypes, Listing, Told, NEW n \in StreamRecord, NEW type, closeWebSocket(n, type),
           n.once = stream.once, n.reports = stream.reports, n.listed = stream.listed,
           n.status # "refused", stream.status # "refused",
           n.writer = "handshake" => stream.writer = "handshake"
    PROVE  Told'
<1>1. CASE n.once
  <2>1. stream' = n
    BY <1>1, Zenon DEF closeWebSocket
  <2> QED BY <2>1, ToldStep, Zenon
<1>2. CASE ~n.once
  <2>1. stream' = [Torn(n) EXCEPT !.reports = @ + 1]
    BY <1>2, Zenon DEF closeWebSocket
  <2>2. Torn(n) \in StreamRecord /\ Torn(n).reports = n.reports /\ Torn(n).once /\ Torn(n).status = n.status
        /\ Torn(n).writer = n.writer
    BY Zenon DEF Torn, StreamRecord
  <2>3. stream'.reports = n.reports + 1 /\ stream'.once /\ stream'.status = n.status /\ stream'.writer = n.writer
    BY <2>1, <2>2, Zenon DEF StreamRecord
  <2>4. stream.reports = 0
    BY <1>2, Zenon DEF Told
  <2>5. stream.writer # "handshake"
    BY <1>2, Zenon DEF Listing
  <2> QED BY <2>3, <2>4, <2>5, ToldStep, Zenon
<1> QED BY <1>1, <1>2, Zenon

\* The delivery of the page's frames: an opening refused, a queue that is full, a close
\* while the upstream is dialled.
LEMMA ToldByDelivery ==
    ASSUME RelayIInv, Told, OnMessage
    PROVE  Told'
<1>1. /\ RelayTypes /\ Listing /\ Opening /\ stream \in StreamRecord /\ wsUp \in Seq(UpFrame)
  BY Zenon DEF RelayIInv, RelayTypes
<1> DEFINE m == Head(wsUp)
<1>2. /\ "refused" \notin {"none", "dialling"} /\ "none" # "handshake" /\ "none" # "open"
  OBVIOUS
<1>3. CASE m.t = "WsOpen" /\ beginWebSocket
  <2>1. stream.status = "none"
    <3>1. wsUp # <<>>
      BY Zenon DEF OnMessage
    <3>2. 1 \in 1..Len(wsUp) /\ m = wsUp[1]
      BY <1>1, <3>1
    <3> HIDE DEF m
    <3> QED BY <1>1, <1>3, <3>2, Zenon DEF Opening
  <2>2. ~stream.once /\ ~stream.listed /\ stream.writer = "none"
    BY <1>1, <1>2, <2>1, Zenon DEF Opening, Listing
  <2>3. stream.reports = 0
    BY <1>2, <2>1, <2>2, Zenon DEF Told
  <2>4. CASE stream' = [stream EXCEPT !.reports = @ + 1, !.status = "refused"]
    <3>1. /\ stream'.reports = stream.reports + 1 /\ stream'.status = "refused" /\ stream'.writer = stream.writer
          /\ stream'.listed = stream.listed
      BY <1>1, <2>4, Zenon DEF StreamRecord
    <3> QED BY <1>2, <2>2, <2>3, <3>1, ToldStep, Zenon
  <2>5. CASE stream' = [stream EXCEPT !.status = "dialling", !.listed = TRUE, !.credits = Credits]
    <3>1. /\ stream'.reports = stream.reports /\ stream'.status = "dialling" /\ stream'.writer = stream.writer
      BY <1>1, <2>5, Zenon DEF StreamRecord
    <3> QED BY <1>2, <2>1, <2>2, <3>1, ToldStep, Zenon
  <2> QED BY <1>3, <2>4, <2>5, Zenon DEF beginWebSocket
<1>4. CASE UNCHANGED stream
  <2>1. stream' = stream
    BY <1>4, Zenon
  <2> QED BY <2>1, Zenon DEF Told
<1>5. ASSUME stream.listed, NEW type, closeWebSocket(stream, type) PROVE Told'
  <2>1. stream.status # "refused"
    BY <1>5, Zenon DEF Told
  <2> QED BY <1>1, <1>5, <2>1, CloseToldOnce, Zenon
<1>6. ASSUME stream.listed, stream' = enqueueWrite(stream, m) PROVE Told'
  <2>1. CASE stream' = stream
    BY <2>1, Zenon DEF Told
  <2>2. CASE stream' = [stream EXCEPT !.ring = Append(@, m), !.closing = m.t = "WsClose"]
    <3>1. /\ stream'.reports = stream.reports /\ stream'.once = stream.once /\ stream'.status = stream.status
          /\ stream'.writer = stream.writer /\ stream'.listed = stream.listed
      BY <1>1, <2>2, Zenon DEF StreamRecord
    <3> QED BY <3>1, Zenon DEF Told
  <2> QED BY <1>6, <2>1, <2>2, Zenon DEF enqueueWrite
<1>7. CASE stream' = [stream EXCEPT !.credits = @ + m.n]
  <2>1. /\ stream'.reports = stream.reports /\ stream'.once = stream.once /\ stream'.status = stream.status
        /\ stream'.writer = stream.writer /\ stream'.listed = stream.listed
    BY <1>1, <1>7, Zenon DEF StreamRecord
  <2> QED BY <2>1, Zenon DEF Told
<1> QED BY <1>3, <1>4, <1>5, <1>6, <1>7, Zenon DEF OnMessage

\* The dialler, the writer, the pump and the end of the session.
LEMMA ToldByNode ==
    ASSUME RelayIInv, Told,
           \/ DialFails \/ DialReturns \/ StoreConn \/ ReportOpened
           \/ TakeWrite \/ WriteDone \/ WriteFails \/ HandshakeDone \/ WriterEnds
           \/ PumpTakes \/ PumpReads \/ PumpSends \/ PumpEnds
           \/ ClosePeer \/ UpstreamCloses
    PROVE  Told'
<1>1. /\ RelayTypes /\ Listing /\ Opening /\ stream \in StreamRecord
  BY Zenon DEF RelayIInv, RelayTypes
<1>2. /\ "refused" \notin {"dialling", "stored", "open", "over"} /\ "none" \notin {"write", "handshake", "idle", "take", "read", "send"}
      /\ "handshake" \notin {"none", "idle", "write", "done"}
  OBVIOUS
<1>3. ASSUME NEW n \in StreamRecord, NEW type, closeWebSocket(n, type),
             n.once = stream.once, n.reports = stream.reports, n.listed = stream.listed,
             n.status # "refused", stream.status # "refused",
             n.writer = "handshake" => stream.writer = "handshake"
      PROVE  Told'
  BY <1>1, <1>3, CloseToldOnce, Zenon
<1>4. ASSUME stream'.reports = stream.reports, stream.once => stream'.once, stream'.listed => stream.listed,
             stream.status = "refused" <=> stream'.status = "refused",
             stream'.writer = "handshake" =>
                stream.writer = "handshake" \/ (~stream.once /\ stream.status # "refused")
      PROVE  Told'
  <2>1. stream'.status = "refused" => ~stream'.listed
    BY <1>4, Zenon DEF Told
  <2> QED BY <1>4, <2>1, ToldStep, Zenon
<1>5. CASE DialFails
  <2> DEFINE n == [stream EXCEPT !.status = "over"]
  <2>1. closeWebSocket(n, "ResErr") /\ stream.status = "dialling"
    BY <1>5, Zenon DEF DialFails
  <2>2. /\ n \in StreamRecord /\ n.once = stream.once /\ n.reports = stream.reports /\ n.listed = stream.listed
        /\ n.status = "over" /\ n.writer = stream.writer
    BY <1>1, Zenon DEF StreamRecord
  <2> HIDE DEF n
  <2> QED BY <1>2, <1>3, <2>1, <2>2, Zenon
<1>6. CASE DialReturns \/ UpstreamCloses
  <2>1. stream' = stream
    BY <1>6, Zenon DEF DialReturns, UpstreamCloses
  <2> QED BY <2>1, Zenon DEF Told
<1>7. CASE StoreConn
  <2>1. stream' = [stream EXCEPT !.status = "stored", !.conn = TRUE] /\ stream.status = "dialling"
    BY <1>7, Zenon DEF StoreConn
  <2>2. /\ stream'.reports = stream.reports /\ stream'.once = stream.once /\ stream'.status = "stored"
        /\ stream'.writer = stream.writer /\ stream'.listed = stream.listed
    BY <1>1, <2>1, Zenon DEF StreamRecord
  <2> QED BY <1>2, <1>4, <2>1, <2>2, Zenon
<1>8. CASE ReportOpened
  <2>1. stream.status = "stored"
    BY <1>8, Zenon DEF ReportOpened
  <2>2. CASE stream' = [stream EXCEPT !.status = "open", !.writer = "idle", !.pump = "take"]
    <3>1. /\ stream'.reports = stream.reports /\ stream'.once = stream.once /\ stream'.status = "open"
          /\ stream'.writer = "idle" /\ stream'.listed = stream.listed
      BY <1>1, <2>2, Zenon DEF StreamRecord
    <3> QED BY <1>2, <1>4, <2>1, <3>1, Zenon
  <2>3. CASE closeWebSocket([stream EXCEPT !.status = "over"], "WsClose")
    <3> DEFINE n == [stream EXCEPT !.status = "over"]
    <3>1. closeWebSocket(n, "WsClose")
      BY <2>3, Zenon
    <3>2. /\ n \in StreamRecord /\ n.once = stream.once /\ n.reports = stream.reports /\ n.listed = stream.listed
          /\ n.status = "over" /\ n.writer = stream.writer
      BY <1>1, Zenon DEF StreamRecord
    <3> HIDE DEF n
    <3> QED BY <1>2, <1>3, <2>1, <3>1, <3>2, Zenon
  <2> QED BY <1>8, <2>2, <2>3, Zenon DEF ReportOpened
<1>9. /\ stream.writer \in {"write", "handshake", "idle"} => stream.status = "open"
      /\ stream.pump \in {"take", "read", "send"} => stream.status = "open"
  BY <1>1, <1>2, Zenon DEF Listing
<1>10. CASE TakeWrite
  <2> DEFINE rest == [stream EXCEPT !.ring = Tail(@)]
  <2>1. /\ stream.writer = "idle" /\ stream.status = "open"
        /\ \/ stream' = [rest EXCEPT !.writer = "write", !.held = Head(stream.ring).n]
           \/ stream' = [rest EXCEPT !.writer = "done"]
           \/ ~stream.once /\ stream' = [rest EXCEPT !.writer = "handshake", !.once = TRUE, !.listed = FALSE]
    BY <1>9, <1>10, Zenon DEF TakeWrite
  <2>2. /\ rest \in StreamRecord /\ rest.reports = stream.reports /\ rest.once = stream.once
        /\ rest.status = stream.status /\ rest.listed = stream.listed
    <3>1. stream.ring # <<>> /\ stream.ring \in Seq(Item)
      BY <1>1, <1>10, Zenon DEF TakeWrite, StreamRecord
    <3>2. Tail(stream.ring) \in Seq(Item)
      BY <3>1
    <3> QED BY <1>1, <3>2, Zenon DEF StreamRecord
  <2> HIDE DEF rest
  <2>3. CASE stream' = [rest EXCEPT !.writer = "write", !.held = Head(stream.ring).n]
    <3>1. /\ stream'.reports = rest.reports /\ stream'.once = rest.once /\ stream'.status = rest.status
          /\ stream'.writer = "write" /\ stream'.listed = rest.listed
      BY <2>2, <2>3, Zenon DEF StreamRecord
    <3> QED BY <1>2, <1>4, <2>2, <3>1, Zenon
  <2>4. CASE stream' = [rest EXCEPT !.writer = "done"]
    <3>1. /\ stream'.reports = rest.reports /\ stream'.once = rest.once /\ stream'.status = rest.status
          /\ stream'.writer = "done" /\ stream'.listed = rest.listed
      BY <2>2, <2>4, Zenon DEF StreamRecord
    <3> QED BY <1>2, <1>4, <2>2, <3>1, Zenon
  <2>5. CASE ~stream.once /\ stream' = [rest EXCEPT !.writer = "handshake", !.once = TRUE, !.listed = FALSE]
    <3>1. /\ stream'.reports = rest.reports /\ stream'.once /\ stream'.status = rest.status
          /\ ~stream'.listed
      BY <2>2, <2>5, Zenon DEF StreamRecord
    <3> QED BY <1>2, <1>4, <2>1, <2>2, <2>5, <3>1, Zenon
  <2> QED BY <2>1, <2>3, <2>4, <2>5, Zenon
<1>11. CASE WriteDone
  <2>1. stream' = [stream EXCEPT !.writer = "idle", !.held = 0]
    BY <1>11, Zenon DEF WriteDone
  <2>2. /\ stream'.reports = stream.reports /\ stream'.once = stream.once /\ stream'.status = stream.status
        /\ stream'.writer = "idle" /\ stream'.listed = stream.listed
    BY <1>1, <2>1, Zenon DEF StreamRecord
  <2> QED BY <1>2, <1>4, <2>2, Zenon
<1>12. CASE WriteFails
  <2> DEFINE n == [stream EXCEPT !.writer = "done", !.held = 0]
  <2>0. 0 \in Nat
    OBVIOUS
  <2>1. closeWebSocket(n, "WsClose") /\ stream.status = "open"
    BY <1>9, <1>12, Zenon DEF WriteFails
  <2>2. /\ n \in StreamRecord /\ n.once = stream.once /\ n.reports = stream.reports /\ n.listed = stream.listed
        /\ n.status = stream.status /\ n.writer = "done"
    BY <1>1, <2>0, Zenon DEF StreamRecord
  <2> HIDE DEF n
  <2> QED BY <1>2, <1>3, <2>1, <2>2, Zenon
<1>13. CASE HandshakeDone
  <2>1. /\ stream' = [stream EXCEPT !.writer = "done", !.cancelled = TRUE, !.reports = @ + 1]
        /\ stream.writer = "handshake"
    BY <1>13, Zenon DEF HandshakeDone
  <2>2. /\ stream'.reports = stream.reports + 1 /\ stream'.once = stream.once /\ stream'.status = stream.status
        /\ stream'.writer = "done"
    BY <1>1, <2>1, Zenon DEF StreamRecord
  <2>3. stream.once /\ stream.status = "open" /\ stream.reports = 0
    BY <1>1, <1>9, <2>1, Zenon DEF Listing, Told
  <2> QED BY <1>2, <2>2, <2>3, ToldStep, Zenon
<1>14. CASE WriterEnds
  <2>1. stream' = [stream EXCEPT !.writer = "done"]
    BY <1>14, Zenon DEF WriterEnds
  <2>2. /\ stream'.reports = stream.reports /\ stream'.once = stream.once /\ stream'.status = stream.status
        /\ stream'.writer = "done" /\ stream'.listed = stream.listed
    BY <1>1, <2>1, Zenon DEF StreamRecord
  <2> QED BY <1>2, <1>4, <2>2, Zenon
<1>15. CASE PumpTakes \/ PumpReads \/ PumpSends
  <2>1. \/ stream' = [stream EXCEPT !.pump = "read", !.credits = @ - 1]
        \/ stream' = [stream EXCEPT !.pump = "send"]
        \/ stream' = [stream EXCEPT !.pump = "take"]
    BY <1>15, Zenon DEF PumpTakes, PumpReads, PumpSends
  <2>2. /\ stream'.reports = stream.reports /\ stream'.once = stream.once /\ stream'.status = stream.status
        /\ stream'.writer = stream.writer /\ stream'.listed = stream.listed
    BY <1>1, <2>1, Zenon DEF StreamRecord
  <2> QED BY <1>4, <2>2, Zenon
<1>16. CASE PumpEnds
  <2> DEFINE n == [stream EXCEPT !.pump = "done"]
  <2>1. stream.status = "open" /\ (stream' = n \/ closeWebSocket(n, "WsClose"))
    BY <1>9, <1>16, Zenon DEF PumpEnds
  <2>2. /\ n \in StreamRecord /\ n.once = stream.once /\ n.reports = stream.reports /\ n.listed = stream.listed
        /\ n.status = stream.status /\ n.writer = stream.writer
    BY <1>1, Zenon DEF StreamRecord
  <2> HIDE DEF n
  <2>3. CASE stream' = n
    BY <1>4, <2>2, <2>3, Zenon
  <2>4. CASE closeWebSocket(n, "WsClose")
    BY <1>2, <1>3, <2>1, <2>2, <2>4, Zenon
  <2> QED BY <2>1, <2>3, <2>4, Zenon
<1>17. CASE ClosePeer
  <2>1. \/ stream' = [Torn(stream) EXCEPT !.open = FALSE]
        \/ stream' = [stream EXCEPT !.open = FALSE, !.listed = FALSE]
    BY <1>17, Zenon DEF ClosePeer
  <2>2. CASE stream' = [Torn(stream) EXCEPT !.open = FALSE]
    <3>1. Torn(stream) \in StreamRecord /\ Torn(stream).reports = stream.reports /\ Torn(stream).once
          /\ Torn(stream).status = stream.status /\ Torn(stream).writer = stream.writer /\ ~Torn(stream).listed
      BY <1>1, Zenon DEF Torn, StreamRecord
    <3>2. /\ stream'.reports = stream.reports /\ stream'.once /\ stream'.status = stream.status
          /\ stream'.writer = stream.writer /\ ~stream'.listed
      BY <2>2, <3>1, Zenon DEF StreamRecord
    <3> QED BY <1>4, <3>2, Zenon
  <2>3. CASE stream' = [stream EXCEPT !.open = FALSE, !.listed = FALSE]
    <3>1. /\ stream'.reports = stream.reports /\ stream'.once = stream.once /\ stream'.status = stream.status
          /\ stream'.writer = stream.writer /\ ~stream'.listed
      BY <1>1, <2>3, Zenon DEF StreamRecord
    <3> QED BY <1>4, <3>1, Zenon
  <2> QED BY <2>1, <2>2, <2>3, Zenon
<1> QED BY <1>5, <1>6, <1>7, <1>8, <1>10, <1>11, <1>12, <1>13, <1>14, <1>15, <1>16, <1>17, Zenon

\* The writer, the pump, the dialling goroutine, the lane's delivery and the peer's close race
\* to end a socket; the page is told at most once, of a close or of an error.
THEOREM ToldOnce == RelaySpec => [](stream.reports <= 1)
<1>1. RelayInit => Told
  <2> SUFFICES ASSUME RelayInit PROVE Told
    OBVIOUS
  <2>1. stream.reports = 0 /\ stream.writer = "none" /\ stream.status = "none"
    BY Zenon DEF RelayInit
  <2>2. "none" # "handshake" /\ "none" # "refused"
    OBVIOUS
  <2> QED BY <2>1, <2>2, Zenon DEF Told
<1>2. RelayIInv /\ Told /\ [RelayNext]_relayVars => Told'
  <2> SUFFICES ASSUME RelayIInv, Told, [RelayNext]_relayVars PROVE Told'
    OBVIOUS
  <2>1. CASE OnMessage
    BY <2>1, ToldByDelivery, Zenon
  <2>2. CASE \/ DialFails \/ DialReturns \/ StoreConn \/ ReportOpened
             \/ TakeWrite \/ WriteDone \/ WriteFails \/ HandshakeDone \/ WriterEnds
             \/ PumpTakes \/ PumpReads \/ PumpSends \/ PumpEnds
             \/ ClosePeer \/ UpstreamCloses
    BY <2>2, ToldByNode, Zenon
  <2>3. CASE \/ openWebSocket \/ SendText \/ SendBlob \/ SendTooLarge \/ close \/ failAllSockets
             \/ onSocketFrame \/ (\E n \in socket.blobs : BlobRead(n)) \/ UNCHANGED relayVars
    <3>1. stream' = stream
      BY <2>3, Zenon DEF openWebSocket, SendText, SendBlob, SendTooLarge, close, failAllSockets, onSocketFrame,
                         BlobRead, relayVars
    <3> QED BY <3>1, Zenon DEF Told
  <2> QED BY <2>1, <2>2, <2>3, Zenon DEF RelayNext, RelayStep
<1>3. Told => stream.reports <= 1
  BY DEF Told
<1> HIDE DEF RelayIInv, Told, RelayInit, RelayNext
<1> QED
  BY <1>1, <1>2, <1>3, RelayInvariance, PTL DEF RelaySpec
=============================================================================
