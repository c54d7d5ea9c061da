-------------------------- MODULE DispatcherProofs --------------------------
(* Nothing the dispatcher hands out is lost or handed out twice, for any number *)
(* of peers and requests and any limits.                                        *)
EXTENDS Dispatcher, FiniteSetTheorems, WellFoundedInduction, TLAPS

USE SMTT(60)

Types ==
    /\ prio \in [Requests -> Priorities]
    /\ status \in [Requests -> {"unsent", "new", "live", "returning", "gone"}]
    /\ handler \in [Requests -> {"none", "serving", "remove", "exit", "release", "done"}]
    /\ pending \in [Peers -> [Priorities -> Seq(Requests)]]
    /\ activeHandlers \in [Peers -> Nat] /\ activeNonInteractive \in [Peers -> Nat]
    /\ loop \in [Peers -> {"unborn", "scan", "idle", "class", "active", "start", "stopped"}]
    /\ DOMAIN chosen = Peers
    /\ admissionTokens \in Nat /\ activeTokens \in Nat /\ nonInteractiveTokens \in Nat

Booleans == started \in [Requests -> BOOLEAN]

\* A peer queues its own requests, in the queue of their priority; its loop
\* waits for a request of its own, and for the class token only when that is not
\* interactive; a request that is not started has no handler.
Queues ==
    /\ \A p \in Peers : \A n \in Priorities :
          \A i \in DOMAIN pending[p][n] : Owner[pending[p][n][i]] = p
    /\ \A p \in Peers :
          loop[p] \in {"class", "active", "start"} => chosen[p] \in Of(p)
    /\ \A p \in Peers : loop[p] = "class" => prio[chosen[p]] # 0
    /\ \A r \in Requests : ~started[r] => handler[r] = "none"

\* NothingLeaks, with a name for every set that is counted.
Running == {r \in Requests : handler[r] \in Holding}
RunningNon == {r \in Requests : handler[r] \in Holding /\ prio[r] # 0}
Starting == {p \in Peers : loop[p] = "start"}
WaitingNon == {p \in Peers : loop[p] \in {"active", "start"} /\ prio[chosen[p]] # 0}
HandlersNon(p) == {r \in Handlers(p) : prio[r] # 0}

Balance ==
    /\ admissionTokens + Cardinality(Admitted) = GlobalAdmitted
    /\ activeTokens + (Cardinality(Running) + Cardinality(Starting)) = GlobalActive
    /\ nonInteractiveTokens + (Cardinality(RunningNon) + Cardinality(WaitingNon))
         = GlobalNonInteractive

BalanceOf(p) ==
    /\ activeHandlers[p] = Cardinality(Handlers(p))
    /\ activeNonInteractive[p] = Cardinality(HandlersNon(p))
    /\ Cardinality(Live(p)) <= MaxAdmitted
    /\ activeHandlers[p] <= MaxActive
    /\ activeNonInteractive[p] <= MaxNonInteractive

PeerBalance == \A p \in Peers : BalanceOf(p)

IInv == Types /\ Booleans /\ Queues /\ Balance /\ PeerBalance

-----------------------------------------------------------------------------
(* The first runnable request of a queue.                                     *)
\* A nonempty set of numbers has a least one, so Least chooses a member.
LEMMA LeastExists ==
    ASSUME NEW S \in SUBSET Nat, S # {}
    PROVE  \E n \in S : \A k \in S : n <= k
<1> DEFINE R == {ss \in Nat \X Nat : ss[1] < ss[2]}
<1>1. IsWellFoundedOn(R, Nat)
  BY NatLessThanWellFounded, Zenon DEF OpToRel
<1> HIDE DEF R
<1>2. \E x \in S : \A y \in S : ~ (<<y, x>> \in R)
  BY <1>1, WFMin, Zenon
<1>3. ASSUME NEW x \in S, NEW y \in S PROVE <<y, x>> \in R <=> y < x
  BY Zenon DEF R
<1>4. PICK x \in S : \A y \in S : ~ (<<y, x>> \in R)
  BY <1>2, Zenon
<1>5. ASSUME NEW k \in S PROVE x <= k
  <2>1. ~ (k < x)
    BY <1>3, <1>4, Zenon
  <2>2. k \in Nat /\ x \in Nat
    OBVIOUS
  <2> QED
    BY <2>1, <2>2
<1> QED
  BY <1>5, Zenon

\* FirstRunnable is 0 or the place of a member.
LEMMA FirstInQueue ==
    ASSUME NEW queue \in Seq(Requests)
    PROVE  FirstRunnable(queue) \in 0..Len(queue)
<1> DEFINE I == {i \in DOMAIN queue : Runnable(queue[i])}
<1>1. FirstRunnable(queue) = IF I = {} THEN 0 ELSE Least(I)
  BY Zenon DEF FirstRunnable
<1>2. I \in SUBSET Nat
  OBVIOUS
<1>3. I # {} => Least(I) \in I
  BY <1>2, LeastExists, Zenon DEF Least
<1> QED
  BY <1>1, <1>3

\* What a scan finds is one of the peer's own requests.
LEMMA NextIsOwn ==
    ASSUME Types, Queues, NEW p \in Peers, NextPending(p) # None
    PROVE  NextPending(p) \in Of(p)
<1>1. Candidates(p) # {}
  BY Zenon DEF NextPending
<1>2. Candidates(p) \in SUBSET Nat
  <2>1. Candidates(p) \subseteq Priorities
    BY Zenon DEF Candidates
  <2>2. Priorities \subseteq Nat
    BY PrioritiesAssumption
  <2> QED
    BY <2>1, <2>2, Zenon
<1>3. Best(p) \in Candidates(p)
  BY <1>1, <1>2, LeastExists, Zenon DEF Best, Least
<1> DEFINE queue == pending[p][Best(p)]
<1>4. Best(p) \in Priorities /\ FirstRunnable(queue) # 0
  BY <1>3, Zenon DEF Candidates
<1>5. queue \in Seq(Requests)
  BY <1>4, Zenon DEF Types
<1>6. FirstRunnable(queue) \in 1..Len(queue)
  BY <1>4, <1>5, FirstInQueue
<1>7. NextPending(p) = queue[FirstRunnable(queue)]
  BY <1>1, Zenon DEF NextPending
<1>8. queue[FirstRunnable(queue)] \in Requests
  BY <1>5, <1>6
<1>9. Owner[queue[FirstRunnable(queue)]] = p
  BY <1>4, <1>5, <1>6 DEF Queues
<1> QED
  BY <1>7, <1>8, <1>9, Zenon DEF Of

\* A scan leaves in every queue the peer's own requests.
LEMMA PruneKeepsOwn ==
    ASSUME Types, Queues, NEW p \in Peers, NEW n \in Priorities
    PROVE  /\ PruneVisited(p)[n] \in Seq(Requests)
           /\ \A i \in DOMAIN PruneVisited(p)[n] : Owner[PruneVisited(p)[n][i]] = p
<1> DEFINE queue == pending[p][n]
           k == FirstRunnable(queue)
<1>1. queue \in Seq(Requests) /\ \A i \in 1..Len(queue) : Owner[queue[i]] = p
  BY DEF Types, Queues
<1>2. k \in 0..Len(queue)
  BY <1>1, FirstInQueue, Zenon
<1>3. PruneVisited(p)[n] = Pruned(queue) \/ PruneVisited(p)[n] = queue
  BY Zenon DEF PruneVisited
<1>4. Pruned(queue) = IF k = 0 THEN <<>> ELSE SubSeq(queue, k, Len(queue))
  BY Zenon DEF Pruned
<1> HIDE DEF queue, k
<1>5. Pruned(queue) \in Seq(Requests)
  BY <1>1, <1>2, <1>4
<1>6. \A i \in 1..Len(Pruned(queue)) : Owner[Pruned(queue)[i]] = p
  BY <1>1, <1>2, <1>4
<1> QED
  BY <1>1, <1>3, <1>5, <1>6

-----------------------------------------------------------------------------
(* Counting.                                                                  *)
\* A member more or less is one more or less.
LEMMA OneMoreOrLess ==
    ASSUME NEW U, IsFiniteSet(U), NEW S \in SUBSET U, NEW e \in U
    PROVE  /\ Cardinality(S) \in Nat
           /\ e \notin S => Cardinality(S \cup {e}) = Cardinality(S) + 1
           /\ e \in S => Cardinality(S \ {e}) = Cardinality(S) - 1
           /\ e \in S => Cardinality(S) - 1 \in Nat
<1>1. IsFiniteSet(S)
  BY FS_Subset, Zenon
<1>2. IsFiniteSet(S \ {e})
  BY <1>1, FS_Subset, Zenon
<1>3. e \in S => Cardinality(S \ {e}) = Cardinality(S) - 1
  BY <1>1, FS_RemoveElement, Zenon
<1> QED
  BY <1>1, <1>2, <1>3, FS_AddElement, FS_CardinalityType

\* The sets that are counted are finite.
LEMMA Counted ==
    /\ {Admitted, Running, RunningNon} \subseteq SUBSET Requests
    /\ {Starting, WaitingNon} \subseteq SUBSET Peers
    /\ \A p \in Peers : {Handlers(p), HandlersNon(p), Live(p)} \subseteq SUBSET Requests
  BY Zenon DEF Admitted, Running, RunningNon, Starting, WaitingNon, Handlers, HandlersNon, Live, Of

\* A step that changes no request's handler and no request's life.
LEMMA SameCounts ==
    ASSUME UNCHANGED <<prio, handler, status>>
    PROVE  /\ UNCHANGED <<Admitted, Running, RunningNon>>
           /\ \A p \in Peers : UNCHANGED <<Handlers(p), HandlersNon(p), Live(p)>>
  BY Zenon DEF Admitted, Running, RunningNon, Handlers, HandlersNon, Live, Of, InMap, Holding

\* A step that changes no loop.
LEMMA SameLoops ==
    ASSUME UNCHANGED <<prio, loop, chosen>>
    PROVE  UNCHANGED <<Starting, WaitingNon>>
  BY Zenon DEF Starting, WaitingNon

\* The numbers are natural, so that the limits can be compared with them.
LEMMA Naturals ==
    /\ {Cardinality(Admitted), Cardinality(Running), Cardinality(RunningNon),
        Cardinality(Starting), Cardinality(WaitingNon)} \subseteq Nat
    /\ \A p \in Peers :
         {Cardinality(Handlers(p)), Cardinality(HandlersNon(p)), Cardinality(Live(p))} \subseteq Nat
<1>1. \A S : S \subseteq Requests => Cardinality(S) \in Nat
  BY OwnerAssumption, FS_Subset, FS_CardinalityType, Zenon
<1>2. \A S : S \subseteq Peers => Cardinality(S) \in Nat
  BY OwnerAssumption, FS_Subset, FS_CardinalityType, Zenon
<1> QED
  BY <1>1, <1>2, Counted, Zenon

\* A peer that loses requests stays within its limit.
LEMMA StillWithin ==
    ASSUME NEW p \in Peers, Cardinality(Live(p)) <= MaxAdmitted, NEW T \in SUBSET Live(p)
    PROVE  Cardinality(T) <= MaxAdmitted
<1>1. IsFiniteSet(Live(p))
  BY Counted, OwnerAssumption, FS_Subset, Zenon
<1>2. Cardinality(T) <= Cardinality(Live(p)) /\ Cardinality(T) \in Nat
  BY <1>1, FS_Subset, FS_CardinalityType, Zenon
<1> QED
  BY <1>2, Naturals, PeerLimitsAssumption

-----------------------------------------------------------------------------
(* The requests' steps.                                                       *)
LEMMA BeginIInv ==
    ASSUME IInv, NEW r \in Requests, Begin(r)
    PROVE  IInv'
<1> DEFINE p == Owner[r]
<1> USE DEF IInv
<1>1. p \in Peers /\ r \in Of(p)
  BY OwnerAssumption, Zenon DEF Of
<1>2. UNCHANGED <<Running, RunningNon, Starting, WaitingNon>>
  BY Zenon DEF Begin, Running, RunningNon, Starting, WaitingNon, Holding
<1>3. \A q \in Peers : UNCHANGED <<Handlers(q), HandlersNon(q)>>
  BY Zenon DEF Begin, Handlers, HandlersNon, Of
<1>4. r \notin Admitted /\ r \notin Live(p)
  BY Zenon DEF Begin, Admitted, Live, InMap
<1>5. CASE Cardinality(Live(p)) < MaxAdmitted /\ admissionTokens > 0
  <2>1. Admitted' = Admitted \cup {r} /\ Live(p)' = Live(p) \cup {r}
    BY <1>1, <1>5 DEF Begin, Types, Admitted, Live, InMap, Of
  <2>2. \A q \in Peers \ {p} : Live(q)' = Live(q)
    BY <1>5 DEF Begin, Types, Live, InMap, Of
  <2>3. /\ Cardinality(Admitted') = Cardinality(Admitted) + 1
        /\ Cardinality(Live(p)') = Cardinality(Live(p)) + 1
    BY <1>1, <1>4, <2>1, Counted, OneMoreOrLess, OwnerAssumption
  <2> DEFINE n == prio[r]
             queue == Append(pending[p][n], r)
  <2>4. /\ n \in Priorities /\ pending[p][n] \in Seq(Requests)
        /\ pending' = [pending EXCEPT ![p] = [pending[p] EXCEPT ![n] = queue]]
    BY <1>1, <1>5 DEF Begin, Types
  <2>5. queue \in Seq(Requests) /\ \A i \in DOMAIN queue : Owner[queue[i]] = p
    BY <1>1, <2>4 DEF Queues
  <2> HIDE DEF queue
  <2>6. pending' \in [Peers -> [Priorities -> Seq(Requests)]]
    BY <1>1, <2>4, <2>5, Zenon DEF Types
  <2>7. Types' /\ Booleans'
    <3>1. status' = [status EXCEPT ![r] = "new"] /\ admissionTokens' = admissionTokens - 1
      BY <1>5, Zenon DEF Begin
    <3>2. UNCHANGED <<prio, started, handler, activeHandlers, activeNonInteractive,
                      loop, chosen, activeTokens, nonInteractiveTokens>>
      BY Zenon DEF Begin
    <3> QED
      BY <1>5, <2>6, <3>1, <3>2 DEF Types, Booleans
  <2>8. ASSUME NEW q \in Peers, NEW m \in Priorities, NEW i \in DOMAIN pending'[q][m]
        PROVE  Owner[pending'[q][m][i]] = q
    <3>1. CASE q = p /\ m = n
      BY <1>1, <2>4, <2>5, <3>1, Zenon DEF Types
    <3>2. CASE ~(q = p /\ m = n)
      BY <1>1, <2>4, <3>2 DEF Types, Queues
    <3> QED
      BY <3>1, <3>2, Zenon
  <2>9. Queues'
    BY <2>8, Zenon DEF Begin, Queues, Of
  <2>10. Balance'
    BY <1>2, <1>5, <2>3, Naturals, TokensAssumption DEF Begin, Balance, Types
  <2>11. ASSUME NEW q \in Peers PROVE BalanceOf(q)'
    <3>1. CASE q = p
      BY <1>1, <1>3, <1>5, <2>3, <3>1, Naturals, PeerLimitsAssumption
         DEF Begin, PeerBalance, BalanceOf
    <3>2. CASE q # p
      BY <1>3, <2>2, <3>2, Zenon DEF Begin, PeerBalance, BalanceOf
    <3> QED
      BY <3>1, <3>2, Zenon
  <2> QED
    BY <2>7, <2>9, <2>10, <2>11, Zenon DEF PeerBalance
<1>6. CASE ~(Cardinality(Live(p)) < MaxAdmitted /\ admissionTokens > 0)
  <2>1. UNCHANGED Admitted /\ \A q \in Peers : UNCHANGED Live(q)
    BY <1>6, Zenon DEF Begin, Types, Admitted, Live, InMap, Of
  <2>2. Types' /\ Booleans'
    BY <1>6, Zenon DEF Begin, Types, Booleans
  <2>4. Queues'
    BY <1>6 DEF Begin, Queues, Of
  <2>3. Balance' /\ PeerBalance'
    BY <1>2, <1>3, <1>6, <2>1, Zenon DEF Begin, Balance, PeerBalance, BalanceOf
  <2> QED
    BY <2>2, <2>3, <2>4, Zenon
<1> QED
  BY <1>5, <1>6, Zenon

LEMMA BeginSignalsIInv ==
    ASSUME IInv, NEW r \in Requests, BeginSignals(r)
    PROVE  IInv'
<1> USE DEF IInv
<1>1. UNCHANGED <<Admitted, Running, RunningNon, Starting, WaitingNon>>
  BY Zenon DEF BeginSignals, Types, Admitted, Running, RunningNon, Starting, WaitingNon, InMap, Holding
<1>2. \A q \in Peers : UNCHANGED <<Handlers(q), HandlersNon(q), Live(q)>>
  BY Zenon DEF BeginSignals, Types, Handlers, HandlersNon, Live, InMap, Of
<1>3. Types' /\ Booleans'
  BY OwnerAssumption, Zenon DEF BeginSignals, session, tokens, Types, Booleans
<1>5. Queues'
  BY OwnerAssumption DEF BeginSignals, session, Types, Queues, Of
<1>4. Balance' /\ PeerBalance'
  BY <1>1, <1>2, Zenon DEF BeginSignals, session, tokens, Balance, PeerBalance, BalanceOf
<1> QED
  BY <1>3, <1>4, <1>5

LEMMA CancelIInv ==
    ASSUME IInv, NEW r \in Requests, Cancel(r)
    PROVE  IInv'
<1> DEFINE p == Owner[r]
<1> USE DEF IInv
<1>1. p \in Peers /\ r \in Live(p)
  BY OwnerAssumption, Zenon DEF Cancel, Live, Of
<1>2. UNCHANGED <<Admitted, Running, RunningNon, Starting, WaitingNon>>
  BY Zenon DEF Cancel, Types, Admitted, Running, RunningNon, Starting, WaitingNon, InMap, Holding
<1>3. \A q \in Peers : UNCHANGED <<Handlers(q), HandlersNon(q)>>
  BY Zenon DEF Cancel, Handlers, HandlersNon, Of
<1>4. Live(p)' = Live(p) \ {r} /\ \A q \in Peers \ {p} : Live(q)' = Live(q)
  BY Zenon DEF Cancel, Types, Live, InMap, Of
<1>5. Cardinality(Live(p)') = Cardinality(Live(p)) - 1
  BY <1>1, <1>4, Counted, OneMoreOrLess, OwnerAssumption
<1>6. Types' /\ Booleans' /\ Queues'
  BY DEF Cancel, session, tokens, Types, Booleans, Queues, Of
<1>7. Balance'
  BY <1>2, Zenon DEF Cancel, session, tokens, Balance
<1>8. ASSUME NEW q \in Peers PROVE BalanceOf(q)'
  <2>1. CASE q = p
    BY <1>1, <1>3, <1>5, <2>1, Naturals, PeerLimitsAssumption
       DEF Cancel, session, PeerBalance, BalanceOf
  <2>2. CASE q # p
    BY <1>3, <1>4, <2>2, Zenon DEF Cancel, session, PeerBalance, BalanceOf
  <2> QED
    BY <2>1, <2>2
<1> QED
  BY <1>6, <1>7, <1>8, Zenon DEF PeerBalance

LEMMA ReturnAdmissionIInv ==
    ASSUME IInv, NEW r \in Requests, ReturnAdmission(r)
    PROVE  IInv'
<1> USE DEF IInv
<1>1. UNCHANGED <<Running, RunningNon, Starting, WaitingNon>>
  BY Zenon DEF ReturnAdmission, Types, Running, RunningNon, Starting, WaitingNon, Holding
<1>2. \A q \in Peers : UNCHANGED <<Handlers(q), HandlersNon(q), Live(q)>>
  BY Zenon DEF ReturnAdmission, Types, Handlers, HandlersNon, Live, InMap, Of
<1>3. r \in Admitted /\ Admitted' = Admitted \ {r}
  BY Zenon DEF ReturnAdmission, Types, Admitted, InMap
<1>4. Cardinality(Admitted') = Cardinality(Admitted) - 1
  BY <1>3, Counted, OneMoreOrLess, OwnerAssumption
<1>5. Types' /\ Booleans'
  BY DEF ReturnAdmission, session, Types, Booleans
<1>6. Queues'
  BY DEF ReturnAdmission, session, Types, Queues, Of
<1>7. Balance'
  BY <1>1, <1>4, Naturals, TokensAssumption DEF ReturnAdmission, session, Balance, Types
<1>8. PeerBalance'
  BY <1>2, Zenon DEF ReturnAdmission, session, PeerBalance, BalanceOf
<1> QED
  BY <1>5, <1>6, <1>7, <1>8, Zenon

LEMMA HandlerReturnsIInv ==
    ASSUME IInv, NEW r \in Requests, HandlerReturns(r)
    PROVE  IInv'
<1> DEFINE p == Owner[r]
<1> USE DEF IInv
<1>1. p \in Peers
  BY OwnerAssumption, Zenon
<1>2. UNCHANGED <<Admitted, Running, RunningNon, Starting, WaitingNon>>
  BY DEF HandlerReturns, Types, Admitted, Running, RunningNon, Starting, WaitingNon,
         InMap, Holding
<1>3. \A q \in Peers : UNCHANGED <<Handlers(q), HandlersNon(q)>>
  BY DEF HandlerReturns, Types, Handlers, HandlersNon, Of
<1>4. Live(p)' = Live(p) \ {r} /\ \A q \in Peers \ {p} : Live(q)' = Live(q)
  BY Zenon DEF HandlerReturns, Types, Live, InMap, Of
<1>6. Types' /\ Booleans'
  BY Zenon DEF HandlerReturns, session, tokens, Types, Booleans
<1>7. Queues'
  BY DEF HandlerReturns, session, Types, Queues, Of
<1>8. Balance'
  BY <1>2, Zenon DEF HandlerReturns, tokens, Balance
<1>9. ASSUME NEW q \in Peers PROVE BalanceOf(q)'
  <2>1. Live(q)' \subseteq Live(q)
    BY <1>4, Zenon
  <2>2. Cardinality(Live(q)') <= MaxAdmitted
    BY <2>1, StillWithin, Zenon DEF PeerBalance, BalanceOf
  <2> QED
    BY <1>3, <2>2, Zenon DEF HandlerReturns, session, PeerBalance, BalanceOf
<1> QED
  BY <1>6, <1>7, <1>8, <1>9 DEF PeerBalance

LEMMA HandlerExitedIInv ==
    ASSUME IInv, NEW r \in Requests, HandlerExited(r)
    PROVE  IInv'
<1> DEFINE p == Owner[r]
<1> USE DEF IInv
<1>1. p \in Peers /\ r \in Handlers(p)
  BY OwnerAssumption, Zenon DEF HandlerExited, Handlers, Of
<1>2. UNCHANGED <<Admitted, Running, RunningNon, Starting, WaitingNon>>
  BY Zenon DEF HandlerExited, Types, Admitted, Running, RunningNon, Starting, WaitingNon, Holding
<1>3. \A q \in Peers : UNCHANGED Live(q)
  BY Zenon DEF HandlerExited, Live, Of
<1>4. /\ Handlers(p)' = Handlers(p) \ {r} /\ HandlersNon(p)' = HandlersNon(p) \ {r}
      /\ \A q \in Peers \ {p} : UNCHANGED <<Handlers(q), HandlersNon(q)>>
  BY Zenon DEF HandlerExited, Types, Handlers, HandlersNon, Of
<1>5. Cardinality(Handlers(p)') = activeHandlers[p] - 1 /\ activeHandlers[p] - 1 \in Nat
  <2>1. Handlers(p) \in SUBSET Requests
    BY <1>1, Counted, Zenon
  <2>2. /\ Cardinality(Handlers(p) \ {r}) = Cardinality(Handlers(p)) - 1
        /\ Cardinality(Handlers(p)) - 1 \in Nat
    BY <1>1, <2>1, OneMoreOrLess, OwnerAssumption
  <2> QED
    BY <1>1, <1>4, <2>2, Zenon DEF PeerBalance, BalanceOf
<1>6. r \in HandlersNon(p) <=> prio[r] # 0
  BY <1>1, Zenon DEF HandlersNon
<1>7. /\ Cardinality(HandlersNon(p)') =
             IF prio[r] = 0 THEN activeNonInteractive[p] ELSE activeNonInteractive[p] - 1
      /\ prio[r] # 0 => activeNonInteractive[p] - 1 \in Nat
  <2>1. CASE prio[r] # 0
    BY <1>1, <1>4, <1>6, <2>1, Counted, OneMoreOrLess, OwnerAssumption DEF PeerBalance, BalanceOf
  <2>2. CASE prio[r] = 0
    <3>1. HandlersNon(p)' = HandlersNon(p)
      BY <1>4, <1>6, <2>2, Zenon
    <3> QED
      BY <1>1, <2>2, <3>1, Zenon DEF PeerBalance, BalanceOf
  <2> QED
    BY <2>1, <2>2, Zenon
<1>8. Types' /\ Booleans'
  <2>1. activeHandlers' \in [Peers -> Nat] /\ activeNonInteractive' \in [Peers -> Nat]
    BY <1>1, <1>5, <1>7, Zenon DEF HandlerExited, Types
  <2> QED
    BY <2>1, Zenon DEF HandlerExited, tokens, Types, Booleans
<1>9. Queues'
  BY DEF HandlerExited, Types, Queues, Of
<1>10. Balance'
  BY <1>2, Zenon DEF HandlerExited, tokens, Balance
<1>11. ASSUME NEW q \in Peers PROVE BalanceOf(q)'
  <2>1. CASE q = p
    BY <1>1, <1>3, <1>5, <1>7, <2>1, PeerLimitsAssumption
       DEF HandlerExited, Types, PeerBalance, BalanceOf
  <2>2. CASE q # p
    BY <1>3, <1>4, <2>2, Zenon DEF HandlerExited, Types, PeerBalance, BalanceOf
  <2> QED
    BY <2>1, <2>2
<1> QED
  BY <1>8, <1>9, <1>10, <1>11 DEF PeerBalance

LEMMA HandlerReleasesIInv ==
    ASSUME IInv, NEW r \in Requests, HandlerReleases(r)
    PROVE  IInv'
<1> USE DEF IInv
<1>1. UNCHANGED <<Admitted, Starting, WaitingNon>>
  BY Zenon DEF HandlerReleases, Admitted, Starting, WaitingNon
<1>2. \A q \in Peers : UNCHANGED <<Handlers(q), HandlersNon(q), Live(q)>>
  BY Zenon DEF HandlerReleases, Types, Handlers, HandlersNon, Live, Of
<1>3. r \in Running /\ Running' = Running \ {r}
  BY Zenon DEF HandlerReleases, Types, Running, Holding
<1>4. (r \in RunningNon <=> prio[r] # 0) /\ RunningNon' = RunningNon \ {r}
  BY Zenon DEF HandlerReleases, Types, RunningNon, Holding
<1>5. Cardinality(Running') = Cardinality(Running) - 1
  BY <1>3, Counted, OneMoreOrLess, OwnerAssumption
<1>6. Cardinality(RunningNon') = IF prio[r] = 0 THEN Cardinality(RunningNon)
                                 ELSE Cardinality(RunningNon) - 1
  <2>1. prio[r] = 0 => RunningNon' = RunningNon
    BY <1>4, Zenon
  <2>2. RunningNon \in SUBSET Requests
    BY Counted, Zenon
  <2>3. r \in RunningNon => Cardinality(RunningNon \ {r}) = Cardinality(RunningNon) - 1
    BY <2>2, OneMoreOrLess, OwnerAssumption
  <2> QED
    BY <1>4, <2>1, <2>3, Zenon
<1>7. Types' /\ Booleans'
  BY DEF HandlerReleases, ReleaseActiveTokens, session, Types, Booleans
<1>8. Queues'
  BY DEF HandlerReleases, session, Types, Queues, Of
<1>9. Balance'
  <2>1. /\ activeTokens' = activeTokens + 1 /\ UNCHANGED admissionTokens
        /\ nonInteractiveTokens' =
             IF prio[r] = 0 THEN nonInteractiveTokens ELSE nonInteractiveTokens + 1
    BY Zenon DEF HandlerReleases, ReleaseActiveTokens
  <2>2. activeTokens \in Nat /\ nonInteractiveTokens \in Nat
    BY Zenon DEF Types
  <2>3. activeTokens' + (Cardinality(Running') + Cardinality(Starting')) = GlobalActive
    BY <1>1, <1>5, <2>1, <2>2, Naturals, TokensAssumption DEF Balance
  <2>4. nonInteractiveTokens' + (Cardinality(RunningNon') + Cardinality(WaitingNon'))
          = GlobalNonInteractive
    BY <1>1, <1>6, <2>1, <2>2, Naturals, TokensAssumption DEF Balance
  <2> QED
    BY <1>1, <2>1, <2>3, <2>4, Zenon DEF Balance
<1>10. PeerBalance'
  BY <1>2, Zenon DEF HandlerReleases, session, PeerBalance, BalanceOf
<1> QED
  BY <1>7, <1>8, <1>9, <1>10

-----------------------------------------------------------------------------
(* The peers' steps.                                                          *)
LEMMA CloseIInv ==
    ASSUME IInv, NEW p \in Peers, Close(p)
    PROVE  IInv'
<1> USE DEF IInv
<1>1. UNCHANGED <<Admitted, Running, RunningNon, Starting, WaitingNon>>
  BY Zenon DEF Close, Types, Admitted, Running, RunningNon, Starting, WaitingNon, Live, InMap,
         Holding
<1>2. \A q \in Peers : UNCHANGED <<Handlers(q), HandlersNon(q)>> /\ Live(q)' \subseteq Live(q)
  BY Zenon DEF Close, Types, Handlers, HandlersNon, Live, InMap, Of
<1>3. Types' /\ Booleans'
  BY Zenon DEF Close, tokens, Types, Booleans
<1>4. Queues'
  BY DEF Close, Queues, Of
<1>5. Balance'
  BY <1>1, Zenon DEF Close, tokens, Balance
<1>6. ASSUME NEW q \in Peers PROVE BalanceOf(q)'
  <2>1. Cardinality(Live(q)') <= MaxAdmitted
    BY <1>2, StillWithin, Zenon DEF PeerBalance, BalanceOf
  <2> QED
    BY <1>2, <2>1, Zenon DEF Close, PeerBalance, BalanceOf
<1> QED
  BY <1>3, <1>4, <1>5, <1>6, Zenon DEF PeerBalance

LEMMA ScanIInv ==
    ASSUME IInv, NEW p \in Peers, Scan(p)
    PROVE  IInv'
<1> USE DEF IInv
<1>1. UNCHANGED <<prio, handler, status>>
  BY Zenon DEF Scan
<1>2. /\ UNCHANGED <<Admitted, Running, RunningNon>>
      /\ \A q \in Peers : UNCHANGED <<Handlers(q), HandlersNon(q), Live(q)>>
  BY <1>1, SameCounts, Zenon
<1>3. NextPending(p) # None => NextPending(p) \in Of(p)
  BY NextIsOwn, Zenon
<1>4. UNCHANGED <<Starting, WaitingNon>>
  BY DEF Scan, Types, Starting, WaitingNon
<1>5. pending' \in [Peers -> [Priorities -> Seq(Requests)]]
  <2>1. PruneVisited(p) \in [Priorities -> Seq(Requests)]
    BY PruneKeepsOwn, Zenon DEF PruneVisited
  <2>2. pending \in [Peers -> [Priorities -> Seq(Requests)]]
    BY Zenon DEF Types
  <2>3. pending' = pending \/ pending' = [pending EXCEPT ![p] = PruneVisited(p)]
    BY Zenon DEF Scan
  <2> QED
    BY <2>1, <2>2, <2>3, Zenon
<1>6. Types' /\ Booleans'
  BY <1>5 DEF Scan, tokens, Types, Booleans
<1>7. ASSUME NEW q \in Peers, NEW m \in Priorities, NEW i \in DOMAIN pending'[q][m]
      PROVE  Owner[pending'[q][m][i]] = q
  <2>1. pending'[q] = pending[q] \/ (q = p /\ pending'[q] = PruneVisited(p))
    BY Zenon DEF Scan, Types
  <2> QED
    BY <1>7, <2>1, PruneKeepsOwn DEF Queues
<1>8. ASSUME NEW q \in Peers
      PROVE  /\ loop'[q] \in {"class", "active", "start"} => chosen'[q] \in Of(q)
             /\ loop'[q] = "class" => prio'[chosen'[q]] # 0
  <2>1. CASE q = p
    BY <1>3, <2>1 DEF Scan, Types, Queues
  <2>2. CASE q # p
    BY <2>2 DEF Scan, Types, Queues
  <2> QED
    BY <2>1, <2>2, Zenon
<1>10. Queues'
  BY <1>7, <1>8, Zenon DEF Scan, Queues, Of
<1>9. Balance' /\ PeerBalance'
  BY <1>2, <1>4, Zenon DEF Scan, tokens, Balance, PeerBalance, BalanceOf
<1> QED
  BY <1>6, <1>9, <1>10

LEMMA IdleIInv ==
    ASSUME IInv, NEW p \in Peers, Idle(p)
    PROVE  IInv'
<1> USE DEF IInv
<1>1. UNCHANGED <<prio, handler, status>>
  BY Zenon DEF Idle
<1>2. UNCHANGED <<Starting, WaitingNon>>
  BY DEF Idle, Types, Starting, WaitingNon
<1>3. Types' /\ Booleans'
  BY Zenon DEF Idle, session, tokens, Types, Booleans
<1>4. Queues'
  BY DEF Idle, session, Types, Queues, Of
<1>5. Balance' /\ PeerBalance'
  BY <1>1, <1>2, SameCounts, Zenon DEF Idle, session, tokens, Balance, PeerBalance, BalanceOf
<1> QED
  BY <1>3, <1>4, <1>5, Zenon

LEMMA WaitForClassTokenIInv ==
    ASSUME IInv, NEW p \in Peers, WaitForClassToken(p)
    PROVE  IInv'
<1> USE DEF IInv
<1>1. UNCHANGED <<prio, handler, status>>
  BY Zenon DEF WaitForClassToken
<1>2. loop[p] = "class" /\ prio[chosen[p]] # 0 /\ p \notin WaitingNon
  BY Zenon DEF WaitForClassToken, Queues, WaitingNon
<1>3. UNCHANGED Starting
  BY Zenon DEF WaitForClassToken, Types, Starting
<1>4. Types' /\ Booleans'
  <2>3. \/ /\ loop' = [loop EXCEPT ![p] = "active"] /\ nonInteractiveTokens > 0
           /\ nonInteractiveTokens' = nonInteractiveTokens - 1
        \/ loop' = [loop EXCEPT ![p] = "scan"] /\ UNCHANGED nonInteractiveTokens
    BY Zenon DEF WaitForClassToken
  <2>1. /\ loop' \in [Peers -> {"unborn", "scan", "idle", "class", "active", "start", "stopped"}]
        /\ nonInteractiveTokens' \in Nat
    <3>1. loop \in [Peers -> {"unborn", "scan", "idle", "class", "active", "start", "stopped"}]
      BY Zenon DEF Types
    <3>2. nonInteractiveTokens \in Nat
      BY Zenon DEF Types
    <3>3. nonInteractiveTokens' \in Nat
      BY <2>3, <3>2
    <3> QED
      BY <2>3, <3>1, <3>3, Zenon
  <2>2. UNCHANGED <<prio, status, started, handler, session, chosen, admissionTokens,
                    activeTokens>>
    BY Zenon DEF WaitForClassToken
  <2> QED
    BY <2>1, <2>2, Zenon DEF session, Types, Booleans
<1>5. Queues'
  BY DEF WaitForClassToken, session, Types, Queues, Of
<1>6. /\ UNCHANGED <<Admitted, Running, RunningNon>>
      /\ \A q \in Peers : UNCHANGED <<Handlers(q), HandlersNon(q), Live(q)>>
  BY <1>1, SameCounts
<1>7. PeerBalance'
  BY <1>6, Zenon DEF WaitForClassToken, session, PeerBalance, BalanceOf
<1>8. CASE loop' = [loop EXCEPT ![p] = "active"] /\ nonInteractiveTokens' = nonInteractiveTokens - 1
  <2>1. WaitingNon' = WaitingNon \cup {p}
    BY <1>2, <1>8, Zenon DEF WaitForClassToken, Types, WaitingNon
  <2>2. Cardinality(WaitingNon') = Cardinality(WaitingNon) + 1
    BY <1>2, <2>1, Counted, OneMoreOrLess, OwnerAssumption, Zenon
  <2>3. nonInteractiveTokens \in Nat /\ UNCHANGED <<admissionTokens, activeTokens>>
    BY Zenon DEF WaitForClassToken, Types
  <2>4. Balance'
    BY <1>3, <1>6, <1>8, <2>2, <2>3, Naturals, TokensAssumption DEF Balance
  <2> QED
    BY <1>4, <1>5, <1>7, <2>4, Zenon
<1>9. CASE loop' = [loop EXCEPT ![p] = "scan"] /\ nonInteractiveTokens' = nonInteractiveTokens
  <2>1. WaitingNon' = WaitingNon
    BY <1>2, <1>9, Zenon DEF WaitForClassToken, Types, WaitingNon
  <2>2. Balance'
    BY <1>3, <1>6, <1>9, <2>1, Zenon DEF WaitForClassToken, Balance
  <2> QED
    BY <1>4, <1>5, <1>7, <2>2
<1> QED
  BY <1>8, <1>9, Zenon DEF WaitForClassToken

LEMMA WaitForActiveTokenIInv ==
    ASSUME IInv, NEW p \in Peers, WaitForActiveToken(p)
    PROVE  IInv'
<1> USE DEF IInv
<1>1. UNCHANGED <<prio, handler, status>>
  BY Zenon DEF WaitForActiveToken
<1>2. loop[p] = "active" /\ p \notin Starting /\ (p \in WaitingNon <=> prio[chosen[p]] # 0)
  BY Zenon DEF WaitForActiveToken, WaitingNon, Starting
<1>3. Types' /\ Booleans'
  <2>3. \/ /\ loop' = [loop EXCEPT ![p] = "start"] /\ activeTokens > 0
           /\ activeTokens' = activeTokens - 1 /\ UNCHANGED nonInteractiveTokens
        \/ /\ loop' = [loop EXCEPT ![p] = "scan"] /\ UNCHANGED activeTokens
           /\ nonInteractiveTokens' \in {nonInteractiveTokens, nonInteractiveTokens + 1}
    BY Zenon DEF WaitForActiveToken
  <2>1. /\ loop' \in [Peers -> {"unborn", "scan", "idle", "class", "active", "start", "stopped"}]
        /\ nonInteractiveTokens' \in Nat /\ activeTokens' \in Nat
    <3>1. loop \in [Peers -> {"unborn", "scan", "idle", "class", "active", "start", "stopped"}]
      BY DEF Types
    <3>2. nonInteractiveTokens \in Nat /\ activeTokens \in Nat
      BY Zenon DEF Types
    <3>3. nonInteractiveTokens' \in Nat /\ activeTokens' \in Nat
      BY <2>3, <3>2
    <3> QED
      BY <2>3, <3>1, <3>3, Zenon
  <2>2. UNCHANGED <<prio, status, started, handler, session, chosen, admissionTokens>>
    BY Zenon DEF WaitForActiveToken
  <2> QED
    BY <2>1, <2>2, Zenon DEF session, Types, Booleans
<1>4. Queues'
  BY DEF WaitForActiveToken, session, Types, Queues, Of
<1>5. /\ UNCHANGED <<Admitted, Running, RunningNon>>
      /\ \A q \in Peers : UNCHANGED <<Handlers(q), HandlersNon(q), Live(q)>>
  BY <1>1, SameCounts
<1>6. PeerBalance'
  BY <1>5, Zenon DEF WaitForActiveToken, session, PeerBalance, BalanceOf
<1>7. activeTokens \in Nat /\ nonInteractiveTokens \in Nat /\ UNCHANGED admissionTokens
  BY Zenon DEF WaitForActiveToken, Types
<1>8. CASE /\ loop' = [loop EXCEPT ![p] = "start"] /\ activeTokens' = activeTokens - 1
           /\ nonInteractiveTokens' = nonInteractiveTokens
  <2>1. Starting' = Starting \cup {p} /\ WaitingNon' = WaitingNon
    BY <1>2, <1>8 DEF WaitForActiveToken, Types, WaitingNon, Starting
  <2>2. Cardinality(Starting') = Cardinality(Starting) + 1
    BY <1>2, <2>1, Counted, OneMoreOrLess, OwnerAssumption, Zenon
  <2>3. Balance'
    BY <1>5, <1>7, <1>8, <2>1, <2>2, Naturals, TokensAssumption DEF Balance
  <2> QED
    BY <1>3, <1>4, <1>6, <2>3
<1>9. CASE /\ loop' = [loop EXCEPT ![p] = "scan"] /\ activeTokens' = activeTokens
           /\ nonInteractiveTokens' =
                IF prio[chosen[p]] = 0 THEN nonInteractiveTokens ELSE nonInteractiveTokens + 1
  <2>1. Starting' = Starting /\ WaitingNon' = WaitingNon \ {p}
    BY <1>2, <1>9, Zenon DEF WaitForActiveToken, Types, WaitingNon, Starting
  <2>2. Cardinality(WaitingNon') = IF prio[chosen[p]] = 0 THEN Cardinality(WaitingNon)
                                   ELSE Cardinality(WaitingNon) - 1
    <3>1. prio[chosen[p]] = 0 => WaitingNon' = WaitingNon
      BY <1>2, <2>1, Zenon
    <3>2. WaitingNon \in SUBSET Peers
      BY Counted, Zenon
    <3>3. p \in WaitingNon => Cardinality(WaitingNon \ {p}) = Cardinality(WaitingNon) - 1
      BY <3>2, OneMoreOrLess, OwnerAssumption, Zenon
    <3> QED
      BY <1>2, <2>1, <3>1, <3>3, Zenon
  <2>3. Balance'
    BY <1>5, <1>7, <1>9, <2>1, <2>2, Naturals, TokensAssumption DEF Balance
  <2> QED
    BY <1>3, <1>4, <1>6, <2>3
<1> QED
  BY <1>8, <1>9, Zenon DEF WaitForActiveToken

\* The tokens a request holds on its way: the loop's, and its handler's.
LEMMA StartIInv ==
    ASSUME IInv, NEW p \in Peers, Start(p)
    PROVE  IInv'
<1> DEFINE r == chosen[p]
<1> USE DEF IInv
<1>1. r \in Requests /\ Owner[r] = p /\ loop[p] = "start"
  BY Zenon DEF Start, Queues, Of
<1>2. p \in Starting /\ Starting' = Starting \ {p}
  BY <1>1, Zenon DEF Start, Types, Starting
<1>3. (p \in WaitingNon <=> prio[r] # 0) /\ WaitingNon' = WaitingNon \ {p}
  BY <1>1, Zenon DEF Start, Types, WaitingNon
<1>4. Cardinality(Starting') = Cardinality(Starting) - 1
  BY <1>2, Counted, OneMoreOrLess, OwnerAssumption
<1>5. Cardinality(WaitingNon') = IF prio[r] = 0 THEN Cardinality(WaitingNon)
                                 ELSE Cardinality(WaitingNon) - 1
  <2>1. prio[r] = 0 => WaitingNon' = WaitingNon
    BY <1>3, Zenon
  <2>2. WaitingNon \in SUBSET Peers
    BY Counted
  <2>3. p \in WaitingNon => Cardinality(WaitingNon \ {p}) = Cardinality(WaitingNon) - 1
    BY <2>2, OneMoreOrLess, OwnerAssumption
  <2> QED
    BY <1>3, <2>1, <2>3, Zenon
<1>6. UNCHANGED Admitted /\ \A q \in Peers : UNCHANGED Live(q)
  BY Zenon DEF Start, Admitted, Live, Of
<1>7. loop' \in [Peers -> {"unborn", "scan", "idle", "class", "active", "start", "stopped"}]
  BY Zenon DEF Start, Types
<1>8. UNCHANGED <<prio, status, pending, chosen, admissionTokens>>
  BY Zenon DEF Start
<1>9. activeTokens \in Nat /\ nonInteractiveTokens \in Nat
  BY Zenon DEF Types
<1>10. \A q \in Peers : loop'[q] = loop[q] \/ loop'[q] = "scan"
  BY Zenon DEF Start, Types
<1>11. /\ \A q \in Peers : \A n \in Priorities :
             \A i \in DOMAIN pending'[q][n] : Owner[pending'[q][n][i]] = q
       /\ \A q \in Peers :
             loop'[q] \in {"class", "active", "start"} => chosen'[q] \in Of(q)
       /\ \A q \in Peers : loop'[q] = "class" => prio'[chosen'[q]] # 0
  BY <1>8, <1>10 DEF Queues
<1>12. CASE CanStart(p, r)
  <2>1. handler[r] = "none"
    BY <1>1, <1>12, Zenon DEF CanStart, Runnable, Queues
  <2>2. /\ started' = [started EXCEPT ![r] = TRUE] /\ handler' = [handler EXCEPT ![r] = "serving"]
        /\ activeHandlers' = [activeHandlers EXCEPT ![p] = @ + 1]
        /\ activeNonInteractive' =
             [activeNonInteractive EXCEPT ![p] = IF prio[r] = 0 THEN @ ELSE @ + 1]
        /\ UNCHANGED <<activeTokens, nonInteractiveTokens>>
    BY <1>12, Zenon DEF Start
  <2>3. r \notin Running /\ Running' = Running \cup {r}
    BY <1>1, <2>1, <2>2, Zenon DEF Types, Running, Holding
  <2>4. r \notin RunningNon /\ RunningNon' = IF prio[r] = 0 THEN RunningNon ELSE RunningNon \cup {r}
    BY <1>1, <1>8, <2>1, <2>2 DEF Types, RunningNon, Holding
  <2>5. r \notin Handlers(p) /\ Handlers(p)' = Handlers(p) \cup {r}
    BY <1>1, <2>1, <2>2 DEF Types, Handlers, Of
  <2>6. /\ r \notin HandlersNon(p)
        /\ HandlersNon(p)' = IF prio[r] = 0 THEN HandlersNon(p) ELSE HandlersNon(p) \cup {r}
    BY <1>1, <1>8, <2>1, <2>2 DEF Types, Handlers, HandlersNon, Of
  <2>7. \A q \in Peers \ {p} : UNCHANGED <<Handlers(q), HandlersNon(q)>>
    BY <1>1, <1>8, <2>2 DEF Types, Handlers, HandlersNon, Of
  <2>8. Cardinality(Running') = Cardinality(Running) + 1
    BY <1>1, <2>3, Counted, OneMoreOrLess, OwnerAssumption, Zenon
  <2>9. Cardinality(RunningNon') = IF prio[r] = 0 THEN Cardinality(RunningNon)
                                   ELSE Cardinality(RunningNon) + 1
    <3>1. RunningNon \in SUBSET Requests
      BY Counted, Zenon
    <3>2. Cardinality(RunningNon \cup {r}) = Cardinality(RunningNon) + 1
      BY <1>1, <2>4, <3>1, OneMoreOrLess, OwnerAssumption, Zenon
    <3> QED
      BY <2>4, <3>2, Zenon
  <2>10. Cardinality(Handlers(p)') = Cardinality(Handlers(p)) + 1
    <3>1. Handlers(p) \in SUBSET Requests
      BY Counted, Zenon
    <3> QED
      BY <1>1, <2>5, <3>1, OneMoreOrLess, OwnerAssumption
  <2>11. Cardinality(HandlersNon(p)') = IF prio[r] = 0 THEN Cardinality(HandlersNon(p))
                                        ELSE Cardinality(HandlersNon(p)) + 1
    <3>1. HandlersNon(p) \in SUBSET Requests
      BY Counted, Zenon
    <3>2. Cardinality(HandlersNon(p) \cup {r}) = Cardinality(HandlersNon(p)) + 1
      BY <1>1, <2>6, <3>1, OneMoreOrLess, OwnerAssumption, Zenon
    <3> QED
      BY <2>6, <3>2, Zenon
  <2>12. Booleans'
    BY <1>1, <2>2, Zenon DEF Booleans
  <2>13. Types'
    BY <1>1, <1>7, <1>8, <2>2 DEF Types
  <2>14. \A q \in Requests : ~started'[q] => handler'[q] = "none"
    BY <1>1, <2>2, Zenon DEF Types, Booleans, Queues
  <2>15. Queues'
    BY <1>11, <2>14, Zenon DEF Queues, Of
  <2>16. Balance'
    BY <1>4, <1>5, <1>6, <1>8, <1>9, <2>2, <2>8, <2>9, Naturals, TokensAssumption DEF Balance
  <2>17. ASSUME NEW q \in Peers PROVE BalanceOf(q)'
    <3>1. CASE q = p
      <4>1. activeHandlers'[p] = activeHandlers[p] + 1 /\ activeHandlers[p] < MaxActive
        BY <1>12, <2>2, Zenon DEF CanStart, Types
      <4>2. /\ activeNonInteractive'[p] =
                 IF prio[r] = 0 THEN activeNonInteractive[p] ELSE activeNonInteractive[p] + 1
            /\ prio[r] # 0 => activeNonInteractive[p] < MaxNonInteractive
        BY <1>12, <2>2, Zenon DEF CanStart, Eligible, Types
      <4>3. activeHandlers[p] \in Nat /\ activeNonInteractive[p] \in Nat
        BY Zenon DEF Types
      <4>4. BalanceOf(p)
        BY Zenon DEF PeerBalance
      <4>5. activeHandlers'[p] = Cardinality(Handlers(p)') /\ activeHandlers'[p] <= MaxActive
        BY <2>10, <4>1, <4>3, <4>4, PeerLimitsAssumption DEF BalanceOf
      <4>6. /\ activeNonInteractive'[p] = Cardinality(HandlersNon(p)')
            /\ activeNonInteractive'[p] <= MaxNonInteractive
        BY <2>11, <4>2, <4>3, <4>4, PeerLimitsAssumption DEF BalanceOf
      <4>7. Cardinality(Live(p)') <= MaxAdmitted
        BY <1>6, <4>4, Zenon DEF BalanceOf
      <4> QED
        BY <3>1, <4>5, <4>6, <4>7, Zenon DEF BalanceOf
    <3>2. CASE q # p
      BY <1>6, <2>2, <2>7, <3>2, Zenon DEF Types, PeerBalance, BalanceOf
    <3> QED
      BY <3>1, <3>2, Zenon
  <2> QED
    BY <2>12, <2>13, <2>15, <2>16, <2>17, Zenon DEF PeerBalance
<1>13. CASE ~CanStart(p, r)
  <2>1. /\ activeTokens' = activeTokens + 1
        /\ nonInteractiveTokens' =
             IF prio[r] = 0 THEN nonInteractiveTokens ELSE nonInteractiveTokens + 1
        /\ UNCHANGED <<started, handler, activeHandlers, activeNonInteractive>>
    BY <1>13, Zenon DEF Start, ReleaseActiveTokens
  <2>2. /\ UNCHANGED <<Running, RunningNon>>
        /\ \A q \in Peers : UNCHANGED <<Handlers(q), HandlersNon(q)>>
    BY <1>8, <2>1, SameCounts, Zenon
  <2>3. Types' /\ Booleans'
    BY <1>7, <1>8, <1>9, <2>1 DEF Types, Booleans
  <2>4. Queues'
    <3>1. \A q \in Requests : ~started'[q] => handler'[q] = "none"
      BY <2>1, Zenon DEF Queues
    <3> QED
      BY <1>11, <3>1 DEF Queues, Of
  <2>5. Balance'
    BY <1>4, <1>5, <1>6, <1>8, <1>9, <2>1, <2>2, Naturals, TokensAssumption DEF Balance
  <2>6. PeerBalance'
    BY <1>6, <2>1, <2>2, Zenon DEF PeerBalance, BalanceOf
  <2> QED
    BY <2>3, <2>4, <2>5, <2>6
<1> QED
  BY <1>12, <1>13, Zenon

-----------------------------------------------------------------------------
LEMMA InitIInv == Init => IInv
<1> SUFFICES ASSUME Init PROVE IInv
  OBVIOUS
<1>1. /\ Admitted = {} /\ Running = {} /\ RunningNon = {} /\ Starting = {} /\ WaitingNon = {}
      /\ \A p \in Peers : Handlers(p) = {} /\ HandlersNon(p) = {} /\ Live(p) = {}
  BY Zenon DEF Init, Admitted, Running, RunningNon, Starting, WaitingNon, Handlers, HandlersNon,
         Live, InMap, Holding, Of
<1>2. Cardinality({}) = 0
  BY FS_EmptySet, Zenon
<1>3. Types /\ Booleans
  BY TokensAssumption, PrioritiesAssumption DEF Init, Types, Booleans
<1>4. Queues
  BY DEF Init, Queues
<1>5. Balance
  BY <1>1, <1>2, TokensAssumption DEF Init, Balance
<1>6. ASSUME NEW p \in Peers PROVE BalanceOf(p)
  <2>1. activeHandlers[p] = 0 /\ activeNonInteractive[p] = 0
    BY Zenon DEF Init
  <2> QED
    BY <1>1, <1>2, <2>1, PeerLimitsAssumption DEF BalanceOf
<1> QED
  BY <1>3, <1>4, <1>5, <1>6, Zenon DEF IInv, PeerBalance

LEMMA NextIInv == IInv /\ [Next]_vars => IInv'
<1> SUFFICES ASSUME IInv, [Next]_vars PROVE IInv'
  OBVIOUS
<1>1. ASSUME NEW r \in Requests, Request(r) PROVE IInv'
  BY <1>1, BeginIInv, BeginSignalsIInv, CancelIInv, ReturnAdmissionIInv, HandlerReturnsIInv,
     HandlerExitedIInv, HandlerReleasesIInv, Zenon DEF Request
<1>2. ASSUME NEW p \in Peers, Close(p) \/ DispatchLoop(p) PROVE IInv'
  BY <1>2, CloseIInv, ScanIInv, IdleIInv, WaitForClassTokenIInv, WaitForActiveTokenIInv,
     StartIInv, Zenon DEF DispatchLoop
<1>3. CASE UNCHANGED vars
  <2>1. UNCHANGED <<prio, status, started, handler, pending, activeHandlers,
                    activeNonInteractive, loop, chosen, admissionTokens, activeTokens,
                    nonInteractiveTokens>>
    BY <1>3, Zenon DEF vars, session, tokens
  <2>2. /\ UNCHANGED <<Admitted, Running, RunningNon, Starting, WaitingNon>>
        /\ \A p \in Peers : UNCHANGED <<Handlers(p), HandlersNon(p), Live(p)>>
    BY <2>1, SameCounts, SameLoops, Zenon
  <2>3. Types' /\ Booleans' /\ Queues'
    BY <2>1 DEF IInv, Types, Booleans, Queues, Of
  <2>4. Balance' /\ PeerBalance'
    BY <2>1, <2>2, Zenon DEF IInv, Balance, PeerBalance, BalanceOf
  <2> QED
    BY <2>3, <2>4, Zenon DEF IInv
<1> QED
  BY <1>1, <1>2, <1>3, Zenon DEF Next

\* However admissions, starts, cancellations, late handler exits and the close of
\* peers interleave, for any number of peers and requests and any limits: every
\* process-wide token is in its channel or with one holder, activeHandlers and
\* activeNonInteractive count the handlers that run, and no limit is passed.
THEOREM TokensNeverLeak == Spec => []NothingLeaks
<1>1. IInv => NothingLeaks
  BY Zenon DEF IInv, Balance, PeerBalance, BalanceOf, NothingLeaks, TokensConserved, CountersExact,
         ActiveHolders, NonInteractiveHolders, Running, RunningNon, Starting, WaitingNon,
         HandlersNon
<1> HIDE DEF IInv, NothingLeaks, Init, Next, vars
<1> QED
  BY <1>1, InitIInv, NextIInv, PTL DEF Spec
=============================================================================
