--------------------------- MODULE SignalingProofs --------------------------
(* For any number of backends, hedged or not, raceBackends keeps its counters  *)
(* exact, launches nothing once it is settled, and implements Settlement, alone *)
(* and with the databases and the node; and the node answers the offer with one *)
(* peer connection and leaves a waiting leg its record.                        *)
EXTENDS Signaling, FiniteSetTheorems, TLAPS

USE SMTT(60)

States == Running \cup {"idle", "answered", "failed"}

\* The exchanges that active counts: an answer does not lower it.
Busy(legs) == {l \in Legs : legs[l] \in Running \cup {"answered"}}

\* The Boolean variables, and the others.
Flags == hedged \in BOOLEAN /\ started \in BOOLEAN /\ hedgeTimer \in BOOLEAN

Values ==
    /\ next \in 0 .. Backends /\ active \in 0 .. Backends
    /\ leg \in [Legs -> States]
    /\ outcome \in {"pending", "answered", "failed", "aborted"}

\* RaceIsWaiting in a form that every step preserves, with what the code's
\* conditions rely on: an open race has no answer, and only a hedged race that
\* is open and has backends left has a timer.
Bookkeeping ==
    /\ active = Cardinality(Busy(leg))
    /\ \A l \in Legs : leg[l] = "idle" <=> l > next
    /\ ~settled => \A l \in Legs : leg[l] # "answered"
    /\ started /\ ~settled => active > 0
    /\ ~started => next = 0 /\ ~settled
    /\ ~hedged => next \in {0, Backends}
    /\ hedgeTimer => started /\ hedged /\ ~settled /\ next < Backends

IInv == Flags /\ Values /\ Bookkeeping

-----------------------------------------------------------------------------
(* The exchanges under way.                                                   *)
\* There are finitely many legs, so active is a number between 0 and Backends.
LEMMA BusyFinite ==
    ASSUME NEW f
    PROVE  IsFiniteSet(Busy(f)) /\ Cardinality(Busy(f)) \in 0 .. Backends
<1>1. IsFiniteSet(Legs) /\ Cardinality(Legs) = Backends
  BY FS_Interval, BackendsAssumption DEF Legs
<1>2. Busy(f) \in SUBSET Legs
  BY Zenon DEF Busy
<1>3. IsFiniteSet(Busy(f)) /\ Cardinality(Busy(f)) <= Cardinality(Legs)
  BY <1>1, <1>2, FS_Subset, Zenon
<1>4. Cardinality(Busy(f)) \in Nat
  BY <1>3, FS_CardinalityType, Zenon
<1> QED
  BY <1>1, <1>3, <1>4, BackendsAssumption

\* A failing exchange is one less; the last one leaves none.
LEMMA OneFails ==
    ASSUME NEW f \in [Legs -> States], NEW l \in Legs, f[l] = "exchanging"
    PROVE  LET g == [f EXCEPT ![l] = "failed"] IN
           /\ Busy(g) = Busy(f) \ {l}
           /\ Cardinality(Busy(g)) = Cardinality(Busy(f)) - 1
           /\ Cardinality(Busy(f)) = 1 <=> Busy(g) = {}
<1> DEFINE g == [f EXCEPT ![l] = "failed"]
<1>1. Busy(g) = Busy(f) \ {l} /\ l \in Busy(f)
  BY Zenon DEF Busy, Running, States
<1>2. IsFiniteSet(Busy(f)) /\ Cardinality(Busy(f)) \in 0 .. Backends
  BY BusyFinite, Zenon
<1>3. IsFiniteSet(Busy(g)) /\ Cardinality(Busy(g)) \in 0 .. Backends
  BY BusyFinite, Zenon
<1>4. Cardinality(Busy(f) \ {l}) = Cardinality(Busy(f)) - 1
  BY <1>1, <1>2, FS_RemoveElement, Zenon
<1>5. Cardinality(Busy(g)) = 0 <=> Busy(g) = {}
  BY <1>3, FS_EmptySet, Zenon
<1> HIDE DEF g
<1>6. Cardinality(Busy(g)) = Cardinality(Busy(f)) - 1
  BY <1>1, <1>4, Zenon
<1>7. Cardinality(Busy(f)) = 1 <=> Busy(g) = {}
  BY <1>2, <1>3, <1>5, <1>6, BackendsAssumption
<1> QED
  BY <1>1, <1>6, <1>7, Zenon DEF g

\* A launch with a hedge is one more.
LEMMA OneLaunched ==
    ASSUME NEW f \in [Legs -> States], NEW n \in 0 .. Backends, n < Backends,
           f[n + 1] = "idle",
           NEW g, g = [l \in Legs |-> IF n < l /\ l <= n + 1 THEN "launched" ELSE f[l]]
    PROVE  /\ Busy(g) = Busy(f) \cup {n + 1}
           /\ Cardinality(Busy(g)) = Cardinality(Busy(f)) + 1
<1>1. n + 1 \in Legs
  BY BackendsAssumption DEF Legs
<1>2. \A l \in Legs : (n < l /\ l <= n + 1) <=> l = n + 1
  BY BackendsAssumption DEF Legs
<1>3. Busy(g) = Busy(f) \cup {n + 1} /\ n + 1 \notin Busy(f)
  BY <1>1, <1>2, Zenon DEF Busy, Running
<1>4. Cardinality(Busy(f) \cup {n + 1}) = Cardinality(Busy(f)) + 1
  BY <1>3, BusyFinite, FS_AddElement, Zenon
<1> QED
  BY <1>3, <1>4, Zenon

\* A launch without a hedge starts all of them.
LEMMA AllLaunched ==
    ASSUME NEW f \in [Legs -> States],
           NEW g, g = [l \in Legs |-> IF 0 < l /\ l <= Backends THEN "launched" ELSE f[l]]
    PROVE  Busy(g) = Legs /\ Cardinality(Busy(g)) = Backends
<1>1. \A l \in Legs : 0 < l /\ l <= Backends
  BY BackendsAssumption DEF Legs
<1>2. Busy(g) = Legs
  BY <1>1, Zenon DEF Busy, Running
<1>3. Cardinality(Legs) = Backends
  BY FS_Interval, BackendsAssumption DEF Legs
<1> QED
  BY <1>2, <1>3, Zenon

\* While the race is open, what RaceIsWaiting counts is what is busy.
LEMMA BusyIsRunning ==
    ASSUME NEW f, \A l \in Legs : f[l] # "answered"
    PROVE  Busy(f) = {l \in Legs : f[l] \in Running}
  BY Zenon DEF Busy, Running

-----------------------------------------------------------------------------
(* Every action preserves the invariant.                                      *)
\* The Boolean variables stay Boolean.
LEMMA NextFlags == Flags /\ [RaceNext]_raceVars => Flags'
<1> SUFFICES ASSUME Flags, [RaceNext]_raceVars PROVE Flags'
  OBVIOUS
<1>1. ASSUME NEW f, NEW n, LaunchNext(f, n) PROVE hedgeTimer' \in BOOLEAN
  <2>1. (hedged /\ Reach < Backends) \in BOOLEAN
    OBVIOUS
  <2> QED
    BY <1>1, <2>1, Zenon DEF LaunchNext
<1>2. CASE Start
  BY <1>1, <1>2, Zenon DEF Flags, Start
<1>3. CASE HedgeTimer
  BY <1>1, <1>3, Zenon DEF Flags, HedgeTimer
<1>4. CASE OnOuterAbort
  BY <1>4, Zenon DEF Flags, OnOuterAbort
<1>5. ASSUME NEW l \in Legs, Exchange(l) PROVE Flags'
  BY <1>5, Zenon DEF Flags, Exchange
<1>6. ASSUME NEW l \in Legs, ExchangeAnswers(l) PROVE Flags'
  BY <1>6, Zenon DEF Flags, ExchangeAnswers
<1>7. ASSUME NEW l \in Legs, ExchangeFails(l) PROVE Flags'
  BY <1>1, <1>7, Zenon DEF Flags, ExchangeFails
<1>8. CASE UNCHANGED raceVars
  BY <1>8, Zenon DEF Flags, raceVars
<1> QED
  BY <1>2, <1>3, <1>4, <1>5, <1>6, <1>7, <1>8, Zenon DEF RaceNext

\* What launchNext leaves behind, called with the legs and the count as a caller
\* with a hedge, or before any launch, leaves them.
LEMMA Launching ==
    ASSUME Values, Flags, next < Backends, ~hedged => next = 0,
           NEW f \in [Legs -> States], NEW n \in 0 .. Backends,
           n = Cardinality(Busy(f)), ~hedged => n = 0,
           \A l \in Legs : f[l] = "idle" <=> l > next,
           LaunchNext(f, n)
    PROVE  /\ next' \in 1 .. Backends /\ next' = Reach
           /\ leg' \in [Legs -> States]
           /\ active' = Cardinality(Busy(leg')) /\ active' \in 1 .. Backends
           /\ \A l \in Legs : leg'[l] = "idle" <=> l > next'
           /\ \A l \in Legs : l <= next => leg'[l] = f[l]
           /\ leg'[next + 1] = "launched"
           /\ hedgeTimer' => hedged /\ next' < Backends
<1>1. Reach \in next + 1 .. Backends
  BY BackendsAssumption DEF Reach, Values
<1>2. leg' = [l \in Legs |-> IF next < l /\ l <= Reach THEN "launched" ELSE f[l]]
  BY Zenon DEF LaunchNext
<1>3. next' = Reach /\ active' = n + (Reach - next)
  BY Zenon DEF LaunchNext
<1>4. leg' \in [Legs -> States]
  BY <1>2, Zenon DEF States, Running
<1>5. \A l \in Legs : leg'[l] = "idle" <=> l > next'
  BY <1>1, <1>2, <1>3, BackendsAssumption DEF Values, Legs
<1>6. \A l \in Legs : l <= next => leg'[l] = f[l]
  BY <1>2, BackendsAssumption DEF Values, Legs
<1>7. leg'[next + 1] = "launched"
  BY <1>1, <1>2, BackendsAssumption DEF Values, Legs
<1>8. active' = Cardinality(Busy(leg'))
  <2>1. CASE hedged
    <3>1. Reach = next + 1
      BY <2>1, Zenon DEF Reach
    <3>2. f[next + 1] = "idle"
      BY BackendsAssumption DEF Values, Legs
    <3>3. Cardinality(Busy(leg')) = Cardinality(Busy(f)) + 1
      BY <1>2, <3>1, <3>2, OneLaunched DEF Values
    <3> QED
      BY <1>3, <3>1, <3>3 DEF Values
  <2>2. CASE ~hedged
    <3>1. Reach = Backends /\ next = 0 /\ n = 0
      BY <2>2, Zenon DEF Reach
    <3>2. Cardinality(Busy(leg')) = Backends
      BY <1>2, <3>1, AllLaunched, Zenon
    <3> QED
      BY <1>3, <3>1, <3>2, BackendsAssumption
  <2> QED
    BY <2>1, <2>2, Zenon
<1>9. active' \in 1 .. Backends
  BY <1>1, <1>3, <1>8, BusyFinite, BackendsAssumption DEF Values
<1>10. hedgeTimer' => hedged /\ next' < Backends
  BY <1>3, Zenon DEF LaunchNext
<1> QED
  BY <1>1, <1>3, <1>4, <1>5, <1>6, <1>7, <1>8, <1>9, <1>10, BackendsAssumption DEF Values
\* The invariant holds at the start.
LEMMA InitIInv == RaceInit => IInv
<1> SUFFICES ASSUME RaceInit PROVE IInv
  OBVIOUS
<1>1. Flags
  BY HedgesAssumption, Zenon DEF RaceInit, Flags
<1>2. Values
  BY BackendsAssumption DEF RaceInit, Values, States
<1>3. Busy(leg) = {}
  BY Zenon DEF RaceInit, Busy, Running
<1>4. active = Cardinality(Busy(leg))
  BY <1>3, FS_EmptySet, Zenon DEF RaceInit
<1>5. \A l \in Legs : leg[l] = "idle" /\ l > next
  BY BackendsAssumption DEF RaceInit, Legs
<1>6. ~started /\ ~settled /\ next = 0 /\ ~hedgeTimer
  BY Zenon DEF RaceInit, settled
<1> QED
  BY <1>1, <1>2, <1>4, <1>5, <1>6, Zenon DEF IInv, Bookkeeping

\* A failing exchange keeps the invariant: it is the last one exactly when
\* active is 1, and a race without a hedge has launched everything by then.
LEMMA FailsKeeps ==
    ASSUME IInv, Flags', NEW l \in Legs, ExchangeFails(l)
    PROVE  IInv'
<1> DEFINE failed == [leg EXCEPT ![l] = "failed"]
<1> USE BackendsAssumption
<1>1. leg \in [Legs -> States] /\ leg[l] = "exchanging"
  BY Zenon DEF IInv, Values, ExchangeFails
<1>2. failed \in [Legs -> States]
  BY <1>1, Zenon DEF States
<1>3. Cardinality(Busy(failed)) = Cardinality(Busy(leg)) - 1
  BY <1>1, OneFails, Zenon
<1>4. active - 1 = Cardinality(Busy(failed)) /\ active - 1 \in 0 .. Backends
  BY <1>3, BusyFinite, Zenon DEF IInv, Bookkeeping
<1>5. l <= next /\ next \in 1 .. Backends
  BY <1>1 DEF IInv, Values, Bookkeeping, Legs
<1>6. \A k \in Legs : (failed[k] = "idle" <=> k > next) /\ (failed[k] = "answered" <=> leg[k] = "answered")
  BY <1>1, <1>5, Zenon DEF IInv, Bookkeeping
<1>7. started' = started /\ hedged' = hedged /\ started
  BY <1>5 DEF ExchangeFails, IInv, Bookkeeping
<1> HIDE DEF failed
<1>8. CASE /\ settled \/ active # 1
           /\ leg' = failed /\ active' = active - 1
           /\ UNCHANGED <<next, outcome, hedgeTimer>>
  <2>1. settled' = settled
    BY <1>8, Zenon DEF settled
  <2>2. Values'
    BY <1>2, <1>4, <1>8, Zenon DEF IInv, Values
  <2>3. Bookkeeping'
    BY <1>4, <1>6, <1>7, <1>8, <2>1 DEF IInv, Values, Bookkeeping
  <2> QED
    BY <2>2, <2>3, Zenon DEF IInv
<1>9. CASE /\ ~settled /\ active = 1 /\ next < Backends
           /\ LaunchNext(failed, active - 1)
           /\ UNCHANGED outcome
  <2>1. settled' = settled /\ hedged
    BY <1>5, <1>9 DEF settled, IInv, Bookkeeping
  <2>2. /\ next' \in 1 .. Backends /\ next' = Reach
        /\ leg' \in [Legs -> States]
        /\ active' = Cardinality(Busy(leg')) /\ active' \in 1 .. Backends
        /\ \A k \in Legs : leg'[k] = "idle" <=> k > next'
        /\ \A k \in Legs : k <= next => leg'[k] = failed[k]
        /\ hedgeTimer' => hedged /\ next' < Backends
    BY <1>2, <1>4, <1>6, <1>9, <2>1, Launching, Zenon DEF IInv
  <2>3. \A k \in Legs : leg'[k] # "answered"
    <3> SUFFICES ASSUME NEW k \in Legs PROVE leg'[k] # "answered"
      OBVIOUS
    <3>1. CASE k <= next
      BY <1>6, <1>9, <2>2, <3>1, Zenon DEF IInv, Bookkeeping
    <3>2. CASE k > next
      BY <1>6, <1>9, <3>2, Zenon DEF LaunchNext
    <3> QED
      BY <1>5, <3>1, <3>2 DEF Legs
  <2>4. Values'
    BY <1>9, <2>2 DEF IInv, Values
  <2>5. Bookkeeping'
    BY <1>7, <1>9, <2>1, <2>2, <2>3 DEF Bookkeeping
  <2> QED
    BY <2>4, <2>5 DEF IInv
<1>10. CASE /\ ~settled /\ active = 1 /\ next >= Backends
            /\ leg' = failed /\ active' = active - 1
            /\ outcome' = "failed" /\ hedgeTimer' = FALSE
            /\ UNCHANGED next
  <2>1. settled'
    BY <1>10, Zenon DEF settled
  <2>2. Values'
    BY <1>2, <1>4, <1>10, Zenon DEF IInv, Values
  <2>3. Bookkeeping'
    BY <1>4, <1>6, <1>7, <1>10, <2>1, Zenon DEF IInv, Values, Bookkeeping
  <2> QED
    BY <2>2, <2>3 DEF IInv
<1> QED
  BY <1>8, <1>9, <1>10, Zenon DEF ExchangeFails, failed

\* A launch by the executor or by the hedge timer keeps the invariant.
LEMMA LaunchKeeps ==
    ASSUME IInv, Flags', next < Backends, ~hedged => next = 0, ~settled,
           started', UNCHANGED <<hedged, outcome>>, LaunchNext(leg, active)
    PROVE  IInv'
<1> USE BackendsAssumption
<1>1. leg \in [Legs -> States] /\ active = Cardinality(Busy(leg)) /\ active \in 0 .. Backends
  BY Zenon DEF IInv, Values, Bookkeeping
<1>2. \A k \in Legs : leg[k] = "idle" <=> k > next
  BY Zenon DEF IInv, Bookkeeping
<1>3. ~hedged => active = 0
  <2> SUFFICES ASSUME ~hedged PROVE active = 0
    OBVIOUS
  <2>1. \A k \in Legs : leg[k] = "idle"
    BY <1>2 DEF Legs
  <2>2. Busy(leg) = {}
    BY <2>1, Zenon DEF Busy, Running
  <2> QED
    BY <1>1, <2>2, FS_EmptySet, Zenon
<1>4. /\ next' \in 1 .. Backends /\ next' = Reach
      /\ leg' \in [Legs -> States]
      /\ active' = Cardinality(Busy(leg')) /\ active' \in 1 .. Backends
      /\ \A k \in Legs : leg'[k] = "idle" <=> k > next'
      /\ hedgeTimer' => hedged /\ next' < Backends
  BY <1>1, <1>2, <1>3, Launching, Zenon DEF IInv
<1>5. settled' = settled
  BY Zenon DEF settled
<1>6. \A k \in Legs : leg'[k] # "answered"
  BY <1>1, Zenon DEF LaunchNext, IInv, Bookkeeping
<1>7. Values'
  BY <1>4 DEF IInv, Values
<1>8. Bookkeeping'
  BY <1>4, <1>5, <1>6 DEF Bookkeeping, Reach
<1> QED
  BY <1>7, <1>8, Zenon DEF IInv
\* An exchange that begins or answers stays counted.
LEMMA StaysBusy ==
    ASSUME NEW f \in [Legs -> States], NEW l \in Legs, f[l] \in Running,
           NEW s \in {"exchanging", "answered"}
    PROVE  /\ [f EXCEPT ![l] = s] \in [Legs -> States]
           /\ Busy([f EXCEPT ![l] = s]) = Busy(f)
  BY Zenon DEF Busy, Running, States

\* Every step keeps the invariant.
LEMMA NextIInv == IInv /\ [RaceNext]_raceVars => IInv'
<1> SUFFICES ASSUME IInv, [RaceNext]_raceVars PROVE IInv'
  OBVIOUS
<1> USE BackendsAssumption
<1>1. Flags'
  BY NextFlags, Zenon DEF IInv
<1>2. CASE Start
  <2>1. next = 0 /\ ~settled /\ started' /\ hedged' = hedged /\ ~hedgeTimer
    BY <1>2, Zenon DEF Start, IInv, Bookkeeping
  <2>2. CASE LaunchNext(leg, active) /\ UNCHANGED outcome
    BY <1>1, <2>1, <2>2, LaunchKeeps
  <2>3. CASE outcome' = "aborted" /\ UNCHANGED <<next, active, leg, hedgeTimer>>
    <3>1. settled'
      BY <2>3, Zenon DEF settled
    <3>2. Values'
      BY <2>3, Zenon DEF IInv, Values
    <3>3. Bookkeeping'
      BY <2>1, <2>3, <3>1, Zenon DEF IInv, Bookkeeping
    <3> QED
      BY <1>1, <3>2, <3>3, Zenon DEF IInv
  <2> QED
    BY <1>2, <2>2, <2>3, Zenon DEF Start
<1>3. CASE HedgeTimer
  <2>1. started /\ hedged /\ ~settled /\ next < Backends /\ next \in 0 .. Backends
    BY <1>3, Zenon DEF HedgeTimer, IInv, Values, Bookkeeping
  <2>2. LaunchNext(leg, active) /\ UNCHANGED <<hedged, started, outcome>>
    BY <1>3, <2>1 DEF HedgeTimer
  <2> QED
    BY <1>1, <2>1, <2>2, LaunchKeeps, Zenon
<1>4. CASE OnOuterAbort
  <2>1. settled' /\ started /\ started' = started
    BY <1>4, Zenon DEF settled, OnOuterAbort
  <2>2. Values'
    BY <1>4, Zenon DEF IInv, Values, OnOuterAbort
  <2>3. Bookkeeping'
    BY <1>4, <2>1 DEF IInv, Bookkeeping, OnOuterAbort
  <2> QED
    BY <1>1, <2>2, <2>3 DEF IInv
<1>5. ASSUME NEW l \in Legs, Exchange(l) PROVE IInv'
  <2>1. leg \in [Legs -> States] /\ leg[l] \in Running
    BY <1>5, Zenon DEF Exchange, IInv, Values, Running
  <2>2. leg' \in [Legs -> States] /\ Busy(leg') = Busy(leg)
    BY <1>5, <2>1, StaysBusy, Zenon DEF Exchange
  <2>3. settled' = settled
    BY <1>5, Zenon DEF settled, Exchange
  <2>4. \A k \in Legs : (leg'[k] = "idle" <=> leg[k] = "idle") /\ (leg'[k] = "answered" <=> leg[k] = "answered")
    BY <1>5, <2>1, Zenon DEF Exchange
  <2>5. Values'
    BY <1>5, <2>2, Zenon DEF IInv, Values, Exchange
  <2>6. Bookkeeping'
    BY <1>5, <2>2, <2>3, <2>4, Zenon DEF IInv, Bookkeeping, Exchange
  <2> QED
    BY <1>1, <2>5, <2>6, Zenon DEF IInv
<1>6. ASSUME NEW l \in Legs, ExchangeAnswers(l) PROVE IInv'
  <2>1. leg \in [Legs -> States] /\ leg[l] = "exchanging" /\ leg[l] \in Running
    BY <1>6, Zenon DEF ExchangeAnswers, IInv, Values, Running
  <2>2. leg' \in [Legs -> States] /\ Busy(leg') = Busy(leg)
    BY <1>6, <2>1, StaysBusy, Zenon DEF ExchangeAnswers
  <2>3. settled' /\ ~hedgeTimer'
    BY <1>6, Zenon DEF settled, ExchangeAnswers, IInv, Bookkeeping
  <2>4. \A k \in Legs : leg'[k] = "idle" <=> leg[k] = "idle"
    BY <1>6, <2>1, Zenon DEF ExchangeAnswers
  <2>5. started
    BY <2>1 DEF IInv, Values, Bookkeeping, Legs
  <2>6. Values'
    BY <1>6, <2>2, Zenon DEF IInv, Values, ExchangeAnswers
  <2>7. Bookkeeping'
    BY <1>6, <2>2, <2>3, <2>4, <2>5, Zenon DEF IInv, Bookkeeping, ExchangeAnswers
  <2> QED
    BY <1>1, <2>6, <2>7 DEF IInv
<1>7. ASSUME NEW l \in Legs, ExchangeFails(l) PROVE IInv'
  BY <1>1, <1>7, FailsKeeps, Zenon
<1>8. CASE UNCHANGED raceVars
  <2>1. settled' = settled
    BY <1>8, Zenon DEF settled, raceVars
  <2>2. Values'
    BY <1>8, Zenon DEF IInv, Values, raceVars
  <2>3. Bookkeeping'
    BY <1>8, <2>1, Zenon DEF IInv, Bookkeeping, raceVars
  <2> QED
    BY <1>1, <2>2, <2>3 DEF IInv
<1> QED
  BY <1>2, <1>3, <1>4, <1>5, <1>6, <1>7, <1>8, Zenon DEF RaceNext

\* raceBackends: the inductive invariant holds in every state.
THEOREM RaceInvariance == RaceSpec => []IInv
<1> HIDE DEF IInv
<1> QED
  BY InitIInv, NextIInv, PTL DEF RaceSpec

\* race.ts:29-47 -- the variables of raceBackends have their types.
THEOREM RaceTypeCorrect == RaceSpec => []RaceTypeOK
<1>1. IInv => RaceTypeOK
  BY Zenon DEF IInv, Flags, Values, States, RaceTypeOK
<1> HIDE DEF IInv, RaceTypeOK
<1> QED
  BY <1>1, RaceInvariance, PTL

\* race.ts:44-46, 103-118 -- an open race always has an exchange under way, and
\* its counters say exactly which backends were launched and how many run.
THEOREM RaceWaits == RaceSpec => []RaceIsWaiting
<1>1. IInv => RaceIsWaiting
  BY BusyIsRunning, Zenon DEF IInv, Bookkeeping, RaceIsWaiting
<1> HIDE DEF IInv, RaceIsWaiting
<1> QED
  BY <1>1, RaceInvariance, PTL

\* race.ts:68-70, 79-87 -- a settled race launches no backend and has no timer.
THEOREM QuietAfterSettlement == RaceSpec => NothingAfterSettlement
<1>1. IInv /\ IInv' /\ [RaceNext]_raceVars
      => [settled' => ~hedgeTimer' /\ (settled => next' = next)]_raceVars
  <2> SUFFICES ASSUME IInv, IInv', RaceNext, settled'
               PROVE  ~hedgeTimer' /\ (settled => next' = next)
    OBVIOUS
  <2>1. ~hedgeTimer'
    BY Zenon DEF IInv, Bookkeeping
  <2>2. ASSUME settled PROVE next' = next
    <3>1. started /\ ~hedgeTimer
      BY <2>2, Zenon DEF IInv, Bookkeeping
    <3> QED
      BY <2>2, <3>1, Zenon DEF RaceNext, Start, HedgeTimer, OnOuterAbort, Exchange, ExchangeAnswers, ExchangeFails
  <2> QED
    BY <2>1, <2>2, Zenon
<1> HIDE DEF IInv
<1> QED
  BY <1>1, RaceInvariance, PTL DEF RaceSpec, NothingAfterSettlement

-----------------------------------------------------------------------------
(* The race implements Settlement.                                            *)
Alive(legs) == {l \in Legs : legs[l] # "failed"}

\* A leg that fails is taken from the legs alive; nobody is left exactly when it
\* was the only exchange under way and every backend had been launched.
LEMMA LastOneFails ==
    ASSUME IInv, ~settled, NEW l \in Legs, leg[l] = "exchanging"
    PROVE  LET g == [leg EXCEPT ![l] = "failed"] IN
           /\ Alive(g) = Alive(leg) \ {l}
           /\ Alive(g) = {} <=> (active = 1 /\ next >= Backends)
<1> DEFINE g == [leg EXCEPT ![l] = "failed"]
<1> USE BackendsAssumption
<1>1. leg \in [Legs -> States] /\ next \in 0 .. Backends
  BY Zenon DEF IInv, Values
<1>2. Alive(g) = Alive(leg) \ {l}
  BY <1>1, Zenon DEF Alive
<1>3. active = 1 <=> Busy(g) = {}
  BY <1>1, OneFails, Zenon DEF IInv, Bookkeeping
<1>4. \A k \in Legs : g[k] \in Running \cup {"idle", "failed"}
  BY <1>1, Zenon DEF IInv, Bookkeeping, States
<1>5. Alive(g) = {} <=> (Busy(g) = {} /\ \A k \in Legs : g[k] # "idle")
  BY <1>4, Zenon DEF Alive, Busy, Running
<1>6. (\A k \in Legs : g[k] # "idle") <=> next >= Backends
  <2>1. \A k \in Legs : g[k] = "idle" <=> k > next
    BY <1>1, Zenon DEF IInv, Bookkeeping
  <2>2. next < Backends => next + 1 \in Legs
    BY <1>1 DEF Legs
  <2> HIDE DEF g
  <2>3. CASE next < Backends
    BY <1>1, <2>1, <2>2, <2>3
  <2>4. CASE next >= Backends
    BY <1>1, <2>1, <2>4 DEF Legs
  <2> QED
    BY <1>1, <2>3, <2>4
<1> QED
  BY <1>2, <1>3, <1>5, <1>6, Zenon

\* Launched backends were alive before.
LEMMA LaunchKeepsAlive ==
    ASSUME IInv, NEW f \in [Legs -> States], NEW n, LaunchNext(f, n),
           \A k \in Legs : f[k] = "idle" <=> k > next
    PROVE  Alive(leg') = Alive(f)
<1>1. leg' = [k \in Legs |-> IF next < k /\ k <= Reach THEN "launched" ELSE f[k]]
  BY Zenon DEF LaunchNext
<1>2. \A k \in Legs : next < k => f[k] = "idle"
  BY Zenon DEF IInv, Values, Legs
<1> QED
  BY <1>1, <1>2, Zenon DEF Alive

\* race.ts:29-141 -- raceBackends settles its promise once: with an answer of a
\* leg that has not failed, with the caller's abort, or with a failure in the
\* very step in which the last backend fails.
THEOREM RaceImplementsSettlement == RaceSpec => SettlesOnce
<1> USE BackendsAssumption
<1>1. RaceInit => Promise!Init
  BY Zenon DEF RaceInit, Promise!Init
<1>2. IInv /\ [RaceNext]_raceVars => [Promise!Next]_(Promise!vars)
  <2> SUFFICES ASSUME IInv, [RaceNext]_raceVars
               PROVE  [Promise!Next]_(Promise!vars)
    OBVIOUS
  <2>a. leg \in [Legs -> States] /\ \A k \in Legs : leg[k] = "idle" <=> k > next
    BY Zenon DEF IInv, Values, Bookkeeping
  <2>1. CASE Start
    <3>1. ~settled
      BY <2>1, Zenon DEF Start, IInv, Bookkeeping
    <3>2. CASE LaunchNext(leg, active) /\ UNCHANGED outcome
      <4>1. Alive(leg') = Alive(leg)
        BY <2>a, <3>2, LaunchKeepsAlive, Zenon
      <4> QED
        BY <3>2, <4>1, Zenon DEF Promise!vars, Alive
    <3>3. CASE outcome' = "aborted" /\ UNCHANGED <<next, active, leg, hedgeTimer>>
      BY <3>1, <3>3, Zenon DEF Promise!Next, Promise!Abort, settled
    <3> QED
      BY <2>1, <3>2, <3>3, Zenon DEF Start
  <2>2. CASE HedgeTimer
    <3>1. Alive(leg') = Alive(leg)
      <4>1. LaunchNext(leg, active) \/ UNCHANGED leg
        BY <2>2, Zenon DEF HedgeTimer
      <4> QED
        BY <2>a, <4>1, LaunchKeepsAlive, Zenon
    <3> QED
      BY <2>2, <3>1, Zenon DEF HedgeTimer, Promise!vars, Alive
  <2>3. CASE OnOuterAbort
    BY <2>3, Zenon DEF OnOuterAbort, Promise!Next, Promise!Abort, settled
  <2>4. ASSUME NEW l \in Legs, Exchange(l) PROVE [Promise!Next]_(Promise!vars)
    <3>1. Alive(leg') = Alive(leg)
      BY <2>a, <2>4, Zenon DEF Exchange, Alive
    <3> QED
      BY <2>4, <3>1, Zenon DEF Exchange, Promise!vars, Alive
  <2>5. ASSUME NEW l \in Legs, ExchangeAnswers(l) PROVE [Promise!Next]_(Promise!vars)
    <3>1. Alive(leg') = Alive(leg) /\ l \in Alive(leg)
      BY <2>a, <2>5, Zenon DEF ExchangeAnswers, Alive
    <3>2. CASE settled
      BY <2>5, <3>1, <3>2, Zenon DEF ExchangeAnswers, Promise!vars, Alive
    <3>3. CASE ~settled
      BY <2>5, <3>1, <3>3, Zenon DEF ExchangeAnswers, Promise!Next, Promise!Answer, Alive, settled
    <3> QED
      BY <3>2, <3>3, Zenon
  <2>6. ASSUME NEW l \in Legs, ExchangeFails(l) PROVE [Promise!Next]_(Promise!vars)
    <3> DEFINE failed == [leg EXCEPT ![l] = "failed"]
    <3>1. failed \in [Legs -> States] /\ l \in Alive(leg) /\ leg[l] = "exchanging"
      BY <2>a, <2>6, Zenon DEF ExchangeFails, Alive, States
    <3>2. \A k \in Legs : failed[k] = "idle" <=> k > next
      BY <2>a, <3>1, Zenon
    <3>3. Alive(failed) = Alive(leg) \ {l}
      BY <2>a, Zenon DEF Alive
    <3>4. leg' = failed \/ LaunchNext(failed, active - 1)
      BY <2>6, Zenon DEF ExchangeFails
    <3>5. ~settled => (Alive(failed) = {} <=> (active = 1 /\ next >= Backends))
      BY <3>1, LastOneFails, Zenon
    <3>6. /\ settled => outcome' = outcome
          /\ ~settled /\ active = 1 /\ next >= Backends => outcome' = "failed"
          /\ ~settled /\ ~(active = 1 /\ next >= Backends) => outcome' = outcome
      BY <2>6 DEF ExchangeFails, IInv, Values
    <3> HIDE DEF failed
    <3>7. Alive(leg') = Alive(failed)
      BY <3>1, <3>2, <3>4, LaunchKeepsAlive, Zenon
    <3>8. outcome' = IF outcome = "pending" /\ Alive(leg') = {} THEN "failed" ELSE outcome
      BY <3>5, <3>6, <3>7, Zenon DEF settled
    <3> QED
      BY <3>1, <3>3, <3>7, <3>8, Zenon DEF Promise!Next, Promise!Fail, Alive
  <2>7. CASE UNCHANGED raceVars
    BY <2>7, Zenon DEF raceVars, Promise!vars
  <2> QED
    BY <2>1, <2>2, <2>3, <2>4, <2>5, <2>6, <2>7, Zenon DEF RaceNext
<1> HIDE DEF IInv
<1> QED
  BY <1>1, <1>2, RaceInvariance, PTL DEF RaceSpec, SettlesOnce, Promise!Spec
-----------------------------------------------------------------------------
(* The race with its databases and the node.                                  *)

NodeTypes ==
    /\ upload \in [Legs -> {"no", "flight", "over"}]
    /\ record \in [Legs -> {"none", "offer", "answer", "gone"}]
    /\ events \in [Legs -> Seq({"offer", "answer"})]
    /\ handlers \in [Legs -> [Stages -> Nat]]
    /\ timer \in [Legs -> {"none", "later", "now"}]
    /\ removing \in [Legs -> BOOLEAN]
    /\ entry \in {"none", "pending", "answer", "error"} /\ peers \in Nat
    /\ spoiled \subseteq Legs

\* A leg that has not sent its offer has left no trace in its database or the node.
Untouched(l) ==
    /\ upload[l] = "no" /\ record[l] = "none" /\ events[l] = <<>> /\ timer[l] = "none"
    /\ \A s \in Stages : handlers[l][s] = 0
    /\ removing[l] = FALSE

\* One handler answers, the one the Dedupe entry was made for.
OneLeader ==
    \A l \in Legs : handlers[l]["answering"] > 0 =>
        /\ entry = "pending" /\ handlers[l]["answering"] = 1
        /\ \A k \in Legs : k # l => handlers[k]["answering"] = 0

\* What removes a record at once has a reason; what removes it later has let the
\* leg end.
RemovedForCause ==
    /\ entry = "error" => spoiled = Legs
    /\ \A l \in Legs :
          /\ handlers[l]["discard"] > 0 \/ timer[l] = "now" => l \in spoiled
          /\ removing[l] = TRUE \/ record[l] = "gone" => l \in spoiled \/ leg[l] \notin Running

Over == settled /\ \A l \in Legs : leg[l] \notin Running

\* Nothing happens to a record before its offer is sent, nor to the session before
\* the first one is.
NothingBefore ==
    /\ \A l \in Legs : leg[l] \in {"idle", "launched"} => Untouched(l)
    /\ (\A l \in Legs : leg[l] = "idle") => entry = "none"

\* The peer connection belongs to the Dedupe entry, which outlives the race.
OnePeer == Over \/ peers = 0 \/ (peers = 1 /\ entry = "answer")

NodeInv == NodeTypes /\ OneLeader /\ RemovedForCause /\ NothingBefore /\ OnePeer

-----------------------------------------------------------------------------
(* Every step is one of the race or leaves it alone.                          *)
\* race.ts, signal.go -- what the page, the databases and the node do to the race
\* is what the race alone may do.
LEMMA StepOfRace == [Next]_vars => [RaceNext]_raceVars
<1> SUFFICES ASSUME [Next]_vars PROVE [RaceNext]_raceVars
  OBVIOUS
<1>1. CASE Page
  <2>1. CASE RaceSteps
    BY <2>1, Zenon DEF RaceSteps, RaceNext
  <2>2. ASSUME NEW l \in Legs,
               BeginExchange(l) \/ OfferLands(l) \/ OfferLost(l) \/ LegAnswers(l) \/ LegFails(l)
        PROVE  [RaceNext]_raceVars
    BY <2>2, Zenon DEF BeginExchange, OfferLands, OfferLost, LegAnswers, LegFails, RaceNext
  <2> QED
    BY <1>1, <2>1, <2>2, Zenon DEF Page
<1>2. CASE Node
  BY <1>2, Zenon DEF Node, ObserveOffer, ObserveAnswer, Join, Answer, Refused, Reply, ReplyFails,
     Replied, Discard, CleanupTimer, RemoveRecord
<1>3. CASE CallerAborts
  BY <1>3, Zenon DEF CallerAborts, RaceNext
<1>4. CASE Expire \/ Restart \/ \E l \in Legs : Reconnect(l)
  BY <1>4, Zenon DEF Expire, Restart, Reconnect
<1>5. CASE UNCHANGED vars
  BY <1>5, Zenon DEF vars
<1> QED
  BY <1>1, <1>2, <1>3, <1>4, <1>5, Zenon DEF Next

\* race.ts:29-141 -- with the databases and the node in it, the race is still the
\* race: what is proved of RaceSpec holds of Spec.
THEOREM SignalingRaces == Spec => RaceSpec
<1>1. Init => RaceInit
  BY Zenon DEF Init
<1> QED
  BY <1>1, StepOfRace, PTL DEF Spec, RaceSpec

\* race.ts:29-141 -- the promise settles once whatever the node and the databases do.
THEOREM SignalingSettlesOnce == Spec => SettlesOnce
  BY SignalingRaces, RaceImplementsSettlement, PTL

-----------------------------------------------------------------------------
(* How legs move.                                                             *)
\* A leg is not taken back: one that has not sent its offer never had, one that
\* exchanges was launched, one that runs ran or was idle.  And a race that is
\* over stays as it is.
LEMMA LegsMoveOn ==
    ASSUME IInv, [RaceNext]_raceVars
    PROVE  /\ \A l \in Legs : leg'[l] \in {"idle", "launched"} => leg[l] \in {"idle", "launched"}
           /\ \A l \in Legs : leg'[l] = "idle" => leg[l] = "idle"
           /\ \A l \in Legs : leg'[l] \in Running => leg[l] \in Running \cup {"idle"}
           /\ Over => Over'
<1>1. leg \in [Legs -> States] /\ (\A k \in Legs : leg[k] = "idle" <=> k > next)
  BY Zenon DEF IInv, Values, Bookkeeping
<1> DEFINE Moves == \A l \in Legs : \/ leg'[l] = leg[l]
                                    \/ leg[l] = "idle" /\ leg'[l] = "launched"
                                    \/ leg[l] = "launched" /\ leg'[l] = "exchanging"
                                    \/ leg[l] = "exchanging" /\ leg'[l] \in {"answered", "failed"}
<1>2. ASSUME NEW f, NEW n, LaunchNext(f, n)
      PROVE  \A k \in Legs : leg'[k] = f[k] \/ (k > next /\ leg'[k] = "launched")
  BY <1>2, Zenon DEF LaunchNext, Legs, IInv, Values
<1>3. Moves
  <2>1. CASE Start
    BY <1>1, <1>2, <2>1, Zenon DEF Start
  <2>2. CASE HedgeTimer
    BY <1>1, <1>2, <2>2, Zenon DEF HedgeTimer
  <2>3. CASE OnOuterAbort \/ UNCHANGED raceVars
    BY <2>3, Zenon DEF OnOuterAbort, raceVars
  <2>4. ASSUME NEW l \in Legs, Exchange(l) \/ ExchangeAnswers(l) PROVE Moves
    BY <1>1, <2>4, Zenon DEF Exchange, ExchangeAnswers
  <2>5. ASSUME NEW l \in Legs, ExchangeFails(l) PROVE Moves
    <3> DEFINE failed == [leg EXCEPT ![l] = "failed"]
    <3>1. leg[l] = "exchanging" /\ (leg' = failed \/ LaunchNext(failed, active - 1))
      BY <2>5, Zenon DEF ExchangeFails
    <3>2. \A k \in Legs : failed[k] = leg[k] \/ (k = l /\ failed[k] = "failed")
      BY <1>1, Zenon
    <3>3. \A k \in Legs : leg'[k] = failed[k] \/ (k > next /\ leg'[k] = "launched")
      BY <1>2, <3>1, Zenon
    <3> HIDE DEF failed
    <3> QED
      BY <1>1, <3>1, <3>2, <3>3, Zenon
  <2> QED
    BY <2>1, <2>2, <2>3, <2>4, <2>5, Zenon DEF RaceNext
<1>4. ASSUME Over PROVE Over'
  <2>1. settled /\ started /\ ~hedgeTimer /\ \A l \in Legs : leg[l] \notin Running
    BY <1>4, Zenon DEF Over, IInv, Bookkeeping
  <2>2. UNCHANGED <<leg, outcome>>
    BY <2>1, Zenon DEF RaceNext, Start, HedgeTimer, OnOuterAbort, Exchange, ExchangeAnswers,
       ExchangeFails, Running, raceVars
  <2> QED
    BY <2>1, <2>2, Zenon DEF Over, settled
<1> QED
  BY <1>1, <1>3, <1>4, Zenon DEF Running, States

\* race.ts:103-118 -- when no leg runs, the race is over or has not begun.
LEMMA NobodyRuns ==
    ASSUME IInv, \A l \in Legs : leg[l] \notin Running
    PROVE  Over \/ \A l \in Legs : leg[l] = "idle"
<1>1. CASE settled
  BY <1>1, Zenon DEF Over
<1>2. CASE ~settled /\ started
  <2>1. Busy(leg) = {}
    BY <1>2, Zenon DEF IInv, Bookkeeping, Busy
  <2>2. active = 0
    BY <2>1, FS_EmptySet, Zenon DEF IInv, Bookkeeping
  <2> QED
    BY <1>2, <2>2 DEF IInv, Bookkeeping
<1>3. CASE ~started
  <2>1. next = 0
    BY <1>3, Zenon DEF IInv, Bookkeeping
  <2> QED
    BY <2>1 DEF IInv, Bookkeeping, Legs
<1> QED
  BY <1>1, <1>2, <1>3, Zenon

-----------------------------------------------------------------------------
(* How handlers move.                                                         *)
Handlers == [Legs -> [Stages -> Nat]]

\* One handler goes on to its next stage; the others stay.
LEMMA HandlerMoves ==
    ASSUME handlers \in Handlers, NEW l \in Legs, NEW a \in Stages, NEW b \in Stages, a # b,
           Move(l, a, b)
    PROVE  /\ handlers' \in Handlers
           /\ handlers[l][a] > 0
           /\ handlers'[l][a] = handlers[l][a] - 1 /\ handlers'[l][b] = handlers[l][b] + 1
           /\ \A s \in Stages : s # a /\ s # b => handlers'[l][s] = handlers[l][s]
           /\ \A k \in Legs : k # l => handlers'[k] = handlers[k]
<1>1. handlers[l] \in [Stages -> Nat] /\ handlers[l][a] \in Nat /\ handlers[l][b] \in Nat
  BY Zenon DEF Handlers
<1> DEFINE h == [[handlers[l] EXCEPT ![a] = @ - 1] EXCEPT ![b] = @ + 1]
<1>2. handlers' = [handlers EXCEPT ![l] = h] /\ handlers[l][a] > 0
  BY Zenon DEF Move, Handlers
<1>3. /\ h[a] = handlers[l][a] - 1 /\ h[b] = handlers[l][b] + 1 /\ h \in [Stages -> Nat]
      /\ \A s \in Stages : s # a /\ s # b => h[s] = handlers[l][s]
  BY <1>1, <1>2
<1> HIDE DEF h
<1> QED
  BY <1>2, <1>3, Zenon DEF Handlers

\* A handler ends.
LEMMA HandlerLeaves ==
    ASSUME handlers \in Handlers, NEW l \in Legs, NEW a \in Stages, Leave(l, a)
    PROVE  /\ handlers' \in Handlers
           /\ handlers[l][a] > 0
           /\ handlers'[l][a] = handlers[l][a] - 1
           /\ \A s \in Stages : s # a => handlers'[l][s] = handlers[l][s]
           /\ \A k \in Legs : k # l => handlers'[k] = handlers[k]
<1>1. handlers[l] \in [Stages -> Nat] /\ handlers[l][a] \in Nat
  BY Zenon DEF Handlers
<1>2. handlers' = [handlers EXCEPT ![l] = [handlers[l] EXCEPT ![a] = @ - 1]] /\ handlers[l][a] > 0
  BY Zenon DEF Leave, Handlers
<1> QED
  BY <1>1, <1>2 DEF Handlers

-----------------------------------------------------------------------------
(* The node keeps its invariant.                                              *)
\* A node that has seen nothing.
LEMMA InitNodeInv == Init => NodeInv
<1> SUFFICES ASSUME Init PROVE NodeInv
  OBVIOUS
<1>1. \A l \in Legs : \A s \in Stages : handlers[l][s] = 0
  BY Zenon DEF Init, NoHandlers
<1>2. NodeTypes
  BY DEF Init, NodeTypes, NoHandlers
<1>3. OneLeader /\ RemovedForCause
  BY <1>1 DEF Init, OneLeader, RemovedForCause, Stages
<1>4. NothingBefore
  BY <1>1, Zenon DEF Init, NothingBefore, Untouched
<1> QED
  BY <1>2, <1>3, <1>4, Zenon DEF NodeInv, OnePeer, Init

\* The page's steps: the node sees nothing of them.
LEMMA RaceKeepsNode ==
    ASSUME IInv, NodeInv, [RaceNext]_raceVars, UNCHANGED <<store, node, history>>
    PROVE  NodeInv'
<1>1. /\ \A l \in Legs : leg'[l] \in {"idle", "launched"} => leg[l] \in {"idle", "launched"}
      /\ \A l \in Legs : leg'[l] = "idle" => leg[l] = "idle"
      /\ \A l \in Legs : leg'[l] \in Running => leg[l] \in Running \cup {"idle"}
      /\ Over => Over'
  BY LegsMoveOn, Zenon
<1>2. /\ UNCHANGED <<upload, record, events, handlers, timer, removing, entry, peers, spoiled>>
      /\ NodeTypes /\ OneLeader /\ RemovedForCause /\ NothingBefore /\ OnePeer
  BY Zenon DEF store, node, history, NodeInv
<1>3. NodeTypes' /\ OneLeader'
  BY <1>2, Zenon DEF NodeTypes, OneLeader
<1>4. NothingBefore'
  BY <1>1, <1>2, Zenon DEF NothingBefore, Untouched
<1>5. RemovedForCause'
  <2>1. ASSUME NEW l \in Legs, leg[l] = "idle" PROVE removing[l] # TRUE /\ record[l] # "gone"
    BY <1>2, <2>1, Zenon DEF NothingBefore, Untouched
  <2> QED
    BY <1>1, <1>2, <2>1, Zenon DEF RemovedForCause
<1>6. OnePeer'
  BY <1>1, <1>2, Zenon DEF OnePeer
<1> QED
  BY <1>3, <1>4, <1>5, <1>6, Zenon DEF NodeInv

\* firestore.ts:49-85 -- exchange begins: the offer is on its way.
LEMMA BeginKeepsNode ==
    ASSUME IInv, NodeInv, NEW l \in Legs, BeginExchange(l)
    PROVE  NodeInv'
<1>1. /\ leg[l] = "launched" /\ leg' = [leg EXCEPT ![l] = "exchanging"]
      /\ upload' = [upload EXCEPT ![l] = IF settled THEN "over" ELSE "flight"]
      /\ UNCHANGED <<outcome, record, events, handlers, timer, removing, entry, peers, spoiled>>
  BY Zenon DEF BeginExchange, Exchange, node, history
<1>2. leg \in [Legs -> States]
  BY Zenon DEF IInv, Values
<1>3. NodeTypes /\ OneLeader /\ RemovedForCause /\ NothingBefore /\ OnePeer
  BY Zenon DEF NodeInv
<1>4. NodeTypes' /\ OneLeader'
  BY <1>1, <1>3, Zenon DEF NodeTypes, OneLeader
<1>5. NothingBefore'
  <2>1. ASSUME NEW k \in Legs, leg'[k] \in {"idle", "launched"} PROVE Untouched(k)'
    <3>1. k # l /\ leg[k] \in {"idle", "launched"} /\ upload'[k] = upload[k]
      BY <1>1, <1>2, <1>3, <2>1, Zenon DEF NodeTypes
    <3> QED
      BY <1>1, <1>3, <3>1, Zenon DEF NothingBefore, Untouched
  <2>2. leg'[l] # "idle"
    BY <1>1, <1>2, Zenon
  <2> QED
    BY <2>1, <2>2, Zenon DEF NothingBefore
<1>6. RemovedForCause'
  <2>1. Untouched(l)
    BY <1>1, <1>3, Zenon DEF NothingBefore
  <2>2. \A k \in Legs : k # l => leg'[k] = leg[k]
    BY <1>1, <1>2, Zenon
  <2> QED
    BY <1>1, <1>3, <2>1, <2>2, Zenon DEF RemovedForCause, Untouched
<1>7. OnePeer'
  BY <1>1, <1>3, Zenon DEF OnePeer, Over, Running, settled
<1> QED
  BY <1>4, <1>5, <1>6, <1>7, Zenon DEF NodeInv

\* A step of a record whose offer has been sent leaves the others untouched.
LEMMA OthersUntouched ==
    ASSUME NodeInv, UNCHANGED raceVars, NEW l \in Legs, leg[l] \notin {"idle", "launched"},
           \A k \in Legs : k # l =>
             /\ upload'[k] = upload[k] /\ record'[k] = record[k] /\ events'[k] = events[k]
             /\ timer'[k] = timer[k] /\ handlers'[k] = handlers[k] /\ removing'[k] = removing[k]
    PROVE  NothingBefore'
<1>1. leg' = leg
  BY Zenon DEF raceVars
<1>2. ASSUME NEW k \in Legs, leg[k] \in {"idle", "launched"} PROVE Untouched(k)'
  <2>1. k # l /\ Untouched(k)
    BY <1>2, Zenon DEF NodeInv, NothingBefore
  <2> QED
    BY <2>1, Zenon DEF Untouched
<1> QED
  BY <1>1, <1>2, Zenon DEF NothingBefore

\* rtdb.ts:76-95, firestore.ts:86-88 -- the offer is written, or the write fails.
LEMMA UploadKeepsNode ==
    ASSUME IInv, NodeInv, NEW l \in Legs, OfferLands(l) \/ OfferLost(l)
    PROVE  NodeInv'
<1>1. /\ upload[l] = "flight" /\ upload' = [upload EXCEPT ![l] = "over"]
      /\ \/ UNCHANGED <<record, events>>
         \/ /\ record' = [record EXCEPT ![l] = "offer"]
            /\ events' = [events EXCEPT ![l] = Append(events[l], "offer")]
      /\ UNCHANGED <<handlers, timer, removing, entry, peers, spoiled>>
      /\ UNCHANGED raceVars
  BY Zenon DEF OfferLands, OfferLost, node, history
<1>2. NodeTypes /\ OneLeader /\ RemovedForCause /\ NothingBefore /\ OnePeer
  BY Zenon DEF NodeInv
<1>3. leg' = leg /\ outcome' = outcome
  BY <1>1, Zenon DEF raceVars
<1>4. events[l] \in Seq({"offer", "answer"})
  BY <1>2, Zenon DEF NodeTypes
<1>5. Append(events[l], "offer") \in Seq({"offer", "answer"})
  BY <1>4
<1>6. NodeTypes'
  BY <1>1, <1>2, <1>5, Zenon DEF NodeTypes
<1>7. OneLeader' /\ OnePeer'
  BY <1>1, <1>2, <1>3, Zenon DEF OneLeader, OnePeer, Over, settled
<1>8. RemovedForCause'
  BY <1>1, <1>2, <1>3, Zenon DEF RemovedForCause, NodeTypes
<1>9. NothingBefore'
  <2>1. leg[l] \notin {"idle", "launched"}
    BY <1>1, <1>2, Zenon DEF NothingBefore, Untouched
  <2>2. \A k \in Legs : k # l =>
             /\ upload'[k] = upload[k] /\ record'[k] = record[k] /\ events'[k] = events[k]
             /\ timer'[k] = timer[k] /\ handlers'[k] = handlers[k] /\ removing'[k] = removing[k]
    BY <1>1, <1>2, Zenon DEF NodeTypes
  <2> QED
    BY <1>1, <2>1, <2>2, OthersUntouched, Zenon
<1> QED
  BY <1>6, <1>7, <1>8, <1>9, Zenon DEF NodeInv

\* signal.go:212-243, 263-317 -- a change of the record arrives.
LEMMA ObserveKeepsNode ==
    ASSUME IInv, NodeInv, NEW l \in Legs, ObserveOffer(l) \/ ObserveAnswer(l)
    PROVE  NodeInv'
<1>1. /\ events[l] # <<>> /\ events' = [events EXCEPT ![l] = Tail(events[l])]
      /\ timer' = [timer EXCEPT ![l] = "later"]
      /\ \/ handlers' = handlers
         \/ handlers' = [handlers EXCEPT ![l] = [handlers[l] EXCEPT !["join"] = handlers[l]["join"] + 1]]
      /\ UNCHANGED <<upload, record, removing, entry, peers, spoiled>>
      /\ UNCHANGED raceVars
  BY Zenon DEF ObserveOffer, ObserveAnswer, ScheduleCleanup, history
<1>2. NodeTypes /\ OneLeader /\ RemovedForCause /\ NothingBefore /\ OnePeer
  BY DEF NodeInv
<1>3. leg' = leg /\ outcome' = outcome
  BY <1>1, Zenon DEF raceVars
<1>4. events[l] \in Seq({"offer", "answer"}) /\ handlers[l] \in [Stages -> Nat] /\ "join" \in Stages
  BY <1>2, Zenon DEF NodeTypes, Stages
<1>5. Tail(events[l]) \in Seq({"offer", "answer"})
  BY <1>1, <1>4
<1>6. /\ handlers' \in Handlers
      /\ \A k \in Legs : \A s \in Stages : s # "join" => handlers'[k][s] = handlers[k][s]
      /\ \A k \in Legs : k # l => handlers'[k] = handlers[k]
  <2> DEFINE h == [handlers[l] EXCEPT !["join"] = handlers[l]["join"] + 1]
  <2>1. handlers \in Handlers
    BY <1>2, Zenon DEF NodeTypes, Handlers
  <2>2. h \in [Stages -> Nat] /\ \A s \in Stages : s # "join" => h[s] = handlers[l][s]
    BY <1>4
  <2>3. handlers' = handlers \/ handlers' = [handlers EXCEPT ![l] = h]
    BY <1>1, Zenon
  <2> HIDE DEF h
  <2> QED
    BY <2>1, <2>2, <2>3, Zenon DEF Handlers
<1>7. NodeTypes'
  BY <1>1, <1>2, <1>5, <1>6, Zenon DEF NodeTypes, Handlers
<1>8. OneLeader' /\ OnePeer'
  BY <1>1, <1>2, <1>3, <1>6, Zenon DEF OneLeader, OnePeer, Over, settled, Stages
<1>9. RemovedForCause'
  BY <1>1, <1>2, <1>3, <1>6, Zenon DEF RemovedForCause, NodeTypes, Stages
<1>10. NothingBefore'
  <2>1. leg[l] \notin {"idle", "launched"}
    BY <1>1, <1>2, Zenon DEF NothingBefore, Untouched
  <2>2. \A k \in Legs : k # l =>
             /\ upload'[k] = upload[k] /\ record'[k] = record[k] /\ events'[k] = events[k]
             /\ timer'[k] = timer[k] /\ handlers'[k] = handlers[k] /\ removing'[k] = removing[k]
    BY <1>1, <1>2, <1>6, Zenon DEF NodeTypes
  <2> QED
    BY <1>1, <2>1, <2>2, OthersUntouched, Zenon
<1> QED
  BY <1>7, <1>8, <1>9, <1>10 DEF NodeInv

\* A handler's step, with what it may change besides its own stage.
LEMMA HandlerUntouched ==
    ASSUME NodeInv, NEW l \in Legs, NEW a \in Stages, handlers[l][a] > 0,
           UNCHANGED <<raceVars, upload, removing>>,
           \A k \in Legs : k # l =>
             /\ record'[k] = record[k] /\ events'[k] = events[k]
             /\ timer'[k] = timer[k] /\ handlers'[k] = handlers[k]
    PROVE  NothingBefore' /\ leg' = leg /\ outcome' = outcome
<1>1. leg[l] \notin {"idle", "launched"}
  BY DEF NodeInv, NothingBefore, Untouched
<1> QED
  BY <1>1, OthersUntouched, Zenon DEF raceVars

\* signal.go:77-89 -- the first handler answers, the others wait for it.
LEMMA JoinKeepsNode ==
    ASSUME IInv, NodeInv, NEW l \in Legs, Join(l)
    PROVE  NodeInv'
<1>1. /\ UNCHANGED <<upload, record, events, timer, removing, peers, spoiled>>
      /\ UNCHANGED raceVars
      /\ \/ entry = "none" /\ entry' = "pending" /\ Move(l, "join", "answering")
         \/ entry # "none" /\ entry' = entry /\ Move(l, "join", "waiting")
  BY Zenon DEF Join, store, history
<1>2. NodeTypes /\ OneLeader /\ RemovedForCause /\ NothingBefore /\ OnePeer /\ handlers \in Handlers
  BY Zenon DEF NodeInv, NodeTypes, Handlers
<1>3. "join" \in Stages /\ "answering" \in Stages /\ "waiting" \in Stages /\ "discard" \in Stages
  BY Zenon DEF Stages
<1>4. /\ handlers' \in Handlers /\ handlers[l]["join"] > 0
      /\ \A k \in Legs : k # l => handlers'[k] = handlers[k]
      /\ handlers'[l]["discard"] = handlers[l]["discard"]
      /\ \/ entry = "none" /\ entry' = "pending"
            /\ handlers'[l]["answering"] = handlers[l]["answering"] + 1
         \/ entry' = entry /\ handlers'[l]["answering"] = handlers[l]["answering"]
  BY <1>1, <1>2, <1>3, HandlerMoves
<1>5. NothingBefore' /\ leg' = leg /\ outcome' = outcome
  BY <1>1, <1>3, <1>4, HandlerUntouched, Zenon
<1>6. NodeTypes'
  BY <1>1, <1>2, <1>4, Zenon DEF NodeTypes, Handlers
<1>7. OneLeader'
  <2>1. \A k \in Legs : handlers[k]["answering"] \in Nat /\ handlers'[k]["answering"] \in Nat
    BY <1>2, <1>3, <1>4, Zenon DEF Handlers
  <2> QED
    BY <1>2, <1>4, <2>1 DEF OneLeader
<1>8. RemovedForCause' /\ OnePeer'
  BY <1>1, <1>2, <1>4, <1>5, Zenon DEF RemovedForCause, OnePeer, Over, settled
<1> QED
  BY <1>5, <1>6, <1>7, <1>8, Zenon DEF NodeInv

\* signal.go:348-368 -- the leader completes the entry.
LEMMA AnswerKeepsNode ==
    ASSUME IInv, NodeInv, NEW l \in Legs, Answer(l)
    PROVE  NodeInv'
<1>1. /\ UNCHANGED <<upload, record, events, timer, removing>>
      /\ UNCHANGED raceVars
      /\ Move(l, "answering", "waiting")
      /\ \/ entry' = "answer" /\ peers' = peers + 1 /\ spoiled' = spoiled
         \/ entry' = "error" /\ peers' = peers /\ spoiled' = Legs
  BY Zenon DEF Answer, store
<1>2. NodeTypes /\ OneLeader /\ RemovedForCause /\ NothingBefore /\ OnePeer /\ handlers \in Handlers
  BY DEF NodeInv, NodeTypes, Handlers
<1>3. "answering" \in Stages /\ "waiting" \in Stages /\ "discard" \in Stages
  BY Zenon DEF Stages
<1>4. /\ handlers' \in Handlers /\ handlers[l]["answering"] > 0
      /\ \A k \in Legs : k # l => handlers'[k] = handlers[k]
      /\ handlers'[l]["discard"] = handlers[l]["discard"]
      /\ handlers'[l]["answering"] = handlers[l]["answering"] - 1
  BY <1>1, <1>2, <1>3, HandlerMoves
<1>5. NothingBefore' /\ leg' = leg /\ outcome' = outcome
  BY <1>1, <1>3, <1>4, HandlerUntouched, Zenon
<1>6. NodeTypes'
  BY <1>1, <1>2, <1>4 DEF NodeTypes, Handlers
<1>7. OneLeader' /\ entry = "pending"
  BY <1>2, <1>4 DEF OneLeader
<1>8. RemovedForCause'
  BY <1>1, <1>2, <1>4, <1>5, Zenon DEF RemovedForCause, NodeTypes
<1>9. OnePeer'
  BY <1>1, <1>2, <1>5, <1>7 DEF OnePeer, Over, settled
<1> QED
  BY <1>5, <1>6, <1>7, <1>8, <1>9, Zenon DEF NodeInv

\* signal.go:348-374 -- what the entry says is written, or the record is given up.
LEMMA ReplyKeepsNode ==
    ASSUME IInv, NodeInv, NEW l \in Legs, Refused(l) \/ Reply(l) \/ ReplyFails(l)
    PROVE  NodeInv'
<1> DEFINE seen == IF l = Firestore THEN Append(events[l], "answer") ELSE events[l]
<1>1. /\ UNCHANGED <<upload, timer, removing, entry, peers>>
      /\ UNCHANGED raceVars
      /\ \/ UNCHANGED <<record, events>>
         \/ record' = [record EXCEPT ![l] = "answer"] /\ events' = [events EXCEPT ![l] = seen]
      /\ \/ Move(l, "waiting", "replied") /\ spoiled' = spoiled
         \/ Move(l, "waiting", "discard") /\ entry = "error" /\ spoiled' = spoiled
         \/ Move(l, "waiting", "discard") /\ spoiled' = spoiled \cup {l}
  BY Zenon DEF Refused, Reply, ReplyFails, Written, store, history
<1>2. NodeTypes /\ OneLeader /\ RemovedForCause /\ NothingBefore /\ OnePeer /\ handlers \in Handlers
  BY Zenon DEF NodeInv, NodeTypes, Handlers
<1>3. "answering" \in Stages /\ "waiting" \in Stages /\ "discard" \in Stages /\ "replied" \in Stages
  BY Zenon DEF Stages
<1>4. /\ handlers' \in Handlers /\ handlers[l]["waiting"] > 0
      /\ \A k \in Legs : k # l => handlers'[k] = handlers[k]
      /\ handlers'[l]["answering"] = handlers[l]["answering"]
      /\ \/ handlers'[l]["discard"] = handlers[l]["discard"] /\ spoiled' = spoiled
         \/ entry = "error" /\ spoiled' = spoiled
         \/ spoiled' = spoiled \cup {l}
  BY <1>1, <1>2, <1>3, HandlerMoves
<1>5. seen \in Seq({"offer", "answer"})
  BY <1>2 DEF NodeTypes
<1> HIDE DEF seen
<1>6. NothingBefore' /\ leg' = leg /\ outcome' = outcome
  <2>1. \A k \in Legs : k # l =>
             /\ record'[k] = record[k] /\ events'[k] = events[k]
             /\ timer'[k] = timer[k] /\ handlers'[k] = handlers[k]
    BY <1>1, <1>2, <1>4, Zenon DEF NodeTypes
  <2> QED
    BY <1>1, <1>3, <1>4, <2>1, HandlerUntouched, Zenon
<1>7. NodeTypes'
  <2>1. record' \in [Legs -> {"none", "offer", "answer", "gone"}]
    BY <1>1, <1>2, Zenon DEF NodeTypes
  <2>2. events' \in [Legs -> Seq({"offer", "answer"})]
    BY <1>1, <1>2, <1>5, Zenon DEF NodeTypes
  <2>3. handlers' \in [Legs -> [Stages -> Nat]]
    BY <1>4, Zenon DEF Handlers
  <2>4. spoiled' \subseteq Legs
    BY <1>2, <1>4, Zenon DEF NodeTypes
  <2> QED
    BY <1>1, <1>2, <2>1, <2>2, <2>3, <2>4, Zenon DEF NodeTypes
<1>8. OneLeader' /\ OnePeer'
  BY <1>1, <1>2, <1>4, <1>6 DEF OneLeader, OnePeer, Over, settled
<1>9. RemovedForCause'
  <2>1. spoiled \subseteq spoiled' /\ spoiled' \subseteq Legs
    BY <1>2, <1>4, Zenon DEF NodeTypes
  <2>2. entry = "error" => spoiled = Legs /\ spoiled' = Legs
    BY <1>2, <2>1, Zenon DEF RemovedForCause
  <2>3. ASSUME NEW k \in Legs
        PROVE  /\ handlers'[k]["discard"] > 0 \/ timer'[k] = "now" => k \in spoiled'
               /\ removing'[k] = TRUE \/ record'[k] = "gone" => k \in spoiled' \/ leg'[k] \notin Running
    <3>1. record'[k] = "gone" => record[k] = "gone"
      BY <1>1, <1>2, Zenon DEF NodeTypes
    <3>2. timer'[k] = timer[k] /\ removing'[k] = removing[k]
      BY <1>1, Zenon
    <3>3. handlers'[k]["discard"] > 0 => k \in spoiled'
      BY <1>2, <1>4, <2>1, <2>2, Zenon DEF RemovedForCause
    <3> QED
      BY <1>2, <1>6, <2>1, <3>1, <3>2, <3>3, Zenon DEF RemovedForCause
  <2> QED
    BY <1>1, <2>2, <2>3, Zenon DEF RemovedForCause
<1> QED
  BY <1>6, <1>7, <1>8, <1>9, Zenon DEF NodeInv

\* signal.go:228-242, 276-287 -- a handler ends, and its record gets a timer.
LEMMA DoneKeepsNode ==
    ASSUME IInv, NodeInv, NEW l \in Legs, Replied(l) \/ Discard(l)
    PROVE  NodeInv'
<1>1. /\ UNCHANGED <<upload, record, events, removing, entry, peers, spoiled>>
      /\ UNCHANGED raceVars
      /\ \/ Leave(l, "replied") /\ timer' = [timer EXCEPT ![l] = "later"]
         \/ Leave(l, "discard") /\ timer' = [timer EXCEPT ![l] = "now"]
  BY Zenon DEF Replied, Discard, ScheduleCleanup, store, history
<1>2. NodeTypes /\ OneLeader /\ RemovedForCause /\ NothingBefore /\ OnePeer /\ handlers \in Handlers
  BY Zenon DEF NodeInv, NodeTypes, Handlers
<1>3. "answering" \in Stages /\ "discard" \in Stages /\ "replied" \in Stages
  BY Zenon DEF Stages
<1>4. \E a \in {"replied", "discard"} :
        /\ handlers[l][a] > 0
        /\ timer' = [timer EXCEPT ![l] = IF a = "discard" THEN "now" ELSE "later"]
        /\ handlers'[l]["discard"] = (IF a = "discard" THEN handlers[l]["discard"] - 1
                                                       ELSE handlers[l]["discard"])
        /\ handlers' \in Handlers
        /\ \A k \in Legs : k # l => handlers'[k] = handlers[k]
        /\ handlers'[l]["answering"] = handlers[l]["answering"]
  BY <1>1, <1>2, <1>3, HandlerLeaves
<1>5. PICK a \in {"replied", "discard"} :
        /\ handlers[l][a] > 0
        /\ timer' = [timer EXCEPT ![l] = IF a = "discard" THEN "now" ELSE "later"]
        /\ handlers'[l]["discard"] = (IF a = "discard" THEN handlers[l]["discard"] - 1
                                                       ELSE handlers[l]["discard"])
        /\ handlers' \in Handlers
        /\ \A k \in Legs : k # l => handlers'[k] = handlers[k]
        /\ handlers'[l]["answering"] = handlers[l]["answering"]
  BY <1>4, Zenon
<1>6. NothingBefore' /\ leg' = leg /\ outcome' = outcome
  <2>1. a \in Stages /\ \A k \in Legs : k # l => timer'[k] = timer[k]
    BY <1>2, <1>5, Zenon DEF Stages, NodeTypes
  <2> QED
    BY <1>1, <1>5, <2>1, HandlerUntouched, Zenon
<1>7. NodeTypes'
  BY <1>1, <1>2, <1>5, Zenon DEF NodeTypes, Handlers
<1>8. OneLeader' /\ OnePeer'
  BY <1>1, <1>2, <1>5, <1>6 DEF OneLeader, OnePeer, Over, settled
<1>9. RemovedForCause'
  <2>1. ASSUME NEW k \in Legs
        PROVE  handlers'[k]["discard"] > 0 \/ timer'[k] = "now" => k \in spoiled
    <3>1. CASE k # l
      BY <1>2, <1>5, <3>1, Zenon DEF RemovedForCause, NodeTypes
    <3>2. CASE k = l
      <4>1. handlers[l]["discard"] \in Nat
        BY <1>2, <1>3, Zenon DEF Handlers
      <4>2. handlers[l]["discard"] > 0 => l \in spoiled
        BY <1>2, Zenon DEF RemovedForCause
      <4>3. handlers'[l]["discard"] > 0 => handlers[l]["discard"] > 0
        BY <1>5, <4>1, Zenon
      <4>4. timer'[l] = "now" => handlers[l]["discard"] > 0
        BY <1>2, <1>5, Zenon DEF NodeTypes
      <4> QED
        BY <3>2, <4>2, <4>3, <4>4, Zenon
    <3> QED
      BY <3>1, <3>2, Zenon
  <2> QED
    BY <1>1, <1>2, <1>6, <2>1, Zenon DEF RemovedForCause
<1> QED
  BY <1>6, <1>7, <1>8, <1>9, Zenon DEF NodeInv

\* signal.go:323-346 -- a timer that is still registered fires.
LEMMA TimerKeepsNode ==
    ASSUME IInv, NodeInv, NEW l \in Legs, CleanupTimer(l)
    PROVE  NodeInv'
<1>1. /\ timer[l] # "none" /\ (timer[l] = "now" \/ leg[l] \notin Running)
      /\ timer' = [timer EXCEPT ![l] = "none"]
      /\ removing' = [removing EXCEPT ![l] = TRUE]
      /\ UNCHANGED <<upload, record, events, handlers, entry, peers, spoiled>>
      /\ UNCHANGED raceVars
  BY Zenon DEF CleanupTimer, store, history
<1>2. NodeTypes /\ OneLeader /\ RemovedForCause /\ NothingBefore /\ OnePeer
  BY DEF NodeInv
<1>3. leg' = leg /\ outcome' = outcome
  BY <1>1, Zenon DEF raceVars
<1>4. NodeTypes'
  BY <1>1, <1>2, Zenon DEF NodeTypes
<1>5. OneLeader' /\ OnePeer'
  BY <1>1, <1>2, <1>3, Zenon DEF OneLeader, OnePeer, Over, settled
<1>6. RemovedForCause'
  <2>1. ASSUME NEW k \in Legs
        PROVE  /\ timer'[k] = "now" => timer[k] = "now"
               /\ k # l => removing'[k] = removing[k]
    BY <1>1, <1>2, Zenon DEF NodeTypes
  <2>2. l \in spoiled \/ leg[l] \notin Running
    BY <1>1, <1>2, Zenon DEF RemovedForCause
  <2> QED
    BY <1>1, <1>2, <1>3, <2>1, <2>2, Zenon DEF RemovedForCause
<1>7. NothingBefore'
  <2>1. leg[l] \notin {"idle", "launched"}
    BY <1>1, <1>2, Zenon DEF NothingBefore, Untouched
  <2>2. \A k \in Legs : k # l =>
             /\ upload'[k] = upload[k] /\ record'[k] = record[k] /\ events'[k] = events[k]
             /\ timer'[k] = timer[k] /\ handlers'[k] = handlers[k] /\ removing'[k] = removing[k]
    BY <1>1, <1>2, Zenon DEF NodeTypes
  <2> QED
    BY <1>1, <2>1, <2>2, OthersUntouched, Zenon
<1> QED
  BY <1>4, <1>5, <1>6, <1>7, Zenon DEF NodeInv

\* signal.go:218-226, 331-343 -- its callback deletes the record.
LEMMA RemoveKeepsNode ==
    ASSUME IInv, NodeInv, NEW l \in Legs, RemoveRecord(l)
    PROVE  NodeInv'
<1>1. /\ removing[l] = TRUE /\ removing' = [removing EXCEPT ![l] = FALSE]
      /\ record' = record \/ record' = [record EXCEPT ![l] = "gone"]
      /\ UNCHANGED <<upload, events, handlers, timer, entry, peers, spoiled>>
      /\ UNCHANGED raceVars
  <2>1. removing[l] = TRUE
    BY Zenon DEF RemoveRecord, NodeInv, NodeTypes
  <2> QED
    BY <2>1, Zenon DEF RemoveRecord, history
<1>2. NodeTypes /\ OneLeader /\ RemovedForCause /\ NothingBefore /\ OnePeer
  BY DEF NodeInv
<1>3. leg' = leg /\ outcome' = outcome
  BY <1>1, Zenon DEF raceVars
<1>4. NodeTypes'
  BY <1>1, <1>2, Zenon DEF NodeTypes
<1>5. OneLeader' /\ OnePeer'
  BY <1>1, <1>2, <1>3, Zenon DEF OneLeader, OnePeer, Over, settled
<1>6. RemovedForCause'
  <2>1. ASSUME NEW k \in Legs
        PROVE  k # l => removing'[k] = removing[k] /\ record'[k] = record[k]
    BY <1>1, <1>2, Zenon DEF NodeTypes
  <2>2. l \in spoiled \/ leg[l] \notin Running
    BY <1>1, <1>2, Zenon DEF RemovedForCause
  <2> QED
    BY <1>1, <1>2, <1>3, <2>1, <2>2, Zenon DEF RemovedForCause
<1>7. NothingBefore'
  <2>1. leg[l] \notin {"idle", "launched"}
    BY <1>1, <1>2, Zenon DEF NothingBefore, Untouched
  <2>2. \A k \in Legs : k # l =>
             /\ upload'[k] = upload[k] /\ record'[k] = record[k] /\ events'[k] = events[k]
             /\ timer'[k] = timer[k] /\ handlers'[k] = handlers[k] /\ removing'[k] = removing[k]
    BY <1>1, <1>2, Zenon DEF NodeTypes
  <2> QED
    BY <1>1, <2>1, <2>2, OthersUntouched, Zenon
<1> QED
  BY <1>4, <1>5, <1>6, <1>7 DEF NodeInv

\* signal.go:91-113 -- an entry expires after the race: the peer connection it stood for
\* may then be followed by another, for nobody.
LEMMA ExpireKeepsNode ==
    ASSUME IInv, NodeInv, Expire
    PROVE  NodeInv'
<1>1. /\ entry \in {"answer", "error"} /\ entry' = "none"
      /\ \A l \in Legs : leg[l] \notin Running
      /\ UNCHANGED <<upload, record, events, handlers, timer, removing, peers, spoiled>>
      /\ UNCHANGED <<leg, outcome>>
  BY Zenon DEF Expire, store, history, raceVars
<1>2. NodeTypes /\ OneLeader /\ RemovedForCause /\ NothingBefore /\ OnePeer
  BY Zenon DEF NodeInv
<1>3. Over
  BY <1>1, <1>2, NobodyRuns, Zenon DEF NothingBefore
<1>4. NodeTypes' /\ RemovedForCause' /\ NothingBefore'
  BY <1>1, <1>2, Zenon DEF NodeTypes, RemovedForCause, NothingBefore, Untouched
<1>5. OneLeader'
  BY <1>1, <1>2, Zenon DEF OneLeader
<1>6. OnePeer'
  BY <1>1, <1>3, Zenon DEF OnePeer, Over, settled
<1> QED
  BY <1>4, <1>5, <1>6, Zenon DEF NodeInv

\* signal.go:171-210 -- a watch opens again, or the whole node starts again.
LEMMA TroubleKeepsNode ==
    ASSUME IInv, NodeInv, Restart \/ \E l \in Legs : Reconnect(l)
    PROVE  NodeInv'
<1>1. NodeTypes /\ OneLeader /\ RemovedForCause /\ NothingBefore /\ OnePeer
  BY Zenon DEF NodeInv
<1>2. \A l \in Legs : /\ Snapshot(l) \in Seq({"offer", "answer"})
                      /\ record[l] = "none" => Snapshot(l) = <<>>
  <2> SUFFICES ASSUME NEW l \in Legs
               PROVE  /\ Snapshot(l) \in Seq({"offer", "answer"})
                      /\ record[l] = "none" => Snapshot(l) = <<>>
    OBVIOUS
  <2>1. record[l] \in {"offer", "answer"} => <<record[l]>> \in Seq({"offer", "answer"})
    OBVIOUS
  <2>2. <<>> \in Seq({"offer", "answer"})
    OBVIOUS
  <2> QED
    BY <2>1, <2>2, Zenon DEF Snapshot
<1>3. leg' = leg /\ outcome' = outcome
  BY Zenon DEF Restart, Reconnect, raceVars
<1>4. CASE Restart
  <2>1. /\ \A l \in Legs : \A s \in Stages : handlers'[l][s] = 0
        /\ \A l \in Legs : timer'[l] = "none" /\ removing'[l] = FALSE /\ events'[l] = Snapshot(l)
        /\ entry' = "none" /\ peers' = 0 /\ UNCHANGED <<upload, record, spoiled>>
    BY <1>4, Zenon DEF Restart, NoHandlers
  <2>2. NodeTypes'
    BY <1>1, <1>2, <1>4, Zenon DEF Restart, NoHandlers, NodeTypes
  <2>3. OneLeader' /\ RemovedForCause' /\ OnePeer'
    BY <1>1, <1>3, <2>1 DEF OneLeader, RemovedForCause, OnePeer, Stages
  <2>4. NothingBefore'
    BY <1>1, <1>2, <1>3, <2>1 DEF NothingBefore, Untouched
  <2> QED
    BY <2>2, <2>3, <2>4, Zenon DEF NodeInv
<1>5. ASSUME NEW l \in Legs, Reconnect(l) PROVE NodeInv'
  <2>1. /\ events' = [events EXCEPT ![l] = Snapshot(l)]
        /\ UNCHANGED <<upload, record, handlers, timer, removing, entry, peers, spoiled>>
    BY <1>5, Zenon DEF Reconnect, node, history
  <2>2. NodeTypes'
    BY <1>1, <1>2, <2>1, Zenon DEF NodeTypes
  <2>3. OneLeader' /\ RemovedForCause' /\ OnePeer'
    BY <1>1, <1>3, <2>1, Zenon DEF OneLeader, RemovedForCause, OnePeer, Over, settled
  <2>4. ASSUME NEW k \in Legs, leg[k] \in {"idle", "launched"} PROVE Untouched(k)'
    <3>1. Untouched(k)
      BY <1>1, <2>4, Zenon DEF NothingBefore
    <3>2. events'[k] = <<>>
      BY <1>1, <1>2, <2>1, <3>1, Zenon DEF Untouched, NodeTypes
    <3> QED
      BY <2>1, <3>1, <3>2, Zenon DEF Untouched
  <2>5. NothingBefore'
    BY <1>1, <1>3, <2>1, <2>4, Zenon DEF NothingBefore
  <2> QED
    BY <2>2, <2>3, <2>5, Zenon DEF NodeInv
<1> QED
  BY <1>4, <1>5, Zenon

\* signal.go -- one case per action.
LEMMA NextNodeInv == IInv /\ NodeInv /\ [Next]_vars => NodeInv'
<1> SUFFICES ASSUME IInv, NodeInv, [Next]_vars PROVE NodeInv'
  OBVIOUS
<1>1. CASE Page
  <2>1. CASE RaceSteps
    BY <2>1, RaceKeepsNode, Zenon DEF RaceSteps, RaceNext
  <2>2. ASSUME NEW l \in Legs, LegAnswers(l) \/ LegFails(l) PROVE NodeInv'
    BY <2>2, RaceKeepsNode, Zenon DEF LegAnswers, LegFails, RaceNext
  <2> QED
    BY <1>1, <2>1, <2>2, BeginKeepsNode, UploadKeepsNode, Zenon DEF Page
<1>2. CASE Node
  BY <1>2, ObserveKeepsNode, JoinKeepsNode, AnswerKeepsNode, ReplyKeepsNode, DoneKeepsNode,
     TimerKeepsNode, RemoveKeepsNode, Zenon DEF Node
<1>3. CASE CallerAborts
  BY <1>3, RaceKeepsNode, Zenon DEF CallerAborts, RaceNext
<1>4. CASE Expire \/ Restart \/ \E l \in Legs : Reconnect(l)
  BY <1>4, ExpireKeepsNode, TroubleKeepsNode, Zenon
<1>5. CASE UNCHANGED vars
  BY <1>5, RaceKeepsNode, Zenon DEF vars
<1> QED
  BY <1>1, <1>2, <1>3, <1>4, <1>5, Zenon DEF Next

\* The two invariants, of the race and of the node, hold together.
THEOREM SignalingInvariance == Spec => [](IInv /\ NodeInv)
<1>1. Init => IInv /\ NodeInv
  BY InitIInv, InitNodeInv, Zenon DEF Init
<1>2. IInv /\ NodeInv /\ [Next]_vars => (IInv /\ NodeInv)'
  BY NextIInv, NextNodeInv, StepOfRace, Zenon
<1> HIDE DEF IInv, NodeInv
<1> QED
  BY <1>1, <1>2, PTL DEF Spec

\* signal.go:9-11, 44-46, 74-89 -- as long as a leg waits the node has built at most
\* one peer connection for the session, whatever is delivered twice or fails.
THEOREM OnePeerForARacedOffer == Spec => []OnePeerPerOffer
<1>1. IInv /\ NodeInv => OnePeerPerOffer
  BY DEF NodeInv, OnePeer, Over, OnePeerPerOffer
<1> HIDE DEF IInv, NodeInv
<1> QED
  BY <1>1, SignalingInvariance, PTL

\* signal.go:74-76, 276-283, 323-346 -- no record is removed under a leg that waits,
\* unless the node could not answer or failed to write its answer to that record.
THEOREM WaitingLegIsNotRobbed == Spec => []WaitingLegKeepsRecord
<1>1. IInv /\ NodeInv => WaitingLegKeepsRecord
  BY Zenon DEF NodeInv, RemovedForCause, WaitingLegKeepsRecord, Running
<1> HIDE DEF IInv, NodeInv
<1> QED
  BY <1>1, SignalingInvariance, PTL
=============================================================================
