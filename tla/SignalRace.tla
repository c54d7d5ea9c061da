----------------------------- MODULE SignalRace -----------------------------
(* raceBackends of packages/signaling/src/race.ts: signaling legs started one  *)
(* after the other by a hedge timer, or all at once when the delay is zero.    *)
(* What a leg does to get its answer is left to the module that composes the   *)
(* race with the two databases; here an exchange ends in either way at any     *)
(* time.  settled, the outcome of the promise and the abort of the legs'       *)
(* controller change together and are one variable.                            *)
EXTENDS Integers, FiniteSets

CONSTANTS
    Backends,   \* how many backends are configured
    Hedges      \* whether hedgeDelayMs is positive: the choices allowed

ASSUME BackendsAssumption == Backends \in Nat \ {0}
ASSUME HedgesAssumption == Hedges \subseteq BOOLEAN

Legs == 1 .. Backends

VARIABLES
    hedged,     \* hedgeDelay > 0
    started,    \* the promise's executor has run
    next,       \* how many backends have been launched
    active,
    leg,        \* where each backend's exchange is
    outcome,    \* "pending" is ~settled
    hedgeTimer

raceVars == <<hedged, started, next, active, leg, outcome, hedgeTimer>>

Running == {"launched", "exchanging"}
settled == outcome # "pending"

RaceInit ==
    /\ hedged \in Hedges
    /\ started = FALSE
    /\ next = 0 /\ active = 0
    /\ leg = [l \in Legs |-> "idle"]
    /\ outcome = "pending"
    /\ hedgeTimer = FALSE

\* launchNext when backends are left: the next one, or without a delay all of
\* them; the timer is armed again while there are more.  legs and count are leg
\* and active as the caller left them.
Reach == IF hedged THEN next + 1 ELSE Backends

LaunchNext(legs, count) ==
    /\ next' = Reach
    /\ leg' = [l \in Legs |-> IF next < l /\ l <= Reach THEN "launched" ELSE legs[l]]
    /\ active' = count + (Reach - next)
    /\ hedgeTimer' = (hedged /\ Reach < Backends)

\* The executor: the caller may have aborted before.
Start ==
    /\ ~started /\ started' = TRUE
    /\ \/ LaunchNext(leg, active) /\ UNCHANGED outcome
       \/ outcome' = "aborted" /\ UNCHANGED <<next, active, leg, hedgeTimer>>
    /\ UNCHANGED hedged

HedgeTimer ==
    /\ hedgeTimer
    /\ IF settled \/ next >= Backends
         THEN hedgeTimer' = FALSE /\ UNCHANGED <<next, active, leg>>
         ELSE LaunchNext(leg, active)
    /\ UNCHANGED <<hedged, started, outcome>>

OnOuterAbort ==
    /\ started /\ ~settled
    /\ outcome' = "aborted" /\ hedgeTimer' = FALSE
    /\ UNCHANGED <<hedged, started, next, active, leg>>

\* backend.exchange is called in a microtask of its own.
Exchange(l) ==
    /\ leg[l] = "launched"
    /\ leg' = [leg EXCEPT ![l] = "exchanging"]
    /\ UNCHANGED <<hedged, started, next, active, outcome, hedgeTimer>>

ExchangeAnswers(l) ==
    /\ leg[l] = "exchanging"
    /\ leg' = [leg EXCEPT ![l] = "answered"]
    /\ IF settled THEN UNCHANGED <<outcome, hedgeTimer>>
                  ELSE outcome' = "answered" /\ hedgeTimer' = FALSE
    /\ UNCHANGED <<hedged, started, next, active>>

\* Mutant: the race fails when no leg is active, whether or not backends are left.
ForgetsFallback(l) ==
    /\ leg[l] = "exchanging"
    /\ leg' = [leg EXCEPT ![l] = "failed"]
    /\ active' = active - 1
    /\ IF settled \/ active' # 0 THEN UNCHANGED <<outcome, hedgeTimer>>
                                 ELSE outcome' = "failed" /\ hedgeTimer' = FALSE
    /\ UNCHANGED <<hedged, started, next>>

\* Mutant: a failure clears the hedge while backends are left, and starts none.
DropsHedge(l) ==
    /\ leg[l] = "exchanging"
    /\ leg' = [leg EXCEPT ![l] = "failed"]
    /\ active' = active - 1
    /\ hedgeTimer' = FALSE
    /\ outcome' = IF ~settled /\ active' = 0 /\ next >= Backends THEN "failed" ELSE outcome
    /\ UNCHANGED <<hedged, started, next>>

ExchangeFails(l) ==
    LET failed == [leg EXCEPT ![l] = "failed"] IN
    /\ leg[l] = "exchanging"
    /\ \/ /\ settled \/ active # 1
          /\ leg' = failed /\ active' = active - 1
          /\ UNCHANGED <<next, outcome, hedgeTimer>>
       \/ /\ ~settled /\ active = 1 /\ next < Backends
          /\ LaunchNext(failed, active - 1)
          /\ UNCHANGED outcome
       \/ /\ ~settled /\ active = 1 /\ next >= Backends
          /\ leg' = failed /\ active' = active - 1
          /\ outcome' = "failed" /\ hedgeTimer' = FALSE
          /\ UNCHANGED next
    /\ UNCHANGED <<hedged, started>>

RaceNext ==
    \/ Start \/ HedgeTimer \/ OnOuterAbort
    \/ \E l \in Legs : Exchange(l) \/ ExchangeAnswers(l) \/ ExchangeFails(l)

RaceSpec == RaceInit /\ [][RaceNext]_raceVars

-----------------------------------------------------------------------------
(* Properties.                                                                *)
RaceTypeOK ==
    /\ hedged \in BOOLEAN /\ started \in BOOLEAN /\ hedgeTimer \in BOOLEAN
    /\ next \in 0 .. Backends /\ active \in 0 .. Backends
    /\ leg \in [Legs -> Running \cup {"idle", "answered", "failed"}]
    /\ outcome \in {"pending", "answered", "failed", "aborted"}

\* race.ts:44-46, 69-74, 103-118 -- the two counters the code decides by are
\* exact: next separates the launched backends from the others, and until the
\* race is settled active counts the exchanges under way and is zero only before
\* the start, so an open race always has someone to wait for.
RaceIsWaiting ==
    /\ \A l \in Legs : leg[l] = "idle" <=> l > next
    /\ ~settled => active = Cardinality({l \in Legs : leg[l] \in Running})
    /\ started /\ ~settled => active > 0

\* race.ts:22-26, 49-53, 68-70 -- from the step that settles the race on, no
\* hedge timer is left to launch a backend and none is launched.
NothingAfterSettlement ==
    [][settled' => ~hedgeTimer' /\ (settled => next' = next)]_raceVars

\* race.ts:112-118 -- the promise settles once, with an answer of a leg that has
\* not failed, or fails exactly when the last backend has failed (Settlement).
Promise == INSTANCE Settlement WITH alive <- {l \in Legs : leg[l] # "failed"}
SettlesOnce == Promise!Spec
=============================================================================
