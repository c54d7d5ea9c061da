----------------------------- MODULE Settlement -----------------------------
(* What a race of signaling legs promises its caller: one outcome, which never *)
(* changes; an answer only from a leg that has not failed; a failure exactly   *)
(* when the last leg fails; or the caller's own abort.                         *)
CONSTANT Legs

VARIABLES
    \* the legs that have not failed, started or not
    alive,
    outcome

vars == <<alive, outcome>>

Init ==
    /\ alive = Legs
    /\ outcome = "pending"

Answer(l) ==
    /\ l \in alive
    /\ outcome = "pending" /\ outcome' = "answered"
    /\ UNCHANGED alive

Fail(l) ==
    /\ l \in alive
    /\ alive' = alive \ {l}
    /\ outcome' = IF outcome = "pending" /\ alive' = {} THEN "failed" ELSE outcome

Abort ==
    /\ outcome = "pending" /\ outcome' = "aborted"
    /\ UNCHANGED alive

Next == Abort \/ \E l \in Legs : Answer(l) \/ Fail(l)

Spec == Init /\ [][Next]_vars
=============================================================================
