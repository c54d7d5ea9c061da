---------------------------- MODULE MCBufferGate ----------------------------
(* Two responses, each on a bulk lane of its own, that add up each other's    *)
(* lanes while they change.                                                   *)
EXTENDS BufferGate, TLC

CONSTANTS first, second

MCWriters == {first, second}
MCLaneOf == (first :> 1) @@ (second :> 2)
=============================================================================
