-------------------------- MODULE MCResponseStream --------------------------
(* The windows of bridge.ts:23-37 at a quarter of their size: refills of two  *)
(* frames, samples of four, steps of two.                                     *)
EXTENDS ResponseStream

MCRefill == 2
MCSample == 4
MCStep == 2
MCFastPeak == 1

\* INITIAL_CREDIT of an interactive request, and one step above it.
MCInteractive == 2
MCInteractiveMax == 4
=============================================================================
