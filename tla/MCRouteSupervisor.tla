------------------------- MODULE MCRouteSupervisor -------------------------
(* The supervisor with adaptive TCP, alone.                                   *)
EXTENDS RouteSupervisor

MCAdaptive == {TRUE}
=============================================================================
