---------------------------- MODULE MCDispatcher ----------------------------
(* Two peers compete for two handlers, of which one may run non-interactive   *)
(* work: one peer with an interactive and a bulk request, one with a bulk     *)
(* request.                                                                   *)
EXTENDS Dispatcher, TLC

CONSTANTS a, b, a1, a2, b1

MCPeers == {a, b}
MCRequests == {a1, a2, b1}
MCOwner == (a1 :> a) @@ (a2 :> a) @@ (b1 :> b)
MCClasses == {0, 2}
MCAssignments == {(a1 :> 0) @@ (a2 :> 2) @@ (b1 :> 2)}
=============================================================================
