--------------------------- MODULE MCConnections ---------------------------
(* The page's supervisor, with and without adaptive TCP and up to three       *)
(* routes in a chain of successors, and two parts of the node: its registry   *)
(* of peers and its compression cache. They share no state and are explored   *)
(* one at a time: `part` is the one that moves, the others stay in an initial *)
(* state.                                                                     *)
EXTENDS RouteSupervisor, PeerRegistry, GzipCache

VARIABLE part

MCEither == {TRUE, FALSE}

ConnectionsInit ==
    /\ part \in {"supervisor", "registry", "gzip"}
    /\ Init /\ RegistryInit /\ GzipInit
    /\ part # "supervisor" => boot.via = "auto" /\ ~boot.adaptive

ConnectionsNext ==
    \/ part = "supervisor" /\ Next /\ UNCHANGED <<part, registryVars, gzipVars>>
    \/ part = "registry" /\ RegistryNext /\ UNCHANGED <<part, vars, gzipVars>>
    \/ part = "gzip" /\ GzipNext /\ UNCHANGED <<part, vars, registryVars>>

Moves(A) == part = "supervisor" /\ A

(* The fairness is FairSpec's, while the supervisor moves.                    *)
ConnectionsSpec ==
    /\ ConnectionsInit /\ [][ConnectionsNext]_<<part, vars, registryVars, gzipVars>>
    /\ WF_vars(Moves(Online)) /\ SF_vars(Moves(RetryTimer)) /\ WF_vars(Moves(ConnectFails))
    /\ SF_vars(Moves(RtcOpens)) /\ SF_vars(Moves(ConnectSucceeds))
    /\ WF_vars(Moves(Wake)) /\ SF_vars(Moves(WakeAttached))
=============================================================================
