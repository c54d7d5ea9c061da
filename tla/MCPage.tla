------------------------------- MODULE MCPage -------------------------------
(* A page's traffic between the worker and the node, in four parts that share  *)
(* no state and are explored one at a time: the worker's fetch handler, the    *)
(* bootstrap the worker takes from its pages, the lanes of a connection and a  *)
(* carried websocket. `part` is the one that moves; the others stay in an      *)
(* initial state.                                                              *)
EXTENDS WorkerFetch, WorkerBoot, Lanes, WebSocketRelay, TLC

VARIABLE part

MCShapes ==
    {[top |-> "no", always |-> FALSE, mode |-> m] : m \in {"default", "only-if-cached"}}
    \cup {[top |-> "no", always |-> TRUE, mode |-> "no-cache"],
          [top |-> "app", always |-> TRUE, mode |-> "default"]}

MCTargets == {[path |-> "page", use |-> "data"], [path |-> "bundle", use |-> "data"]}

(* The same model values stand for requests, for the operations and for the   *)
(* versions of the bootstrap, which are only compared with one another.        *)
Symmetric == Permutations(Request)

(* Bound: of the lanes' requests at most one is critical.                      *)
OneCritical == Cardinality({r \in Req : client.kind[r] = "critical"}) <= 1

PageInit ==
    /\ part \in {"fetch", "boot", "lanes", "socket"}
    /\ FetchInit /\ BootInit /\ LanesInit /\ RelayInit
    /\ part # "fetch" => ~expected /\ entry = None /\ origin.orders = "plain" /\ policy = "swr"
    /\ part # "boot" => disk = Nothing /\ storage = "persistent" /\ caches = {}

PageNext ==
    \/ part = "fetch" /\ FetchNext /\ UNCHANGED <<part, bootVars, lanesVars, relayVars>>
    \/ part = "boot" /\ BootNext /\ UNCHANGED <<part, fetchVars, lanesVars, relayVars>>
    \/ part = "lanes" /\ LanesNext /\ OneCritical' /\ UNCHANGED <<part, fetchVars, bootVars, relayVars>>
    \/ part = "socket" /\ RelayNext /\ UNCHANGED <<part, fetchVars, bootVars, lanesVars>>

Moving ==
    <<part, CASE part = "fetch" -> fetchVars [] part = "boot" -> bootVars
              [] part = "lanes" -> lanesVars [] part = "socket" -> relayVars>>

PageSpec == PageInit /\ [][PageNext]_<<part, fetchVars, bootVars, lanesVars, relayVars>>
=============================================================================
