---------------------------- MODULE PeerRegistry ----------------------------
(***************************************************************************)
(* The node's peer connections from the offer to the end                     *)
(* (content-node/peers.go: peerRegistry; main.go: answerOffer): handshake     *)
(* slots, the registry, the deadline of an unconnected peer, and the three    *)
(* ways a connection ends - closePeer, which runs once, the library's state   *)
(* callbacks, and CloseAll.                                                   *)
(*                                                                           *)
(* The WebRTC library is external: a connection may connect and fail, and     *)
(* each change of its state starts a callback of its own, so that callbacks   *)
(* overtake each other. What holds the registry's lock is one step; to stop   *)
(* the deadline before it, or to start closePeer after it, commutes with all  *)
(* other goroutines and is taken with it.                                     *)
(***************************************************************************)
EXTENDS Naturals, FiniteSets

CONSTANTS
    Peer,           \* the offers that arrive
    HandshakeSlots  \* maxConcurrentHandshakes

ASSUME RegistryAssumption == IsFiniteSet(Peer) /\ HandshakeSlots \in Nat

VARIABLES
    answer,     \* the goroutine in answerOffer
    pc,         \* the connection: "none", "new", "connected", "failed", "closed"
    peers,      \* its entry in the registry: "no", "unconnected", "connected"
    connected,  \* the registry's count
    slots,      \* occupied handshake slots
    deadline,   \* the 45-second timer and its callback
    closer,     \* the one run of closePeer
    callbacks,  \* state callbacks under way
    over,       \* peers whose session is closed
    doomed,     \* connections CloseAll has yet to close
    ending      \* the node shuts down

registryVars == <<answer, pc, peers, connected, slots, deadline, closer, callbacks,
                  over, doomed, ending>>

Live == {"new", "connected", "failed"}
HoldsSlot == {"slot", "negotiating", "failing"}

RegistryInit ==
    /\ answer = [p \in Peer |-> "none"] /\ pc = [p \in Peer |-> "none"]
    /\ peers = [p \in Peer |-> "no"] /\ connected = 0 /\ slots = 0
    /\ deadline = [p \in Peer |-> "off"] /\ closer = [p \in Peer |-> "no"]
    /\ callbacks = [p \in Peer |-> {}]
    /\ over = {} /\ doomed = {} /\ ending = FALSE

(***************************************************************************)
(* answerOffer.                                                              *)
(***************************************************************************)

\* beginHandshake: a slot at once, or a place in the queue.
BeginHandshake(p) ==
    /\ answer[p] = "none" /\ ~ending
    /\ IF slots < HandshakeSlots
       THEN slots' = slots + 1 /\ answer' = [answer EXCEPT ![p] = "slot"]
       ELSE answer' = [answer EXCEPT ![p] = "queued"] /\ UNCHANGED slots
    /\ UNCHANGED <<pc, peers, connected, deadline, closer, callbacks, over, doomed, ending>>

\* The queue's timeout, or the end of the context, may win against a free slot.
Queued(p) ==
    /\ answer[p] = "queued"
    /\ \/ /\ slots < HandshakeSlots
          /\ slots' = slots + 1 /\ answer' = [answer EXCEPT ![p] = "slot"]
       \/ answer' = [answer EXCEPT ![p] = "done"] /\ UNCHANGED slots
    /\ UNCHANGED <<pc, peers, connected, deadline, closer, callbacks, over, doomed, ending>>

\* The certificate and the connection may fail; otherwise the connection is
\* registered and its deadline set.
CreatePeer(p) ==
    /\ answer[p] = "slot"
    /\ \/ /\ answer' = [answer EXCEPT ![p] = "done"] /\ slots' = slots - 1
          /\ UNCHANGED <<pc, peers, deadline>>
       \/ /\ answer' = [answer EXCEPT ![p] = "negotiating"]
          /\ pc' = [pc EXCEPT ![p] = "new"]
          /\ peers' = [peers EXCEPT ![p] = "unconnected"]
          /\ deadline' = [deadline EXCEPT ![p] = "armed"]
          /\ UNCHANGED slots
    /\ UNCHANGED <<connected, closer, callbacks, over, doomed, ending>>

\* closePeer, called by its own goroutine or waited for: closeOnce.
CallCloser(p) == closer' = [closer EXCEPT ![p] = IF @ = "no" THEN "called" ELSE @]

\* The answer is returned, or an error or the context ends the negotiation.
Negotiated(p) ==
    /\ answer[p] = "negotiating"
    /\ \/ /\ answer' = [answer EXCEPT ![p] = "done"] /\ slots' = slots - 1
          /\ UNCHANGED closer
       \/ /\ answer' = [answer EXCEPT ![p] = "failing"] /\ CallCloser(p)
          /\ UNCHANGED slots
    /\ UNCHANGED <<pc, peers, connected, deadline, callbacks, over, doomed, ending>>

\* The error is returned once closePeer has run.
NegotiationFailed(p) ==
    /\ answer[p] = "failing" /\ closer[p] = "done"
    /\ answer' = [answer EXCEPT ![p] = "done"] /\ slots' = slots - 1
    /\ UNCHANGED <<pc, peers, connected, deadline, closer, callbacks, over, doomed, ending>>

(***************************************************************************)
(* The registry.                                                             *)
(***************************************************************************)

StopDeadline(p) == deadline' = [deadline EXCEPT ![p] = IF @ = "armed" THEN "off" ELSE @]

RemovePeer(p) ==
    /\ peers' = [peers EXCEPT ![p] = "no"]
    /\ connected' = IF peers[p] = "connected" THEN connected - 1 ELSE connected

\* pc.Close: a live connection reports that it closed.
ClosePc(p) ==
    /\ pc' = [pc EXCEPT ![p] = "closed"]
    /\ callbacks' = [callbacks EXCEPT ![p] = IF pc[p] \in Live THEN @ \cup {"closed"} ELSE @]

\* The steps of closePeer.
CloserRemoves(p) ==
    /\ closer[p] = "called" /\ closer' = [closer EXCEPT ![p] = "removed"]
    /\ StopDeadline(p) /\ RemovePeer(p)
    /\ UNCHANGED <<answer, pc, slots, callbacks, over, doomed, ending>>

CloserCloses(p) ==
    /\ closer[p] = "removed" /\ closer' = [closer EXCEPT ![p] = "done"]
    /\ over' = over \cup {p} /\ ClosePc(p)
    /\ UNCHANGED <<answer, peers, connected, slots, deadline, doomed, ending>>

\* The deadline passes: its callback starts.
DeadlineFires(p) ==
    /\ deadline[p] = "armed" /\ deadline' = [deadline EXCEPT ![p] = "fired"]
    /\ UNCHANGED <<answer, pc, peers, connected, slots, closer, callbacks, over, doomed, ending>>

\* Mutant: the state is not checked again under the lock.
CloseUnchecked(p) ==
    /\ deadline[p] = "fired"
    /\ peers' = [peers EXCEPT ![p] = "no"]
    /\ deadline' = [deadline EXCEPT ![p] = "closing"]
    /\ UNCHANGED <<answer, pc, connected, slots, closer, callbacks, over, doomed, ending>>

\* CloseIfUnconnected looks again under the lock, and closes after it.
CloseIfUnconnected(p) ==
    /\ deadline[p] = "fired"
    /\ IF peers[p] = "unconnected"
       THEN /\ peers' = [peers EXCEPT ![p] = "no"]
            /\ deadline' = [deadline EXCEPT ![p] = "closing"]
       ELSE deadline' = [deadline EXCEPT ![p] = "off"] /\ UNCHANGED peers
    /\ UNCHANGED <<answer, pc, connected, slots, closer, callbacks, over, doomed, ending>>

DeadlineCloses(p) ==
    /\ deadline[p] = "closing" /\ deadline' = [deadline EXCEPT ![p] = "off"]
    /\ ClosePc(p)
    /\ UNCHANGED <<answer, peers, connected, slots, closer, over, doomed, ending>>

(***************************************************************************)
(* The library's callbacks, in any order.                                    *)
(***************************************************************************)

MarkConnected(p) ==
    /\ peers' = [peers EXCEPT ![p] = IF @ = "unconnected" THEN "connected" ELSE @]
    /\ connected' = IF peers[p] = "unconnected" THEN connected + 1 ELSE connected

\* The state callback for "connected", or that of a valid data channel.
OnConnected(p) ==
    /\ "connected" \in callbacks[p]
    /\ callbacks' = [callbacks EXCEPT ![p] = @ \ {"connected"}]
    /\ StopDeadline(p) /\ MarkConnected(p)
    /\ UNCHANGED <<answer, pc, slots, closer, over, doomed, ending>>

OnFailed(p) ==
    /\ "failed" \in callbacks[p]
    /\ callbacks' = [callbacks EXCEPT ![p] = @ \ {"failed"}]
    /\ StopDeadline(p) /\ RemovePeer(p) /\ CallCloser(p)
    /\ UNCHANGED <<answer, pc, slots, over, doomed, ending>>

OnClosed(p) ==
    /\ "closed" \in callbacks[p]
    /\ callbacks' = [callbacks EXCEPT ![p] = @ \ {"closed"}]
    /\ StopDeadline(p) /\ RemovePeer(p)
    /\ over' = over \cup {p}
    /\ UNCHANGED <<answer, pc, slots, closer, doomed, ending>>

\* The session asks for the end: an invalid lane, or too many violations.
RequestPeerClose(p) ==
    /\ pc[p] = "connected" /\ closer[p] = "no" /\ CallCloser(p)
    /\ UNCHANGED <<answer, pc, peers, connected, slots, deadline, callbacks, over, doomed, ending>>

\* The connection itself.
Connects(p) ==
    /\ pc[p] = "new" /\ pc' = [pc EXCEPT ![p] = "connected"]
    /\ callbacks' = [callbacks EXCEPT ![p] = @ \cup {"connected"}]
    /\ UNCHANGED <<answer, peers, connected, slots, deadline, closer, over, doomed, ending>>

Fails(p) ==
    /\ pc[p] \in {"new", "connected"} /\ pc' = [pc EXCEPT ![p] = "failed"]
    /\ callbacks' = [callbacks EXCEPT ![p] = @ \cup {"failed"}]
    /\ UNCHANGED <<answer, peers, connected, slots, deadline, closer, over, doomed, ending>>

\* CloseAll, when the node ends.
CloseAll ==
    /\ ~ending /\ ending' = TRUE
    /\ doomed' = {p \in Peer : peers[p] # "no"}
    /\ peers' = [p \in Peer |-> "no"] /\ connected' = 0
    /\ UNCHANGED <<answer, pc, slots, deadline, closer, callbacks, over>>

CloseDoomed(p) ==
    /\ p \in doomed /\ doomed' = doomed \ {p} /\ ClosePc(p)
    /\ UNCHANGED <<answer, peers, connected, slots, deadline, closer, over, ending>>

RegistryNext ==
    \/ \E p \in Peer :
          \/ BeginHandshake(p) \/ Queued(p) \/ CreatePeer(p) \/ Negotiated(p)
          \/ NegotiationFailed(p) \/ CloserRemoves(p) \/ CloserCloses(p)
          \/ DeadlineFires(p) \/ CloseIfUnconnected(p) \/ DeadlineCloses(p)
          \/ OnConnected(p) \/ OnFailed(p) \/ OnClosed(p)
          \/ RequestPeerClose(p) \/ Connects(p) \/ Fails(p) \/ CloseDoomed(p)
    \/ CloseAll

RegistrySpec == RegistryInit /\ [][RegistryNext]_registryVars

(***************************************************************************)
(* Properties.                                                               *)
(***************************************************************************)

\* Somebody is about to close the connection.
Closing(p) == closer[p] \in {"called", "removed"} \/ deadline[p] = "closing" \/ p \in doomed

\* However deadline, callbacks, closePeer and CloseAll overtake each other: no
\* live connection is forgotten, it is registered or being closed; a registered
\* one that has not connected has its deadline; a closed one ends its session;
\* and the count of connected peers and the handshake slots are exact.
NoPeerIsForgotten ==
    /\ \A p \in Peer :
          /\ pc[p] \in Live => peers[p] # "no" \/ Closing(p)
          /\ peers[p] = "unconnected" => deadline[p] \in {"armed", "fired"}
          /\ pc[p] = "closed" => p \in over \/ "closed" \in callbacks[p]
    /\ connected = Cardinality({p \in Peer : peers[p] = "connected"})
    /\ slots = Cardinality({p \in Peer : answer[p] \in HoldsSlot})
=============================================================================
