-------------------------- MODULE ConnectionProofs --------------------------
(* Both ends of a connection's life.  No peer connection is forgotten by the   *)
(* node's registry, for any number of offers and handshake slots; and no       *)
(* predecessor in the page's chain of clients takes the worker's port with it, *)
(* however long the chain.  And what the connections share on the node: the    *)
(* compression cache's list, index, byte count and flights agree, for any      *)
(* number of loaders, paths and editions and every bound of the cache.         *)
EXTENDS PeerRegistry, RouteSupervisor, GzipCache, FiniteSetTheorems, WellFoundedInduction, TLAPS

USE SMTT(60)

Types ==
    /\ answer \in [Peer -> {"none", "queued", "slot", "negotiating", "failing", "done"}]
    /\ pc \in [Peer -> {"none", "new", "connected", "failed", "closed"}]
    /\ peers \in [Peer -> {"no", "unconnected", "connected"}]
    /\ deadline \in [Peer -> {"off", "armed", "fired", "closing"}]
    /\ closer \in [Peer -> {"no", "called", "removed", "done"}]
    /\ callbacks \in [Peer -> SUBSET {"connected", "failed", "closed"}]
    /\ over \in SUBSET Peer /\ doomed \in SUBSET Peer
    /\ ending \in BOOLEAN /\ connected \in Nat /\ slots \in Nat

\* Before its connection exists nothing else of a peer does; a registered
\* connection is live; only a closed one has been reported closed or been closed
\* by closePeer; whoever is about to close one has taken it from the registry;
\* and nothing is doomed before the end.
Lives ==
    /\ \A p \in Peer :
          /\ pc[p] = "none" => /\ closer[p] = "no" /\ deadline[p] = "off"
                               /\ callbacks[p] = {} /\ peers[p] = "no" /\ p \notin doomed
          /\ answer[p] \in {"none", "queued", "slot"} => pc[p] = "none"
          /\ answer[p] \in {"negotiating", "failing"} => pc[p] # "none"
          /\ peers[p] # "no" => pc[p] \in Live
          /\ "closed" \in callbacks[p] => pc[p] = "closed"
          /\ closer[p] = "done" => pc[p] = "closed"
          /\ closer[p] = "removed" \/ deadline[p] = "closing" \/ p \in doomed => peers[p] = "no"
    /\ ~ending => doomed = {}

\* NoPeerIsForgotten, its clause about each peer and its counts apart.
EachPeer ==
    \A p \in Peer :
       /\ pc[p] \in Live => peers[p] # "no" \/ Closing(p)
       /\ peers[p] = "unconnected" => deadline[p] \in {"armed", "fired"}
       /\ pc[p] = "closed" => p \in over \/ "closed" \in callbacks[p]

ConnectedPeers(f) == {p \in Peer : f[p] = "connected"}
SlotHolders(f) == {p \in Peer : f[p] \in HoldsSlot}

Counts ==
    /\ connected = Cardinality(ConnectedPeers(peers))
    /\ slots = Cardinality(SlotHolders(answer))

IInv == Types /\ Lives /\ EachPeer /\ Counts

-----------------------------------------------------------------------------
(* The counts.                                                                *)
\* One peer more or less is one more or less in a count.
LEMMA OneMoreOrLess ==
    ASSUME NEW S \in SUBSET Peer, NEW p \in Peer
    PROVE  /\ Cardinality(S) \in Nat
           /\ p \notin S => Cardinality(S \cup {p}) = Cardinality(S) + 1
           /\ p \in S => Cardinality(S \ {p}) = Cardinality(S) - 1
           /\ p \in S => Cardinality(S) - 1 \in Nat
<1>1. IsFiniteSet(S)
  BY RegistryAssumption, FS_Subset, Zenon
<1>2. IsFiniteSet(S \ {p})
  BY <1>1, FS_Subset, Zenon
<1>3. p \in S => Cardinality(S \ {p}) = Cardinality(S) - 1
  BY <1>1, FS_RemoveElement, Zenon
<1> QED
  BY <1>1, <1>2, <1>3, FS_AddElement, FS_CardinalityType

\* An entry of the registry is set for p, and the count follows it.
LEMMA ConnectedFollows ==
    ASSUME peers \in [Peer -> {"no", "unconnected", "connected"}],
           connected = Cardinality(ConnectedPeers(peers)),
           NEW p \in Peer, NEW v \in {"no", "unconnected", "connected"},
           peers' = [peers EXCEPT ![p] = v],
           connected' = CASE peers[p] # "connected" /\ v = "connected" -> connected + 1
                          [] peers[p] = "connected" /\ v # "connected" -> connected - 1
                          [] OTHER -> connected
    PROVE  connected' = Cardinality(ConnectedPeers(peers')) /\ connected' \in Nat
<1> DEFINE S == ConnectedPeers(peers)
<1>1. S \in SUBSET Peer
  BY Zenon DEF ConnectedPeers
<1>2. p \in S <=> peers[p] = "connected"
  BY Zenon DEF ConnectedPeers
<1>3. v = "connected" => ConnectedPeers(peers') = S \cup {p}
  BY Zenon DEF ConnectedPeers
<1>4. v # "connected" => ConnectedPeers(peers') = S \ {p}
  BY Zenon DEF ConnectedPeers
<1>5. p \in S => S \cup {p} = S
  OBVIOUS
<1>6. p \notin S => S \ {p} = S
  OBVIOUS
<1> HIDE DEF S
<1> QED
  BY <1>1, <1>2, <1>3, <1>4, <1>5, <1>6, OneMoreOrLess, Zenon DEF S

\* An offer moves on, and the slots follow it.
LEMMA SlotsFollow ==
    ASSUME answer \in [Peer -> {"none", "queued", "slot", "negotiating", "failing", "done"}],
           slots = Cardinality(SlotHolders(answer)),
           NEW p \in Peer,
           NEW v \in {"none", "queued", "slot", "negotiating", "failing", "done"},
           answer' = [answer EXCEPT ![p] = v],
           slots' = CASE answer[p] \notin HoldsSlot /\ v \in HoldsSlot -> slots + 1
                      [] answer[p] \in HoldsSlot /\ v \notin HoldsSlot -> slots - 1
                      [] OTHER -> slots
    PROVE  slots' = Cardinality(SlotHolders(answer')) /\ slots' \in Nat
<1> DEFINE S == SlotHolders(answer)
<1>1. S \in SUBSET Peer
  BY Zenon DEF SlotHolders
<1>2. p \in S <=> answer[p] \in HoldsSlot
  BY Zenon DEF SlotHolders
<1>3. v \in HoldsSlot => SlotHolders(answer') = S \cup {p}
  BY Zenon DEF SlotHolders
<1>4. v \notin HoldsSlot => SlotHolders(answer') = S \ {p}
  BY Zenon DEF SlotHolders
<1>5. p \in S => S \cup {p} = S
  OBVIOUS
<1>6. p \notin S => S \ {p} = S
  OBVIOUS
<1> HIDE DEF S
<1> QED
  BY <1>1, <1>2, <1>3, <1>4, <1>5, <1>6, OneMoreOrLess, ZenonT(40) DEF S

-----------------------------------------------------------------------------
(* The invariant. Each action changes one peer; the counts follow by the      *)
(* lemmas above and the rest is about that peer alone.                        *)
\* The steps of answerOffer.
LEMMA AnswerIInv ==
    ASSUME IInv, NEW p \in Peer,
           \/ BeginHandshake(p) \/ Queued(p) \/ CreatePeer(p)
           \/ Negotiated(p) \/ NegotiationFailed(p)
    PROVE  IInv'
<1> USE DEF IInv, Types, Counts
<1>1. CASE BeginHandshake(p)
  <2>1. Counts' /\ slots' \in Nat
    BY <1>1, SlotsFollow, Zenon DEF BeginHandshake, HoldsSlot
  <2> QED
    BY <1>1, <2>1 DEF BeginHandshake, Lives, EachPeer, Closing, Live
<1>2. CASE Queued(p)
  <2>1. Counts' /\ slots' \in Nat
    BY <1>2, SlotsFollow, Zenon DEF Queued, HoldsSlot
  <2> QED
    BY <1>2, <2>1 DEF Queued, Lives, EachPeer, Closing, Live
<1>3. CASE CreatePeer(p)
  <2>1. connected' = Cardinality(ConnectedPeers(peers'))
    BY <1>3, ConnectedFollows, Zenon DEF CreatePeer, Lives
  <2>2. Counts' /\ slots' \in Nat
    BY <1>3, <2>1, SlotsFollow, Zenon DEF CreatePeer, HoldsSlot
  <2> QED
    BY <1>3, <2>2 DEF CreatePeer, Lives, EachPeer, Closing, Live
<1>4. CASE Negotiated(p)
  <2>1. Counts' /\ slots' \in Nat
    BY <1>4, SlotsFollow, Zenon DEF Negotiated, HoldsSlot
  <2> QED
    BY <1>4, <2>1 DEF Negotiated, CallCloser, Lives, EachPeer, Closing, Live
<1>5. CASE NegotiationFailed(p)
  <2>1. Counts' /\ slots' \in Nat
    BY <1>5, SlotsFollow, Zenon DEF NegotiationFailed, HoldsSlot
  <2> QED
    BY <1>5, <2>1 DEF NegotiationFailed, Lives, EachPeer, Closing, Live
<1> QED
  BY <1>1, <1>2, <1>3, <1>4, <1>5, Zenon

\* The steps of closePeer and of the deadline.
LEMMA CloserIInv ==
    ASSUME IInv, NEW p \in Peer,
           \/ CloserRemoves(p) \/ CloserCloses(p) \/ DeadlineFires(p)
           \/ CloseIfUnconnected(p) \/ DeadlineCloses(p)
    PROVE  IInv'
<1> USE DEF IInv, Types, Counts
<1>1. CASE CloserRemoves(p)
  <2>1. Counts' /\ connected' \in Nat
    BY <1>1, ConnectedFollows, Zenon DEF CloserRemoves, RemovePeer
  <2> QED
    BY <1>1, <2>1 DEF CloserRemoves, RemovePeer, StopDeadline, Lives, EachPeer, Closing, Live
<1>2. CASE CloserCloses(p)
  BY <1>2 DEF CloserCloses, ClosePc, Lives, EachPeer, Closing, Live
<1>3. CASE DeadlineFires(p)
  BY <1>3 DEF DeadlineFires, Lives, EachPeer, Closing, Live
<1>4. CASE CloseIfUnconnected(p)
  <2>1. Counts'
    <3>1. CASE peers[p] = "unconnected"
      BY <1>4, <3>1, ConnectedFollows, Zenon DEF CloseIfUnconnected
    <3>2. CASE peers[p] # "unconnected"
      BY <1>4, <3>2, Zenon DEF CloseIfUnconnected
    <3> QED
      BY <3>1, <3>2, Zenon
  <2> QED
    BY <1>4, <2>1 DEF CloseIfUnconnected, Lives, EachPeer, Closing, Live
<1>5. CASE DeadlineCloses(p)
  BY <1>5 DEF DeadlineCloses, ClosePc, Lives, EachPeer, Closing, Live
<1> QED
  BY <1>1, <1>2, <1>3, <1>4, <1>5

\* The library's callbacks, the session and the connection itself.
LEMMA CallbackIInv ==
    ASSUME IInv, NEW p \in Peer,
           \/ OnConnected(p) \/ OnFailed(p) \/ OnClosed(p)
           \/ RequestPeerClose(p) \/ Connects(p) \/ Fails(p)
    PROVE  IInv'
<1> USE DEF IInv, Types, Counts
<1>1. CASE OnConnected(p)
  <2>1. Counts' /\ connected' \in Nat
    BY <1>1, ConnectedFollows, Zenon DEF OnConnected, MarkConnected
  <2>2. Types'
    BY <1>1, <2>1, Zenon DEF OnConnected, MarkConnected, StopDeadline
  <2>3. Lives'
    BY <1>1 DEF OnConnected, MarkConnected, StopDeadline, Lives, Live
  <2>4. EachPeer'
    BY <1>1 DEF OnConnected, MarkConnected, StopDeadline, EachPeer, Closing, Live
  <2> QED
    BY <2>1, <2>2, <2>3, <2>4, Zenon
<1>2. CASE OnFailed(p)
  <2>1. Counts' /\ connected' \in Nat
    BY <1>2, ConnectedFollows, Zenon DEF OnFailed, RemovePeer
  <2> QED
    BY <1>2, <2>1 DEF OnFailed, RemovePeer, StopDeadline, CallCloser, Lives, EachPeer,
                      Closing, Live
<1>3. CASE OnClosed(p)
  <2>1. Counts' /\ connected' \in Nat
    BY <1>3, ConnectedFollows, Zenon DEF OnClosed, RemovePeer
  <2> QED
    BY <1>3, <2>1 DEF OnClosed, RemovePeer, StopDeadline, Lives, EachPeer, Closing, Live
<1>4. CASE RequestPeerClose(p)
  BY <1>4 DEF RequestPeerClose, CallCloser, Lives, EachPeer, Closing, Live
<1>5. CASE Connects(p)
  BY <1>5 DEF Connects, Lives, EachPeer, Closing, Live
<1>6. CASE Fails(p)
  BY <1>6 DEF Fails, Lives, EachPeer, Closing, Live
<1> QED
  BY <1>1, <1>2, <1>3, <1>4, <1>5, <1>6, Zenon

\* The end of the node.
LEMMA EndIInv ==
    ASSUME IInv, CloseAll \/ \E p \in Peer : CloseDoomed(p)
    PROVE  IInv'
<1> USE DEF IInv, Types, Counts
<1>1. CASE CloseAll
  <2>1. ConnectedPeers(peers') = {}
    BY <1>1, Zenon DEF CloseAll, ConnectedPeers
  <2>2. Counts'
    BY <1>1, <2>1, FS_EmptySet, Zenon DEF CloseAll
  <2> QED
    BY <1>1, <2>2 DEF CloseAll, Lives, EachPeer, Closing, Live
<1>2. CASE \E p \in Peer : CloseDoomed(p)
  <2>1. PICK p \in Peer : CloseDoomed(p)
    BY <1>2, Zenon
  <2> QED
    BY <2>1 DEF CloseDoomed, ClosePc, Lives, EachPeer, Closing, Live
<1> QED
  BY <1>1, <1>2, Zenon

LEMMA InitIInv == RegistryInit => IInv
<1> SUFFICES ASSUME RegistryInit PROVE IInv
  OBVIOUS
<1>1. ConnectedPeers(peers) = {} /\ SlotHolders(answer) = {}
  BY Zenon DEF RegistryInit, ConnectedPeers, SlotHolders, HoldsSlot
<1>2. Counts
  BY <1>1, FS_EmptySet, Zenon DEF RegistryInit, Counts
<1> QED
  BY <1>2, Zenon DEF RegistryInit, IInv, Types, Lives, EachPeer, Closing, Live

LEMMA NextIInv == IInv /\ [RegistryNext]_registryVars => IInv'
<1> SUFFICES ASSUME IInv, [RegistryNext]_registryVars PROVE IInv'
  OBVIOUS
<1>1. CASE RegistryNext
  BY <1>1, AnswerIInv, CloserIInv, CallbackIInv, EndIInv, Zenon DEF RegistryNext
<1>2. CASE UNCHANGED registryVars
  BY <1>2, Zenon DEF registryVars, IInv, Types, Lives, EachPeer, Counts, Closing
<1> QED
  BY <1>1, <1>2, Zenon

\* However the deadline, the library's callbacks, closePeer and CloseAll overtake
\* each other, and for any number of offers and handshake slots: every live
\* connection is in the registry or about to be closed, one that has not
\* connected has its deadline, a closed one ends its session, and connectedCount
\* and the handshake slots are exact.
THEOREM NothingForgotten == RegistrySpec => []NoPeerIsForgotten
<1>1. IInv => NoPeerIsForgotten
  BY Zenon DEF IInv, EachPeer, Counts, ConnectedPeers, SlotHolders, NoPeerIsForgotten
<1> HIDE DEF IInv, NoPeerIsForgotten, RegistryInit, RegistryNext, registryVars
<1> QED
  BY <1>1, InitIInv, NextIInv, PTL DEF RegistrySpec

-----------------------------------------------------------------------------
(* The supervisor of the page.                                                *)
\* boot is a record with a stage, whatever the other fields hold.
IsBoot(b) == b = [f \in DOMAIN b |-> b[f]] /\ "stage" \in DOMAIN b

\* While the worker is being told of a port after a WAKE it has none, and no
\* attempt attaches one.
OneAttachment ==
    /\ waking => ~attached
    /\ boot.stage = "attach" => ~waking

RouteInv ==
    /\ IsBoot(boot)
    /\ DOMAIN rtc = Routes /\ rtc = [i \in Routes |-> rtc[i]] /\ active \in Routes
    /\ OneAttachment

\* index.ts -- only connectTransport and its outcome move an attempt on.
LEMMA StageKept ==
    ASSUME NEW b, IsBoot(b)
    PROVE  /\ \A a : IsBoot(ScheduleRetry(b, a)) /\ ScheduleRetry(b, a).stage = b.stage
           /\ IsBoot(RunAdaptiveFallback(b)) /\ RunAdaptiveFallback(b).stage = b.stage
           /\ \A c : IsBoot(ResetRouteState(b, c)) /\ ResetRouteState(b, c).stage = b.stage
           /\ IsBoot(ConnectTransport(b)) /\ ConnectTransport(b).stage \in {b.stage, "rtc"}
           /\ \A i : /\ IsBoot(RejectAttach(b, i))
                     /\ RejectAttach(b, i).stage \in {b.stage, "rejected"}
<1>1. \A a : IsBoot(ScheduleRetry(b, a)) /\ ScheduleRetry(b, a).stage = b.stage
  BY Zenon DEF ScheduleRetry, IsBoot
<1>2. IsBoot(RunAdaptiveFallback(b)) /\ RunAdaptiveFallback(b).stage = b.stage
  BY Zenon DEF RunAdaptiveFallback, IsBoot
<1>3. \A c : IsBoot(ResetRouteState(b, c)) /\ ResetRouteState(b, c).stage = b.stage
  BY Zenon DEF ResetRouteState, IsBoot
<1>4. IsBoot(ConnectTransport(b)) /\ ConnectTransport(b).stage \in {b.stage, "rtc"}
  BY Zenon DEF ConnectTransport, IsBoot
<1>5. \A i : /\ IsBoot(RejectAttach(b, i))
             /\ RejectAttach(b, i).stage \in {b.stage, "rejected"}
  BY Zenon DEF RejectAttach, IsBoot
<1> QED
  BY <1>1, <1>2, <1>3, <1>4, <1>5, Zenon

\* boot has started the first attempt: nothing is attached.
LEMMA InitRouteInv == Init => RouteInv
<1> SUFFICES ASSUME Init PROVE RouteInv
  OBVIOUS
<1>1. IsBoot(boot) /\ boot.stage = "rtc"
  BY DEF Init, IsBoot
<1>2. DOMAIN rtc = Routes /\ rtc = [i \in Routes |-> rtc[i]] /\ active \in Routes
  BY MaxRoutesAssumption DEF Init, Routes
<1>3. OneAttachment
  BY <1>1, Zenon DEF Init, OneAttachment
<1> QED
  BY <1>1, <1>2, <1>3, Zenon DEF RouteInv

\* client.ts:1743-1830 -- a client is torn down.
LEMMA TeardownKeeps ==
    ASSUME RouteInv, NEW i, Teardown(i)
    PROVE  RouteInv'
<1>1. IsBoot(boot)
  BY Zenon DEF RouteInv
<1> DEFINE b == RejectAttach(boot, i)
<1>2. IsBoot(b) /\ b.stage \in {boot.stage, "rejected"}
  BY <1>1, StageKept, Zenon
<1> HIDE DEF b
<1>3. IsBoot(boot') /\ boot'.stage \in {boot.stage, "rejected"}
  <2>1. boot' = b \/ boot' = ScheduleRetry(b, FALSE)
    BY Zenon DEF Teardown, b
  <2>2. IsBoot(ScheduleRetry(b, FALSE)) /\ ScheduleRetry(b, FALSE).stage = b.stage
    BY <1>2, StageKept, Zenon
  <2> QED
    BY <1>2, <2>1, <2>2, Zenon
<1>4. DOMAIN rtc' = Routes /\ rtc' = [k \in Routes |-> rtc'[k]] /\ active' \in Routes
  BY Zenon DEF Teardown, RouteInv
<1>5. (attached' => attached) /\ (waking' => waking)
  BY Zenon DEF Teardown
<1>6. OneAttachment'
  BY <1>3, <1>5, Zenon DEF RouteInv, OneAttachment
<1> QED
  BY <1>3, <1>4, <1>6, Zenon DEF RouteInv

\* index.ts:273-343 -- connectTransport.
LEMMA ReconnectKeeps ==
    ASSUME RouteInv, NEW b, IsBoot(b), b.stage = boot.stage, Reconnect(b)
    PROVE  RouteInv'
<1>1. IsBoot(boot') /\ boot'.stage \in {boot.stage, "rtc"}
  BY StageKept, Zenon DEF Reconnect
<1>2. DOMAIN rtc' = Routes /\ rtc' = [k \in Routes |-> rtc'[k]] /\ active' \in Routes
  BY Zenon DEF Reconnect, RouteInv
<1>3. (attached' => attached) /\ (waking' => waking)
  BY Zenon DEF Reconnect
<1>4. OneAttachment'
  BY <1>1, <1>3, Zenon DEF RouteInv, OneAttachment
<1> QED
  BY <1>1, <1>2, <1>4, Zenon DEF RouteInv

\* A handler that only moves variables of boot, and no attempt.
LEMMA OnlyBoot ==
    ASSUME RouteInv, IsBoot(boot'), boot'.stage = boot.stage,
           UNCHANGED <<active, rtc, attached, waking>>
    PROVE  RouteInv'
  BY Zenon DEF RouteInv, OneAttachment

\* One case per handler of the page.
LEMMA NextRouteInv == RouteInv /\ [Next]_vars => RouteInv'
<1> SUFFICES ASSUME RouteInv, [Next]_vars PROVE RouteInv'
  OBVIOUS
<1>1. IsBoot(boot) /\ OneAttachment
  BY Zenon DEF RouteInv
<1>2. DOMAIN rtc = Routes /\ rtc = [i \in Routes |-> rtc[i]] /\ active \in Routes
  BY Zenon DEF RouteInv
<1>3. ASSUME NEW i \in Routes, LoseRoute(i) PROVE RouteInv'
  BY <1>3, TeardownKeeps, Zenon DEF LoseRoute
<1>4. ASSUME NEW i \in Routes, Drained(i) PROVE RouteInv'
  <2>1. IsBoot(boot') /\ boot'.stage \in {boot.stage, "rejected"}
    BY <1>1, <1>4, StageKept, Zenon DEF Drained
  <2>2. DOMAIN rtc' = Routes /\ rtc' = [k \in Routes |-> rtc'[k]] /\ active' \in Routes
    BY <1>2, <1>4, Zenon DEF Drained
  <2>3. attached' = attached /\ (waking' => waking)
    BY <1>4, Zenon DEF Drained
  <2> QED
    BY <1>1, <2>1, <2>2, <2>3, Zenon DEF RouteInv, OneAttachment
<1>5. CASE Worker
  <2>1. CASE WorkerLosesPort
    BY <1>1, <1>2, <2>1, Zenon DEF WorkerLosesPort, RouteInv, OneAttachment
  <2>2. CASE Wake
    BY <1>1, <1>2, <2>2, Zenon DEF Wake, RouteInv, OneAttachment
  <2>3. CASE WakeAttached
    BY <1>1, <1>2, <2>3, Zenon DEF WakeAttached, RouteInv, OneAttachment
  <2>4. CASE WakeFails
    BY <2>4, TeardownKeeps, Zenon DEF WakeFails
  <2> QED
    BY <1>5, <2>1, <2>2, <2>3, <2>4, Zenon DEF Worker
<1>6. CASE Browser
  <2>1. CASE ReconnectRequest
    <3> DEFINE b == [boot EXCEPT !.retryTimer = FALSE, !.retryAttempt = 0]
    <3>1. IsBoot(b) /\ b.stage = boot.stage
      BY <1>1, Zenon DEF IsBoot
    <3>2. \/ Reconnect(b)
          \/ boot' = ScheduleRetry(b, ~b.everConnected) /\ UNCHANGED <<active, rtc, attached, waking>>
      BY <2>1, Zenon DEF ReconnectRequest
    <3> HIDE DEF b
    <3>3. CASE Reconnect(b)
      BY <3>1, <3>3, ReconnectKeeps, Zenon
    <3>4. CASE boot' = ScheduleRetry(b, ~b.everConnected) /\ UNCHANGED <<active, rtc, attached, waking>>
      <4>1. \A a : IsBoot(ScheduleRetry(b, a)) /\ ScheduleRetry(b, a).stage = b.stage
        BY <3>1, StageKept, Zenon
      <4> QED
        BY <3>1, <3>4, <4>1, OnlyBoot, Zenon
    <3> QED
      BY <3>2, <3>3, <3>4, Zenon
  <2>2. CASE Offline
    <3> DEFINE b == [boot EXCEPT !.onLine = FALSE]
    <3>1. IsBoot(b) /\ b.stage = boot.stage
      BY <1>1, Zenon DEF IsBoot
    <3>2. boot' = ResetRouteState(b, TRUE) /\ UNCHANGED <<active, rtc, attached, waking>>
      BY <2>2, Zenon DEF Offline
    <3> HIDE DEF b
    <3>3. \A c : IsBoot(ResetRouteState(b, c)) /\ ResetRouteState(b, c).stage = b.stage
      BY <3>1, StageKept, Zenon
    <3> QED
      BY <3>1, <3>2, <3>3, OnlyBoot, Zenon
  <2>3. CASE Online
    <3> DEFINE a == [boot EXCEPT !.onLine = TRUE]
               b == ResetRouteState(a, FALSE)
    <3>1. IsBoot(a) /\ a.stage = boot.stage
      BY <1>1, Zenon DEF IsBoot
    <3>2. \/ Reconnect(b)
          \/ boot' = RunAdaptiveFallback(b) /\ UNCHANGED <<active, rtc, attached, waking>>
      BY <2>3, Zenon DEF Online
    <3> HIDE DEF a
    <3>3. IsBoot(b) /\ b.stage = boot.stage
      BY <3>1, StageKept, ZenonT(40)
    <3> HIDE DEF b
    <3>4. CASE Reconnect(b)
      BY <3>3, <3>4, ReconnectKeeps
    <3>5. CASE boot' = RunAdaptiveFallback(b) /\ UNCHANGED <<active, rtc, attached, waking>>
      BY <3>3, <3>5, StageKept, OnlyBoot, Zenon
    <3> QED
      BY <3>2, <3>4, <3>5, Zenon
  <2>4. CASE NetworkChange
    BY <1>1, <2>4, StageKept, OnlyBoot, Zenon DEF NetworkChange
  <2> QED
    BY <1>6, <2>1, <2>2, <2>3, <2>4 DEF Browser
<1>7. CASE Attempt
  <2>1. CASE RtcOpens
    <3>1. IsBoot(boot')
      BY <1>1, <2>1, Zenon DEF RtcOpens, IsBoot
    <3>2. DOMAIN rtc' = Routes /\ rtc' = [k \in Routes |-> rtc'[k]] /\ active' \in Routes
      BY <1>2, <2>1, Zenon DEF RtcOpens
    <3>3. OneAttachment'
      BY <2>1, Zenon DEF RtcOpens, OneAttachment
    <3> QED
      BY <3>1, <3>2, <3>3, Zenon DEF RouteInv
  <2>2. CASE ConnectSucceeds
    <3> DEFINE b == [boot EXCEPT !.everConnected = TRUE, !.retryAttempt = 0, !.shown = "connected"]
               c == [b EXCEPT !.stage = "no"]
    <3>1. IsBoot(c) /\ c.stage = "no"
      BY <1>1, Zenon DEF IsBoot
    <3>2. boot' = RunAdaptiveFallback(c) /\ boot.stage = "attach" /\ UNCHANGED <<active, rtc, waking>>
      BY <2>2, Zenon DEF ConnectSucceeds, Settled
    <3> HIDE DEF c
    <3>3. IsBoot(boot') /\ boot'.stage = "no"
      BY <3>1, <3>2, StageKept, Zenon
    <3>4. OneAttachment'
      BY <1>1, <3>2, <3>3, Zenon DEF OneAttachment
    <3> QED
      BY <1>2, <3>2, <3>3, <3>4, Zenon DEF RouteInv
  <2>3. CASE ConnectFails
    <3> DEFINE b == [boot EXCEPT !.preferred = IF boot.via = "tcp" THEN "auto" ELSE @]
               c == [b EXCEPT !.stage = "no"]
               d == RunAdaptiveFallback(c)
    <3>1. IsBoot(c) /\ c.stage = "no"
      BY <1>1, Zenon DEF IsBoot
    <3>2. boot' = ScheduleRetry(d, FALSE) \/ boot' = [d EXCEPT !.shown = "unavailable"]
      BY <2>3, Zenon DEF ConnectFails, ConnectionFailed, Settled
    <3> HIDE DEF c
    <3>3. IsBoot(d) /\ d.stage = "no"
      BY <3>1, StageKept, Zenon
    <3> HIDE DEF d
    <3>4. IsBoot(ScheduleRetry(d, FALSE)) /\ ScheduleRetry(d, FALSE).stage = d.stage
      BY <3>3, StageKept, Zenon
    <3>5. IsBoot(boot') /\ boot'.stage = "no"
      BY <3>2, <3>3, <3>4, ZenonT(40) DEF IsBoot
    <3>6. DOMAIN rtc' = Routes /\ rtc' = [k \in Routes |-> rtc'[k]] /\ active' \in Routes
      BY <1>2, <2>3, Zenon DEF ConnectFails
    <3>7. (attached' => attached) /\ (waking' => waking)
      BY <2>3, Zenon DEF ConnectFails
    <3> QED
      BY <1>1, <3>5, <3>6, <3>7, Zenon DEF RouteInv, OneAttachment
  <2>4. CASE RetryTimer
    <3> DEFINE b == [boot EXCEPT !.retryTimer = FALSE]
    <3>1. IsBoot(b) /\ b.stage = boot.stage
      BY <1>1, Zenon DEF IsBoot
    <3>2. \/ Reconnect(boot)
          \/ boot' = ScheduleRetry(b, ~boot.everConnected) /\ UNCHANGED <<active, rtc, attached, waking>>
      BY <2>4, Zenon DEF RetryTimer
    <3> HIDE DEF b
    <3>3. CASE Reconnect(boot)
      BY <1>1, <3>3, ReconnectKeeps, Zenon
    <3>4. CASE boot' = ScheduleRetry(b, ~boot.everConnected) /\ UNCHANGED <<active, rtc, attached, waking>>
      <4>1. \A a : IsBoot(ScheduleRetry(b, a)) /\ ScheduleRetry(b, a).stage = b.stage
        BY <3>1, StageKept
      <4> QED
        BY <3>1, <3>4, <4>1, OnlyBoot, Zenon
    <3> QED
      BY <3>2, <3>3, <3>4, Zenon
  <2> QED
    BY <1>7, <2>1, <2>2, <2>3, <2>4 DEF Attempt
<1>8. CASE Replacement
  <2>1. CASE Suggest
    <3> DEFINE b == [boot EXCEPT !.pending = TRUE]
    <3>1. IsBoot(b) /\ b.stage = boot.stage
      BY <1>1, Zenon DEF IsBoot
    <3>2. boot' = RunAdaptiveFallback(b) /\ UNCHANGED <<active, rtc, attached, waking>>
      BY <2>1, Zenon DEF Suggest
    <3> HIDE DEF b
    <3> QED
      BY <3>1, <3>2, StageKept, OnlyBoot, Zenon
  <2>2. CASE WarmUpSucceeds
    <3>1. IsBoot(boot') /\ boot'.stage = boot.stage
      BY <1>1, <2>2, Zenon DEF WarmUpSucceeds, IsBoot
    <3>2. DOMAIN rtc' = Routes /\ rtc' = [k \in Routes |-> rtc'[k]]
      BY <1>2, <2>2, Zenon DEF WarmUpSucceeds
    <3>3. active' \in Routes /\ UNCHANGED <<attached, waking>>
      BY <1>2, <2>2, MaxRoutesAssumption DEF WarmUpSucceeds, Routes
    <3> QED
      BY <1>1, <3>1, <3>2, <3>3, Zenon DEF RouteInv, OneAttachment
  <2>3. CASE WarmUpFails
    <3>1. IsBoot(boot') /\ boot'.stage = boot.stage
      BY <1>1, <2>3, Zenon DEF WarmUpFails, IsBoot
    <3> QED
      BY <2>3, <3>1, OnlyBoot, Zenon DEF WarmUpFails
  <2> QED
    BY <1>8, <2>1, <2>2, <2>3, Zenon DEF Replacement
<1>9. CASE UNCHANGED vars
  BY <1>1, <1>9, OnlyBoot, Zenon DEF vars
<1> QED
  BY <1>3, <1>4, <1>5, <1>6, <1>7, <1>8, <1>9, Zenon DEF Next

-----------------------------------------------------------------------------
\* client.ts:1743-1830 -- with an open route at the end of the chain, every
\* predecessor has a healthy successor.
LEMMA OpenEndIsHealthy ==
    ASSUME active \in Routes, rtc[active] = "open", NEW i \in Routes, i < active
    PROVE  SuccessorHealthy(i)
<1>1. active \in (i + 1)..active
  BY MaxRoutesAssumption DEF Routes
<1> QED
  BY <1>1, Zenon DEF SuccessorHealthy, TransportIsOpen

\* The step in which an open predecessor stops being open is one of its end.
LEMMA PredecessorsEnd ==
    ASSUME RouteInv, Next, active' = active, rtc[active] = "open", rtc'[active] = "open",
           NEW i \in Routes, i < active, rtc[i] = "open", rtc'[i] # "open", attached
    PROVE  attached'
<1>1. DOMAIN rtc = Routes /\ rtc = [k \in Routes |-> rtc[k]] /\ active \in Routes
  BY Zenon DEF RouteInv
<1>2. SuccessorHealthy(i)
  BY <1>1, OpenEndIsHealthy, Zenon
<1>3. ~waking
  BY Zenon DEF RouteInv, OneAttachment
<1>4. ASSUME NEW k, Teardown(k) PROVE attached'
  <2>1. k = i
    BY <1>1, <1>4, Zenon DEF Teardown
  <2> QED
    BY <1>2, <1>4, <2>1, Zenon DEF Teardown
<1>5. ASSUME NEW b PROVE ~Reconnect(b)
  BY <1>1, <1>5, Zenon DEF Reconnect
<1>6. ASSUME NEW k \in Routes, LoseRoute(k) \/ Drained(k) PROVE attached'
  BY <1>4, <1>6, Zenon DEF LoseRoute, Drained
<1>7. CASE Worker
  <2>1. CASE WakeFails
    BY <1>4, <2>1, Zenon DEF WakeFails
  <2>2. CASE WorkerLosesPort \/ Wake \/ WakeAttached
    BY <2>2, Zenon DEF WorkerLosesPort, Wake, WakeAttached
  <2> QED
    BY <1>7, <2>1, <2>2, Zenon DEF Worker
<1>8. CASE Browser
  BY <1>5, <1>8, Zenon DEF Browser, ReconnectRequest, Offline, Online, NetworkChange
<1>9. CASE Attempt
  <2>1. CASE RtcOpens
    BY <1>1, <1>3, <2>1, Zenon DEF RtcOpens
  <2>2. CASE ConnectSucceeds
    BY <2>2, Zenon DEF ConnectSucceeds
  <2>3. CASE ConnectFails
    <3>1. boot.route = i
      BY <1>1, <2>3, Zenon DEF ConnectFails
    <3> QED
      BY <1>2, <2>3, <3>1, Zenon DEF ConnectFails
  <2>4. CASE RetryTimer
    BY <1>5, <2>4, Zenon DEF RetryTimer
  <2> QED
    BY <1>9, <2>1, <2>2, <2>3, <2>4, Zenon DEF Attempt
<1>10. CASE Replacement
  <2>1. CASE WarmUpSucceeds
    BY <2>1, Zenon DEF WarmUpSucceeds
  <2>2. CASE Suggest \/ WarmUpFails
    BY <2>2, Zenon DEF Suggest, WarmUpFails
  <2> QED
    BY <1>10, <2>1, <2>2, Zenon DEF Replacement
<1> QED
  BY <1>6, <1>7, <1>8, <1>9, <1>10, Zenon DEF Next

\* The invariant holds in every state of the supervisor.
THEOREM RouteInvariance == Spec => []RouteInv
<1> HIDE DEF RouteInv
<1> QED
  BY InitRouteInv, NextRouteInv, PTL DEF Spec

\* client.ts:1760-1764, 1789-1797 -- however long the chain of clients, the end of
\* a drained or lost predecessor leaves the worker's port to the active route.
THEOREM PortOutlivesPredecessors == Spec => PredecessorLeavesQuietly
<1> DEFINE Quietly ==
      (/\ rtc[active] = "open" /\ active' = active /\ rtc'[active] = "open"
       /\ \E i \in Routes : i < active /\ rtc[i] = "open" /\ rtc'[i] # "open")
      => (attached => attached')
<1>1. RouteInv /\ [Next]_vars => [Quietly]_vars
  BY PredecessorsEnd, Zenon
<1> HIDE DEF RouteInv
<1> QED
  BY <1>1, RouteInvariance, PTL DEF Spec, PredecessorLeavesQuietly

-----------------------------------------------------------------------------
(* Totals.  Total is defined by recursion: what it is of a changed sequence    *)
(* follows from the least position at which it would be something else.        *)
\* A nonempty set of numbers has a least one.
LEMMA LeastNumber ==
    ASSUME NEW S \in SUBSET Nat, S # {}
    PROVE  \E n \in S : \A k \in S : n <= k
<1> DEFINE R == {ss \in Nat \X Nat : ss[1] < ss[2]}
<1>1. IsWellFoundedOn(R, Nat)
  BY NatLessThanWellFounded, Zenon DEF OpToRel
<1> HIDE DEF R
<1>2. PICK x \in S : \A y \in S : ~ (<<y, x>> \in R)
  BY <1>1, WFMin, Zenon
<1>3. ASSUME NEW y \in S PROVE x <= y
  <2>1. ~ (y < x)
    <3>1. <<y, x>> \in Nat \X Nat /\ <<y, x>>[1] = y /\ <<y, x>>[2] = x
      OBVIOUS
    <3> QED BY <1>2, <3>1, Zenon DEF R
  <2> QED BY <2>1
<1> QED
  BY <1>3, Zenon

\* Induction up to n: what holds of 0 and of a number after the one before holds
\* of all of them, when the numbers of which it does not hold are a set.
LEMMA NoFirstNumber ==
    ASSUME NEW n \in Nat, NEW Bad \in SUBSET (0..n), 0 \notin Bad,
           \A i \in 1..n : i - 1 \notin Bad => i \notin Bad
    PROVE  Bad = {}
<1> SUFFICES ASSUME Bad # {} PROVE FALSE
  OBVIOUS
<1>1. Bad \in SUBSET Nat
  OBVIOUS
<1>2. PICK i \in Bad : \A k \in Bad : i <= k
  BY <1>1, LeastNumber, Zenon
<1>3. i \in 1..n
  BY <1>2
<1>4. i - 1 \in Bad
  BY <1>2, <1>3
<1> QED
  BY <1>2, <1>3, <1>4

\* f holds the sums of the first elements of s.
Adds(f, s) ==
    /\ f \in [0..Len(s) -> Int] /\ f[0] = 0
    /\ \A i \in 1..Len(s) : f[i] = f[i - 1] + s[i]

\* Whatever adds the elements up ends with their total.
LEMMA TotalIs ==
    ASSUME NEW s \in Seq(Int), NEW f, Adds(f, s)
    PROVE  Total(s) = f[Len(s)]
<1> DEFINE n == Len(s)
<1> DEFINE IsSum(g) == g = [i \in 0..n |-> IF i = 0 THEN 0 ELSE g[i - 1] + s[i]]
<1> DEFINE sum == CHOOSE g : IsSum(g)
<1>1. n \in Nat /\ \A i \in 0..n : f[i] = IF i = 0 THEN 0 ELSE f[i - 1] + s[i]
  BY DEF Adds
<1>2. IsSum(f)
  BY <1>1 DEF Adds
<1>3. IsSum(sum)
  BY <1>2, Zenon
<1>4. Total(s) = sum[n]
  BY Zenon DEF Total
<1> HIDE DEF n, sum
<1>5. \A i \in 0..n : sum[i] = IF i = 0 THEN 0 ELSE sum[i - 1] + s[i]
  BY <1>3, Zenon
<1> DEFINE Bad == {i \in 0..n : sum[i] # f[i]}
<1>6. 0 \notin Bad /\ \A i \in 1..n : i - 1 \notin Bad => i \notin Bad
  BY <1>1, <1>5
<1>7. Bad = {}
  <2>1. Bad \in SUBSET (0..n)
    BY Zenon
  <2> HIDE DEF Bad
  <2> QED BY <1>1, <1>6, <2>1, NoFirstNumber, Zenon
<1>8. sum[n] = f[n]
  <2>1. n \in 0..n
    BY <1>1
  <2> QED BY <1>7, <2>1, Zenon
<1> QED
  BY <1>4, <1>8, Zenon DEF n

\* The elements of a sequence of numbers can be added up.
LEMMA TotalHas ==
    ASSUME NEW s \in Seq(Int)
    PROVE  \E f : Adds(f, s)
<1> DEFINE n == Len(s)
<1> DEFINE UpTo(k) == \E f \in [0..k -> Int] : f[0] = 0 /\ \A i \in 1..k : f[i] = f[i - 1] + s[i]
<1> DEFINE Bad == {k \in 0..n : ~UpTo(k)}
<1>0. n \in Nat /\ \A i \in 1..n : s[i] \in Int
  OBVIOUS
<1> HIDE DEF n
<1>1. UpTo(0)
  <2> DEFINE g == [i \in 0..0 |-> 0]
  <2>1. g \in [0..0 -> Int] /\ g[0] = 0 /\ 1..0 = {}
    OBVIOUS
  <2> HIDE DEF g
  <2> QED BY <2>1
<1>2. ASSUME NEW k \in 1..n, UpTo(k - 1) PROVE UpTo(k)
  <2>1. k \in Nat /\ k - 1 \in Nat /\ s[k] \in Int
    BY <1>0, <1>2
  <2>2. PICK f \in [0..(k - 1) -> Int] : f[0] = 0 /\ \A i \in 1..(k - 1) : f[i] = f[i - 1] + s[i]
    BY <1>2, Zenon
  <2> DEFINE g == [i \in 0..k |-> IF i = k THEN f[k - 1] + s[k] ELSE f[i]]
  <2>3. /\ \A i \in 0..(k - 1) : g[i] = f[i] /\ f[i] \in Int
        /\ g[k] = f[k - 1] + s[k] /\ g \in [0..k -> Int]
    BY <2>1
  <2> HIDE DEF g
  <2>4. ASSUME NEW i \in 1..k PROVE g[i] = g[i - 1] + s[i]
    <3>1. CASE i = k
      BY <2>1, <2>3, <3>1
    <3>2. CASE i # k
      <4>1. i \in 1..(k - 1) /\ i \in 0..(k - 1) /\ i - 1 \in 0..(k - 1)
        BY <2>1, <3>2
      <4> QED BY <2>2, <2>3, <4>1, Zenon
    <3> QED BY <3>1, <3>2, Zenon
  <2>5. g[0] = 0
    <3>1. 0 \in 0..(k - 1)
      BY <2>1
    <3> QED BY <2>2, <2>3, <3>1, Zenon
  <2> QED BY <2>3, <2>4, <2>5, Zenon
<1>3. Bad = {}
  <2>1. Bad \in SUBSET (0..n) /\ 0 \notin Bad
    BY <1>1
  <2>2. \A k \in 1..n : k - 1 \notin Bad => k \notin Bad
    <3>1. \A k \in 1..n : k - 1 \in 0..n
      BY <1>0
    <3> QED BY <1>2, <3>1, Zenon
  <2> HIDE DEF Bad
  <2> QED BY <1>0, <2>1, <2>2, NoFirstNumber, Zenon
<1>4. UpTo(n)
  <2>1. n \in 0..n
    BY <1>0
  <2> QED BY <1>3, <2>1, Zenon
<1> QED
  BY <1>4, Zenon DEF Adds, n

\* The totals of a sequence with an element more at its end, one less at its
\* head, one less anywhere, and one more in front; and that of the empty one.
LEMMA Totals ==
    ASSUME NEW s \in Seq(Int), NEW x \in Int
    PROVE  /\ Total(s) \in Int
           /\ Total(Append(s, x)) = Total(s) + x
           /\ \A i \in 1..Len(s) : Total(Without(s, i)) = Total(s) - s[i]
           /\ Total(<<x>> \o s) = Total(s) + x
           /\ Total(<<>>) = 0
<1> DEFINE n == Len(s)
<1>1. PICK f : Adds(f, s)
  BY TotalHas, Zenon
<1>2. Total(s) = f[n]
  BY <1>1, TotalIs, Zenon
<1>3. /\ n \in Nat /\ f \in [0..n -> Int] /\ f[0] = 0 /\ f[n] \in Int
      /\ \A i \in 1..n : f[i] = f[i - 1] + s[i] /\ f[i] \in Int /\ s[i] \in Int
  <2>1. n \in Nat /\ \A i \in 1..n : s[i] \in Int
    OBVIOUS
  <2>2. f \in [0..n -> Int] /\ f[0] = 0 /\ \A i \in 1..n : f[i] = f[i - 1] + s[i]
    BY <1>1, Zenon DEF Adds
  <2> HIDE DEF n
  <2>3. \A i \in 0..n : f[i] \in Int
    BY <2>2, Zenon
  <2>4. n \in 0..n /\ \A i \in 1..n : i \in 0..n
    BY <2>1
  <2> QED BY <2>1, <2>2, <2>3, <2>4, Zenon
<1>4. Total(Append(s, x)) = Total(s) + x
  <2> DEFINE t == Append(s, x)
  <2>1. t \in Seq(Int) /\ Len(t) = n + 1 /\ t[n + 1] = x /\ \A i \in 1..n : t[i] = s[i]
    OBVIOUS
  <2> DEFINE g == [i \in 0..(n + 1) |-> IF i = n + 1 THEN f[n] + x ELSE f[i]]
  <2> HIDE DEF t, n
  <2>2. g \in [0..(n + 1) -> Int] /\ g[n + 1] = f[n] + x /\ \A i \in 0..n : g[i] = f[i]
    BY <1>3
  <2> HIDE DEF g
  <2>3. Adds(g, t)
    <3>1. 0 \in 0..n /\ n + 1 \in Nat
      BY <1>3
    <3>2. ASSUME NEW i \in 1..(n + 1) PROVE g[i] = g[i - 1] + t[i]
      <4>1. CASE i = n + 1
        <5>1. n \in 0..n /\ i - 1 = n
          BY <1>3, <4>1
        <5> QED BY <2>1, <2>2, <4>1, <5>1, Zenon
      <4>2. CASE i # n + 1
        <5>1. i \in 1..n /\ i \in 0..n /\ i - 1 \in 0..n
          BY <1>3, <4>2
        <5> QED BY <1>3, <2>1, <2>2, <5>1, Zenon
      <4> QED BY <4>1, <4>2, Zenon
    <3> QED BY <1>3, <2>1, <2>2, <3>1, <3>2, Zenon DEF Adds
  <2>4. Total(t) = g[n + 1]
    BY <2>1, <2>3, TotalIs, Zenon
  <2> QED BY <1>2, <2>2, <2>4, Zenon DEF t
<1>5. ASSUME NEW k \in 1..n PROVE Total(Without(s, k)) = Total(s) - s[k]
  <2> DEFINE t == Without(s, k)
  <2>1. /\ t \in Seq(Int) /\ Len(t) = n - 1 /\ n - 1 \in Nat
        /\ \A i \in 1..(n - 1) : t[i] = IF i < k THEN s[i] ELSE s[i + 1]
    BY <1>3 DEF Without
  <2> DEFINE g == [i \in 0..(n - 1) |-> IF i < k THEN f[i] ELSE f[i + 1] - s[k]]
  <2> HIDE DEF t, n
  <2>2. g \in [0..(n - 1) -> Int] /\ \A i \in 0..(n - 1) : g[i] = IF i < k THEN f[i] ELSE f[i + 1] - s[k]
    <3>1. \A i \in 0..n : f[i] \in Int
      BY <1>3, Zenon
    <3>2. ASSUME NEW i \in 0..(n - 1) PROVE (IF i < k THEN f[i] ELSE f[i + 1] - s[k]) \in Int
      <4>1. i \in 0..n /\ i + 1 \in 0..n /\ s[k] \in Int
        BY <1>3, <2>1
      <4> QED BY <3>1, <4>1
    <3> QED BY <3>2, Zenon
  <2> HIDE DEF g
  <2>3. Adds(g, t)
    <3>1. g[0] = 0
      BY <1>3, <2>1, <2>2
    <3>2. ASSUME NEW i \in 1..(n - 1) PROVE g[i] = g[i - 1] + t[i]
      <4>1. i \in Int /\ k \in Int /\ i \in 0..(n - 1) /\ i - 1 \in 0..(n - 1) /\ (i - 1) + 1 = i
        BY <1>3, <2>1
      <4>2. CASE i < k
        <5>1. i - 1 < k /\ i \in 1..n
          BY <1>3, <4>1, <4>2
        <5> QED BY <1>3, <2>1, <2>2, <4>1, <4>2, <5>1, Zenon
      <4>3. CASE ~ (i < k)
        <5>1. /\ g[i] = f[i + 1] - s[k] /\ t[i] = s[i + 1] /\ i + 1 \in 1..n /\ (i + 1) - 1 = i
              /\ i \in 1..n
          <6>1. i + 1 \in 1..n /\ (i + 1) - 1 = i /\ i \in 1..n
            BY <1>3, <4>1
          <6> QED BY <2>1, <2>2, <4>1, <4>3, <6>1, Zenon
        <5>2. g[i - 1] = f[i] - s[k]
          <6>1. CASE i - 1 < k
            <7>1. i = k
              BY <4>1, <4>3, <6>1
            <7>2. g[i - 1] = f[k - 1] /\ f[k] = f[k - 1] + s[k] /\ f[k - 1] \in Int /\ s[k] \in Int
              BY <1>3, <2>2, <4>1, <6>1, <7>1
            <7> QED BY <7>1, <7>2
          <6>2. CASE ~ (i - 1 < k)
            BY <2>2, <4>1, <6>2, Zenon
          <6> QED BY <6>1, <6>2, Zenon
        <5>3. f[i + 1] = f[i] + s[i + 1] /\ f[i] \in Int /\ s[i + 1] \in Int /\ s[k] \in Int
          BY <1>3, <5>1, Zenon
        <5> QED BY <5>1, <5>2, <5>3
      <4> QED BY <4>2, <4>3, Zenon
    <3> QED BY <2>1, <2>2, <3>1, <3>2, Zenon DEF Adds
  <2>4. g[n - 1] = f[n] - s[k]
    <3>1. n - 1 \in 0..(n - 1) /\ n - 1 + 1 = n /\ k \in Int
      BY <1>3, <2>1
    <3>2. CASE n - 1 < k
      <4>1. k = n
        BY <1>3, <3>1, <3>2
      <4> QED BY <1>3, <2>2, <3>1, <3>2, <4>1
    <3>3. CASE ~ (n - 1 < k)
      BY <2>2, <3>1, <3>3, Zenon
    <3> QED BY <3>2, <3>3, Zenon
  <2>5. Total(t) = g[n - 1]
    BY <2>1, <2>3, TotalIs, Zenon
  <2> QED BY <1>2, <2>4, <2>5, Zenon DEF t
<1>6. Total(<<x>> \o s) = Total(s) + x
  <2> DEFINE t == <<x>> \o s
  <2>1. t \in Seq(Int) /\ Len(t) = n + 1 /\ t[1] = x /\ \A i \in 2..(n + 1) : t[i] = s[i - 1]
    OBVIOUS
  <2> DEFINE g == [i \in 0..(n + 1) |-> IF i = 0 THEN 0 ELSE f[i - 1] + x]
  <2> HIDE DEF t, n
  <2>2. g \in [0..(n + 1) -> Int] /\ g[0] = 0 /\ \A i \in 1..(n + 1) : g[i] = f[i - 1] + x
    BY <1>3
  <2> HIDE DEF g
  <2>3. Adds(g, t)
    <3>1. n + 1 \in Nat
      BY <1>3
    <3>2. ASSUME NEW i \in 1..(n + 1) PROVE g[i] = g[i - 1] + t[i]
      <4>1. CASE i = 1
        BY <1>3, <2>1, <2>2, <4>1
      <4>2. CASE i # 1
        <5>1. /\ i \in 2..(n + 1) /\ i - 1 \in 1..(n + 1) /\ i - 1 \in 1..n /\ i - 1 - 1 \in 0..n
          BY <1>3, <4>2
        <5>2. /\ g[i] = f[i - 1] + x /\ g[i - 1] = f[i - 1 - 1] + x /\ t[i] = s[i - 1]
              /\ f[i - 1] = f[i - 1 - 1] + s[i - 1] /\ s[i - 1] \in Int /\ f[i - 1 - 1] \in Int
          BY <1>3, <2>1, <2>2, <5>1, Zenon
        <5> QED BY <5>2
      <4> QED BY <4>1, <4>2, Zenon
    <3> QED BY <2>1, <2>2, <3>1, <3>2, Zenon DEF Adds
  <2>4. Total(t) = g[n + 1]
    BY <2>1, <2>3, TotalIs, Zenon
  <2>5. ASSUME NEW k \in 1..(n + 1), k - 1 = n  PROVE g[k] = f[n] + x
    BY <2>2, <2>5, Zenon
  <2>6. n + 1 \in 1..(n + 1) /\ (n + 1) - 1 = n
    BY <1>3
  <2> DEFINE last == n + 1
  <2> HIDE DEF last
  <2>7. last \in 1..(n + 1) /\ last - 1 = n /\ last = n + 1
    BY <2>6 DEF last
  <2>8. g[n + 1] = f[n] + x
    BY <2>5, <2>7, Zenon
  <2> QED BY <1>2, <2>4, <2>8, Zenon DEF t
<1>7. Total(<<>>) = 0
  <2> DEFINE e == <<>>
  <2> DEFINE g == [i \in 0..0 |-> 0]
  <2>1. e \in Seq(Int) /\ Len(e) = 0 /\ g \in [0..0 -> Int] /\ g[0] = 0
    OBVIOUS
  <2> HIDE DEF g, e
  <2>2. Adds(g, e)
    <3>1. 1..0 = {}
      OBVIOUS
    <3> QED BY <2>1, <3>1, Zenon DEF Adds
  <2> QED BY <2>1, <2>2, TotalIs, Zenon DEF e
<1> QED
  BY <1>2, <1>3, <1>4, <1>5, <1>6, <1>7

-----------------------------------------------------------------------------
(* The node's compression cache.                                              *)
Entry == [key : Key, size : Nat]
Sizes(q) == [i \in DOMAIN q |-> q[i].size]

\* The list, the index by path and the byte count of a cache agree.
Tidy(c) ==
    /\ c = [lru |-> c.lru, paths |-> c.paths, used |-> c.used]
    /\ c.lru \in Seq(Entry) /\ c.paths \in [Path -> Edition \cup {NoEdition}]
    /\ c.used = Total(Sizes(c.lru))
    /\ \A i \in 1..Len(c.lru) : c.paths[c.lru[i].key.path] = c.lru[i].key.edition
    /\ \A i, j \in 1..Len(c.lru) : c.lru[i].key.path = c.lru[j].key.path => i = j
    /\ \A f \in Path : c.paths[f] # NoEdition => \E i \in 1..Len(c.lru) : c.lru[i].key.path = f

Fits(c) == c.used <= CacheBytes /\ Len(c.lru) <= CacheEntries

LoadRecord ==
    [at : {"idle", "joined", "waiting", "building", "landing"}, cancelled : BOOLEAN,
     key : Key \cup {"none"}, result : Nat \cup {Failed}]

LeadsAs(p) == p.at \in {"waiting", "building", "landing"}

\* A key in flight has one leader and no other key has; whoever joined a flight
\* finds it in the table.
Flights(f, s) ==
    /\ s \in SUBSET Key /\ f \in [Loader -> LoadRecord]
    /\ \A l \in Loader : LeadsAs(f[l]) \/ f[l].at = "joined" => f[l].key \in s
    /\ \A l, m \in Loader : LeadsAs(f[l]) /\ LeadsAs(f[m]) /\ f[l].key = f[m].key => l = m
    /\ \A k \in s : \E l \in Loader : LeadsAs(f[l]) /\ f[l].key = k

Building(f) == {l \in Loader : f[l].at = "building"}

GzipIInv == Tidy(cache) /\ Fits(cache) /\ Flights(loads, flights) /\ builds = Cardinality(Building(loads))

\* The sizes of a changed list.
LEMMA SizesOf ==
    ASSUME NEW q \in Seq(Entry), NEW e \in Entry
    PROVE  /\ Sizes(q) \in Seq(Int) /\ Len(Sizes(q)) = Len(q)
           /\ \A i \in 1..Len(q) : Sizes(q)[i] = q[i].size
           /\ Sizes(<<e>> \o q) = <<e.size>> \o Sizes(q)
           /\ \A i \in 1..Len(q) : /\ Without(q, i) \in Seq(Entry) /\ Len(Without(q, i)) = Len(q) - 1
                                   /\ Sizes(Without(q, i)) = Without(Sizes(q), i)
           /\ e.size \in Int
<1>1. e.size \in Int /\ \A i \in 1..Len(q) : q[i] \in Entry /\ q[i].size \in Int
  <2>1. \A d \in Entry : d.size \in Int
    BY DEF Entry
  <2>2. \A i \in 1..Len(q) : q[i] \in Entry
    OBVIOUS
  <2> QED BY <2>1, <2>2, Zenon
<1>2. /\ Sizes(q) \in Seq(Int) /\ Len(Sizes(q)) = Len(q)
      /\ \A i \in 1..Len(q) : Sizes(q)[i] = q[i].size
  BY <1>1 DEF Sizes
<1>3. Sizes(<<e>> \o q) = <<e.size>> \o Sizes(q)
  <2> DEFINE a == <<e>> \o q
  <2> DEFINE b == <<e.size>> \o Sizes(q)
  <2>1. /\ DOMAIN a = 1..(Len(q) + 1) /\ a[1] = e /\ \A i \in 2..(Len(q) + 1) : a[i] = q[i - 1]
    OBVIOUS
  <2>2. /\ b \in Seq(Int) /\ Len(b) = Len(q) + 1 /\ b[1] = e.size
        /\ \A i \in 2..(Len(q) + 1) : b[i] = Sizes(q)[i - 1]
    BY <1>1, <1>2
  <2> HIDE DEF a, b
  <2>3. ASSUME NEW i \in 1..(Len(q) + 1) PROVE a[i].size = b[i]
    <3>1. CASE i = 1
      BY <2>1, <2>2, <3>1, Zenon
    <3>2. CASE i # 1
      <4>1. i \in 2..(Len(q) + 1) /\ i - 1 \in 1..Len(q)
        BY <3>2
      <4> QED BY <1>2, <2>1, <2>2, <4>1, ZenonT(40)
    <3> QED BY <3>1, <3>2, Zenon
  <2>4. b = [i \in 1..(Len(q) + 1) |-> b[i]]
    BY <2>2
  <2>5. Sizes(a) = [i \in 1..(Len(q) + 1) |-> a[i].size]
    BY <2>1, Zenon DEF Sizes
  <2> QED BY <2>3, <2>4, <2>5, Zenon DEF a, b
<1>4. ASSUME NEW k \in 1..Len(q)
      PROVE  /\ Without(q, k) \in Seq(Entry) /\ Len(Without(q, k)) = Len(q) - 1
             /\ Sizes(Without(q, k)) = Without(Sizes(q), k)
  <2> DEFINE n == Len(q)
  <2>1. n \in Nat /\ n - 1 \in Nat /\ k \in Int
    BY <1>4
  <2>2. \A j \in 1..(n - 1) : j \in 1..n /\ j + 1 \in 1..n
    BY <2>1
  <2>3. Without(q, k) \in Seq(Entry) /\ Len(Without(q, k)) = n - 1
    BY <1>1, <2>1, <2>2 DEF Without
  <2>4. Sizes(Without(q, k)) = [j \in 1..(n - 1) |-> Without(q, k)[j].size]
    BY <2>1, <2>3 DEF Sizes
  <2>5. Without(Sizes(q), k) = [j \in 1..(n - 1) |-> IF j < k THEN Sizes(q)[j] ELSE Sizes(q)[j + 1]]
    BY <1>2, Zenon DEF Without
  <2>6. ASSUME NEW j \in 1..(n - 1)
        PROVE  Without(q, k)[j].size = IF j < k THEN Sizes(q)[j] ELSE Sizes(q)[j + 1]
    <3>1. Without(q, k)[j] = IF j < k THEN q[j] ELSE q[j + 1]
      BY Zenon DEF Without
    <3> QED BY <1>2, <2>2, <3>1, Zenon
  <2> QED BY <2>3, <2>4, <2>5, <2>6, Zenon
<1> QED
  BY <1>1, <1>2, <1>3, <1>4, Zenon

\* The sizes of a list are numbers.
LEMMA SizesTyped ==
    ASSUME NEW q \in Seq(Entry)
    PROVE  Sizes(q) \in Seq(Int)
<1>1. \A d \in Entry : d.size \in Int
  BY DEF Entry
<1> HIDE DEF Entry
<1>2. \A i \in 1..Len(q) : q[i] \in Entry
  OBVIOUS
<1>3. \A i \in 1..Len(q) : q[i].size \in Int
  BY <1>1, <1>2, Zenon
<1> QED
  BY <1>3 DEF Sizes

\* removeLocked: of an entry of a tidy cache, with its path forgotten.
LEMMA RemoveTidy ==
    ASSUME NEW c, Tidy(c), NEW k \in 1..Len(c.lru)
    PROVE  /\ Tidy(removeLocked(c, k)) /\ Len(removeLocked(c, k).lru) = Len(c.lru) - 1
           /\ removeLocked(c, k).paths[c.lru[k].key.path] = NoEdition
<1> DEFINE n == Len(c.lru)
<1> DEFINE q == Without(c.lru, k)
<1> DEFINE f == c.lru[k].key.path
<1> DEFINE p == [c.paths EXCEPT ![f] = NoEdition]
<1> DEFINE d == removeLocked(c, k)
<1>1. n \in Nat /\ n - 1 \in Nat /\ k \in Int /\ \A i \in 1..n : c.lru[i] \in Entry
  BY DEF Tidy
<1>2. \A i \in 1..n : c.lru[i].key.path \in Path /\ c.lru[i].key.edition # NoEdition
  BY <1>1, GzipAssumption DEF Entry, Key, NoEdition
<1>3. d.lru = q /\ d.paths = p /\ d.used = c.used - c.lru[k].size
      /\ d = [lru |-> d.lru, paths |-> d.paths, used |-> d.used]
  BY Zenon DEF removeLocked
<1>4. q \in Seq(Entry) /\ Len(q) = n - 1 /\ d.used = Total(Sizes(q))
  <2>1. c.lru \in Seq(Entry) /\ c.lru[k] \in Entry /\ c.used = Total(Sizes(c.lru))
    BY <1>1, Zenon DEF Tidy
  <2>2. /\ q \in Seq(Entry) /\ Len(q) = n - 1 /\ Sizes(q) = Without(Sizes(c.lru), k)
        /\ Sizes(c.lru) \in Seq(Int) /\ k \in 1..Len(Sizes(c.lru)) /\ Sizes(c.lru)[k] = c.lru[k].size
    BY <2>1, SizesOf, Zenon
  <2>3. \A x \in Int : Total(Without(Sizes(c.lru), k)) = Total(Sizes(c.lru)) - Sizes(c.lru)[k]
    BY <2>2, Totals, Zenon
  <2>4. 0 \in Int
    OBVIOUS
  <2> QED BY <1>3, <2>1, <2>2, <2>3, <2>4, Zenon
<1>5. \A j \in 1..(n - 1) : q[j] = IF j < k THEN c.lru[j] ELSE c.lru[j + 1]
  BY Zenon DEF Without
<1>6. p \in [Path -> Edition \cup {NoEdition}] /\ p[f] = NoEdition
      /\ \A g \in Path : g # f => p[g] = c.paths[g]
  BY <1>2, Zenon DEF Tidy
<1> HIDE DEF n, q, f, p, d
<1> DEFINE at(j) == IF j < k THEN j ELSE j + 1
<1>7. /\ \A j \in 1..(n - 1) : q[j] = c.lru[at(j)] /\ at(j) \in 1..n /\ at(j) # k
      /\ \A i, j \in 1..(n - 1) : at(i) = at(j) => i = j
      /\ \A i \in 1..n : i # k => \E j \in 1..(n - 1) : at(j) = i
  <2>1. \A j \in 1..(n - 1) : q[j] = c.lru[at(j)]
    BY <1>5, Zenon
  <2>2. /\ \A j \in 1..(n - 1) : at(j) \in 1..n /\ at(j) # k
        /\ \A i, j \in 1..(n - 1) : at(i) = at(j) => i = j
    BY <1>1
  <2>3. ASSUME NEW i \in 1..n, i # k PROVE \E j \in 1..(n - 1) : at(j) = i
    <3>1. CASE i < k
      <4>1. i \in 1..(n - 1)
        BY <1>1, <3>1 DEF n
      <4> QED BY <3>1, <4>1, Zenon
    <3>2. CASE ~ (i < k)
      <4>1. i - 1 \in 1..(n - 1) /\ ~ (i - 1 < k) /\ i - 1 + 1 = i
        BY <1>1, <2>3, <3>2 DEF n
      <4> QED BY <4>1, Zenon
    <3> QED BY <3>1, <3>2, Zenon
  <2> QED BY <2>1, <2>2, <2>3, Zenon
<1> HIDE DEF at
<1>8. /\ \A i \in 1..n : c.paths[c.lru[i].key.path] = c.lru[i].key.edition
      /\ \A i, j \in 1..n : c.lru[i].key.path = c.lru[j].key.path => i = j
      /\ \A g \in Path : c.paths[g] # NoEdition => \E i \in 1..n : c.lru[i].key.path = g
  BY Zenon DEF Tidy, n
<1>9. \A i \in 1..n : c.lru[i].key.path = f => i = k
  BY <1>8, Zenon DEF f, n
<1>10. ASSUME NEW j \in 1..(n - 1) PROVE p[q[j].key.path] = q[j].key.edition
  <2>1. q[j] = c.lru[at(j)] /\ at(j) \in 1..n /\ at(j) # k
    BY <1>7, Zenon
  <2>2. c.lru[at(j)].key.path \in Path /\ c.lru[at(j)].key.path # f
    BY <1>2, <1>9, <2>1, Zenon DEF n
  <2>3. p[c.lru[at(j)].key.path] = c.paths[c.lru[at(j)].key.path]
    BY <1>6, <2>2, Zenon
  <2>4. c.paths[c.lru[at(j)].key.path] = c.lru[at(j)].key.edition
    BY <1>8, <2>1, Zenon
  <2> QED BY <2>1, <2>3, <2>4, Zenon
<1>11. ASSUME NEW i \in 1..(n - 1), NEW j \in 1..(n - 1), q[i].key.path = q[j].key.path PROVE i = j
  <2>1. c.lru[at(i)].key.path = c.lru[at(j)].key.path /\ at(i) \in 1..n /\ at(j) \in 1..n
    BY <1>7, <1>11, Zenon
  <2>2. at(i) = at(j)
    BY <1>8, <2>1, Zenon
  <2> QED BY <1>7, <2>2, Zenon
<1>12. ASSUME NEW g \in Path, p[g] # NoEdition PROVE \E j \in 1..(n - 1) : q[j].key.path = g
  <2>1. g # f /\ c.paths[g] # NoEdition
    BY <1>6, <1>12, Zenon
  <2>2. PICK i \in 1..n : c.lru[i].key.path = g
    BY <1>8, <2>1, Zenon
  <2>3. i # k
    BY <2>1, <2>2, Zenon DEF f
  <2>4. PICK j \in 1..(n - 1) : at(j) = i
    BY <1>7, <2>3, Zenon
  <2> QED BY <1>7, <2>2, <2>4, Zenon
<1> QED
  BY <1>3, <1>4, <1>6, <1>10, <1>11, <1>12, ZenonT(40) DEF Tidy, d, f, n

\* DropOld: no entry of the file is left.
LEMMA DropOldTidy ==
    ASSUME NEW c, Tidy(c), NEW k \in Key
    PROVE  Tidy(DropOld(c, k)) /\ DropOld(c, k).paths[k.path] = NoEdition
<1>1. CASE c.paths[k.path] = NoEdition
  BY <1>1, Zenon DEF DropOld
<1>2. CASE c.paths[k.path] # NoEdition
  <2> DEFINE old == [k EXCEPT !.edition = c.paths[k.path]]
  <2> DEFINE i == CHOOSE i \in EntryOf(c, old) : TRUE
  <2>1. k.path \in Path /\ old.path = k.path /\ old.edition = c.paths[k.path]
        /\ old = [path |-> k.path, edition |-> c.paths[k.path]]
    BY DEF Key
  <2>2. PICK j \in 1..Len(c.lru) : c.lru[j].key.path = k.path
    BY <1>2, <2>1, Zenon DEF Tidy
  <2>3. c.lru[j].key = old
    <3>1. c.lru[j].key \in Key /\ c.lru[j].key.edition = c.paths[k.path]
      <4>1. c.lru[j] \in Entry
        BY DEF Tidy
      <4> QED BY <2>2, <4>1, Zenon DEF Tidy, Entry
    <3> HIDE DEF old
    <3> QED BY <2>1, <2>2, <3>1 DEF Key
  <2>4. DOMAIN c.lru = 1..Len(c.lru)
    BY DEF Tidy
  <2>5. j \in EntryOf(c, old)
    BY <2>3, <2>4, Zenon DEF EntryOf
  <2>6. i \in EntryOf(c, old)
    BY <2>5, Zenon
  <2> HIDE DEF i
  <2>7. i \in 1..Len(c.lru) /\ c.lru[i].key.path = k.path
    BY <2>1, <2>4, <2>6, Zenon DEF EntryOf
  <2>8. DropOld(c, k) = removeLocked(c, i)
    BY <1>2, Zenon DEF DropOld, i
  <2> QED BY <2>7, <2>8, RemoveTidy, Zenon
<1> QED
  BY <1>1, <1>2, Zenon

\* A new entry in front of a tidy cache that has none of its file.
LEMMA PushTidy ==
    ASSUME NEW c, Tidy(c), NEW k \in Key, NEW size \in Nat, c.paths[k.path] = NoEdition
    PROVE  Tidy([lru |-> <<[key |-> k, size |-> size]>> \o c.lru,
                 paths |-> [c.paths EXCEPT ![k.path] = k.edition], used |-> c.used + size])
<1> DEFINE e == [key |-> k, size |-> size]
<1> DEFINE n == Len(c.lru)
<1> DEFINE q == <<e>> \o c.lru
<1> DEFINE p == [c.paths EXCEPT ![k.path] = k.edition]
<1> DEFINE d == [lru |-> q, paths |-> p, used |-> c.used + size]
<1>1. e \in Entry /\ e.key = k /\ e.size = size /\ k.path \in Path /\ k.edition \in Edition
  BY DEF Entry, Key
<1>2. c.lru \in Seq(Entry) /\ n \in Nat /\ \A i \in 1..n : c.lru[i] \in Entry
  BY DEF Tidy
<1> HIDE DEF e
<1>3. q \in Seq(Entry) /\ Len(q) = n + 1 /\ q[1] = e /\ \A i \in 2..(n + 1) : q[i] = c.lru[i - 1]
  BY <1>1, <1>2
<1>4. c.used + size = Total(Sizes(q))
  <2>1. Sizes(q) = <<size>> \o Sizes(c.lru) /\ Sizes(c.lru) \in Seq(Int) /\ size \in Int
    BY <1>1, <1>2, SizesOf, Zenon
  <2>2. Total(<<size>> \o Sizes(c.lru)) = Total(Sizes(c.lru)) + size
    BY <2>1, Totals, Zenon
  <2>3. c.used = Total(Sizes(c.lru))
    BY Zenon DEF Tidy
  <2> QED BY <2>1, <2>2, <2>3, Zenon
<1>5. p \in [Path -> Edition \cup {NoEdition}] /\ p[k.path] = k.edition
      /\ \A g \in Path : g # k.path => p[g] = c.paths[g]
  BY <1>1, Zenon DEF Tidy
<1>6. d.lru = q /\ d.paths = p /\ d.used = c.used + size /\ d = [lru |-> q, paths |-> p, used |-> d.used]
  BY Zenon
<1> HIDE DEF n, q, p
<1>7. /\ \A i \in 1..n : c.paths[c.lru[i].key.path] = c.lru[i].key.edition
      /\ \A i, j \in 1..n : c.lru[i].key.path = c.lru[j].key.path => i = j
      /\ \A g \in Path : c.paths[g] # NoEdition => \E i \in 1..n : c.lru[i].key.path = g
  BY Zenon DEF Tidy, n
<1>8. ASSUME NEW i \in 1..n
      PROVE  /\ c.lru[i].key.path \in Path /\ c.lru[i].key.path # k.path
             /\ i + 1 \in 1..(n + 1) /\ q[i + 1] = c.lru[i]
  <2>1. c.lru[i].key.path \in Path /\ c.lru[i].key.edition # NoEdition
    <3>1. c.lru[i].key \in Key
      BY <1>2, Zenon DEF Entry
    <3> QED BY <3>1, GzipAssumption DEF Key, NoEdition
  <2>2. i + 1 \in 2..(n + 1) /\ i + 1 - 1 = i /\ i + 1 \in 1..(n + 1)
    BY <1>2
  <2>3. q[i + 1] = c.lru[i]
    BY <1>3, <2>2
  <2>4. c.lru[i].key.path # k.path
    BY <1>7, <2>1, Zenon
  <2> QED BY <2>1, <2>2, <2>3, <2>4, Zenon
<1>9. ASSUME NEW j \in 1..(n + 1), j # 1
      PROVE  j - 1 \in 1..n /\ q[j] = c.lru[j - 1]
  <2>1. j \in 2..(n + 1) /\ j - 1 \in 1..n
    BY <1>2, <1>9
  <2> QED BY <1>3, <2>1, Zenon
<1>10. ASSUME NEW j \in 1..(n + 1) PROVE p[q[j].key.path] = q[j].key.edition
  <2>1. CASE j = 1
    BY <1>1, <1>3, <1>5, <2>1, Zenon
  <2>2. CASE j # 1
    <3>1. j - 1 \in 1..n /\ q[j] = c.lru[j - 1]
      BY <1>9, <2>2, Zenon
    <3>2. c.lru[j - 1].key.path \in Path /\ c.lru[j - 1].key.path # k.path
      BY <1>8, <3>1, Zenon
    <3>3. p[c.lru[j - 1].key.path] = c.paths[c.lru[j - 1].key.path]
      BY <1>5, <3>2, Zenon
    <3>4. c.paths[c.lru[j - 1].key.path] = c.lru[j - 1].key.edition
      BY <1>7, <3>1, Zenon
    <3> QED BY <3>1, <3>3, <3>4, Zenon
  <2> QED BY <2>1, <2>2, Zenon
<1>11. ASSUME NEW i \in 1..(n + 1), NEW j \in 1..(n + 1), q[i].key.path = q[j].key.path PROVE i = j
  <2>1. CASE i # 1 /\ j # 1
    <3>1. i - 1 \in 1..n /\ q[i] = c.lru[i - 1] /\ j - 1 \in 1..n /\ q[j] = c.lru[j - 1]
      BY <1>9, <2>1, Zenon
    <3>2. c.lru[i - 1].key.path = c.lru[j - 1].key.path
      BY <1>11, <3>1, Zenon
    <3>3. i - 1 = j - 1
      BY <1>7, <3>1, <3>2, Zenon
    <3> QED BY <3>3
  <2>2. ASSUME NEW m \in 1..(n + 1), m # 1 PROVE q[m].key.path # q[1].key.path
    <3>1. m - 1 \in 1..n /\ q[m] = c.lru[m - 1]
      BY <1>9, <2>2, Zenon
    <3>2. c.lru[m - 1].key.path # k.path
      BY <1>8, <3>1, Zenon
    <3> QED BY <1>1, <1>3, <3>1, <3>2, Zenon
  <2> QED BY <1>11, <2>1, <2>2, Zenon
<1>12. ASSUME NEW g \in Path, p[g] # NoEdition PROVE \E j \in 1..(n + 1) : q[j].key.path = g
  <2>1. CASE g = k.path
    <3>1. 1 \in 1..(n + 1)
      BY <1>2
    <3> QED BY <1>1, <1>3, <2>1, <3>1, Zenon
  <2>2. CASE g # k.path
    <3>1. PICK i \in 1..n : c.lru[i].key.path = g
      BY <1>5, <1>7, <1>12, <2>2, Zenon
    <3> QED BY <1>8, <3>1, Zenon
  <2> QED BY <2>1, <2>2, Zenon
<1>13. Tidy(d)
  <2> HIDE DEF d
  <2> QED BY <1>3, <1>4, <1>5, <1>6, <1>10, <1>11, <1>12, ZenonT(40) DEF Tidy
<1> QED
  BY <1>13, Zenon DEF q, p, e


\* One step of the eviction loop: the cache fits, or it is shorter by one entry.
LEMMA ShrinkTidy ==
    ASSUME NEW c, Tidy(c)
    PROVE  /\ Tidy(Shrink(c))
           /\ Fits(c) => Shrink(c) = c
           /\ ~Fits(c) => Len(c.lru) > 0 /\ Len(Shrink(c).lru) = Len(c.lru) - 1
<1>1. Len(c.lru) \in Nat /\ c.lru \in Seq(Entry)
  BY DEF Tidy
<1>2. c.used \in Int
  <2>2. Sizes(c.lru) \in Seq(Int)
    BY <1>1, SizesTyped, Zenon
  <2>3. 0 \in Int
    OBVIOUS
  <2>4. Total(Sizes(c.lru)) \in Int
    BY <2>2, <2>3, Totals, Zenon
  <2> QED BY <2>4, Zenon DEF Tidy
<1>3. Fits(c) <=> ~ (c.used > CacheBytes \/ Len(c.lru) > CacheEntries)
  <2>1. CacheBytes \in Int /\ CacheEntries \in Int
    BY GzipAssumption
  <2> QED BY <1>1, <1>2, <2>1 DEF Fits
<1>4. CASE Fits(c)
  BY <1>3, <1>4, Zenon DEF Shrink
<1>5. CASE ~Fits(c)
  <2>1. Shrink(c) = removeLocked(c, Len(c.lru))
    BY <1>3, <1>5, Zenon DEF Shrink
  <2>2. Len(c.lru) # 0
    <3>1. SUFFICES ASSUME Len(c.lru) = 0 PROVE FALSE
      OBVIOUS
    <3>2. c.lru = <<>>
      BY <1>1, <3>1
    <3>3. Sizes(c.lru) = <<>>
      BY <3>2 DEF Sizes
    <3>4. c.used = 0
      <4>1. 0 \in Int /\ <<>> \in Seq(Int)
        OBVIOUS
      <4> QED BY <3>3, <4>1, Totals, Zenon DEF Tidy
    <3>5. 0 <= CacheBytes /\ 0 <= CacheEntries
      BY GzipAssumption
    <3> QED BY <1>5, <3>1, <3>4, <3>5, Zenon DEF Fits
  <2>3. Len(c.lru) \in 1..Len(c.lru) /\ Len(c.lru) > 0
    BY <1>1, <2>2
  <2> QED BY <1>5, <2>1, <2>3, RemoveTidy, Zenon
<1> QED
  BY <1>4, <1>5, Zenon

\* The loop ends with a cache that fits: after as many steps as there are entries
\* none would be left.
LEMMA EvictTidy ==
    ASSUME NEW c, Tidy(c)
    PROVE  Tidy(Evict(c)) /\ Fits(Evict(c))
<1> DEFINE n == Len(c.lru)
<1>0. n \in Nat
  BY DEF Tidy
<1> DEFINE IsLoop(g) == g = [i \in 0..n |-> IF i = 0 THEN c ELSE Shrink(g[i - 1])]
<1> DEFINE UpTo(k) == \E f : /\ DOMAIN f = 0..k /\ f[0] = c
                             /\ \A i \in 1..k : f[i] = Shrink(f[i - 1])
<1> DEFINE Missing == {k \in 0..n : ~UpTo(k)}
<1> HIDE DEF n
<1>1. UpTo(0)
  <2> DEFINE f == [i \in 0..0 |-> c]
  <2>1. DOMAIN f = 0..0 /\ f[0] = c /\ 1..0 = {}
    OBVIOUS
  <2> HIDE DEF f
  <2> QED BY <2>1, Zenon
<1>2. ASSUME NEW k \in 1..n, UpTo(k - 1) PROVE UpTo(k)
  <2>1. k \in Int /\ k - 1 \in 0..(k - 1) /\ 0 \in 0..(k - 1) /\ k \notin 0..(k - 1) /\ k \in 0..k
        /\ \A i \in 0..(k - 1) : i \in 0..k
    BY <1>0
  <2>2. PICK f : /\ DOMAIN f = 0..(k - 1) /\ f[0] = c
                 /\ \A i \in 1..(k - 1) : f[i] = Shrink(f[i - 1])
    BY <1>2, Zenon
  <2> DEFINE g == [i \in 0..k |-> IF i = k THEN Shrink(f[k - 1]) ELSE f[i]]
  <2>3. DOMAIN g = 0..k /\ g[k] = Shrink(f[k - 1]) /\ \A i \in 0..(k - 1) : g[i] = f[i]
    BY <2>1, Zenon
  <2> HIDE DEF g
  <2>4. ASSUME NEW i \in 1..k PROVE g[i] = Shrink(g[i - 1])
    <3>1. CASE i = k
      BY <2>1, <2>3, <3>1, Zenon
    <3>2. CASE i # k
      <4>1. i \in 1..(k - 1) /\ i \in 0..(k - 1) /\ i - 1 \in 0..(k - 1)
        BY <2>1, <3>2
      <4> QED BY <2>2, <2>3, <4>1, Zenon
    <3> QED BY <3>1, <3>2, Zenon
  <2> QED BY <2>1, <2>2, <2>3, <2>4, Zenon
<1>3. Missing = {}
  <2>1. Missing \in SUBSET (0..n) /\ 0 \notin Missing
    BY <1>1, Zenon
  <2>2. \A k \in 1..n : k - 1 \notin Missing => k \notin Missing
    <3>1. \A k \in 1..n : k - 1 \in 0..n
      BY <1>0
    <3> QED BY <1>2, <3>1, Zenon
  <2> HIDE DEF Missing
  <2> QED BY <1>0, <2>1, <2>2, NoFirstNumber, Zenon
<1>4. UpTo(n)
  <2>1. n \in 0..n
    BY <1>0
  <2> QED BY <1>3, <2>1, Zenon
<1>5. \E g : IsLoop(g)
  <2>1. PICK f : DOMAIN f = 0..n /\ f[0] = c /\ \A i \in 1..n : f[i] = Shrink(f[i - 1])
    BY <1>4, Zenon
  <2> DEFINE g == [i \in 0..n |-> f[i]]
  <2>2. \A i \in 0..n : i # 0 => i \in 1..n /\ i - 1 \in 0..n
    BY <1>0
  <2>3. \A i \in 0..n : g[i] = IF i = 0 THEN c ELSE Shrink(g[i - 1])
    BY <2>1, <2>2, Zenon
  <2>4. IsLoop(g)
    BY <2>3, Zenon
  <2> QED BY <2>4, Zenon
<1> DEFINE s == CHOOSE g : IsLoop(g)
<1>6. IsLoop(s)
  BY <1>5, Zenon
<1>7. Evict(c) = s[n]
  BY Zenon DEF Evict, n
<1> HIDE DEF s
<1>8. s[0] = c /\ \A i \in 1..n : s[i] = Shrink(s[i - 1])
  <2>1. 0 \in 0..n /\ \A i \in 1..n : i \in 0..n /\ i # 0
    BY <1>0
  <2>2. \A i \in 0..n : s[i] = IF i = 0 THEN c ELSE Shrink(s[i - 1])
    BY <1>6, Zenon
  <2> QED BY <2>1, <2>2, Zenon
<1> DEFINE Bad == {i \in 0..n : ~ (Tidy(s[i]) /\ (Fits(s[i]) \/ Len(s[i].lru) = n - i))}
<1>9. ASSUME NEW i \in 1..n, i - 1 \notin Bad PROVE i \notin Bad
  <2>1. i - 1 \in 0..n
    BY <1>0
  <2>2. Tidy(s[i - 1]) /\ (Fits(s[i - 1]) \/ Len(s[i - 1].lru) = n - (i - 1))
    BY <1>9, <2>1, Zenon
  <2>3. s[i] = Shrink(s[i - 1])
    BY <1>8, Zenon
  <2> DEFINE b == s[i - 1]
  <2>6. /\ Tidy(Shrink(b))
        /\ Fits(b) => Shrink(b) = b
        /\ ~Fits(b) => Len(Shrink(b).lru) = Len(b.lru) - 1
    <3>1. Tidy(b)
      BY <2>2, Zenon
    <3> HIDE DEF b
    <3> QED BY <3>1, ShrinkTidy, Zenon
  <2>4. CASE Fits(s[i - 1])
    <3>1. s[i] = s[i - 1]
      BY <2>3, <2>6, <2>4, Zenon
    <3> QED BY <2>2, <2>4, <3>1, Zenon
  <2>5. CASE ~Fits(s[i - 1])
    <3>1. Tidy(s[i]) /\ Len(s[i].lru) = n - (i - 1) - 1
      BY <2>2, <2>3, <2>6, <2>5, Zenon
    <3>2. n - (i - 1) - 1 = n - i
      BY <1>0
    <3> QED BY <3>1, <3>2, Zenon
  <2> QED BY <2>4, <2>5, Zenon
<1>10. Bad = {}
  <2>1. 0 \notin Bad
    <3>1. n = n - 0
      BY <1>0
    <3> QED BY <1>8, <3>1, Zenon DEF n
  <2>2. Bad \in SUBSET (0..n)
    BY Zenon
  <2> HIDE DEF Bad
  <2> QED BY <1>0, <1>9, <2>1, <2>2, NoFirstNumber, Zenon
<1>11. Tidy(s[n]) /\ (Fits(s[n]) \/ Len(s[n].lru) = n - n)
  <2>1. n \in 0..n
    BY <1>0
  <2> QED BY <1>10, <2>1, Zenon
<1>12. Fits(s[n])
  <2>1. SUFFICES ASSUME ~Fits(s[n]) PROVE FALSE
    OBVIOUS
  <2>2. Len(s[n].lru) > 0 /\ Len(s[n].lru) = n - n
    BY <1>11, <2>1, ShrinkTidy, Zenon
  <2> QED BY <1>0, <2>2
<1> QED
  BY <1>7, <1>11, <1>12, Zenon


\* A hit moves its entry to the front.
LEMMA MoveTidy ==
    ASSUME NEW c, Tidy(c), NEW i \in 1..Len(c.lru)
    PROVE  LET d == [c EXCEPT !.lru = <<@[i]>> \o Without(@, i)]
           IN Tidy(d) /\ d.used = c.used /\ Len(d.lru) = Len(c.lru)
<1> DEFINE e == c.lru[i]
<1> DEFINE r == removeLocked(c, i)
<1> DEFINE d == [c EXCEPT !.lru = <<@[i]>> \o Without(@, i)]
<1> DEFINE p == [r.paths EXCEPT ![e.key.path] = e.key.edition]
<1> DEFINE g == [lru |-> <<[key |-> e.key, size |-> e.size]>> \o r.lru, paths |-> p, used |-> r.used + e.size]
<1>1. e \in Entry /\ c.lru \in Seq(Entry)
  BY DEF Tidy
<1>2. e = [key |-> e.key, size |-> e.size] /\ e.key \in Key /\ e.size \in Nat /\ e.key.path \in Path
  <2> HIDE DEF e
  <2> QED BY <1>1 DEF Entry, Key
<1>3. /\ r.lru = Without(c.lru, i) /\ r.used = c.used - e.size
      /\ r.paths = [c.paths EXCEPT ![e.key.path] = NoEdition]
  BY Zenon DEF removeLocked
<1>4. Tidy(r) /\ r.paths[e.key.path] = NoEdition /\ Len(r.lru) = Len(c.lru) - 1
  BY RemoveTidy, Zenon
<1> HIDE DEF r
<1>5. Tidy(g)
  <2> HIDE DEF e
  <2> QED BY <1>2, <1>4, PushTidy, Zenon
<1>6. c.used \in Int
  <2>1. Sizes(c.lru) \in Seq(Int) /\ c.used = Total(Sizes(c.lru))
    BY <1>1, SizesTyped, Zenon DEF Tidy
  <2>2. 0 \in Int
    OBVIOUS
  <2> QED BY <2>1, <2>2, Totals, Zenon
<1>7. r.used + e.size = c.used
  <2> HIDE DEF e
  <2> QED BY <1>2, <1>3, <1>6
<1>8. p = c.paths
  <2>1. c.paths \in [Path -> Edition \cup {NoEdition}] /\ c.paths[e.key.path] = e.key.edition
    BY Zenon DEF Tidy
  <2> HIDE DEF e
  <2> QED BY <1>2, <1>3, <2>1
<1>9. d = [lru |-> <<e>> \o Without(c.lru, i), paths |-> c.paths, used |-> c.used]
  <2>1. c = [lru |-> c.lru, paths |-> c.paths, used |-> c.used]
    BY Zenon DEF Tidy
  <2>2. ASSUME NEW a, NEW b, NEW u, NEW x, c = [lru |-> a, paths |-> b, used |-> u]
        PROVE  [c EXCEPT !.lru = x] = [lru |-> x, paths |-> b, used |-> u]
    <3>1. [[lru |-> a, paths |-> b, used |-> u] EXCEPT !.lru = x] = [lru |-> x, paths |-> b, used |-> u]
      OBVIOUS
    <3> QED BY <2>2, <3>1, Zenon
  <2>3. d = [c EXCEPT !.lru = <<e>> \o Without(c.lru, i)]
    BY Zenon
  <2> QED BY <2>1, <2>2, <2>3, ZenonT(40)
<1>10. d = g
  BY <1>2, <1>3, <1>7, <1>8, <1>9, Zenon
<1>11. d.used = c.used /\ d.lru = <<e>> \o r.lru
  BY <1>3, <1>9, Zenon
<1>12. Len(d.lru) = Len(c.lru)
  <2>1. r.lru \in Seq(Entry) /\ Len(c.lru) \in Nat
    BY <1>1, <1>4 DEF Tidy
  <2>2. \A q \in Seq(Entry) : Len(<<e>> \o q) = Len(q) + 1
    BY <1>1
  <2>3. Len(d.lru) = Len(c.lru) - 1 + 1
    BY <1>4, <1>11, <2>1, <2>2, Zenon
  <2> HIDE DEF d
  <2> QED BY <2>1, <2>3
<1> QED
  BY <1>5, <1>10, <1>11, <1>12, Zenon

\* storeResultLocked.
LEMMA StoreTidy ==
    ASSUME Tidy(cache), Fits(cache), NEW k \in Key, NEW size \in Nat
    PROVE  Tidy(storeResultLocked(k, size)) /\ Fits(storeResultLocked(k, size))
<1> DEFINE c == DropOld(cache, k)
<1> DEFINE g == [lru |-> <<[key |-> k, size |-> size]>> \o c.lru,
                 paths |-> [c.paths EXCEPT ![k.path] = k.edition], used |-> c.used + size]
<1>1. Tidy(c) /\ c.paths[k.path] = NoEdition
  BY DropOldTidy, Zenon
<1>2. storeResultLocked(k, size) = IF size > EntryBytes THEN cache ELSE Evict(g)
  BY Zenon DEF storeResultLocked
<1> HIDE DEF c
<1>3. Tidy(g)
  BY <1>1, PushTidy, Zenon
<1> HIDE DEF g
<1>4. Tidy(Evict(g)) /\ Fits(Evict(g))
  BY <1>3, EvictTidy, Zenon
<1> QED
  BY <1>2, <1>4, Zenon

\* A loader's step that neither begins nor ends a flight.
LEMMA SameFlights ==
    ASSUME NEW f, NEW s, Flights(f, s), NEW l \in Loader, NEW p \in LoadRecord,
           LeadsAs(p) <=> LeadsAs(f[l]), LeadsAs(p) => p.key = f[l].key,
           p.at = "joined" => p.key \in s
    PROVE  Flights([f EXCEPT ![l] = p], s)
<1> DEFINE g == [f EXCEPT ![l] = p]
<1>1. g \in [Loader -> LoadRecord] /\ s \in SUBSET Key
  BY Zenon DEF Flights
<1>2. g[l] = p /\ \A m \in Loader : m # l => g[m] = f[m]
  BY Zenon DEF Flights
<1> HIDE DEF g
<1>3. ASSUME NEW m \in Loader
      PROVE  /\ LeadsAs(g[m]) <=> LeadsAs(f[m])
             /\ LeadsAs(f[m]) => g[m].key = f[m].key
             /\ g[m].at = "joined" => g[m].key \in s
  <2>1. CASE m = l
    BY <1>2, <2>1, Zenon
  <2>2. CASE m # l
    BY <1>2, <2>2, Zenon DEF Flights
  <2> QED BY <2>1, <2>2, Zenon
<1>4. ASSUME NEW m \in Loader PROVE LeadsAs(g[m]) \/ g[m].at = "joined" => g[m].key \in s
  BY <1>3, Zenon DEF Flights
<1>5. ASSUME NEW m \in Loader, NEW j \in Loader, LeadsAs(g[m]), LeadsAs(g[j]), g[m].key = g[j].key
      PROVE  m = j
  <2>1. LeadsAs(f[m]) /\ LeadsAs(f[j]) /\ f[m].key = f[j].key
    BY <1>3, <1>5, Zenon
  <2> QED BY <2>1, Zenon DEF Flights
<1>6. ASSUME NEW k \in s PROVE \E m \in Loader : LeadsAs(g[m]) /\ g[m].key = k
  <2>1. PICK m \in Loader : LeadsAs(f[m]) /\ f[m].key = k
    BY Zenon DEF Flights
  <2> QED BY <1>3, <2>1, Zenon
<1> QED
  BY <1>1, <1>4, <1>5, <1>6, Zenon DEF Flights, g

\* load begins a flight: it has the one leader.
LEMMA NewFlight ==
    ASSUME NEW f, NEW s, Flights(f, s), NEW l \in Loader, NEW p \in LoadRecord, ~LeadsAs(f[l]),
           LeadsAs(p), p.at # "joined", p.key \in Key \ s
    PROVE  Flights([f EXCEPT ![l] = p], s \cup {p.key})
<1> DEFINE g == [f EXCEPT ![l] = p]
<1>1. g \in [Loader -> LoadRecord] /\ s \cup {p.key} \in SUBSET Key
  BY Zenon DEF Flights
<1>2. g[l] = p /\ \A m \in Loader : m # l => g[m] = f[m]
  BY Zenon DEF Flights
<1> HIDE DEF g
<1>3. ASSUME NEW m \in Loader PROVE LeadsAs(g[m]) \/ g[m].at = "joined" => g[m].key \in s \cup {p.key}
  <2>1. CASE m = l
    BY <1>2, <2>1, Zenon
  <2>2. CASE m # l
    <3>1. LeadsAs(f[m]) \/ f[m].at = "joined" => f[m].key \in s
      BY Zenon DEF Flights
    <3> QED BY <1>2, <2>2, <3>1, Zenon
  <2> QED BY <2>1, <2>2, Zenon
<1>4. ASSUME NEW m \in Loader, m # l, LeadsAs(g[m]) PROVE LeadsAs(f[m]) /\ g[m] = f[m] /\ g[m].key \in s
  BY <1>2, <1>4, Zenon DEF Flights
<1>5. ASSUME NEW m \in Loader, NEW j \in Loader, LeadsAs(g[m]), LeadsAs(g[j]), g[m].key = g[j].key
      PROVE  m = j
  <2>1. CASE m = l
    BY <1>2, <1>4, <1>5, <2>1, Zenon
  <2>2. CASE j = l
    BY <1>2, <1>4, <1>5, <2>2, Zenon
  <2>3. CASE m # l /\ j # l
    <3>1. LeadsAs(f[m]) /\ LeadsAs(f[j]) /\ f[m].key = f[j].key
      BY <1>4, <1>5, <2>3, Zenon
    <3> QED BY <3>1, Zenon DEF Flights
  <2> QED BY <2>1, <2>2, <2>3, Zenon
<1>6. ASSUME NEW k \in s \cup {p.key} PROVE \E m \in Loader : LeadsAs(g[m]) /\ g[m].key = k
  <2>1. CASE k = p.key
    BY <1>2, <2>1, Zenon
  <2>2. CASE k \in s
    <3>1. PICK m \in Loader : LeadsAs(f[m]) /\ f[m].key = k
      BY <2>2, Zenon DEF Flights
    <3>2. m # l
      BY <3>1, Zenon
    <3> QED BY <1>2, <3>1, <3>2, Zenon
  <2> QED BY <2>1, <2>2, Zenon
<1> QED
  BY <1>1, <1>3, <1>5, <1>6, Zenon DEF Flights, g

\* A flight lands: its leader and whoever joined it are done.
LEMMA FlightLands ==
    ASSUME NEW f, NEW s, Flights(f, s), NEW l \in Loader, LeadsAs(f[l]), NEW g, NoLoad \in LoadRecord,
           g = [m \in Loader |-> IF m = l \/ (f[m].at = "joined" /\ f[m].key = f[l].key) THEN NoLoad
                                ELSE f[m]]
    PROVE  Flights(g, s \ {f[l].key})
<1>1. g \in [Loader -> LoadRecord] /\ s \ {f[l].key} \in SUBSET Key
  BY Zenon DEF Flights
<1>2. ASSUME NEW m \in Loader
      PROVE  \/ g[m] = NoLoad /\ (m = l \/ f[m].at = "joined")
             \/ g[m] = f[m] /\ m # l /\ ~ (f[m].at = "joined" /\ f[m].key = f[l].key)
  BY Zenon
<1>3. ~LeadsAs(NoLoad) /\ NoLoad.at # "joined" /\ \A p : LeadsAs(p) => p.at # "joined"
  BY DEF LeadsAs, NoLoad
<1> HIDE DEF NoLoad
<1>4. ASSUME NEW m \in Loader, LeadsAs(g[m]) \/ g[m].at = "joined"
      PROVE  g[m] = f[m] /\ m # l /\ g[m].key \in s \ {f[l].key}
  <2>1. g[m] = f[m] /\ m # l /\ ~ (f[m].at = "joined" /\ f[m].key = f[l].key)
    BY <1>2, <1>3, <1>4, Zenon
  <2>2. f[m].key \in s
    BY <1>4, <2>1, Zenon DEF Flights
  <2>3. f[m].key # f[l].key
    BY <1>4, <2>1, Zenon DEF Flights
  <2> QED BY <2>1, <2>2, <2>3, Zenon
<1>5. ASSUME NEW m \in Loader, NEW j \in Loader, LeadsAs(g[m]), LeadsAs(g[j]), g[m].key = g[j].key
      PROVE  m = j
  <2>1. LeadsAs(f[m]) /\ LeadsAs(f[j]) /\ f[m].key = f[j].key
    BY <1>4, <1>5, Zenon
  <2> QED BY <2>1, Zenon DEF Flights
<1>6. ASSUME NEW k \in s \ {f[l].key} PROVE \E m \in Loader : LeadsAs(g[m]) /\ g[m].key = k
  <2>1. PICK m \in Loader : LeadsAs(f[m]) /\ f[m].key = k
    BY Zenon DEF Flights
  <2>2. g[m] = f[m]
    BY <1>2, <1>3, <2>1, Zenon
  <2> QED BY <2>1, <2>2, Zenon
<1> QED
  BY <1>1, <1>4, <1>5, <1>6, Zenon DEF Flights

\* One loader more or less that builds is one more or less in the count.
LEMMA BuildingCount ==
    ASSUME NEW S \in SUBSET Loader, NEW l \in Loader
    PROVE  /\ l \notin S => Cardinality(S \cup {l}) = Cardinality(S) + 1
           /\ l \in S => Cardinality(S \ {l}) = Cardinality(S) - 1
<1>1. IsFiniteSet(S)
  BY GzipAssumption, FS_Subset, Zenon
<1>2. Cardinality(S) \in Nat
  BY <1>1, FS_CardinalityType, Zenon
<1>3. l \notin S => Cardinality(S \cup {l}) = Cardinality(S) + 1
  BY <1>1, FS_AddElement, Zenon
<1>4. l \in S => Cardinality(S \ {l}) = Cardinality(S) - 1
  BY <1>1, FS_RemoveElement, Zenon
<1> QED
  BY <1>3, <1>4, Zenon


\* The step of a loader that leaves the cache alone and changes its own record,
\* with the count of builds it leads to.
LEMMA OneLoader ==
    ASSUME GzipIInv, NEW l \in Loader, NEW p \in LoadRecord, NEW s,
           Flights([loads EXCEPT ![l] = p], s), loads' = [loads EXCEPT ![l] = p],
           flights' = s, cache' = cache,
           \/ builds' = builds /\ (p.at = "building" <=> loads[l].at = "building")
           \/ builds' = builds + 1 /\ p.at = "building" /\ loads[l].at # "building"
           \/ builds' = builds - 1 /\ p.at # "building" /\ loads[l].at = "building"
    PROVE  GzipIInv'
<1> DEFINE B == Building(loads)
<1>1. B \in SUBSET Loader /\ builds = Cardinality(B)
  BY Zenon DEF GzipIInv, Building
<1>2. loads'[l] = p /\ \A m \in Loader : m # l => loads'[m] = loads[m]
  BY Zenon DEF GzipIInv, Flights
<1>3. /\ (p.at = "building" <=> loads[l].at = "building") => Building(loads') = B
      /\ p.at = "building" => Building(loads') = B \cup {l}
      /\ p.at # "building" => Building(loads') = B \ {l}
      /\ l \in B <=> loads[l].at = "building"
  <2>1. ASSUME NEW m PROVE /\ m \in Building(loads') <=> m \in Loader /\ loads'[m].at = "building"
                           /\ m \in B <=> m \in Loader /\ loads[m].at = "building"
    BY Zenon DEF Building
  <2> HIDE DEF B
  <2>2. ASSUME p.at = "building" <=> loads[l].at = "building", NEW m
        PROVE  m \in Building(loads') <=> m \in B
    BY <1>2, <2>1, <2>2, Zenon
  <2>3. ASSUME p.at = "building", NEW m PROVE m \in Building(loads') <=> m \in B \cup {l}
    BY <1>2, <2>1, <2>3, Zenon
  <2>4. ASSUME p.at # "building", NEW m PROVE m \in Building(loads') <=> m \in B \ {l}
    BY <1>2, <2>1, <2>4, Zenon
  <2> QED BY <2>1, <2>2, <2>3, <2>4, Zenon
<1> HIDE DEF B
<1>4. builds' = Cardinality(Building(loads'))
  BY <1>1, <1>3, BuildingCount, Zenon
<1>5. Flights(loads', flights')
  BY Zenon
<1> QED
  BY <1>4, <1>5, Zenon DEF GzipIInv

\* The fields of a changed record.
LEMMA LoadRecords ==
    /\ NoLoad \in LoadRecord /\ NoLoad.at = "idle" /\ ~LeadsAs(NoLoad)
    /\ \A k \in Key : LET j == [NoLoad EXCEPT !.at = "joined", !.key = k]
                          w == [NoLoad EXCEPT !.at = "waiting", !.key = k]
                      IN /\ j \in LoadRecord /\ j.at = "joined" /\ j.key = k /\ ~LeadsAs(j)
                         /\ w \in LoadRecord /\ w.at = "waiting" /\ w.key = k /\ LeadsAs(w)
<1>1. NoLoad \in LoadRecord /\ NoLoad.at = "idle"
  <2>1. "idle" \in {"idle", "joined", "waiting", "building", "landing"} /\ 0 \in Nat \cup {Failed}
    OBVIOUS
  <2>2. "none" \in Key \cup {"none"}
    BY Zenon
  <2> QED BY <2>1, <2>2, Zenon DEF NoLoad, LoadRecord
<1>2. ASSUME NEW k \in Key, NEW at \in {"joined", "waiting"}
      PROVE  LET j == [NoLoad EXCEPT !.at = at, !.key = k]
             IN j \in LoadRecord /\ j.at = at /\ j.key = k
  <2>1. at \in {"idle", "joined", "waiting", "building", "landing"} /\ k \in Key \cup {"none"}
    BY Zenon
  <2> HIDE DEF NoLoad
  <2> QED BY <1>1, <2>1, Zenon DEF LoadRecord
<1>3. ~LeadsAs(NoLoad)
  BY <1>1 DEF LeadsAs
<1>4. \A p : (p.at = "joined" => ~LeadsAs(p)) /\ (p.at = "waiting" => LeadsAs(p))
  BY DEF LeadsAs
<1> HIDE DEF NoLoad
<1>5. ASSUME NEW k \in Key
      PROVE  LET j == [NoLoad EXCEPT !.at = "joined", !.key = k]
             IN j \in LoadRecord /\ j.at = "joined" /\ j.key = k /\ ~LeadsAs(j)
  BY <1>2, <1>4, Zenon
<1>6. ASSUME NEW k \in Key
      PROVE  LET w == [NoLoad EXCEPT !.at = "waiting", !.key = k]
             IN w \in LoadRecord /\ w.at = "waiting" /\ w.key = k /\ LeadsAs(w)
  BY <1>2, <1>4, Zenon
<1> QED
  BY <1>1, <1>3, <1>5, <1>6, Zenon


\* load: a hit, a flight that is joined, one that is begun.
LEMMA LoadStep ==
    ASSUME GzipIInv, NEW l \in Loader, NEW k \in Key, load(l, k)
    PROVE  GzipIInv'
<1> DEFINE call(at) == [loads EXCEPT ![l] = [NoLoad EXCEPT !.at = at, !.key = k]]
<1>1. Tidy(cache) /\ Fits(cache) /\ Flights(loads, flights) /\ loads[l].at = "idle" /\ builds' = builds
  BY Zenon DEF GzipIInv, load
<1>2. ~LeadsAs(loads[l])
  BY <1>1 DEF LeadsAs
<1>3. CASE \E i \in EntryOf(cache, k) :
             /\ cache' = [cache EXCEPT !.lru = <<@[i]>> \o Without(@, i)]
             /\ UNCHANGED <<flights, loads>>
  <2>1. PICK i \in EntryOf(cache, k) :
             /\ cache' = [cache EXCEPT !.lru = <<@[i]>> \o Without(@, i)]
             /\ UNCHANGED <<flights, loads>>
    BY <1>3, Zenon
  <2>2. i \in 1..Len(cache.lru)
    <3>1. DOMAIN cache.lru = 1..Len(cache.lru)
      BY <1>1 DEF Tidy
    <3> QED BY <3>1, Zenon DEF EntryOf
  <2>3. Tidy(cache') /\ cache'.used = cache.used /\ Len(cache'.lru) = Len(cache.lru)
    BY <1>1, <2>1, <2>2, MoveTidy, Zenon
  <2>4. Fits(cache')
    BY <1>1, <2>3, Zenon DEF Fits
  <2> QED BY <1>1, <2>1, <2>3, <2>4, Zenon DEF GzipIInv
<1>4. CASE k \in flights /\ loads' = call("joined") /\ UNCHANGED <<cache, flights>>
  <2> DEFINE p == [NoLoad EXCEPT !.at = "joined", !.key = k]
  <2>1. p \in LoadRecord /\ p.at = "joined" /\ p.key = k /\ ~LeadsAs(p)
    BY LoadRecords, Zenon
  <2>2. loads' = [loads EXCEPT ![l] = p] /\ flights' = flights /\ cache' = cache
    BY <1>4, Zenon
  <2> HIDE DEF p
  <2>3. Flights([loads EXCEPT ![l] = p], flights)
    BY <1>1, <1>2, <1>4, <2>1, SameFlights, Zenon
  <2>4. p.at # "building" /\ loads[l].at # "building"
    BY <1>1, <2>1
  <2> QED BY <1>1, <2>1, <2>2, <2>3, <2>4, OneLoader, Zenon
<1>5. CASE k \notin flights /\ flights' = flights \cup {k} /\ loads' = call("waiting") /\ UNCHANGED cache
  <2> DEFINE p == [NoLoad EXCEPT !.at = "waiting", !.key = k]
  <2>1. p \in LoadRecord /\ p.at = "waiting" /\ p.key = k /\ LeadsAs(p)
    BY LoadRecords, Zenon
  <2>2. loads' = [loads EXCEPT ![l] = p] /\ flights' = flights \cup {p.key} /\ cache' = cache
    BY <1>5, <2>1, Zenon
  <2> HIDE DEF p
  <2>3. p.at # "building" /\ p.at # "joined" /\ loads[l].at # "building"
    BY <1>1, <2>1
  <2>4. Flights([loads EXCEPT ![l] = p], flights \cup {p.key})
    BY <1>1, <1>2, <1>5, <2>1, <2>3, NewFlight, Zenon
  <2> QED BY <1>1, <2>1, <2>2, <2>3, <2>4, OneLoader, Zenon
<1> QED
  BY <1>3, <1>4, <1>5, Zenon DEF load

\* The other steps of a loader before its flight lands.
LEMMA LoaderStep ==
    ASSUME GzipIInv, NEW l \in Loader,
           CancelLoad(l) \/ FollowerLeaves(l) \/ TakeBuild(l) \/ Build(l)
    PROVE  GzipIInv'
<1> DEFINE q == loads[l]
<1>1. Flights(loads, flights) /\ q \in LoadRecord /\ loads \in [Loader -> LoadRecord]
  BY Zenon DEF GzipIInv, Flights
<1>2. \A p : LeadsAs(p) <=> p.at \in {"waiting", "building", "landing"}
  BY Zenon DEF LeadsAs
<1>3. LeadsAs(q) \/ q.at = "joined" => q.key \in flights
  BY <1>1, Zenon DEF Flights
<1>4. ASSUME NEW p \in LoadRecord, loads' = [loads EXCEPT ![l] = p], UNCHANGED <<cache, flights>>,
             p = NoLoad \/ p.key = q.key, LeadsAs(p) <=> LeadsAs(q),
             p.at = "joined" => q.at = "joined",
             \/ builds' = builds /\ (p.at = "building" <=> q.at = "building")
             \/ builds' = builds + 1 /\ p.at = "building" /\ q.at # "building"
             \/ builds' = builds - 1 /\ p.at # "building" /\ q.at = "building"
      PROVE  GzipIInv'
  <2>1. (LeadsAs(p) => p.key = q.key) /\ (p.at = "joined" => p.key \in flights)
    <3>1. NoLoad.at = "idle" /\ ~LeadsAs(NoLoad)
      BY LoadRecords, Zenon
    <3> HIDE DEF q, NoLoad
    <3>2. NoLoad.at # "joined"
      BY <3>1
    <3> QED BY <1>3, <1>4, <3>1, <3>2, Zenon
  <2>2. Flights([loads EXCEPT ![l] = p], flights)
    BY <1>1, <1>4, <2>1, SameFlights, Zenon
  <2> QED BY <1>4, <2>2, OneLoader, Zenon
<1>5. ASSUME NEW p, \/ p = [q EXCEPT !.cancelled = TRUE] \/ p = [q EXCEPT !.at = "building"]
                    \/ \E r \in ResultSizes \cup {Failed} :
                          p = [q EXCEPT !.at = "landing", !.result = r]
      PROVE  p \in LoadRecord /\ p.key = q.key /\ (p.at = q.at \/ p.at \in {"building", "landing"})
  <2> HIDE DEF q
  <2>1. ASSUME NEW r \in ResultSizes \cup {Failed}, p = [q EXCEPT !.at = "landing", !.result = r]
        PROVE  p \in LoadRecord /\ p.key = q.key /\ p.at = "landing"
    <3>1. r \in Nat \cup {Failed}
      BY GzipAssumption, Zenon
    <3>2. "landing" \in {"idle", "joined", "waiting", "building", "landing"}
      OBVIOUS
    <3> QED BY <1>1, <2>1, <3>1, <3>2, Zenon DEF LoadRecord
  <2>2. CASE p = [q EXCEPT !.cancelled = TRUE]
    BY <1>1, <2>2, Zenon DEF LoadRecord
  <2>3. CASE p = [q EXCEPT !.at = "building"]
    BY <1>1, <2>3 DEF LoadRecord
  <2> QED BY <1>5, <2>1, <2>2, <2>3, Zenon
<1>6. CASE CancelLoad(l)
  <2> DEFINE p == [q EXCEPT !.cancelled = TRUE]
  <2>1. loads' = [loads EXCEPT ![l] = p] /\ UNCHANGED <<cache, flights>> /\ builds' = builds
    BY <1>1, <1>6, Zenon DEF CancelLoad
  <2>2. p \in LoadRecord /\ p.key = q.key /\ p.at = q.at
    BY <1>1, <1>5, Zenon DEF LoadRecord
  <2> HIDE DEF p
  <2> QED BY <1>2, <1>4, <2>1, <2>2, Zenon
<1>7. CASE FollowerLeaves(l)
  <2>1. /\ loads' = [loads EXCEPT ![l] = NoLoad] /\ UNCHANGED <<cache, flights>> /\ builds' = builds
        /\ q.at = "joined"
    BY <1>7, Zenon DEF FollowerLeaves
  <2>2. NoLoad \in LoadRecord /\ NoLoad.at = "idle" /\ ~LeadsAs(NoLoad)
    BY LoadRecords, Zenon
  <2> HIDE DEF NoLoad, q
  <2>3. NoLoad.at # "joined" /\ NoLoad.at # "building" /\ q.at # "building" /\ ~LeadsAs(q)
    BY <2>1, <2>2 DEF LeadsAs
  <2> QED BY <1>4, <2>1, <2>2, <2>3, Zenon
<1>8. CASE TakeBuild(l)
  <2>1. CASE builds' = builds + 1 /\ loads' = [loads EXCEPT ![l].at = "building"]
    <3> DEFINE p == [q EXCEPT !.at = "building"]
    <3>1. loads' = [loads EXCEPT ![l] = p] /\ UNCHANGED <<cache, flights>> /\ q.at = "waiting"
      BY <1>1, <1>8, <2>1, Zenon DEF TakeBuild
    <3>2. p \in LoadRecord /\ p.key = q.key /\ p.at = "building"
      BY <1>1, <1>5, Zenon DEF LoadRecord
    <3> HIDE DEF p, q
    <3>3. LeadsAs(p) /\ LeadsAs(q) /\ q.at # "building" /\ p.at # "joined"
      BY <1>2, <3>1, <3>2
    <3> QED BY <1>4, <2>1, <3>1, <3>2, <3>3, Zenon
  <2>2. CASE builds' = builds /\ loads' = [loads EXCEPT ![l].at = "landing", ![l].result = Failed]
    <3> DEFINE p == [q EXCEPT !.at = "landing", !.result = Failed]
    <3>1. loads' = [loads EXCEPT ![l] = p] /\ UNCHANGED <<cache, flights>> /\ q.at = "waiting"
      BY <1>1, <1>8, <2>2, Zenon DEF TakeBuild
    <3>2. p \in LoadRecord /\ p.key = q.key /\ p.at = "landing"
      BY <1>1, <1>5, Zenon DEF LoadRecord
    <3> HIDE DEF p, q
    <3>3. LeadsAs(p) /\ LeadsAs(q) /\ q.at # "building" /\ p.at # "joined" /\ p.at # "building"
      BY <1>2, <3>1, <3>2
    <3> QED BY <1>4, <2>2, <3>1, <3>2, <3>3, Zenon
  <2> QED BY <1>8, <2>1, <2>2, Zenon DEF TakeBuild
<1>9. CASE Build(l)
  <2>1. PICK r \in ResultSizes \cup {Failed} :
          loads' = [loads EXCEPT ![l].at = "landing", ![l].result = r]
    BY <1>9, Zenon DEF Build
  <2> DEFINE p == [q EXCEPT !.at = "landing", !.result = r]
  <2>2. /\ loads' = [loads EXCEPT ![l] = p] /\ UNCHANGED <<cache, flights>> /\ q.at = "building"
        /\ builds' = builds - 1
    BY <1>1, <1>9, <2>1, Zenon DEF Build
  <2>3. p \in LoadRecord /\ p.key = q.key /\ p.at = "landing"
    BY <1>1, <1>5, Zenon DEF LoadRecord
  <2> HIDE DEF p, q
  <2>4. LeadsAs(p) /\ LeadsAs(q) /\ p.at # "building" /\ p.at # "joined"
    BY <1>2, <2>2, <2>3
  <2> QED BY <1>4, <2>2, <2>3, <2>4, Zenon
<1> QED
  BY <1>6, <1>7, <1>8, <1>9, Zenon


\* The flight lands, stored or not.
LEMMA LandStep ==
    ASSUME GzipIInv, NEW l \in Loader, Land(l)
    PROVE  GzipIInv'
<1> DEFINE q == loads[l]
<1>1. /\ Tidy(cache) /\ Fits(cache) /\ Flights(loads, flights) /\ q \in LoadRecord
      /\ builds = Cardinality(Building(loads)) /\ q.at = "landing" /\ builds' = builds
      /\ flights' = flights \ {q.key}
      /\ cache' = IF q.result = Failed \/ q.cancelled THEN cache ELSE storeResultLocked(q.key, q.result)
      /\ loads' = [m \in Loader |->
                     IF m = l \/ (loads[m].at = "joined" /\ loads[m].key = q.key) THEN NoLoad ELSE loads[m]]
  BY Zenon DEF GzipIInv, Flights, Land
<1>2. LeadsAs(q)
  BY <1>1 DEF LeadsAs
<1>3. q.key \in Key
  BY <1>1, <1>2, Zenon DEF Flights
<1>4. NoLoad \in LoadRecord /\ NoLoad.at = "idle"
  BY LoadRecords, Zenon
<1>5. Flights(loads', flights')
  BY <1>1, <1>2, <1>4, FlightLands, Zenon
<1>6. Tidy(cache') /\ Fits(cache')
  <2>1. CASE q.result = Failed \/ q.cancelled
    BY <1>1, <2>1, Zenon
  <2>2. CASE ~ (q.result = Failed \/ q.cancelled)
    <3>1. q.result \in Nat
      BY <1>1, <2>2, Zenon DEF LoadRecord
    <3>2. cache' = storeResultLocked(q.key, q.result)
      BY <1>1, <2>2, Zenon
    <3> HIDE DEF q
    <3> QED BY <1>1, <1>3, <3>1, <3>2, StoreTidy, Zenon
  <2> QED BY <2>1, <2>2, Zenon
<1>7. Building(loads') = Building(loads)
  <2>1. NoLoad.at # "building" /\ q.at # "building"
    <3> HIDE DEF NoLoad, q
    <3> QED BY <1>1, <1>4
  <2>2. \A m \in Loader : loads[m].at = "joined" => loads[m].at # "building"
    OBVIOUS
  <2> HIDE DEF NoLoad
  <2>3. ASSUME NEW m \in Loader PROVE loads'[m].at = "building" <=> loads[m].at = "building"
    <3>1. loads'[m] = IF m = l \/ (loads[m].at = "joined" /\ loads[m].key = q.key) THEN NoLoad ELSE loads[m]
      BY <1>1, Zenon
    <3> QED BY <2>1, <2>2, <3>1, Zenon
  <2> QED BY <2>3, Zenon DEF Building
<1> QED
  BY <1>1, <1>5, <1>6, <1>7, Zenon DEF GzipIInv

\* The invariant holds of every reachable state.
THEOREM GzipInvariance == GzipSpec => []GzipIInv
<1>1. GzipInit => GzipIInv
  <2> SUFFICES ASSUME GzipInit PROVE GzipIInv
    OBVIOUS
  <2>1. NoLoad \in LoadRecord /\ NoLoad.at = "idle" /\ ~LeadsAs(NoLoad)
    BY LoadRecords, Zenon
  <2> HIDE DEF NoLoad
  <2>2. NoLoad.at # "joined" /\ NoLoad.at # "building"
    BY <2>1
  <2>3. Flights(loads, flights)
    BY <2>1, <2>2, Zenon DEF GzipInit, Flights
  <2>4. builds = Cardinality(Building(loads))
    <3>1. Building(loads) = {}
      BY <2>2, Zenon DEF GzipInit, Building
    <3> QED BY <3>1, FS_EmptySet, Zenon DEF GzipInit
  <2>5. cache = [lru |-> <<>>, paths |-> [f \in Path |-> NoEdition], used |-> 0]
    BY Zenon DEF GzipInit
  <2>6. /\ cache = [lru |-> cache.lru, paths |-> cache.paths, used |-> cache.used]
        /\ cache.lru = <<>> /\ cache.paths = [f \in Path |-> NoEdition] /\ cache.used = 0
    BY <2>5, Zenon
  <2>7. /\ cache.lru \in Seq(Entry) /\ Len(cache.lru) = 0 /\ 1..Len(cache.lru) = {}
        /\ Sizes(cache.lru) = <<>> /\ <<>> \in Seq(Int) /\ 0 \in Int
    BY <2>6 DEF Sizes
  <2>8. Total(Sizes(cache.lru)) = 0
    BY <2>7, Totals, Zenon
  <2>9. Tidy(cache)
    BY <2>6, <2>7, <2>8, Zenon DEF Tidy
  <2>10. Fits(cache)
    BY <2>6, <2>7, GzipAssumption DEF Fits
  <2> QED BY <2>3, <2>4, <2>9, <2>10, Zenon DEF GzipIInv
<1>2. GzipIInv /\ [GzipNext]_gzipVars => GzipIInv'
  <2> SUFFICES ASSUME GzipIInv, [GzipNext]_gzipVars PROVE GzipIInv'
    OBVIOUS
  <2>1. CASE GzipNext
    BY <2>1, LoadStep, LoaderStep, LandStep, Zenon DEF GzipNext
  <2>2. CASE UNCHANGED gzipVars
    BY <2>2, Zenon DEF GzipIInv, gzipVars
  <2> QED BY <2>1, <2>2, Zenon
<1> HIDE DEF GzipIInv, GzipNext, GzipInit, gzipVars
<1> QED
  BY <1>1, <1>2, PTL DEF GzipSpec

\* Hits, evictions, newer editions, failed and abandoned builds leave the node's
\* compression cache consistent (static_wire.go: load, storeResultLocked and
\* removeLocked): the list, the index and the byte count agree and fit the limits,
\* every flight has one leader and no build slot is lost, for any files, sizes,
\* limits and number of handlers.
THEOREM CacheAgrees == GzipSpec => []GzipCacheAgrees
<1>1. GzipIInv => GzipCacheAgrees
  <2> SUFFICES ASSUME GzipIInv PROVE GzipCacheAgrees
    OBVIOUS
  <2>1. Tidy(cache) /\ Fits(cache) /\ Flights(loads, flights) /\ builds = Cardinality(Building(loads))
    BY Zenon DEF GzipIInv
  <2>2. DOMAIN cache.lru = 1..Len(cache.lru)
    BY <2>1 DEF Tidy
  <2>3. cache.used = Total([i \in DOMAIN cache.lru |-> cache.lru[i].size])
    BY <2>1, Zenon DEF Tidy, Sizes
  <2>4. ASSUME NEW f \in Path
        PROVE  LET kept == {i \in DOMAIN cache.lru : cache.lru[i].key.path = f} IN
               IF cache.paths[f] = NoEdition THEN kept = {}
               ELSE \E i \in kept : kept = {i} /\ cache.lru[i].key.edition = cache.paths[f]
    <3> DEFINE kept == {i \in DOMAIN cache.lru : cache.lru[i].key.path = f}
    <3>1. CASE cache.paths[f] = NoEdition
      <4>1. ASSUME NEW i \in 1..Len(cache.lru), cache.lru[i].key.path = f PROVE FALSE
        <5>1. cache.lru[i] \in Entry /\ cache.lru[i].key.edition = NoEdition
          <6>1. cache.lru[i] \in Entry
            BY <2>1 DEF Tidy
          <6> QED BY <2>1, <3>1, <4>1, <6>1, Zenon DEF Tidy
        <5>2. \A e \in Entry : e.key.edition # NoEdition
          BY GzipAssumption DEF Entry, Key, NoEdition
        <5> QED BY <5>1, <5>2, Zenon
      <4> QED BY <2>2, <3>1, <4>1, Zenon
    <3>2. CASE cache.paths[f] # NoEdition
      <4>1. PICK i \in 1..Len(cache.lru) : cache.lru[i].key.path = f
        BY <2>1, <3>2, Zenon DEF Tidy
      <4>2. cache.lru[i].key.edition = cache.paths[f]
        BY <2>1, <4>1, Zenon DEF Tidy
      <4>3. \A j \in kept : j = i
        BY <2>1, <2>2, <4>1, Zenon DEF Tidy
      <4>4. i \in kept
        BY <2>2, <4>1, Zenon
      <4> HIDE DEF kept
      <4>5. kept = {i}
        BY <4>3, <4>4, Zenon
      <4> QED BY <3>2, <4>2, <4>4, <4>5, Zenon DEF kept
    <3> QED BY <3>1, <3>2, Zenon
  <2>5. ASSUME NEW k \in Key
        PROVE  Cardinality({l \in Loader : Leads(l) /\ loads[l].key = k}) = (IF k \in flights THEN 1 ELSE 0)
    <3> DEFINE leaders == {l \in Loader : Leads(l) /\ loads[l].key = k}
    <3>1. \A l : l \in leaders <=> l \in Loader /\ LeadsAs(loads[l]) /\ loads[l].key = k
      BY Zenon DEF Leads, LeadsAs
    <3> HIDE DEF leaders
    <3>2. CASE k \in flights
      <4>1. PICK l \in Loader : LeadsAs(loads[l]) /\ loads[l].key = k
        BY <2>1, <3>2, Zenon DEF Flights
      <4>2. \A m \in leaders : m = l
        BY <2>1, <3>1, <4>1, Zenon DEF Flights
      <4>3. leaders = {l}
        BY <3>1, <4>1, <4>2, Zenon
      <4> QED BY <3>2, <4>3, FS_Singleton, Zenon DEF leaders
    <3>3. CASE k \notin flights
      <4>1. ASSUME NEW l \in leaders PROVE FALSE
        <5>1. l \in Loader /\ LeadsAs(loads[l]) /\ loads[l].key = k
          BY <3>1, Zenon
        <5> QED BY <2>1, <3>3, <5>1, Zenon DEF Flights
      <4>2. leaders = {}
        BY <4>1, Zenon
      <4> QED BY <3>3, <4>2, FS_EmptySet, Zenon DEF leaders
    <3> QED BY <3>2, <3>3, Zenon
  <2>6. \A l \in Loader : loads[l].at = "joined" => loads[l].key \in flights
    BY <2>1, Zenon DEF Flights
  <2> QED BY <2>1, <2>3, <2>4, <2>5, <2>6, Zenon DEF GzipCacheAgrees, Fits, Building
<1> HIDE DEF GzipIInv, GzipCacheAgrees
<1> QED
  BY <1>1, GzipInvariance, PTL
=============================================================================
