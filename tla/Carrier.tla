------------------------------ MODULE Carrier ------------------------------
(***************************************************************************)
(* Which page carries the transport for the service worker: the election,    *)
(* the attach handshake and the wake-ups between SwBridge                     *)
(* (packages/loader/src/swbridge.ts) and the pages' YuriRTCClient             *)
(* (packages/loader/src/client.ts), and what becomes of the worker's fetches *)
(* when pages crash or unload, transports fail and the worker is stopped.    *)
(*                                                                           *)
(* A port is a number; its two queues are up (page to worker) and dn (worker *)
(* to page). Offers of ports and WAKE messages travel outside the ports, as  *)
(* the browser's other task sources do.                                      *)
(***************************************************************************)
EXTENDS Naturals, Sequences, FiniteSets, SequencesExt

CONSTANTS
    Page, Fetch,
    MaxPorts, MaxFaults     \* bounds of the instance

VARIABLES
    sw,         \* the bridge: [port, ready, wake, nextId]
    pending,    \* its requests in flight: [id, f, head]
    waiters,    \* fetches waiting in acquire()
    fetch,      \* what the fetches came to
    page,       \* the pages
    offers,     \* ports on their way to the worker, per page
    wakes,      \* WAKE messages on their way, per page
    up, dn,     \* the ports' queues
    owner,      \* the page that created each port
    severed,    \* fetches kept over a port replacement
    faults      \* restarts, lost pages and failed connections so far

vars == <<sw, pending, waiters, fetch, page, offers, wakes, up, dn, owner, severed, faults>>
counts == <<severed, faults>>
bridge == <<sw, pending, waiters, fetch>>

NoPort == 0
Port == 1 .. MaxPorts

\* A page's client: its transport, current port, attach waiter, the operation
\* that waits for the attachment, a WAKE kept for later, the bridge's requests.
NewPage == [alive |-> TRUE, open |-> FALSE, port |-> NoPort, waiter |-> "none",
            busy |-> "no", queued |-> FALSE, reqs |-> {}]

NewBridge == [port |-> NoPort, ready |-> FALSE, wake |-> "none", nextId |-> 1]

Init ==
    /\ sw = NewBridge /\ pending = {} /\ waiters = <<>>
    /\ fetch = [f \in Fetch |-> "new"]
    /\ page = [p \in Page |-> NewPage]
    /\ offers = [p \in Page |-> <<>>] /\ wakes = [p \in Page |-> 0]
    /\ up = [n \in Port |-> <<>>] /\ dn = [n \in Port |-> <<>>]
    /\ owner = <<>>
    /\ severed = {} /\ faults = 0

Msg(kind, r) == [t |-> kind, id |-> r.id, f |-> r.f]
Signal(kind) == [t |-> kind, id |-> 0, f |-> "none"]

\* Messages reach a page only on its current port, and only while it lives.
Hears(pg, n) == n # NoPort /\ pg[owner[n]].alive /\ pg[owner[n]].port = n
PostDown(q, n, msgs) == IF Hears(page, n) THEN [q EXCEPT ![n] = @ \o msgs] ELSE q
\* What a page posts waits in its current port's queue if the worker has the
\* port or is about to get it, and is lost otherwise.
Reaches(n) == n # NoPort /\ (n = sw.port \/ n \in Range(offers[owner[n]]))
PostUp(q, n, msgs) == IF Reaches(n) THEN [q EXCEPT ![n] = @ \o msgs] ELSE q

\* One message of a kind for each of a set of requests.
ForEach(kind, rs) ==
    LET seq == SetToSortSeq(rs, LAMBDA a, b : a.id < b.id)
    IN [i \in DOMAIN seq |-> Msg(kind, seq[i])]

(***************************************************************************)
(* The worker.                                                               *)
(***************************************************************************)

\* ensureWakeEpoch, for the bridge b with the given waiters.
EnsureWakeEpoch(b, ws) ==
    IF b.wake = "none" /\ b.port = NoPort /\ ws # <<>> THEN [b EXCEPT !.wake = "asking"] ELSE b

\* What detach leaves of the bridge: ids go on.
Unattached == [NewBridge EXCEPT !.nextId = sw.nextId]

\* Mutant: requests in flight are forgotten instead of failed.
DetachForgets(ws, outcome) ==
    /\ sw' = EnsureWakeEpoch(Unattached, ws)
    /\ dn' = PostDown(dn, sw.port, ForEach("cancel", pending))
    /\ up' = [up EXCEPT ![sw.port] = <<>>]
    /\ fetch' = outcome
    /\ pending' = {}
    /\ waiters' = ws

\* detach: every request in flight fails, the page is told to cancel it, and
\* the waiters start a discovery round. ws are the waiters that remain.
Detach(ws, outcome) ==
    /\ sw' = EnsureWakeEpoch(Unattached, ws)
    /\ dn' = PostDown(dn, sw.port, ForEach("cancel", pending))
    /\ up' = [up EXCEPT ![sw.port] = <<>>]
    /\ fetch' = [f \in Fetch |-> IF \E r \in pending : r.f = f THEN "failed" ELSE outcome[f]]
    /\ pending' = {}
    /\ waiters' = ws

\* request() with a ready port: an id of its own, and REQ to the page.
Send(fs, b) ==
    LET rs == {[id |-> b.nextId + i - 1, f |-> fs[i], head |-> FALSE] : i \in DOMAIN fs}
    IN
    /\ pending' = pending \cup rs
    /\ dn' = PostDown(dn, b.port, ForEach("req", rs))
    /\ sw' = [b EXCEPT !.nextId = @ + Len(fs)]
    /\ fetch' = [f \in Fetch |-> IF f \in Range(fs) THEN "sent" ELSE fetch[f]]

\* acquire(): use the ready port of a page that still exists, or let a dead
\* page's port go and wait for another.
Acquire(f) ==
    /\ fetch[f] = "new"
    /\ LET waiting == [fetch EXCEPT ![f] = "waiting"]
           dead == sw.port # NoPort /\ ~page[owner[sw.port]].alive
       IN
       \/ /\ dead
          /\ Detach(Append(waiters, f), waiting)
       \/ /\ ~dead /\ sw.ready
          /\ Send(<<f>>, sw)
          /\ UNCHANGED <<waiters, up>>
       \/ /\ ~dead /\ ~sw.ready
          /\ waiters' = Append(waiters, f)
          /\ fetch' = waiting
          /\ sw' = EnsureWakeEpoch(sw, waiters')
          /\ UNCHANGED <<pending, up, dn>>
    /\ UNCHANGED <<page, offers, wakes, owner, counts>>

\* The acquire timer, or the page aborts: the waiter leaves; the last one takes
\* a half-attached port or the discovery round with it.
StopWaiting(f) ==
    /\ fetch[f] = "waiting"
    /\ LET left == SelectSeq(waiters, LAMBDA g : g # f)
           failed == [fetch EXCEPT ![f] = "failed"]
       IN
       \/ /\ left = <<>> /\ sw.port # NoPort
          /\ Detach(left, failed)
       \/ /\ left # <<>> \/ sw.port = NoPort
          /\ sw' = IF left = <<>> THEN [sw EXCEPT !.wake = "none"] ELSE sw
          /\ waiters' = left /\ fetch' = failed
          /\ UNCHANGED <<pending, up, dn>>
    /\ UNCHANGED <<page, offers, wakes, owner, counts>>

\* The discovery round reaches every window the worker controls.
Broadcast ==
    /\ sw.wake = "asking"
    /\ sw' = [sw EXCEPT !.wake = "sent"]
    /\ wakes' = [p \in Page |-> IF page[p].alive THEN wakes[p] + 1 ELSE wakes[p]]
    /\ UNCHANGED <<pending, waiters, fetch, page, offers, up, dn, owner, counts>>

\* The first page to answer is the carrier; it may replace its own port.
FirstOneWins(p) == sw.port # NoPort => owner[sw.port] = p

\* SwBridge.attach. A port of another page than the carrier's is answered
\* STANDBY; a port of the same page replaces the old one and keeps only the
\* requests that have their head.
Attach(p) ==
    /\ offers[p] # <<>>
    /\ offers' = [offers EXCEPT ![p] = Tail(@)]
    /\ LET n == Head(offers[p])
           lost == {r \in pending : ~r.head}
       IN
       \/ /\ ~FirstOneWins(p)
          /\ dn' = PostDown(dn, n, <<Signal("standby")>>)
          /\ up' = [up EXCEPT ![n] = <<>>]
          /\ UNCHANGED <<bridge, severed>>
       \/ /\ FirstOneWins(p)
          /\ sw' = [sw EXCEPT !.port = n, !.ready = FALSE, !.wake = "none"]
          /\ dn' = PostDown(dn, n, <<Signal("attached")>> \o ForEach("cancel", lost))
          /\ up' = IF sw.port = NoPort THEN up ELSE [up EXCEPT ![sw.port] = <<>>]
          /\ pending' = pending \ lost
          /\ fetch' = [f \in Fetch |-> IF \E r \in lost : r.f = f THEN "failed" ELSE fetch[f]]
          /\ severed' = severed \cup {r.f : r \in pending'}
          /\ UNCHANGED waiters
    /\ UNCHANGED <<page, wakes, owner, faults>>

\* The port's message handler.
SwReceives ==
    /\ sw.port # NoPort /\ up[sw.port] # <<>>
    /\ LET m == Head(up[sw.port])
           rest == [up EXCEPT ![sw.port] = Tail(@)]
           mine == {r \in pending : r.id = m.id}
       IN
       \/ /\ m.t = "down"
          /\ Detach(waiters, fetch)
       \/ /\ m.t = "ready" /\ ~sw.ready
          /\ Send(waiters, [sw EXCEPT !.ready = TRUE, !.wake = "none"])
          /\ waiters' = <<>>
          /\ up' = rest
       \/ /\ m.t = "head"
          /\ pending' = (pending \ mine) \cup {[r EXCEPT !.head = TRUE] : r \in mine}
          /\ up' = rest
          /\ UNCHANGED <<sw, waiters, fetch, dn>>
       \/ /\ m.t \in {"end", "err"}
          /\ pending' = pending \ mine
          /\ fetch' = [f \in Fetch |-> IF \E r \in mine : r.f = f
                                       THEN IF m.t = "end" THEN "served" ELSE "failed"
                                       ELSE fetch[f]]
          /\ up' = rest
          /\ UNCHANGED <<sw, waiters, dn>>
    /\ UNCHANGED <<page, offers, wakes, owner, counts>>

\* The carrier did not answer READY in time.
ReadyTimer ==
    /\ sw.port # NoPort /\ ~sw.ready
    /\ Detach(waiters, fetch)
    /\ UNCHANGED <<page, offers, wakes, owner, counts>>

\* The browser stops the worker: its fetches fail, ids start again at one.
Restart ==
    /\ faults < MaxFaults
    /\ faults' = faults + 1
    /\ sw' = NewBridge /\ pending' = {} /\ waiters' = <<>>
    /\ fetch' = [f \in Fetch |-> IF fetch[f] \in {"waiting", "sent"} THEN "failed" ELSE fetch[f]]
    /\ up' = IF sw.port = NoPort THEN up ELSE [up EXCEPT ![sw.port] = <<>>]
    /\ UNCHANGED <<page, offers, wakes, dn, owner, severed>>

(***************************************************************************)
(* The pages.                                                                *)
(***************************************************************************)

\* attachPortToWorker: a new port replaces the page's old one.
OfferPort(p, pg, why) ==
    LET n == Len(owner) + 1 IN
    /\ n <= MaxPorts
    /\ owner' = Append(owner, p)
    /\ page' = [page EXCEPT ![p] = [pg EXCEPT !.port = n, !.waiter = "sent", !.busy = why]]
    /\ offers' = [offers EXCEPT ![p] = Append(@, n)]
    /\ dn' = IF pg.port = NoPort THEN dn ELSE [dn EXCEPT ![pg.port] = <<>>]

\* connect() reached the content node and attaches to the worker.
Connect(p) ==
    /\ page[p].alive /\ ~page[p].open
    /\ OfferPort(p, [NewPage EXCEPT !.open = TRUE], "connect")
    /\ UNCHANGED <<bridge, wakes, up, counts>>

\* WAKE: reattach, or keep it while another attachment is under way.
Wake(p) ==
    /\ wakes[p] > 0
    /\ wakes' = [wakes EXCEPT ![p] = @ - 1]
    /\ \/ /\ page[p].alive /\ page[p].open /\ page[p].busy = "no"
          /\ OfferPort(p, page[p], "wake")
       \/ /\ page[p].alive /\ page[p].open /\ page[p].busy # "no"
          /\ page' = [page EXCEPT ![p].queued = TRUE]
          /\ UNCHANGED <<offers, dn, owner>>
       \/ /\ ~(page[p].alive /\ page[p].open)
          /\ UNCHANGED <<page, offers, dn, owner>>
    /\ UNCHANGED <<bridge, up, counts>>

\* replayQueuedWorkerWake: the operation ended, a WAKE it held back is replayed.
Replayed(p) == IF page[p].queued THEN [wakes EXCEPT ![p] = @ + 1] ELSE wakes

\* Mutant: requests of the bridge before stay.
RetireNothing(p) ==
    /\ page' = [page EXCEPT ![p].waiter = "completing"]
    /\ UNCHANGED up

\* resetWorkerBridgeRequests: what an earlier bridge asked for is retired, and
\* reported on the new port.
Retire(p) ==
    /\ page' = [page EXCEPT ![p].waiter = "completing", ![p].reqs = {}]
    /\ up' = PostUp(up, page[p].port, ForEach("err", page[p].reqs))

\* onSwMessage, for what arrives on the page's current port.
PageReceives(p) ==
    /\ page[p].port # NoPort /\ dn[page[p].port] # <<>>
    /\ LET n == page[p].port
           m == Head(dn[n])
           rest == [dn EXCEPT ![n] = Tail(@)]
       IN
       \/ /\ m.t = "attached"
          /\ Retire(p)
          /\ dn' = rest
          /\ UNCHANGED wakes
       \/ \* They are retired without a word, and the port is given up.
          /\ m.t = "standby"
          /\ page' = [page EXCEPT ![p] = [@ EXCEPT !.waiter = "none", !.port = NoPort,
                                              !.reqs = {}, !.busy = "no", !.queued = FALSE]]
          /\ wakes' = Replayed(p)
          /\ dn' = [dn EXCEPT ![n] = <<>>]
          /\ UNCHANGED up
       \/ /\ m.t = "req"
          /\ IF page[p].open
             THEN /\ page' = [page EXCEPT ![p].reqs =
                                @ \cup {[id |-> m.id, f |-> m.f, head |-> FALSE]}]
                  /\ UNCHANGED up
             ELSE /\ up' = PostUp(up, n, <<Msg("err", m)>>)
                  /\ UNCHANGED page
          /\ dn' = rest
          /\ UNCHANGED wakes
       \/ /\ m.t = "cancel"
          /\ page' = [page EXCEPT ![p].reqs = {r \in @ : r.id # m.id}]
          /\ dn' = rest
          /\ UNCHANGED <<up, wakes>>
    /\ UNCHANGED <<bridge, offers, owner, counts>>

\* completeWorkerAttach: the bootstrap is stored, READY follows on the port, and
\* a WAKE of the round this answers is forgotten.
Ready(p) ==
    /\ page[p].waiter = "completing"
    /\ page' = [page EXCEPT ![p] = [@ EXCEPT !.waiter = "none", !.busy = "no", !.queued = FALSE]]
    /\ up' = PostUp(up, page[p].port, <<Signal("ready")>>)
    /\ UNCHANGED <<bridge, offers, wakes, dn, owner, counts>>

\* The transport is gone: teardown tells the worker on whatever port is left.
Down(p) == [page[p] EXCEPT !.open = FALSE, !.waiter = "none", !.busy = "no",
                           !.queued = FALSE, !.reqs = {}]

\* No acknowledgement, or no stored bootstrap, in time: closeRejectedAttach
\* reports DOWN on the port and drops it; connect() fails or the page tears
\* its transport down.
AttachFails(p) ==
    /\ page[p].waiter # "none" /\ faults < MaxFaults
    /\ faults' = faults + 1
    /\ up' = PostUp(up, page[p].port, <<Signal("down")>>)
    /\ dn' = [dn EXCEPT ![page[p].port] = <<>>]
    /\ page' = [page EXCEPT ![p] = [Down(p) EXCEPT !.port = NoPort]]
    /\ UNCHANGED <<bridge, offers, wakes, owner, severed>>

\* The page's connection to the content node fails.
Teardown(p) ==
    /\ page[p].open /\ page[p].alive /\ faults < MaxFaults
    /\ faults' = faults + 1
    /\ up' = PostUp(up, page[p].port, <<Signal("down")>>)
    /\ page' = [page EXCEPT ![p] = Down(p)]
    /\ UNCHANGED <<bridge, offers, wakes, dn, owner, severed>>

\* The content node's answer to a request reaches the worker.
Answer(p) ==
    \E r \in page[p].reqs :
        /\ page' = [page EXCEPT ![p].reqs =
                      (@ \ {r}) \cup (IF r.head THEN {} ELSE {[r EXCEPT !.head = TRUE]})]
        /\ up' = PostUp(up, page[p].port, <<Msg(IF r.head THEN "end" ELSE "head", r)>>)
        /\ UNCHANGED <<bridge, offers, wakes, dn, owner, counts>>

\* The page goes away: it unloads and says so, or crashes.
Leave(p) ==
    /\ page[p].alive /\ faults < MaxFaults
    /\ faults' = faults + 1
    /\ \E said \in BOOLEAN :
          up' = IF said THEN PostUp(up, page[p].port, <<Signal("down")>>) ELSE up
    /\ page' = [page EXCEPT ![p] = [NewPage EXCEPT !.alive = FALSE]]
    /\ dn' = IF page[p].port = NoPort THEN dn ELSE [dn EXCEPT ![page[p].port] = <<>>]
    /\ UNCHANGED <<bridge, offers, wakes, owner, severed>>

Step ==
    \/ Broadcast \/ SwReceives \/ ReadyTimer
    \/ \E f \in Fetch : StopWaiting(f)
    \/ \E p \in Page : Attach(p) \/ Wake(p) \/ PageReceives(p) \/ Ready(p) \/ Answer(p)

Next ==
    \/ Step
    \/ Restart
    \/ \E f \in Fetch : Acquire(f)
    \/ \E p \in Page : Connect(p) \/ AttachFails(p) \/ Teardown(p) \/ Leave(p)

Spec == Init /\ [][Next]_vars

(***************************************************************************)
(* Properties.                                                               *)
(***************************************************************************)

\* An answer is never given to another fetch than the one it belongs to, and a
\* cancel never hits another request, although a restarted worker counts its
\* ids from one again: whatever a page still says about old requests is read
\* before the bridge may send new ones.
IdsNeverCross ==
    /\ sw.port # NoPort /\ up[sw.port] # <<>> =>
          LET m == Head(up[sw.port]) IN
          \A r \in pending : r.id = m.id => r.f = m.f
    /\ \A p \in Page : page[p].port # NoPort /\ dn[page[p].port] # <<>> =>
          LET m == Head(dn[page[p].port]) IN
          \A r \in page[p].reqs : r.id = m.id => r.f = m.f

\* No fetch is left hanging: one still open can go on by itself, unless its
\* answer was due from a page that died without a word, or its port was replaced
\* after the response head: the end of such a response may be lost with the old
\* port, which swbridge.ts:116-119 does not provide for.
NoFetchHangs ==
    (\E f \in Fetch \ severed : fetch[f] \in {"waiting", "sent"}) =>
        \/ sw.port # NoPort /\ ~page[owner[sw.port]].alive
        \/ ENABLED Step
=============================================================================
