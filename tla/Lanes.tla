------------------------------- MODULE Lanes -------------------------------
(***************************************************************************)
(* The data channels of one page, packages/loader/src/client.ts, and the   *)
(* lane slots of its peer, content-node/server.go.                         *)
(*                                                                         *)
(* Lane 0 is negotiated with the connection; the bulk lanes are opened by  *)
(* the first request that wants them and closed again when they have been  *)
(* idle for a while.  Every request reserves a channel before it is sent;  *)
(* a bounded request waits in a queue when its channel is taken.           *)
(*                                                                         *)
(* One handler of the page is one action: the promises it settles continue *)
(* in microtasks, before any other event of the page.  The node hears of a *)
(* channel's opening and closing later, and of two channels in any order.  *)
(*                                                                         *)
(* A connection is followed until it is torn down and its requests have    *)
(* unwound; what replaces it is RouteSupervisor's.  chooseChannel's tie    *)
(* break on bufferedAmount is left out: of two equally loaded lanes the    *)
(* first listed is taken.                                                  *)
(***************************************************************************)
EXTENDS Integers, FiniteSets, SequencesExt

CONSTANTS
  BulkLanes,    \* DATA_CHANNEL_COUNT - 1
  MaxChannels,  \* data channels ever created (bound)
  MaxEvents     \* requests, numbered in their order, and channels that fail
                \* or never open, together (bound)

ASSUME LanesAssumption == {BulkLanes, MaxChannels, MaxEvents} \subseteq Nat \ {0}

Req == 1..MaxEvents
Chan == 1..MaxChannels
NoChan == 0

(* What the priority and the path of a request come to: interactive; a     *)
(* "download", interactive with a path of an incremental format; critical; *)
(* or normal and bulk alike, "asset".                                      *)
Kind == {"interactive", "download", "critical", "asset"}
Interactive(k) == k \in {"interactive", "download"}
Constrained(k) == k \in {"download", "asset"}

VARIABLES
  client,     \* the client's lane state and its requests, see LanesInit
  session,    \* slot: s.lanes; announced, gone: channel events on their way
  laneFaults  \* channels that failed or never opened

lanesVars == <<client, session, laneFaults>>

LanesInit ==
  /\ client = [list    |-> <<1>>,
             ready   |-> [c \in Chan |-> IF c = 1 THEN "open" ELSE "none"],
             lane    |-> [c \in Chan |-> 0],
             promise |-> [c \in Chan |-> IF c = 1 THEN "ok" ELSE "pending"],
             load    |-> [c \in {1} |-> 0],
             opening |-> [on |-> FALSE, of |-> {}, by |-> <<>>],
             idle    |-> FALSE,
             waiters |-> <<>>,
             down    |-> FALSE,
             at      |-> [r \in Req |-> "new"],
             kind    |-> [r \in Req |-> "interactive"],
             chan    |-> [r \in Req |-> NoChan],
             cancelled |-> {}]
  /\ session = [slot |-> [l \in 0..BulkLanes |-> IF l = 0 THEN 1 ELSE NoChan],
                announced |-> {}, gone |-> {}]
  /\ laneFaults = 0

MayHappen == laneFaults + Cardinality({r \in Req : client.at[r] # "new"}) < MaxEvents

----------------------------------------------------------------------------
(* Choosing and reserving a channel.                                       *)

Load(p, c) == IF c \in DOMAIN p.load THEN p.load[c] ELSE 0
Loaded(p, c) == Load(p, c) > 0
SetLoad(p, c, n) ==
  LET known == DOMAIN p.load \cup {c}
  IN [p EXCEPT !.load = [d \in known |-> IF d = c THEN n ELSE p.load[d]]]

(* The first of the least loaded channels of a sequence.                   *)
LeastLoaded(p, s) ==
  FoldLeft(LAMBDA best, c : IF Load(p, c) < Load(p, best) THEN c ELSE best, s[1], s)

chooseChannel(p, k) ==
  LET all == SelectSeq(p.list, LAMBDA c : p.ready[c] = "open")
      bulk == Tail(all)
  IN CASE all = <<>> -> NoChan
       [] all # <<>> /\ (Interactive(k) \/ Len(all) = 1) -> all[1]
       [] Len(all) > 1 /\ k = "critical" -> bulk[1]
       [] OTHER -> LeastLoaded(p, IF Len(bulk) > 1 THEN Tail(bulk) ELSE bulk)

(* A reservation is made and the request sent in the same turn.            *)
Reserve(p, r, c) ==
  [SetLoad(p, c, Load(p, c) + 1) EXCEPT !.at[r] = "live", !.chan[r] = c]

(* Mutant: a bounded request does not wait for its channel.                *)
acquireLoaded(p, r) ==
  LET c == chooseChannel(p, p.kind[r])
  IN IF c = NoChan THEN [p EXCEPT !.at[r] = "done"] ELSE Reserve(p, r, c)

(* An unbounded request takes its channel whatever it carries, and fails   *)
(* when there is none; a bounded one waits until its channel is free.      *)
acquireScheduledChannel(p, r) ==
  LET k == p.kind[r]
      c == chooseChannel(p, k)
  IN IF ~Constrained(k) \/ (c # NoChan /\ ~Loaded(p, c))
     THEN IF c = NoChan THEN [p EXCEPT !.at[r] = "done"] ELSE Reserve(p, r, c)
     ELSE [p EXCEPT !.at[r] = "waiting", !.waiters = Append(@, r)]

(* Op applied to every element of a sequence in turn, each result computed *)
(* once.                                                                   *)
Through(Op(_, _), base, s) ==
  FoldLeft(LAMBDA acc, x : CHOOSE out \in {Op(v, x) : v \in {acc}} : TRUE, base, s)

(* The queue is served in order until its first request must go on waiting.*)
ServeWaiter(acc, r) ==
  LET p == acc.p
      c == chooseChannel(p, p.kind[r])
      rest == [p EXCEPT !.waiters = Tail(@)]
  IN CASE acc.stop -> acc
       [] ~acc.stop /\ r \in p.cancelled -> [acc EXCEPT !.p = [rest EXCEPT !.at[r] = "done"]]
       [] ~acc.stop /\ r \notin p.cancelled /\ (c = NoChan \/ Loaded(p, c)) ->
            [acc EXCEPT !.stop = TRUE]
       [] OTHER -> [acc EXCEPT !.p = Reserve(rest, r, c)]

releaseLaneWaiters(p) ==
  Through(ServeWaiter, [p |-> p, stop |-> FALSE], p.waiters).p

scheduleBulkIdleClose(p) ==
  [p EXCEPT !.idle = Len(p.list) > 1 /\ \A c \in ToSet(Tail(p.list)) : ~Loaded(p, c)]

releaseChannelReservation(p, c) == [p EXCEPT !.load[c] = @ - 1]

(* A request is over: its reservation is given back if its channel is      *)
(* still one of ours, and the queue served.                                *)
finish(p, r) ==
  LET c == p.chan[r]
      done == [p EXCEPT !.at[r] = "done", !.chan[r] = NoChan]
      freed == releaseLaneWaiters(releaseChannelReservation(done, c))
  IN IF c \notin DOMAIN p.load THEN done
     ELSE IF p.lane[c] = 0 THEN freed ELSE scheduleBulkIdleClose(freed)

removeChannel(p, c) ==
  [p EXCEPT !.list = SelectSeq(@, LAMBDA d : d # c), !.load = Restrict(@, DOMAIN @ \ {c})]

----------------------------------------------------------------------------
(* Opening the bulk lanes.                                                 *)

Fresh(p) == 1 + Cardinality({c \in Chan : p.ready[c] # "none"})

(* channel.close(): the channel closes when the event comes; the opening   *)
(* that was awaited fails then.                                            *)
CloseChannel(p, c) == [p EXCEPT !.ready[c] = IF @ = "closed" THEN @ ELSE "closing"]

CanEnsure(p) == p.opening.on \/ p.ready[1] = "open"

DropReplaced(p, kept) == SelectSeq(p.list, LAMBDA c : p.lane[c] = 0 \/ c \in kept)

(* Lanes that are open stay, those still opening are awaited, the others   *)
(* are replaced by new channels.  A label is never listed twice, so the    *)
(* clause for duplicates has nothing to do.                                *)
ensureBulkChannels(p) ==
  LET bulk == {c \in ToSet(p.list) : p.lane[c] # 0}
      awaited == {c \in bulk : p.ready[c] \notin {"open", "closed"} /\ p.promise[c] = "pending"}
      kept == awaited \cup {c \in bulk : p.ready[c] = "open"}
      missing == SetToSortSeq({l \in 1..BulkLanes : \A c \in kept : p.lane[c] # l}, <)
      id(c) == c - Fresh(p) + 1
      new == {c \in Chan : id(c) \in 1..Len(missing)}
  IN IF p.opening.on THEN p
     ELSE [p EXCEPT !.idle = FALSE,
            !.opening = [on |-> TRUE, of |-> awaited \cup new, by |-> <<>>],
            !.list = DropReplaced(p, kept) \o SetToSortSeq(new, <),
            !.load = [c \in ((DOMAIN @ \ bulk) \cup kept \cup new) |->
                        IF c \in new THEN 0 ELSE @[c]],
            !.lane = [c \in Chan |-> IF c \in new THEN missing[id(c)] ELSE @[c]],
            !.ready = [c \in Chan |-> CASE c \in new -> "connecting"
                                        [] c \in bulk \ kept /\ @[c] # "closed" -> "closing"
                                        [] OTHER -> @[c]]]

(* The request goes on once the lanes are there; it ends if they are not,  *)
(* or if it was cancelled meanwhile.                                       *)
AfterEnsure(p, r, opened) ==
  IF opened /\ r \notin p.cancelled THEN acquireScheduledChannel(p, r)
  ELSE [p EXCEPT !.at[r] = "done"]

(* Promise.all settles when every awaited lane is open or one has failed.  *)
Settled(p) ==
  \/ \E c \in p.opening.of : p.promise[c] = "bad"
  \/ \A c \in p.opening.of : p.promise[c] = "ok"

SettleOpening(p) ==
  LET opened == \A c \in p.opening.of : p.promise[c] = "ok"
      free == [p EXCEPT !.opening = [on |-> FALSE, of |-> {}, by |-> <<>>]]
      Go(q, r) == AfterEnsure(q, r, opened)
      base == IF opened /\ ~p.down THEN scheduleBulkIdleClose(free) ELSE free
  IN Through(Go, base, p.opening.by)

(* A turn of the page ends with the microtasks of what it settled; a       *)
(* request that is over is forgotten.                                      *)
Turn(p) ==
  LET q == IF p.opening.on /\ Settled(p) THEN SettleOpening(p) ELSE p
  IN [q EXCEPT !.cancelled = {r \in @ : q.at[r] # "done"},
               !.kind = [r \in Req |-> IF q.at[r] = "done" THEN "interactive" ELSE @[r]]]

(* What the turn created is announced to the node, what it closed will be  *)
(* seen closing there.                                                     *)
Told(p) ==
  [session EXCEPT
     !.announced = @ \cup {c \in Chan : client.ready[c] = "none" /\ p.ready[c] # "none"},
     !.gone = @ \cup {c \in Chan : /\ client.ready[c] \in {"connecting", "open"}
                                   /\ p.ready[c] \in {"closing", "closed"}}]

Become(p) == \E before \in {p} : \E q \in {Turn(before)} : client' = q /\ session' = Told(q)

----------------------------------------------------------------------------
(* Actions.                                                                *)

(* startRequest.  Critical requests open the lanes behind them and go at   *)
(* once; normal and bulk ones wait for the lanes; the others need lane 0.  *)
startRequest(r, k) ==
  LET p == [client EXCEPT !.kind[r] = k]
      wants == ~Interactive(k) /\ CanEnsure(p)
      e == IF wants THEN ensureBulkChannels(p) ELSE p
  IN /\ client.at[r] = "new" /\ (\A q \in 1..(r - 1) : client.at[q] # "new")
     /\ ~client.down /\ MayHappen
     /\ wants => Fresh(client) + BulkLanes <= MaxChannels + 1
     /\ CASE k = "asset" /\ ~wants -> Become([p EXCEPT !.at[r] = "done"])
          [] k = "asset" /\ wants ->
               Become([e EXCEPT !.at[r] = "opening", !.opening.by = Append(@, r)])
          [] OTHER -> Become(acquireScheduledChannel(e, r))
     /\ UNCHANGED laneFaults

(* cancelRequest, for a request that is starting or sent.                  *)
cancelRequest(r) ==
  /\ client.at[r] \in {"opening", "waiting", "live"} /\ r \notin client.cancelled
  /\ IF client.at[r] = "live"
     THEN Become(finish(client, r))
     ELSE Become(releaseLaneWaiters([client EXCEPT !.cancelled = @ \cup {r}]))
  /\ UNCHANGED laneFaults

(* onopen, when the node's acknowledgement arrives.                        *)
ChannelOpens(c) ==
  /\ client.ready[c] = "connecting"
  /\ Become([client EXCEPT !.ready[c] = "open",
                           !.promise[c] = IF @ = "pending" THEN "ok" ELSE @])
  /\ UNCHANGED laneFaults

(* The opening timer closes a channel that is still connecting.            *)
OpenTimesOut(c) ==
  /\ client.ready[c] = "connecting" /\ MayHappen
  /\ laneFaults' = laneFaults + 1
  /\ Become(CloseChannel([client EXCEPT !.promise[c] = "bad"], c))

(* onerror: the channel is closed.                                         *)
ChannelErrors(c) ==
  /\ client.ready[c] \in {"connecting", "open"} /\ MayHappen
  /\ laneFaults' = laneFaults + 1
  /\ Become(CloseChannel([client EXCEPT !.promise[c] = IF @ = "pending" THEN "bad" ELSE @], c))

(* teardown, as far as the lanes and their requests go.                    *)
teardown(p) ==
  [p EXCEPT !.down = TRUE, !.load = << >>, !.idle = FALSE, !.waiters = <<>>,
            !.cancelled = @ \cup {r \in Req : p.at[r] \in {"opening", "waiting"}},
            !.at = [r \in Req |-> IF p.at[r] \in {"live", "waiting"} THEN "done" ELSE p.at[r]],
            !.chan = [r \in Req |-> NoChan]]

(* onclose.  Lane 0 takes the connection with it; a bulk lane takes the    *)
(* requests it carries, after the queue was served without it.  finish     *)
(* only forgets these: their channel is no longer counted.                 *)
handleChannelClose(c) ==
  LET p == [client EXCEPT !.ready[c] = "closed",
                          !.promise[c] = IF @ = "pending" THEN "bad" ELSE @]
      without == releaseLaneWaiters(removeChannel(p, c))
      failed == {r \in Req : client.at[r] = "live" /\ client.chan[r] = c}
  IN /\ client.ready[c] = "closing"
     /\ Become(CASE client.lane[c] = 0 /\ client.down -> p
                 [] client.lane[c] = 0 /\ ~client.down -> teardown(p)
                 [] OTHER -> [without EXCEPT
                                !.at = [r \in Req |-> IF r \in failed THEN "done" ELSE @[r]],
                                !.chan = [r \in Req |-> IF r \in failed THEN NoChan ELSE @[r]]])
     /\ UNCHANGED laneFaults

(* The bulk lanes are closed and no longer counted.                        *)
CloseBulk(p) ==
  LET bulk == ToSet(Tail(p.list))
  IN [p EXCEPT !.list = <<Head(@)>>, !.load = Restrict(@, DOMAIN @ \cap {1}),
               !.ready = [c \in Chan |-> IF c \in bulk /\ @[c] # "closed"
                                         THEN "closing" ELSE @[c]]]

(* Mutant: the lanes are closed without looking at them again.             *)
IdleFiresBlindly ==
  /\ client.idle
  /\ Become(CloseBulk([client EXCEPT !.idle = FALSE]))
  /\ UNCHANGED laneFaults

(* The idle timer closes the bulk lanes when none of them is carrying.     *)
IdleFires ==
  /\ client.idle
  /\ \E p \in {[client EXCEPT !.idle = FALSE]} :
       Become(IF \E c \in ToSet(Tail(p.list)) : Loaded(p, c) THEN p ELSE CloseBulk(p))
  /\ UNCHANGED laneFaults

(* Mutant: a channel too many is ignored.                                  *)
AttachLaneSilently(c) ==
  /\ c \in session.announced
  /\ LET l == client.lane[c]
     IN session' = [session EXCEPT !.announced = @ \ {c},
                                   !.slot[l] = IF @ # NoChan THEN @ ELSE c]
  /\ UNCHANGED <<client, laneFaults>>

(* Attach: one channel for each lane; another one is closed at once, which *)
(* the page sees as its channel closing.                                   *)
AttachLane(c) ==
  /\ c \in session.announced
  /\ LET l == client.lane[c]
         refused == session.slot[l] # NoChan
     IN /\ session' = [session EXCEPT !.announced = @ \ {c},
                                      !.slot[l] = IF refused THEN @ ELSE c]
        /\ client' = IF refused THEN CloseChannel(client, c) ELSE client
  /\ UNCHANGED laneFaults

(* detachLane, after the channel was announced.  The last lane, and lane   *)
(* 0, close the peer: its channels all close.                              *)
detachLane(c) ==
  /\ c \in session.gone \ session.announced
  /\ LET l == client.lane[c]
         mine == session.slot[l] = c
         slots == IF mine THEN [session.slot EXCEPT ![l] = NoChan] ELSE session.slot
         last == mine /\ (l = 0 \/ \A k \in 0..BulkLanes : slots[k] = NoChan)
     IN /\ session' = [session EXCEPT !.gone = @ \ {c}, !.slot = slots]
        /\ client' = IF last
                     THEN [client EXCEPT !.ready =
                             [d \in Chan |-> IF @[d] \in {"connecting", "open"}
                                             THEN "closing" ELSE @[d]]]
                     ELSE client
  /\ UNCHANGED laneFaults

(* The node has the lane's request and answers it; the answer ends it.     *)
BeingAnswered(r) ==
  /\ client.at[r] = "live" /\ client.ready[client.chan[r]] = "open"
  /\ session.slot[client.lane[client.chan[r]]] = client.chan[r]

AnswerOnLane(r) ==
  /\ BeingAnswered(r)
  /\ Become(finish(client, r))
  /\ UNCHANGED laneFaults

(* What happens without a new request, a cancellation, a failing channel   *)
(* or the idle timer.                                                      *)
LanesStep ==
  \/ \E c \in Chan : ChannelOpens(c) \/ handleChannelClose(c) \/ AttachLane(c) \/ detachLane(c)
  \/ \E r \in Req : AnswerOnLane(r)

LanesNext ==
  \/ \E r \in Req, k \in Kind : startRequest(r, k)
  \/ \E r \in Req : cancelRequest(r)
  \/ \E c \in Chan : OpenTimesOut(c) \/ ChannelErrors(c)
  \/ IdleFires
  \/ LanesStep

LanesSpec == LanesInit /\ [][LanesNext]_lanesVars

----------------------------------------------------------------------------
(* Properties.                                                             *)

Holders(c) == {r \in Req : client.at[r] = "live" /\ client.chan[r] = c}

(* The page never gives up an open channel that carries a request, whose   *)
(* count in channelLoads went through reservations, cancellations and the  *)
(* queue: neither the idle timer, armed before the request was sent, nor a *)
(* reopening of the lanes takes it out of the list.                        *)
CarryingLaneIsKept ==
  [][\A c \in Chan : client.ready[c] = "open" /\ Holders(c) # {} =>
                        c \in ToSet(client'.list) \/ client'.down]_client

(* "Reserve at most one non-critical request on each non-reserved bulk     *)
(* lane": two bounded requests never share a channel, however they got it. *)
OneBoundedRequestPerLane ==
  \A c \in Chan : Cardinality({r \in Holders(c) : Constrained(client.kind[r])}) <= 1

(* When no channel is on its way to open or to close, for the page or for  *)
(* the node, no request of a live connection is still opening lanes,       *)
(* waiting for one or sent on one the node refused, unless another is      *)
(* being answered.                                                         *)
NoRequestIsStranded ==
  \/ client.down \/ \A r \in Req : client.at[r] \in {"new", "done"}
  \/ \E r \in Req : BeingAnswered(r)
  \/ \E c \in Chan : \/ client.ready[c] \in {"connecting", "closing"}
                     \/ c \in session.announced \cup session.gone

============================================================================
