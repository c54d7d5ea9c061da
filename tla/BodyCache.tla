----------------------------- MODULE BodyCache -----------------------------
(***************************************************************************)
(* The service worker's bounded body cache (packages/loader/src/cache.ts): *)
(* bodies live in CacheStorage, their sizes in an IndexedDB table, and a    *)
(* running total of that table decides whether a write fits the budget.    *)
(* Every await of the code is a point where the other operations move.      *)
(*                                                                           *)
(* `tx` holds the table's transactions in flight. IndexedDB runs            *)
(* overlapping transactions of one store in creation order and reports each *)
(* before the next, so a transaction runs and calls back in one step.       *)
(* Recency is abstracted: a pass may take any row as the oldest.            *)
(***************************************************************************)
EXTENDS Integers, Sequences, FiniteSetsExt

CONSTANTS
    Url, Sizes,         \* what may be stored, and the sizes of bodies
    Op,                 \* requests in flight at once
    Budget, Reserve,    \* effectiveBudget() and reserveFor(budget)
    StageLimit,         \* the largest body cacheWhileConsumed keeps
    SyncWriteLimit,     \* writes before the table must be read again
    MaxEvents, MaxEpochs \* bounds: requests, hits, epochs and failures; epochs alone

ASSUME CacheAssumption ==
    /\ Sizes \subseteq Nat \ {0}
    /\ {Budget, Reserve, StageLimit, SyncWriteLimit} \subseteq Nat
    /\ Op \cap {"pass", "inv", "none"} = {}

VARIABLES
    body,       \* CacheStorage: size (0: none) and epoch of each URL's body
    row,        \* the metadata table: recorded size of each URL (0: no row)
    uses,       \* pendingUses: URLs whose recency refresh is buffered
    tx,         \* table transactions in flight, oldest first
    total,      \* lruBytes, or Unread
    stale,      \* totalStale
    sinceSync,  \* writesSinceSync
    reserved,   \* reservedBytes
    epoch,      \* cacheEpoch
    op,         \* the requests in flight
    locks,      \* the `evictions` chain: requests waiting for the lock
    pass,       \* the eviction pass its head runs
    inv,        \* the `invalidation` chain
    acked,      \* per URL, the epoch of its last acknowledged invalidation
    blind,      \* a write went on without a reading of the table
    miscounted, \* URLs whose body a failure or a deleted cache parted from its row
    starts, troubles    \* requests and hits, and failures, so far

vars == <<body, row, uses, tx, total, stale, sinceSync, reserved, epoch, op,
          locks, pass, inv, acked, blind, miscounted, starts, troubles>>

Unread == -1
NoBody == [size |-> 0, epoch |-> 0]
Idle == [at |-> "idle", url |-> "none", size |-> 0,
         epoch |-> 0, waits |-> 0, detached |-> FALSE, then |-> "put"]
NoPass == [at |-> "none", late |-> 0, voided |-> FALSE, seen |-> [u \in Url |-> 0],
           left |-> {}, projected |-> 0]

\* Stages of a tracked write (trackWrite), and those that hold a cache handle.
Opened == {"room", "queued", "landing"}
Writing == Opened \cup {"touching"}

Init ==
    /\ body = [u \in Url |-> NoBody]
    /\ row = [u \in Url |-> 0]
    /\ uses = {}
    /\ tx = <<>>
    /\ total = Unread
    /\ stale = TRUE
    /\ sinceSync = 0
    /\ reserved = 0
    /\ epoch = 0
    /\ op = [o \in Op |-> Idle]
    /\ locks = <<>>
    /\ pass = NoPass
    /\ inv = <<>>
    /\ acked = [u \in Url |-> 0]
    /\ blind = FALSE
    /\ miscounted = {}
    /\ starts = 0
    /\ troubles = 0

RowSum == MapThenSumSet(LAMBDA u : row[u], Url)
FirstTx(do) == tx # <<>> /\ Head(tx).do = do
MayHappen == starts + epoch + troubles < MaxEvents
Trouble == MayHappen /\ troubles' = troubles + 1

\* applyDelta: growth counts toward the resync schedule, and while a pass
\* reads the table it is remembered as bytes the snapshot may have missed.
ApplyDelta(d) ==
    /\ sinceSync' = IF d > 0 THEN sinceSync + 1 ELSE sinceSync
    /\ total' = IF total = Unread THEN Unread ELSE Max({0, total + d})
    /\ pass' = IF d > 0 /\ pass.at = "reading" THEN [pass EXCEPT !.late = @ + d] ELSE pass

\* Mutant: an invalidation waiting for the write is not told.
SettleInSilence(o) ==
    /\ op' = [op EXCEPT ![o] = Idle]
    /\ reserved' = Max({0, reserved - op[o].size})
    /\ UNCHANGED inv

\* The end of putBodyBounded: the promise leaves `writes`, its bytes are given up.
Settle(o) ==
    /\ op' = [op EXCEPT ![o] = Idle]
    /\ reserved' = Max({0, reserved - op[o].size})
    /\ inv' = [i \in DOMAIN inv |-> [inv[i] EXCEPT !.awaits = @ \ {o}]]

\* What follows ensureRoom: the second epoch check of putBodyBounded in the
\* step that calls cache.put, or the end of a write the quota refused.
Resume(o) ==
    \/ /\ op[o].then = "put" /\ op[o].epoch = epoch
       /\ op' = [op EXCEPT ![o].at = "landing"]
       /\ UNCHANGED <<reserved, inv>>
    \/ /\ op[o].then = "settle" \/ op[o].epoch # epoch
       /\ Settle(o)

(***************************************************************************)
(* A request and its response.                                              *)
(***************************************************************************)

\* sw.ts handle(): wait for the invalidation chain, then note the epoch.
Fetch(o) ==
    /\ op[o].at = "idle" /\ MayHappen
    /\ starts' = starts + 1
    /\ \E u \in Url, s \in Sizes :
          op' = [op EXCEPT ![o] = [Idle EXCEPT !.url = u, !.size = s, !.epoch = epoch,
                    !.waits = Len(inv), !.at = IF inv = <<>> THEN "fetching" ELSE "held"]]
    /\ UNCHANGED <<body, row, uses, tx, total, stale, sinceSync, reserved, epoch,
                   locks, pass, inv, acked, blind, troubles, miscounted>>

\* noteUse: the refresh is buffered, for a timer or for the next pass.
NoteUse(u) == uses' = uses \cup {u}

\* matchCached: a hit notes the use.
MatchCached(u) ==
    /\ body[u].size > 0 /\ u \notin uses
    /\ MayHappen /\ starts' = starts + 1
    /\ NoteUse(u)
    /\ UNCHANGED <<body, row, tx, total, stale, sinceSync, reserved, epoch, op,
                   locks, pass, inv, acked, blind, troubles, miscounted>>

\* cacheWhileConsumed keeps the chunks only while they fit the staging limit.
Stageable(size) == size <= StageLimit

\* cacheWhileConsumed drops its copy: abort, cancel, a broken body, or one
\* larger than the staging limit.
Discard(o) ==
    /\ op[o].at = "fetching"
    /\ op' = [op EXCEPT ![o] = Idle]
    /\ UNCHANGED <<body, row, uses, tx, total, stale, sinceSync, reserved, epoch,
                   locks, pass, inv, acked, blind, starts, troubles, miscounted>>

\* A clean end of the body: putBodyBounded begins unless the epoch moved.
Consume(o) ==
    /\ op[o].at = "fetching" /\ Stageable(op[o].size)
    /\ \/ /\ op[o].epoch = epoch
          /\ op' = [op EXCEPT ![o].at = "room"]
          /\ reserved' = reserved + op[o].size
       \/ /\ op[o].epoch # epoch
          /\ op' = [op EXCEPT ![o] = Idle]
          /\ UNCHANGED reserved
    /\ UNCHANGED <<body, row, uses, tx, total, stale, sinceSync, epoch, locks,
                   pass, inv, acked, blind, starts, troubles, miscounted>>

\* A response that forbids stored copies: removeCached deletes the body, then
\* forget() marks the total stale and drops the row.
RemoveCached(o) ==
    /\ op[o].at = "fetching" /\ op[o].epoch = epoch
    /\ body' = [body EXCEPT ![op[o].url] = NoBody]
    /\ stale' = TRUE
    /\ uses' = uses \ {op[o].url}
    /\ tx' = Append(tx, [do |-> "forget", by |-> o, url |-> op[o].url])
    /\ op' = [op EXCEPT ![o].at = "forgetting"]
    /\ UNCHANGED <<row, total, sinceSync, reserved, epoch, locks, pass, inv,
                   acked, blind, starts, troubles, miscounted>>

(***************************************************************************)
(* Room for a write.                                                         *)
(***************************************************************************)

\* Mutant: writes that have not landed are not seen.
FitsWithoutReserved ==
    /\ total # Unread /\ ~stale
    /\ sinceSync < SyncWriteLimit
    /\ total <= Budget - Reserve

\* fitsWithoutReading, for a reading that is recent enough.
FitsWithoutReading ==
    /\ total # Unread /\ ~stale
    /\ sinceSync < SyncWriteLimit
    /\ total + reserved <= Budget - Reserve

\* ensureRoom: arithmetic may answer at once; otherwise, or when the last
\* reading is too old, the request queues for the eviction lock.
EnsureRoom(o) ==
    /\ op[o].at = "room"
    /\ \/ /\ FitsWithoutReading
          /\ Resume(o)
          /\ UNCHANGED locks
       \/ /\ locks' = Append(locks, o)
          /\ op' = [op EXCEPT ![o].at = "queued"]
          /\ UNCHANGED <<reserved, inv>>
    /\ UNCHANGED <<body, row, uses, tx, total, stale, sinceSync, epoch, pass,
                   acked, blind, starts, troubles, miscounted>>

\* The lock's holder: the pass before it may have made room; if not it starts
\* evictFromTable, which first forces out the buffered refreshes.
TakeLock ==
    /\ locks # <<>> /\ pass.at = "none"
    /\ \/ /\ FitsWithoutReading
          /\ locks' = Tail(locks)
          /\ Resume(Head(locks))
          /\ UNCHANGED <<uses, tx, pass>>
       \/ /\ pass' = [NoPass EXCEPT !.at = "flushing"]
          /\ tx' = IF uses = {} THEN tx ELSE Append(tx, [do |-> "uses", urls |-> uses])
          /\ uses' = {}
          /\ UNCHANGED <<locks, op, reserved, inv>>
    /\ UNCHANGED <<body, row, total, stale, sinceSync, epoch, acked, blind, starts, troubles, miscounted>>

\* syncTotal begins once the refreshes have landed.
SyncTotal ==
    /\ pass.at = "flushing"
    /\ \A i \in DOMAIN tx : tx[i].do # "uses"
    /\ pass' = [pass EXCEPT !.at = "reading"]
    /\ tx' = Append(tx, [do |-> "read"])
    /\ UNCHANGED <<body, row, uses, total, stale, sinceSync, reserved, epoch, op,
                   locks, inv, acked, blind, starts, troubles, miscounted>>

\* The pass is over and its holder goes on.
ReleaseLock ==
    /\ pass' = NoPass
    /\ locks' = Tail(locks)
    /\ Resume(Head(locks))

\* The reading is adopted and the victims chosen from the same snapshot.
ReadAdopted ==
    /\ FirstTx("read") /\ ~pass.voided
    /\ tx' = Tail(tx)
    /\ total' = RowSum + pass.late
    /\ stale' = FALSE
    /\ sinceSync' = 0
    /\ \/ /\ total' + reserved <= Budget
          /\ blind' = FALSE
          /\ ReleaseLock
       \/ /\ total' + reserved > Budget
          /\ pass' = [pass EXCEPT !.at = "evicting", !.seen = row,
                         !.left = {u \in Url : row[u] > 0}, !.projected = total' + reserved]
          /\ UNCHANGED <<locks, op, reserved, inv, blind>>
    /\ UNCHANGED <<body, row, uses, epoch, acked, starts, troubles, miscounted>>

\* The reading failed, or the table was emptied under it: nothing is evicted.
ReadRefused ==
    /\ FirstTx("read")
    /\ \/ pass.voided /\ UNCHANGED troubles
       \/ ~pass.voided /\ Trouble
    /\ tx' = Tail(tx)
    /\ blind' = TRUE
    /\ ReleaseLock
    /\ UNCHANGED <<body, row, uses, total, stale, sinceSync, epoch, acked, starts, miscounted>>

\* One victim of evictFromTable: the body goes, then the row.
Evict(u) ==
    /\ pass.at = "evicting" /\ pass.projected > Budget /\ u \in pass.left
    /\ body' = [body EXCEPT ![u] = NoBody]
    /\ uses' = uses \ {u}
    /\ tx' = Append(tx, [do |-> "forget", by |-> "pass", url |-> u])
    /\ pass' = [pass EXCEPT !.at = "forgetting", !.left = @ \ {u}]
    /\ UNCHANGED <<row, total, stale, sinceSync, reserved, epoch, op, locks, inv,
                   acked, blind, starts, troubles, miscounted>>

EndPass ==
    /\ pass.at = "evicting"
    /\ pass.projected <= Budget \/ pass.left = {}
    /\ blind' = FALSE
    /\ ReleaseLock
    /\ UNCHANGED <<body, row, uses, tx, total, stale, sinceSync, epoch, acked,
                   starts, troubles, miscounted>>

(***************************************************************************)
(* The write itself.                                                         *)
(***************************************************************************)

\* cache.put lands, in nothing anyone can read when its cache was deleted after
\* the handle was opened; touch() is then under way.
Land(o) ==
    /\ op[o].at = "landing"
    /\ body' = IF op[o].detached THEN body
               ELSE [body EXCEPT ![op[o].url] = [size |-> op[o].size, epoch |-> op[o].epoch]]
    /\ tx' = Append(tx, [do |-> "touch", by |-> o, url |-> op[o].url])
    /\ op' = [op EXCEPT ![o].at = "touching"]
    /\ UNCHANGED <<row, uses, total, stale, sinceSync, reserved, epoch, locks,
                   pass, inv, acked, blind, starts, troubles, miscounted>>

\* cache.put throws: a quota error distrusts the total and makes room once
\* more; any other error just ends the write.
LandFails(o) ==
    /\ op[o].at = "landing" /\ Trouble
    /\ \/ /\ stale' = TRUE
          /\ op' = [op EXCEPT ![o].at = "room", ![o].then = "settle"]
          /\ UNCHANGED <<reserved, inv>>
       \/ Settle(o) /\ UNCHANGED stale
    /\ UNCHANGED <<body, row, uses, tx, total, sinceSync, epoch, locks, pass,
                   acked, blind, starts, miscounted>>

\* Mutant: a row that is there is taken for the body's.
TouchOnlyCreates ==
    /\ FirstTx("touch")
    /\ LET o == Head(tx).by IN
       /\ row' = [row EXCEPT ![op[o].url] = IF @ = 0 THEN op[o].size ELSE @]
       /\ ApplyDelta(IF row[op[o].url] = 0 THEN op[o].size ELSE 0)
       /\ miscounted' = IF op[o].detached THEN miscounted \cup {op[o].url}
                        ELSE miscounted \ {op[o].url}
       /\ Settle(o)
    /\ tx' = Tail(tx)
    /\ UNCHANGED <<body, uses, stale, epoch, locks, acked, blind, starts, troubles>>

\* touch(): the row moves the total by the difference to its previous size.
Touch ==
    /\ FirstTx("touch")
    /\ LET o == Head(tx).by IN
       /\ row' = [row EXCEPT ![op[o].url] = op[o].size]
       /\ ApplyDelta(op[o].size - row[op[o].url])
       /\ miscounted' = IF op[o].detached THEN miscounted \cup {op[o].url}
                        ELSE miscounted \ {op[o].url}
       /\ Settle(o)
    /\ tx' = Tail(tx)
    /\ UNCHANGED <<body, uses, stale, epoch, locks, acked, blind, starts, troubles>>

\* A transaction that fails is swallowed: the body stays, its row does not follow.
TouchFails ==
    /\ FirstTx("touch") /\ Trouble
    /\ Settle(Head(tx).by)
    /\ miscounted' = miscounted \cup {Head(tx).url}
    /\ tx' = Tail(tx)
    /\ UNCHANGED <<body, row, uses, total, stale, sinceSync, epoch, locks, pass,
                   acked, blind, starts>>

(***************************************************************************)
(* The rest of the table's traffic.                                          *)
(***************************************************************************)

\* runFlush, by its timer: the buffered refreshes become one transaction.
RunFlush ==
    /\ uses # {}
    /\ tx' = Append(tx, [do |-> "uses", urls |-> uses])
    /\ uses' = {}
    /\ UNCHANGED <<body, row, total, stale, sinceSync, reserved, epoch, op, locks,
                   pass, inv, acked, blind, starts, troubles, miscounted>>

\* writeUses refreshes the rows that still exist and recreates none; a stored
\* response carries no content-length, so their sizes stay.
WriteUses ==
    /\ FirstTx("uses")
    /\ tx' = Tail(tx)
    /\ UNCHANGED <<body, row, uses, total, stale, sinceSync, reserved, epoch, op, locks,
                   pass, inv, acked, blind, starts, troubles, miscounted>>

\* forgetEntry commits for a request, for the pass (which subtracts the size it
\* saw in its snapshot) or for an invalidation.
ForgetEntry ==
    /\ FirstTx("forget")
    /\ LET t == Head(tx) IN
       /\ row' = [row EXCEPT ![t.url] = 0]
       /\ miscounted' = miscounted \ {t.url}
       /\ \/ /\ t.by \in Op
             /\ op' = [op EXCEPT ![t.by] = Idle]
             /\ UNCHANGED <<total, pass, inv>>
          \/ /\ t.by = "pass"
             /\ total' = IF total = Unread THEN Unread ELSE Max({0, total - pass.seen[t.url]})
             /\ pass' = [pass EXCEPT !.at = "evicting", !.projected = @ - pass.seen[t.url]]
             /\ UNCHANGED <<op, inv>>
          \/ /\ t.by = "inv"
             /\ inv' = [inv EXCEPT ![1].at = "deleting"]
             /\ UNCHANGED <<op, total, pass>>
    /\ tx' = Tail(tx)
    /\ UNCHANGED <<body, uses, stale, sinceSync, reserved, epoch, locks, acked,
                   blind, starts, troubles>>

(***************************************************************************)
(* Invalidation, version changes and the worker's death.                     *)
(***************************************************************************)

\* Mutant: the invalidation does not wait for the writes under way.
InvalidateAtOnce(targets) ==
    /\ MayHappen /\ epoch < MaxEpochs
    /\ epoch' = epoch + 1
    /\ inv' = Append(inv, [at |-> "waiting", targets |-> targets, left |-> {},
                  epoch |-> epoch', awaits |-> {}])
    /\ UNCHANGED <<body, row, uses, tx, total, stale, sinceSync, reserved, op,
                   locks, pass, acked, blind, starts, troubles, miscounted>>

\* invalidateCaches: the epoch moves and the writes under way are remembered.
InvalidateCaches(targets) ==
    /\ MayHappen /\ epoch < MaxEpochs
    /\ epoch' = epoch + 1
    /\ inv' = Append(inv, [at |-> "waiting", targets |-> targets, left |-> {},
                  epoch |-> epoch', awaits |-> {o \in Op : op[o].at \in Writing}])
    /\ UNCHANGED <<body, row, uses, tx, total, stale, sinceSync, reserved, op,
                   locks, pass, acked, blind, starts, troubles, miscounted>>

\* Its turn, once those writes are over: the bookkeeping is voided.
InvalidationRuns ==
    /\ inv # <<>> /\ Head(inv).at = "waiting" /\ Head(inv).awaits = {}
    /\ inv' = [inv EXCEPT ![1].at = "deleting",
                          ![1].left = {u \in Head(inv).targets : body[u].size > 0}]
    /\ pass' = [pass EXCEPT !.voided = (pass.at = "reading")]
    /\ uses' = {}
    /\ total' = 0
    /\ stale' = TRUE
    /\ UNCHANGED <<body, row, tx, sinceSync, reserved, epoch, op, locks, acked,
                   blind, starts, troubles, miscounted>>

\* A selective invalidation: one entry at a time, body then row.
DeleteEntry(u) ==
    /\ inv # <<>> /\ Head(inv).at = "deleting" /\ Head(inv).targets # Url
    /\ u \in Head(inv).left
    /\ body' = [body EXCEPT ![u] = NoBody]
    /\ uses' = uses \ {u}
    /\ tx' = Append(tx, [do |-> "forget", by |-> "inv", url |-> u])
    /\ inv' = [inv EXCEPT ![1].at = "forgetting", ![1].left = @ \ {u}]
    /\ UNCHANGED <<row, total, stale, sinceSync, reserved, epoch, op, locks, pass,
                   acked, blind, starts, troubles, miscounted>>

\* A full one deletes the caches, under any handle already opened, then clears
\* the table.
DeleteCaches ==
    /\ inv # <<>> /\ Head(inv).at = "deleting" /\ Head(inv).targets = Url
    /\ body' = [u \in Url |-> NoBody]
    /\ op' = [o \in Op |-> [op[o] EXCEPT !.detached = op[o].at \in Opened]]
    /\ tx' = Append(tx, [do |-> "clear"])
    /\ inv' = [inv EXCEPT ![1].at = "clearing", ![1].left = {}]
    /\ UNCHANGED <<row, uses, total, stale, sinceSync, reserved, epoch, locks,
                   pass, acked, blind, starts, troubles, miscounted>>

\* The answer to the page. Requests held for it note the epoch now.
Acknowledge ==
    /\ acked' = [u \in Url |-> IF u \in Head(inv).targets THEN Head(inv).epoch ELSE acked[u]]
    /\ inv' = Tail(inv)
    /\ op' = [o \in Op |->
                IF op[o].at # "held" THEN op[o]
                ELSE [op[o] EXCEPT !.waits = @ - 1, !.epoch = epoch,
                                   !.at = IF op[o].waits = 1 THEN "fetching" ELSE "held"]]

ClearTable ==
    /\ FirstTx("clear")
    /\ row' = [u \in Url |-> 0]
    /\ miscounted' = {}
    /\ tx' = Tail(tx)
    /\ Acknowledge
    /\ UNCHANGED <<body, uses, total, stale, sinceSync, reserved, epoch, locks,
                   pass, blind, starts, troubles>>

EndInvalidation ==
    /\ inv # <<>> /\ Head(inv).at = "deleting"
    /\ Head(inv).targets # Url /\ Head(inv).left = {}
    /\ Acknowledge
    /\ UNCHANGED <<body, row, uses, tx, total, stale, sinceSync, reserved, epoch,
                   locks, pass, blind, starts, troubles, miscounted>>

\* useVersion: the epoch moves; this cache is shared by all versions.
UseVersion ==
    /\ MayHappen /\ epoch < MaxEpochs
    /\ epoch' = epoch + 1
    /\ UNCHANGED <<body, row, uses, tx, total, stale, sinceSync, reserved, op,
                   locks, pass, inv, acked, blind, starts, troubles, miscounted>>

\* The table has work left for a URL.
TxOn(u) == \E i \in DOMAIN tx :
    tx[i].do = "clear" \/ (tx[i].do \in {"touch", "forget"} /\ tx[i].url = u)

\* The browser kills the worker; bodies and committed rows remain.
Restart ==
    /\ Trouble
    /\ tx # <<>> \/ \E o \in Op : op[o].at # "idle"
    /\ uses' = {} /\ tx' = <<>> /\ locks' = <<>> /\ inv' = <<>>
    /\ total' = Unread /\ stale' = TRUE /\ sinceSync' = 0 /\ reserved' = 0
    /\ op' = [o \in Op |-> Idle]
    /\ pass' = NoPass
    /\ miscounted' = miscounted \cup {u \in Url : TxOn(u)}
    /\ UNCHANGED <<body, row, epoch, acked, blind, starts>>

\* What the worker and its stores carry on with by themselves.
Step ==
    \/ \E o \in Op : Discard(o) \/ Consume(o) \/ EnsureRoom(o) \/ Land(o)
    \/ TakeLock \/ SyncTotal \/ ReadAdopted \/ ReadRefused \/ EndPass
    \/ \E u \in Url : Evict(u) \/ DeleteEntry(u)
    \/ Touch \/ RunFlush \/ WriteUses \/ ForgetEntry \/ ClearTable
    \/ InvalidationRuns \/ DeleteCaches \/ EndInvalidation

\* What the page, the origin and failing storage decide.
Environment ==
    \/ \E o \in Op : Fetch(o) \/ RemoveCached(o) \/ LandFails(o)
    \/ \E u \in Url : MatchCached(u)
    \/ \E ts \in SUBSET Url : ts # {} /\ InvalidateCaches(ts)
    \/ UseVersion \/ TouchFails \/ Restart

Next == Step \/ Environment

Spec == Init /\ [][Next]_vars

(***************************************************************************)
(* Properties.                                                               *)
(***************************************************************************)

\* cache.ts:887 "cannot repopulate cache": once an invalidation is
\* acknowledged no URL it named holds a body requested before it, however the
\* writes, passes and other invalidations in flight were interleaved.
OldEpochStaysOut ==
    \A u \in Url : body[u].size > 0 => body[u].epoch >= acked[u]

\* With no storage failure or restart in between, every stored body has a row of
\* its own size, and every row a body, as soon as the table has no work left for
\* the URL: no eviction, removal, invalidation or buffered refresh racing a
\* rewrite leaves bytes nobody counts or counts bytes that are gone.
EveryBodyIsCounted ==
    \A u \in Url \ miscounted : ~TxOn(u) => row[u] = body[u].size

\* cache.ts:388 "never an overrun": what the table accounts for stays within
\* the budget, except from a pass that could not read to the end of the next that could.
WithinBudget ==
    ~blind => MapThenSumSet(LAMBDA u : body[u].size, Url \ miscounted) <= Budget

\* Nothing is left waiting: when neither the worker nor its stores have a step
\* to take, every request has ended, every pass has run and every invalidation
\* has been answered, although passes wait for flushes, writes for passes,
\* invalidations for writes and requests for invalidations.
NobodyIsLeftWaiting ==
    \/ /\ \A o \in Op : op[o].at = "idle"
       /\ inv = <<>> /\ locks = <<>> /\ tx = <<>>
    \/ ENABLED Step
=============================================================================
