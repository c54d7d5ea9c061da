---------------------------- MODULE WorkerFetch ----------------------------
(***************************************************************************)
(* How the service worker answers a request (packages/loader/src/sw.ts,     *)
(* handle and revalidate): from its cache, from the carrier page's          *)
(* transport, or on a directly hosted origin from the network; and what it   *)
(* may leave behind in the cache while invalidations, build changes and the  *)
(* loss of the carrier happen between its awaits.                            *)
(*                                                                           *)
(* One URL is modelled. A body is its content version at the origin with     *)
(* its caching orders. A store is one step here: BodyCache shows that a      *)
(* write that passed its epoch check lands before the invalidation that      *)
(* would delete it.                                                          *)
(***************************************************************************)
EXTENDS Naturals, Sequences

CONSTANTS
    Request,            \* the requests, each made once
    Shapes,             \* what pages ask for: [top, always, mode]; top is "no" for what
                        \* is no top-level navigation, "shell" for the shell's own path
    Orders,             \* the origin's caching orders: "plain", "maxage", "mustrev", "nostore"
    Targets,            \* what the URL may be: [path, use], see classifyRequest
    MaxOrigin, FetchEpochs      \* bounds of the instance

RequestModes ==
    {"default", "no-cache", "no-store", "reload", "force-cache", "only-if-cached"}

ASSUME FetchAssumption ==
    /\ Shapes \subseteq [top : {"no", "app", "shell"}, always : BOOLEAN, mode : RequestModes]
    /\ Orders \subseteq {"plain", "maxage", "mustrev", "nostore"}

VARIABLES
    policy,     \* the URL's cache policy (routing.ts)
    expected,   \* transportExpected(): this origin uses the transport
    origin,     \* the representation the content node serves now
    carrier,    \* the carrier's port: "up", "dying" (page gone, port held) or "down"
    entry,      \* the stored representation, or None
    fetchEpoch, \* cacheEpoch
    invalidations,  \* pending ones: the origin's content each was asked at
    floor,      \* the newest such content among acknowledged ones
    req,        \* the requests
    rv          \* the URL's revalidation in flight

fetchVars == <<policy, expected, origin, carrier, entry, fetchEpoch, invalidations, floor,
               req, rv>>
fixed == <<policy, expected>>

None == [content |-> 0, orders |-> "none"]

\* What an answer says about storing it. "nostore" stands for every answer that
\* responseForbidsStoredFallback names, "failure" for the other statuses that
\* are not ok, "mustrev" for no-cache and must-revalidate.
Failure == [content |-> 0, orders |-> "failure"]
Storable == Orders \ {"nostore"}

NoRequest == [at |-> "idle", top |-> "no", always |-> FALSE, mode |-> "default",
         epoch |-> 0, waits |-> 0, floor |-> 0, connected |-> FALSE, fresh |-> FALSE,
         hit |-> None, answer |-> None, validated |-> FALSE, via |-> "none"]

\* routing.ts. A path is an API path, content-hashed build output, a cover or
\* launcher, another file of the store ("bundle"), a page or anything else.
POLICY == [shell |-> "immutable", route |-> "swr", cover |-> "lru", payload |-> "never",
           api |-> "never", other |-> "revalidate"]

classify == [api |-> "api", hashed |-> "shell", cover |-> "cover", bundle |-> "payload",
             page |-> "route", file |-> "other"]

\* use is what the browser fetches it for: "navigate", "image", "code" (scripts,
\* styles, fonts, workers) or "data".
classifyRequest(target) ==
    IF target.use = "navigate" THEN "route"
    ELSE IF classify[target.path] \in {"api", "shell"} THEN classify[target.path]
    ELSE IF target.use = "image" THEN "cover"
    ELSE IF target.use = "code" THEN "other"
    ELSE classify[target.path]

\* A static deployment keeps payloads too, and validates them.
CachePolicy(target) ==
    LET kind == classifyRequest(target)
    IN IF kind = "payload" /\ expected THEN "revalidate" ELSE POLICY[kind]

FetchInit ==
    /\ expected \in BOOLEAN
    /\ policy \in {CachePolicy(target) : target \in Targets}
    /\ origin \in [content : {1}, orders : Orders]
    /\ carrier \in IF expected THEN {"up", "down"} ELSE {"down"}
    /\ entry \in {None, origin}
    /\ entry # None => entry.orders \in Storable /\ policy # "never"
    /\ fetchEpoch = 0 /\ invalidations = <<>> /\ floor = 0
    /\ req = [r \in Request |-> NoRequest]
    /\ rv = NoRequest

ForbidsStale(e) == e.orders \in {"mustrev", "nostore"}
HasExplicitFreshness(e) == e.orders \in {"maxage", "mustrev"}
\* cachedResponseIsFresh: the clock decides for an entry with an age limit.
MayBeFresh(e) == IF HasExplicitFreshness(e) THEN BOOLEAN ELSE {FALSE}
CacheReadAllowed(q) == q.mode \notin {"no-store", "reload"}
ForceCached(q) == q.mode \in {"force-cache", "only-if-cached"}

\* A request's record once its answer is settled.
Served(q, e, how) ==
    [NoRequest EXCEPT !.at = "served", !.floor = q.floor, !.answer = e, !.via = how,
                 !.fresh = q.fresh, !.mode = IF ForceCached(q) THEN q.mode ELSE "default"]

\* Where handle() goes when the cache gave no answer.
AfterCache(q) ==
    IF q.mode = "only-if-cached" THEN Served(q, None, "gateway-timeout")
    ELSE [q EXCEPT !.at = IF ~q.connected /\ ~expected THEN "network" ELSE "transport",
                   !.top = "no", !.always = FALSE, !.connected = FALSE, !.fresh = FALSE]

\* Mutant: the epoch is not looked at again.
StoredWhenever(q) ==
    IF q.answer.orders \in Storable /\ q.mode # "no-store" /\ policy # "never"
    THEN q.answer ELSE entry

\* putBounded and cacheWhileConsumed: an answer that may be stored replaces the
\* entry unless the epoch moved since the request noted it.
Stored(q) ==
    IF /\ q.epoch = fetchEpoch /\ q.answer.orders \in Storable
       /\ q.mode # "no-store" /\ policy # "never"
    THEN q.answer ELSE entry

\* The content the origin had at the latest invalidation asked for.
AskedAt == IF invalidations = <<>> THEN floor ELSE invalidations[Len(invalidations)]

\* The fetch event and the start of handle(): wait for the invalidations asked
\* for so far, then note the epoch.
Begin(r) ==
    /\ req[r].at = "idle"
    /\ \E s \in {s \in Shapes : s.top # "no" => policy = "swr"} :
          req' = [req EXCEPT ![r] = [NoRequest EXCEPT !.top = s.top, !.always = s.always,
                     !.mode = s.mode, !.epoch = fetchEpoch, !.floor = AskedAt,
                     !.waits = Len(invalidations),
                     !.at = IF invalidations = <<>> THEN "routing" ELSE "held"]]
    /\ UNCHANGED <<fixed, origin, carrier, entry, fetchEpoch, invalidations, floor, rv>>

\* Top-level navigations get the static shell; the rest learn whether the
\* carrier is there and whether the cache may be read. isConnected asks the
\* browser for the owner and lets a dead one go; isLikelyConnected may still
\* trust a recent confirmation.
Route(r) ==
    /\ req[r].at = "routing"
    /\ LET q == req[r]
           shell == q.top = "shell" \/ (q.top = "app" /\ expected)
           likely == ~q.always /\ expected /\ carrier = "dying"
       IN
       \/ /\ shell
          /\ req' = [req EXCEPT ![r] = Served(q, None, "shell")]
          /\ UNCHANGED carrier
       \/ /\ ~shell
          /\ \E c \in IF likely THEN BOOLEAN ELSE {carrier = "up"} :
                LET known == [q EXCEPT !.connected = c]
                    readable == /\ policy # "never" /\ (policy = "revalidate" => expected)
                                /\ CacheReadAllowed(q)
                                /\ ~(q.always /\ (c \/ ~expected))
                IN
                /\ req' = [req EXCEPT ![r] =
                              IF readable THEN [known EXCEPT !.at = "matching"]
                              ELSE AfterCache(known)]
                /\ carrier' = IF c THEN carrier ELSE "down"
    /\ UNCHANGED <<fixed, origin, entry, fetchEpoch, invalidations, floor, rv>>

\* matchCached reads the entry; handle() continues with it in a later task.
LookUp(r) ==
    /\ req[r].at = "matching"
    /\ req' = [req EXCEPT ![r].hit = entry, ![r].at = "deciding"]
    /\ UNCHANGED <<fixed, origin, carrier, entry, fetchEpoch, invalidations, floor, rv>>

\* Mutant: without a carrier anything stored is good enough.
UsableOffline(q) ==
    \/ ForceCached(q)
    \/ policy # "revalidate" /\ q.mode # "no-cache" /\ ~HasExplicitFreshness(q.hit)
    \/ q.mode # "no-cache" /\ q.fresh
    \/ ~q.connected

\* The condition under which handle() returns the hit as it is.
Usable(q) ==
    \/ ForceCached(q)
    \/ policy # "revalidate" /\ q.mode # "no-cache" /\ ~HasExplicitFreshness(q.hit)
    \/ q.mode # "no-cache" /\ q.fresh
    \/ ~q.connected /\ ~ForbidsStale(q.hit)

\* The hit starts a background revalidation, one per URL, and is served or
\* held as validator and fallback.
Decide(r) ==
    /\ req[r].at = "deciding"
    /\ \/ /\ req[r].hit = None
          /\ req' = [req EXCEPT ![r] = AfterCache(req[r])]
          /\ UNCHANGED rv
       \/ /\ req[r].hit # None
          /\ rv' = IF /\ policy = "swr" /\ req[r].connected /\ req[r].mode # "no-cache"
                      /\ ~ForbidsStale(req[r].hit) /\ rv.at = "idle"
                   THEN [NoRequest EXCEPT !.at = "transport", !.epoch = fetchEpoch,
                                          !.hit = req[r].hit]
                   ELSE rv
          /\ \E f \in MayBeFresh(req[r].hit) :
                LET q == [req[r] EXCEPT !.fresh = f] IN
                req' = [req EXCEPT ![r] = IF Usable(q) THEN Served(q, q.hit, "hit")
                                          ELSE AfterCache(q)]
    /\ UNCHANGED <<fixed, origin, carrier, entry, fetchEpoch, invalidations, floor>>

\* A directly hosted origin: the network, or the stored copy when it fails.
FromNetwork(r) ==
    /\ req[r].at = "network"
    /\ \/ req' = [req EXCEPT ![r] = Served(req[r], origin, "origin")]
       \/ req' = [req EXCEPT ![r] =
                    IF entry # None /\ CacheReadAllowed(req[r]) /\ ~ForbidsStale(entry)
                    THEN Served(req[r], entry, "stale") ELSE Served(req[r], None, "error")]
    /\ UNCHANGED <<fixed, origin, carrier, entry, fetchEpoch, invalidations, floor, rv>>

\* What the content node may answer to a conditional or plain request: 304 when
\* the held representation is still the current one, or a full answer.
Answers(q) ==
    {[q EXCEPT !.at = "answered", !.answer = e,
               !.validated = e # Failure /\ q.hit.content = e.content] :
        e \in {origin, Failure}}

\* fromTransport: the node answers through the carrier, ...
FromTransport(r) ==
    /\ req[r].at = "transport" /\ carrier = "up"
    /\ \E q \in Answers(req[r]) : req' = [req EXCEPT ![r] = q]
    /\ UNCHANGED <<fixed, origin, carrier, entry, fetchEpoch, invalidations, floor, rv>>

\* ... or the request fails: no carrier in time, a dead one, a node error. A
\* held or stored copy that allows stale use beats the error page.
TransportFails(r) ==
    /\ req[r].at = "transport"
    /\ LET q == req[r]
           copy == IF q.hit # None THEN q.hit ELSE IF policy # "never" THEN entry ELSE None
       IN req' = [req EXCEPT ![r] =
                    IF copy # None /\ CacheReadAllowed(q) /\ ~ForbidsStale(copy)
                    THEN Served(q, copy, "stale") ELSE Served(q, None, "error")]
    /\ UNCHANGED <<fixed, origin, carrier, entry, fetchEpoch, invalidations, floor, rv>>

\* The answer arrives: one that forbids stored copies removes the entry if the
\* epoch has not moved; a 304 refreshes it; a full body waits for its reader.
Answered(r) ==
    /\ req[r].at = "answered"
    /\ LET q == req[r] IN
       \/ /\ q.answer.orders = "nostore"
          /\ entry' = IF q.epoch = fetchEpoch THEN None ELSE entry
          /\ req' = [req EXCEPT ![r] = Served(q, q.answer, "origin")]
       \/ /\ q.answer.orders # "nostore" /\ q.validated
          /\ entry' = Stored(q)
          /\ req' = [req EXCEPT ![r] = Served(q, q.answer, "origin")]
       \/ /\ q.answer.orders # "nostore" /\ ~q.validated
          /\ req' = [req EXCEPT ![r] = IF q.answer = Failure THEN Served(q, q.answer, "origin")
                                    ELSE [q EXCEPT !.at = "consuming", !.hit = None]]
          /\ UNCHANGED entry
    /\ UNCHANGED <<fixed, origin, carrier, fetchEpoch, invalidations, floor, rv>>

\* cacheWhileConsumed: only a body read to its end is stored.
ConsumeAnswer(r) ==
    /\ req[r].at = "consuming"
    /\ \E whole \in BOOLEAN : entry' = IF whole THEN Stored(req[r]) ELSE entry
    /\ req' = [req EXCEPT ![r] = Served(req[r], req[r].answer, "origin")]
    /\ UNCHANGED <<fixed, origin, carrier, fetchEpoch, invalidations, floor, rv>>

(***************************************************************************)
(* revalidate, in the background.                                            *)
(***************************************************************************)

RevalidateAsks ==
    /\ rv.at = "transport"
    /\ \/ carrier = "up" /\ rv' \in Answers(rv)
       \/ rv' = NoRequest
    /\ UNCHANGED <<fixed, origin, carrier, entry, fetchEpoch, invalidations, floor, req>>

\* A replacement is stored under the epoch the revalidation began in; an answer
\* that forbids stored copies removes the entry whatever the epoch.
RevalidateEnds ==
    /\ rv.at = "answered"
    /\ entry' = IF rv.answer.orders = "nostore" /\ ~rv.validated THEN None
                ELSE Stored(rv)
    /\ rv' = NoRequest
    /\ UNCHANGED <<fixed, origin, carrier, fetchEpoch, invalidations, floor, req>>

(***************************************************************************)
(* The surroundings.                                                         *)
(***************************************************************************)

\* The site publishes new content.
Publish ==
    /\ origin.content < MaxOrigin
    /\ origin' \in [content : {origin.content + 1}, orders : Orders]
    /\ UNCHANGED <<fixed, carrier, entry, fetchEpoch, invalidations, floor, req, rv>>

\* INVALIDATE_CACHE or CLEAR_CACHE: the epoch moves at once.
Invalidate ==
    /\ fetchEpoch < FetchEpochs
    /\ fetchEpoch' = fetchEpoch + 1
    /\ invalidations' = Append(invalidations, origin.content)
    /\ UNCHANGED <<fixed, origin, carrier, entry, floor, req, rv>>

\* Its turn: the entry is deleted and the page is answered; requests held for
\* it note the epoch.
InvalidationDone ==
    /\ invalidations # <<>>
    /\ entry' = None
    /\ floor' = IF Head(invalidations) > floor THEN Head(invalidations) ELSE floor
    /\ invalidations' = Tail(invalidations)
    /\ req' = [r \in Request |->
                IF req[r].at # "held" THEN req[r]
                ELSE [req[r] EXCEPT !.waits = @ - 1, !.epoch = fetchEpoch,
                                    !.at = IF req[r].waits = 1 THEN "routing" ELSE "held"]]
    /\ UNCHANGED <<fixed, origin, carrier, fetchEpoch, rv>>

\* useVersion: the epoch moves; shell and route caches are named by version,
\* the LRU cache is not.
FetchUseVersion ==
    /\ fetchEpoch < FetchEpochs
    /\ fetchEpoch' = fetchEpoch + 1
    /\ entry' = IF policy \in {"swr", "immutable"} THEN None ELSE entry
    /\ UNCHANGED <<fixed, origin, carrier, invalidations, floor, req, rv>>

CarrierChanges ==
    /\ expected
    /\ carrier' \in {"up", "dying", "down"} \ {carrier}
    /\ (carrier' = "dying") => (carrier = "up")
    /\ \E r \in Request : req[r].at # "served"
    /\ UNCHANGED <<fixed, origin, entry, fetchEpoch, invalidations, floor, req, rv>>

FetchStep ==
    \/ \E r \in Request : \/ Route(r) \/ LookUp(r) \/ Decide(r) \/ FromNetwork(r)
                          \/ FromTransport(r) \/ TransportFails(r) \/ Answered(r)
                          \/ ConsumeAnswer(r)
    \/ RevalidateAsks \/ RevalidateEnds \/ InvalidationDone

FetchNext ==
    \/ FetchStep
    \/ \E r \in Request : Begin(r)
    \/ Publish \/ Invalidate \/ FetchUseVersion \/ CarrierChanges

FetchSpec == FetchInit /\ [][FetchNext]_fetchVars

(***************************************************************************)
(* Properties.                                                               *)
(***************************************************************************)

\* An invalidation holds. Once acknowledged, the cache never again has content
\* older than the origin had when it was asked for: no response in flight, no 304
\* over a copy matched earlier and no background revalidation puts it back. And
\* a request made after one was asked for, acknowledged or not, is never answered
\* with older content, not even from a fallback or validator held over an await.
InvalidationHolds ==
    /\ entry # None => entry.content >= floor
    /\ \A r \in Request :
          req[r].at \in {"consuming", "served"} /\ req[r].answer \notin {None, Failure} =>
              req[r].answer.content >= req[r].floor

\* A representation whose orders forbid stale use is never served past its age
\* without asking the origin, connected or not, unless the request itself
\* demands the cached copy.
OrdersAreKept ==
    \A r \in Request :
        /\ req[r].via \in {"hit", "stale"} /\ ForbidsStale(req[r].answer)
        => req[r].via = "hit" /\ (req[r].fresh \/ ForceCached(req[r]))
=============================================================================
