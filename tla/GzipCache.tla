----------------------------- MODULE GzipCache -----------------------------
(***************************************************************************)
(* The node's cache of compressed static files (content-node/static_wire.go: *)
(* wireGzipCache): an LRU of results, positive and negative, keyed by path    *)
(* and file identity, with one index by key and one by path, and flights      *)
(* that let concurrent misses of a key share one build. What happens under    *)
(* the cache's mutex is one step. A file is a path and an edition, which       *)
(* stands for its size and modification time.                                 *)
(***************************************************************************)
EXTENDS Integers, Sequences, FiniteSets, Sums

CONSTANTS
    Path, Edition,
    Loader,                 \* handlers that call load
    ResultSizes,            \* sizes of compressed files; 0: not worth it
    EntryBytes, CacheBytes, CacheEntries, Builds    \* the limits

ASSUME GzipAssumption ==
    /\ ResultSizes \subseteq Nat /\ Edition \subseteq Nat \ {0}
    /\ {CacheEntries, Builds} \subseteq Nat \ {0} /\ IsFiniteSet(Loader)
    /\ EntryBytes \in 0 .. CacheBytes /\ CacheBytes \in Nat

VARIABLES
    cache,      \* lru (the most recent first), paths and used
    flights,    \* keys being built
    builds,     \* build slots taken
    loads       \* the loaders' calls

gzipVars == <<cache, flights, builds, loads>>

Key == [path : Path, edition : Edition]
NoEdition == 0
Failed == -1
NoLoad == [at |-> "idle", cancelled |-> FALSE, key |-> "none", result |-> 0]

GzipInit ==
    /\ cache = [lru |-> <<>>, paths |-> [f \in Path |-> NoEdition], used |-> 0]
    /\ flights = {} /\ builds = 0
    /\ loads = [l \in Loader |-> NoLoad]

\* The index by key is the list's own: both change together.
EntryOf(c, k) == {i \in DOMAIN c.lru : c.lru[i].key = k}

\* removeLocked: the path of the entry is forgotten, whatever it names.
removeLocked(c, i) ==
    [lru |-> Without(c.lru, i), used |-> c.used - c.lru[i].size,
     paths |-> [c.paths EXCEPT ![c.lru[i].key.path] = NoEdition]]

\* Mutant: the entry of an older edition is left to age.
KeepOld(c, k) == c

\* An older edition of the file makes way.
DropOld(c, k) ==
    IF c.paths[k.path] = NoEdition THEN c
    ELSE removeLocked(c, CHOOSE i \in EntryOf(c, [k EXCEPT !.edition = c.paths[k.path]]) : TRUE)

\* The oldest entries go until both limits hold.
Shrink(c) ==
    IF c.used > CacheBytes \/ Len(c.lru) > CacheEntries THEN removeLocked(c, Len(c.lru)) ELSE c
Evict(c) ==
    LET shrunk[n \in 0..Len(c.lru)] == IF n = 0 THEN c ELSE Shrink(shrunk[n - 1])
    IN shrunk[Len(c.lru)]

\* storeResultLocked: results too large are not kept.
storeResultLocked(k, size) ==
    LET dropped == DropOld(cache, k)
    IN IF size > EntryBytes THEN cache
       ELSE Evict([lru |-> <<[key |-> k, size |-> size]>> \o dropped.lru,
                   paths |-> [dropped.paths EXCEPT ![k.path] = k.edition],
                   used |-> dropped.used + size])

\* load: a hit moves to the front, a flight is joined, or one is begun.
load(l, k) ==
    /\ loads[l].at = "idle"
    /\ LET call(at) == [loads EXCEPT ![l] = [NoLoad EXCEPT !.at = at, !.key = k]]
       IN
       \/ \E i \in EntryOf(cache, k) :
             /\ cache' = [cache EXCEPT !.lru = <<@[i]>> \o Without(@, i)]
             /\ UNCHANGED <<flights, loads>>
       \/ /\ EntryOf(cache, k) = {} /\ k \in flights
          /\ loads' = call("joined") /\ UNCHANGED <<cache, flights>>
       \/ /\ EntryOf(cache, k) = {} /\ k \notin flights
          /\ flights' = flights \cup {k} /\ loads' = call("waiting")
          /\ UNCHANGED cache
    /\ UNCHANGED builds

\* The request ends while it loads; a follower then leaves its flight.
CancelLoad(l) ==
    /\ loads[l].at # "idle" /\ ~loads[l].cancelled
    /\ loads' = [loads EXCEPT ![l].cancelled = TRUE]
    /\ UNCHANGED <<cache, flights, builds>>

FollowerLeaves(l) ==
    /\ loads[l].at = "joined" /\ loads[l].cancelled
    /\ loads' = [loads EXCEPT ![l] = NoLoad]
    /\ UNCHANGED <<cache, flights, builds>>

\* The leader takes a build slot, or its context ends first.
TakeBuild(l) ==
    /\ loads[l].at = "waiting"
    /\ \/ /\ builds < Builds /\ builds' = builds + 1
          /\ loads' = [loads EXCEPT ![l].at = "building"]
       \/ /\ loads[l].cancelled
          /\ loads' = [loads EXCEPT ![l].at = "landing", ![l].result = Failed]
          /\ UNCHANGED builds
    /\ UNCHANGED <<cache, flights>>

\* compressWireGzip: a result, a refusal (no bytes), or a read error.
Build(l) ==
    /\ loads[l].at = "building" /\ builds' = builds - 1
    /\ \E r \in ResultSizes \cup {Failed} :
          loads' = [loads EXCEPT ![l].at = "landing", ![l].result = r]
    /\ UNCHANGED <<cache, flights>>

\* The flight lands: stored unless it failed or the leader's request ended, and
\* handed, error or not, to those who joined.
Land(l) ==
    LET k == loads[l].key IN
    /\ loads[l].at = "landing"
    /\ cache' = IF loads[l].result = Failed \/ loads[l].cancelled THEN cache
                ELSE storeResultLocked(k, loads[l].result)
    /\ flights' = flights \ {k}
    /\ loads' = [m \in Loader |->
                   IF m = l \/ (loads[m].at = "joined" /\ loads[m].key = k) THEN NoLoad ELSE loads[m]]
    /\ UNCHANGED builds

GzipNext ==
    \E l \in Loader : \/ \E k \in Key : load(l, k)
                      \/ CancelLoad(l) \/ FollowerLeaves(l) \/ TakeBuild(l) \/ Build(l) \/ Land(l)

GzipSpec == GzipInit /\ [][GzipNext]_gzipVars

(***************************************************************************)
(* Properties.                                                               *)
(***************************************************************************)

Leads(l) == loads[l].at \in {"waiting", "building", "landing"}

\* Hits, evictions, newer editions, failed and abandoned builds leave the cache
\* consistent: the two indexes agree on one entry per file, the bytes are exact
\* and both limits hold. A key is built by one loader at a time, whoever joined
\* it has that leader to wait for, and no build slot is lost.
GzipCacheAgrees ==
    /\ cache.used = Total([i \in DOMAIN cache.lru |-> cache.lru[i].size])
    /\ cache.used <= CacheBytes /\ Len(cache.lru) <= CacheEntries
    /\ \A f \in Path :
          LET kept == {i \in DOMAIN cache.lru : cache.lru[i].key.path = f} IN
          IF cache.paths[f] = NoEdition THEN kept = {}
          ELSE \E i \in kept : kept = {i} /\ cache.lru[i].key.edition = cache.paths[f]
    /\ \A k \in Key : Cardinality({l \in Loader : Leads(l) /\ loads[l].key = k}) = (IF k \in flights THEN 1 ELSE 0)
    /\ \A l \in Loader : loads[l].at = "joined" => loads[l].key \in flights
    /\ builds = Cardinality({l \in Loader : loads[l].at = "building"})
=============================================================================
