----------------------------- MODULE WorkerBoot -----------------------------
(***************************************************************************)
(* What the service worker knows about the site it serves: the bootstrap     *)
(* that rebuilds a transport and the site's build version                     *)
(* (packages/loader/src/sw.ts: restoreBootstrap, rememberBootstrap,           *)
(* adoptSiteVersion, activate; inject.ts: mergeBootstrap, saveBootstrap,      *)
(* loadBootstrap; session.ts: configureSession).                              *)
(*                                                                           *)
(* The worker may be stopped at any await and started again with nothing but *)
(* what IndexedDB holds. Loads and saves of the bootstrap go through one     *)
(* database and take effect in the order they were issued. The worker of an  *)
(* unversioned, static deployment is modelled: the one that takes versions.  *)
(***************************************************************************)
EXTENDS Naturals, Sequences

CONSTANTS
    BootOp,         \* operations in flight at once
    Version,        \* build versions of the transported site
    MaxOps, MaxRestarts, BootTroubles    \* bounds of the instance

ASSUME VersionAssumption == Version \cap {"0", "nothing"} = {}

VARIABLES
    mem,        \* bootstrap, or Nothing
    disk,       \* the record in IndexedDB, or Nothing
    io,         \* loads and saves issued and not yet done
    active,     \* activeBuildVersion
    storage,    \* where the deployment's configuration keeps the session
    jar,        \* memoryOnly has been set for it
    caches,     \* build versions that have shell and route caches
    bootOp,     \* the operations in flight
    turn,       \* siteVersionTransition: adoptions in the order they were asked for
    handed,     \* the build this worker was last handed, or "0"
    told,       \* the version pages were last told of, or "0"
    lost,       \* a save failed or died with the worker
    ops, restarts, bootTroubles

bootVars == <<mem, disk, io, active, storage, jar, caches, bootOp, turn, handed, told,
          lost, ops, restarts, bootTroubles>>
ghosts == <<ops, restarts, bootTroubles, storage>>

Unversioned == "0"
Nothing == [shell |-> FALSE, version |-> "nothing"]
Bootstrap == [shell : BOOLEAN, version : Version \cup {Unversioned}]

NoOperation == [kind |-> "none", at |-> "idle", value |-> Nothing, loaded |-> Nothing,
                change |-> FALSE]

BootInit ==
    /\ disk \in Bootstrap \cup {Nothing}
    /\ storage \in {"persistent", "memory"}
    /\ mem = Nothing /\ active = Unversioned /\ jar = FALSE
    /\ io = <<>> /\ turn = <<>>
    /\ caches \in SUBSET Version
    /\ bootOp = [o \in BootOp |-> NoOperation]
    /\ handed = Unversioned /\ lost = FALSE
    /\ told = IF disk = Nothing THEN Unversioned ELSE disk.version
    /\ ops = 0 /\ restarts = 0 /\ bootTroubles = 0

\* Mutant: only the version is taken over.
MergeVersion(previous, incoming) ==
    IF previous = Nothing THEN incoming
    ELSE [shell |-> incoming.shell,
          version |-> IF incoming.version = Unversioned THEN previous.version
                      ELSE incoming.version]

\* mergeBootstrap: an incoming value without shell path or version keeps the
\* previous one's.
MergeBootstrap(previous, incoming) ==
    IF previous = Nothing THEN incoming
    ELSE [shell |-> incoming.shell \/ previous.shell,
          version |-> IF incoming.version = Unversioned THEN previous.version
                      ELSE incoming.version]

\* Mutant: what was loaded replaces what came in meanwhile.
LoadedWins(o) == IF bootOp[o].loaded # Nothing THEN bootOp[o].loaded ELSE mem

\* What an operation knows after it looked at memory and, if that was empty, at
\* IndexedDB.
Previous(o) == IF mem # Nothing THEN mem ELSE bootOp[o].loaded

\* applyBuildVersion: a record without a version changes nothing.
Applied(v) == IF v \in Version THEN v ELSE active

\* saveBootstrap
Save(b) == [kind |-> "save", value |-> b]

\* An operation begins: it goes on at once if the bootstrap is in memory and
\* waits for IndexedDB if not.
LoadFirst(o, rec) ==
    IF mem # Nothing
    THEN bootOp' = [bootOp EXCEPT ![o] = [rec EXCEPT !.at = "loaded"]] /\ UNCHANGED io
    ELSE /\ bootOp' = [bootOp EXCEPT ![o] = [rec EXCEPT !.at = "loading"]]
         /\ io' = Append(io, [kind |-> "load", value |-> o])

\* A fetch, GET_VERSION or the activate event calls restoreBootstrap; activate
\* purges and announces afterwards.
BeginRestore(o) ==
    /\ bootOp[o] = NoOperation /\ ops < MaxOps
    /\ ops' = ops + 1
    /\ \E activate \in BOOLEAN :
          LoadFirst(o, [NoOperation EXCEPT !.kind = IF activate THEN "activate" ELSE "restore"])
    /\ UNCHANGED <<mem, disk, active, jar, caches, turn, handed, told, lost,
                   storage, restarts, bootTroubles>>

\* A page's "bootstrap" message: the shell's own carries its path, an injected
\* page's does not. Neither knows the site's version.
BeginRemember(o) ==
    /\ bootOp[o] = NoOperation /\ ops < MaxOps
    /\ ops' = ops + 1
    /\ \E shell \in BOOLEAN :
          LoadFirst(o, [NoOperation EXCEPT !.kind = "remember",
                           !.value = [shell |-> shell, version |-> Unversioned]])
    /\ UNCHANGED <<mem, disk, active, jar, caches, turn, handed, told, lost,
                   storage, restarts, bootTroubles>>

\* A page's "site-version" message queues behind the transitions before it.
BeginAdopt(o) ==
    /\ bootOp[o] = NoOperation /\ ops < MaxOps
    /\ ops' = ops + 1
    /\ \E v \in Version :
          bootOp' = [bootOp EXCEPT ![o] =
                        [NoOperation EXCEPT !.kind = "adopt", !.at = "queued",
                            !.value = [shell |-> FALSE, version |-> v], !.change = v # active]]
    /\ turn' = Append(turn, o)
    /\ UNCHANGED <<mem, disk, io, active, jar, caches, handed, told, lost,
                   storage, restarts, bootTroubles>>

RunAdopt(o) ==
    /\ turn # <<>> /\ Head(turn) = o /\ bootOp[o].at = "queued"
    /\ LoadFirst(o, bootOp[o])
    /\ UNCHANGED <<mem, disk, active, jar, caches, turn, handed, told, lost, ghosts>>

\* IndexedDB does what was asked for next.
DoIo ==
    /\ io # <<>>
    /\ io' = Tail(io)
    /\ \/ /\ Head(io).kind = "load"
          /\ bootOp' = [bootOp EXCEPT ![Head(io).value].loaded = disk,
                                      ![Head(io).value].at = "loaded"]
          /\ UNCHANGED disk
       \/ /\ Head(io).kind = "save"
          /\ disk' = Head(io).value
          /\ UNCHANGED bootOp
    /\ UNCHANGED <<mem, active, jar, caches, turn, handed, told, lost, ghosts>>

\* A save fails; adoptSiteVersion swallows that.
SaveFails ==
    /\ io # <<>> /\ Head(io).kind = "save" /\ bootTroubles < BootTroubles
    /\ io' = Tail(io) /\ lost' = TRUE /\ bootTroubles' = bootTroubles + 1
    /\ UNCHANGED <<mem, disk, active, jar, caches, bootOp, turn, handed, told,
                   ops, restarts, storage>>

\* configureSession: the first switch to a memory-only jar empties the stored
\* one and waits for that; otherwise nothing is awaited and the caller goes on.
MustClear(b) == storage = "memory" /\ ~jar /\ b # Nothing

\* purgeStale is called with the names in use.
Purging(rec) == [rec EXCEPT !.at = "purging", !.value = [shell |-> FALSE, version |-> active']]

\* The caller of restoreBootstrap goes on: activate purges once more and tells
\* the pages.
Restored(rec) ==
    IF rec.kind = "activate" THEN Purging([rec EXCEPT !.kind = "announce"]) ELSE NoOperation

\* The end of restoreBootstrap, with b in memory.
EndRestore(o, b) ==
    /\ jar' = (jar \/ MustClear(b))
    /\ bootOp' = [bootOp EXCEPT ![o] =
                     IF MustClear(b) THEN [@ EXCEPT !.at = "clearing"] ELSE Restored(@)]

\* restoreBootstrap after its load: a value another message installed meanwhile
\* stays; a stored version is applied, and purges the other builds' caches.
Restore(o) ==
    /\ bootOp[o].kind \in {"restore", "activate"} /\ bootOp[o].at = "loaded"
    /\ mem' = Previous(o)
    /\ active' = Applied(mem'.version)
    /\ \/ /\ active' # active
          /\ bootOp' = [bootOp EXCEPT ![o] = Purging(@)]
          /\ UNCHANGED jar
       \/ /\ active' = active
          /\ EndRestore(o, mem')
    /\ UNCHANGED <<disk, io, caches, turn, handed, told, lost, ghosts>>

\* The end of rememberBootstrap: what was merged is applied and saved.
EndRemember(o, b) ==
    /\ active' = Applied(b.version)
    /\ io' = Append(io, Save(b))
    /\ bootOp' = [bootOp EXCEPT ![o] = NoOperation]

\* rememberBootstrap after its load.
Remember(o) ==
    /\ bootOp[o].kind = "remember" /\ bootOp[o].at = "loaded"
    /\ LET merged == MergeBootstrap(Previous(o), bootOp[o].value)
           b == IF active # Unversioned THEN [merged EXCEPT !.version = active] ELSE merged
       IN
       /\ mem' = b
       /\ jar' = (jar \/ MustClear(b))
       /\ \/ /\ MustClear(b)
             /\ bootOp' = [bootOp EXCEPT ![o].value = b, ![o].at = "clearing"]
             /\ UNCHANGED <<active, io>>
          \/ ~MustClear(b) /\ EndRemember(o, b)
    /\ UNCHANGED <<disk, caches, turn, handed, told, lost, ghosts>>

\* The stored jar is empty; the caller of configureSession goes on.
Cleared(o) ==
    /\ bootOp[o].at = "clearing"
    /\ \/ /\ bootOp[o].kind = "remember"
          /\ EndRemember(o, bootOp[o].value)
       \/ /\ bootOp[o].kind # "remember"
          /\ UNCHANGED <<active, io>>
          /\ bootOp' = [bootOp EXCEPT ![o] = Restored(@)]
    /\ UNCHANGED <<mem, disk, jar, caches, turn, handed, told, lost, ghosts>>

\* The build changes for the pages: it differs from the one in use when the
\* message arrived, or when its turn came.
Changed(o, v) == bootOp[o].change \/ active # v

\* adoptSiteVersion after its load: memory and IndexedDB take the version if
\* there is a bootstrap to carry it, and the live build changes in any case.
Adopt(o) ==
    /\ bootOp[o].kind = "adopt" /\ bootOp[o].at = "loaded"
    /\ LET v == bootOp[o].value.version
           b == [Previous(o) EXCEPT !.version = v]
           carried == Previous(o) # Nothing /\ Previous(o).version # v
       IN
       /\ mem' = IF carried THEN b ELSE mem
       /\ io' = IF carried THEN Append(io, Save(b)) ELSE io
       /\ active' = v
       /\ bootOp' = [bootOp EXCEPT ![o] = Purging([@ EXCEPT !.change = Changed(o, v)])]
       /\ handed' = v
    /\ UNCHANGED <<disk, jar, caches, turn, told, lost, ghosts>>

\* Mutant: an unchanged build is not purged again.
PurgeOnChange(o) ==
    IF bootOp[o].kind = "adopt" /\ ~bootOp[o].change THEN caches
    ELSE caches \cap {bootOp[o].value.version}

\* The caches purgeStale leaves.
PurgeStale(o) == caches \cap {bootOp[o].value.version}

\* purgeStale ends; activate and a changed build are then announced to the pages.
Purge(o) ==
    /\ bootOp[o].at = "purging"
    /\ caches' = PurgeStale(o)
    /\ told' = IF bootOp[o].kind = "announce" \/ bootOp[o].change THEN active ELSE told
    /\ UNCHANGED active
    /\ \/ /\ bootOp[o].kind = "adopt"
          /\ turn' = Tail(turn)
          /\ bootOp' = [bootOp EXCEPT ![o] = NoOperation]
          /\ UNCHANGED jar
       \/ /\ bootOp[o].kind = "announce"
          /\ bootOp' = [bootOp EXCEPT ![o] = NoOperation]
          /\ UNCHANGED <<turn, jar>>
       \/ /\ bootOp[o].kind \in {"restore", "activate"}
          /\ EndRestore(o, mem)
          /\ UNCHANGED turn
    /\ UNCHANGED <<mem, disk, io, handed, lost, ghosts>>

\* A response is stored under the build in use.
Store ==
    /\ active \in Version /\ active \notin caches
    /\ caches' = caches \cup {active}
    /\ UNCHANGED <<mem, disk, io, active, jar, bootOp, turn, handed, told, lost,
                   ghosts>>

\* The browser stops the worker; the next event starts it again.
BootRestart ==
    /\ restarts < MaxRestarts
    /\ restarts' = restarts + 1
    /\ mem' = Nothing /\ active' = Unversioned /\ jar' = FALSE
    /\ io' = <<>> /\ turn' = <<>> /\ bootOp' = [o \in BootOp |-> NoOperation]
    /\ handed' = Unversioned
    /\ lost' = (lost \/ \E i \in DOMAIN io : io[i].kind = "save")
    /\ UNCHANGED <<disk, caches, told, ops, bootTroubles, storage>>

BootNext ==
    \/ \E o \in BootOp : \/ BeginRestore(o) \/ BeginRemember(o) \/ BeginAdopt(o) \/ RunAdopt(o)
                     \/ Restore(o) \/ Remember(o) \/ Cleared(o)
                     \/ Adopt(o) \/ Purge(o)
    \/ DoIo \/ SaveFails \/ Store \/ BootRestart

BootSpec == BootInit /\ [][BootNext]_bootVars

(***************************************************************************)
(* Properties.                                                               *)
(***************************************************************************)

Quiet == io = <<>> /\ \A o \in BootOp : bootOp[o] = NoOperation

\* A deployment whose session is memory-only waits in configureSession between
\* taking the bootstrap and applying and saving it, and may overwrite what came
\* in meanwhile (sw.ts:166-183); the properties are about the others.
Persistent == storage = "persistent"

\* Once the site's page handed a build over, nothing rolls the worker back: not a
\* restore that read IndexedDB earlier, not a carrier page's bootstrap that raced
\* the handoff.
NeverRolledBack ==
    Persistent /\ handed # Unversioned => active = handed

\* When all is quiet, what is stored and announced agrees with the live build:
\* IndexedDB holds what the worker would be started again with, unless a save was
\* lost; after a handoff only the live build's caches are left, also when an
\* earlier transition was interrupted before its purge; and pages are told of the
\* build they handed over, also when queued handoffs take it back and forth.
QuietStateAgrees ==
    Persistent /\ Quiet =>
        /\ ~lost /\ mem # Nothing => disk = mem
        /\ handed # Unversioned => /\ caches \subseteq {active}
                                   /\ restarts = 0 => told = handed

\* A stored shell path is never lost, whatever temporary carrier attaches and
\* wherever the worker is stopped.
ShellPathIsKept ==
    [][Persistent /\ disk.shell => disk'.shell]_disk
=============================================================================
