---------------------------- MODULE WorkerProofs ----------------------------
(***************************************************************************)
(* What the service worker keeps (sw.ts), proved for every set of requests,  *)
(* operations, versions and answers: WorkerBoot's bootstrap and build, and   *)
(* WorkerFetch's cache under invalidations.                                  *)
(***************************************************************************)
EXTENDS WorkerFetch, WorkerBoot, TLAPS

USE SMTT(60)

-----------------------------------------------------------------------------
(* WorkerBoot: the inductive invariant.                                      *)

AnyVersion == Version \cup {Unversioned}
Kept == Bootstrap \cup {Nothing}
OpRecord == [kind : {"none", "restore", "activate", "announce", "remember", "adopt"},
             at : {"idle", "queued", "loading", "loaded", "purging"},
             value : Kept, loaded : Kept, change : BOOLEAN]
IoRecord == [kind : {"load"}, value : BootOp] \cup [kind : {"save"}, value : Bootstrap]

BootTypes ==
    /\ mem \in Kept /\ disk \in Kept
    /\ active \in AnyVersion /\ handed \in AnyVersion /\ told \in AnyVersion
    /\ caches \in SUBSET Version
    /\ bootOp \in [BootOp -> OpRecord]
    /\ io \in Seq(IoRecord)
    /\ turn \in Seq(BootOp)

\* What an operation carries: rememberBootstrap a record without a version,
\* adoptSiteVersion a version.
Carried ==
    \A o \in BootOp :
        /\ bootOp[o].kind = "remember" => bootOp[o].value \in [shell : BOOLEAN, version : {Unversioned}]
        /\ bootOp[o].kind = "adopt" => bootOp[o].value.version \in Version
        /\ bootOp[o].at = "queued" => bootOp[o].kind = "adopt"

\* Every load has one operation waiting for it.
Loading ==
    /\ \A i \in 1..Len(io) : io[i].kind = "load" => bootOp[io[i].value].at = "loading"
    /\ \A i, j \in 1..Len(io) :
          i < j /\ io[i].kind = "load" /\ io[j].kind = "load" => io[i].value # io[j].value

\* Until the worker knows a bootstrap nothing is being saved, so whatever was
\* loaded is still what is stored; and what it knows is of the build handed over.
Known ==
    /\ mem = Nothing => /\ \A i \in 1..Len(io) : io[i].kind = "load"
                        /\ \A o \in BootOp : bootOp[o].at = "loaded" => bootOp[o].loaded = disk
    /\ handed # Unversioned => /\ active = handed
                               /\ mem # Nothing => mem.version = handed
                               /\ mem = Nothing /\ disk # Nothing => disk.version = handed

\* The shell's path is handed on from IndexedDB to every later save, to memory.
IsSave(i) == io[i].kind = "save"
CarriesShell(i) == io[i].value.shell = TRUE

Shells ==
    /\ mem # Nothing /\ disk.shell = TRUE => mem.shell = TRUE
    /\ \A i \in 1..Len(io) : IsSave(i) /\ disk.shell = TRUE => CarriesShell(i)
    /\ \A i \in 1..Len(io) : IsSave(i) /\ CarriesShell(i) => mem.shell = TRUE
    /\ \A i, j \in 1..Len(io) :
          i < j /\ IsSave(i) /\ IsSave(j) /\ CarriesShell(i) => CarriesShell(j)

\* The last save under way, or else IndexedDB, holds what memory does.
LastSave(i) ==
    io[i].kind = "save" /\ \A j \in 1..Len(io) : io[j].kind = "save" => j <= i

Saved ==
    lost = FALSE /\ mem # Nothing =>
        /\ \A i \in 1..Len(io) : LastSave(i) => io[i].value = mem
        /\ (\A i \in 1..Len(io) : io[i].kind = "load") => disk = mem

\* Adoptions take turns, and one that changed the build has its purge to come.
Adopting(o) == bootOp[o].kind = "adopt" /\ bootOp[o].at = "purging"

Purged ==
    /\ \A o \in BootOp : bootOp[o].kind = "adopt" /\ bootOp[o].at # "queued" =>
          turn # <<>> /\ Head(turn) = o
    /\ handed # Unversioned =>
          caches \subseteq {active}
          \/ \E o \in BootOp : Adopting(o) /\ bootOp[o].value.version = active

\* Before its first restart the worker has one version, the one pages know,
\* until a build is handed over; then pages know that one or are about to.
OneVersion ==
    restarts = 0 /\ handed = Unversioned =>
        /\ mem # Nothing => mem.version = told
        /\ disk # Nothing => disk.version = told
        /\ mem = Nothing /\ disk = Nothing => told = Unversioned
        /\ active \in {Unversioned, told}
        /\ \A i \in 1..Len(io) : io[i].kind = "save" => io[i].value.version = told
        /\ \A o \in BootOp : bootOp[o].at = "purging" => active = told

PagesKnow ==
    restarts = 0 /\ handed # Unversioned =>
        told = active \/ \E o \in BootOp : Adopting(o) /\ bootOp[o].change = TRUE

BootCore ==
    /\ BootTypes /\ Carried /\ Loading /\ Known /\ Shells /\ Saved /\ Purged /\ OneVersion /\ PagesKnow
    /\ restarts \in Nat /\ lost \in BOOLEAN

BootIInv == Persistent => BootCore

-----------------------------------------------------------------------------
(* WorkerBoot: its steps.                                                    *)

\* A sequence with an element added at its end.
LEMMA Appended ==
    ASSUME NEW S, NEW s \in Seq(S), NEW x \in S
    PROVE  /\ Append(s, x) \in Seq(S)
           /\ Len(s) \in Nat
           /\ Len(Append(s, x)) = Len(s) + 1
           /\ \A i \in 1..Len(s) : Append(s, x)[i] = s[i]
           /\ Append(s, x)[Len(s) + 1] = x
OBVIOUS

\* A sequence without its first element.
LEMMA Behead ==
    ASSUME NEW S, NEW s \in Seq(S), s # <<>>
    PROVE  /\ Tail(s) \in Seq(S)
           /\ Len(s) \in Nat \ {0}
           /\ Len(Tail(s)) = Len(s) - 1
           /\ \A i \in 1..Len(s) - 1 : Tail(s)[i] = s[i + 1]
           /\ Head(s) = s[1] /\ s[1] \in S
OBVIOUS

\* What one operation's new record leaves of the others.
LEMMA OneOperation ==
    ASSUME NEW o \in BootOp, NEW rec \in OpRecord, bootOp \in [BootOp -> OpRecord],
           bootOp' = [bootOp EXCEPT ![o] = rec]
    PROVE  /\ bootOp' \in [BootOp -> OpRecord]
           /\ bootOp'[o] = rec
           /\ \A p \in BootOp \ {o} : bootOp'[p] = bootOp[p]
OBVIOUS

\* The records the values of this module are made of.
LEMMA Values ==
    /\ Nothing.version = "nothing" /\ Nothing.shell = FALSE
    /\ Nothing \notin Bootstrap
    /\ \A b \in Kept : b.shell \in BOOLEAN /\ (b # Nothing => b \in Bootstrap)
    /\ \A b \in Bootstrap : b.version \in AnyVersion /\ b.version # "nothing"
    /\ Unversioned \notin Version
<1>1. Nothing.version = "nothing" /\ Nothing.shell = FALSE
  BY Zenon DEF Nothing
<1>2. \A b \in Bootstrap : b.version \in AnyVersion /\ b.version # "nothing" /\ b.shell \in BOOLEAN
  BY VersionAssumption, Zenon DEF Bootstrap, AnyVersion, Unversioned
<1>3. Unversioned \notin Version
  BY VersionAssumption, Zenon DEF Unversioned
<1> QED BY <1>1, <1>2, <1>3, Zenon DEF Kept

\* An operation begins, or an adoption's turn comes: nothing is known yet.
LEMMA LoadFirstKeeps ==
    ASSUME NEW o \in BootOp, BootCore, NEW rec \in OpRecord,
           rec.kind \in {"restore", "activate", "remember", "adopt"},
           rec.kind = "remember" => rec.value \in [shell : BOOLEAN, version : {Unversioned}],
           rec.kind = "adopt" => /\ rec.value.version \in Version
                                 /\ turn # <<>> /\ Head(turn) = o,
           bootOp[o].at \in {"idle", "queued"},
           LoadFirst(o, rec),
           UNCHANGED <<mem, disk, active, caches, turn, handed, told, lost, restarts>>
    PROVE  BootCore'
<1> USE DEF BootCore
<1> PICK at \in {"loading", "loaded"} :
        /\ bootOp' = [bootOp EXCEPT ![o] = [rec EXCEPT !.at = at]]
        /\ at = "loaded" => mem # Nothing /\ io' = io
        /\ at = "loading" => mem = Nothing /\ io' = Append(io, [kind |-> "load", value |-> o])
  BY Zenon DEF LoadFirst
<1> DEFINE new == [rec EXCEPT !.at = at]
<1>1. /\ new \in OpRecord /\ new.kind = rec.kind /\ new.value = rec.value
      /\ new.at = at
  BY Zenon DEF OpRecord
<1> HIDE DEF new
<1>2. /\ bootOp' \in [BootOp -> OpRecord] /\ bootOp'[o] = new
      /\ \A p \in BootOp \ {o} : bootOp'[p] = bootOp[p]
  BY <1>1, OneOperation, Zenon DEF BootTypes, new
<1>3. /\ io' \in Seq(IoRecord) /\ Len(io) \in Nat /\ Len(io') \in {Len(io), Len(io) + 1}
      /\ \A i \in 1..Len(io) : io'[i] = io[i]
      /\ \A i \in 1..Len(io') : i \in 1..Len(io) \/ i = Len(io) + 1
      /\ Len(io') = Len(io) + 1 =>
            at = "loading" /\ io'[Len(io) + 1].kind = "load" /\ io'[Len(io) + 1].value = o
  <2>1. CASE at = "loaded"
    BY <2>1 DEF BootTypes
  <2>2. CASE at = "loading"
    <3> DEFINE x == [kind |-> "load", value |-> o]
    <3>1. x \in IoRecord /\ x.kind = "load" /\ x.value = o
      BY Zenon DEF IoRecord
    <3> HIDE DEF x
    <3>2. /\ Append(io, x) \in Seq(IoRecord) /\ Len(io) \in Nat
          /\ Len(Append(io, x)) = Len(io) + 1
          /\ \A i \in 1..Len(io) : Append(io, x)[i] = io[i]
          /\ Append(io, x)[Len(io) + 1] = x
      BY <3>1, Appended DEF BootTypes
    <3>3. io' = Append(io, x)
      BY <2>2, Zenon DEF x
    <3> QED BY <2>2, <3>1, <3>2, <3>3
  <2> QED BY <2>1, <2>2, Zenon
<1>11. Loading'
  <2>1. \A i \in 1..Len(io) : io[i].kind = "load" => io[i].value \in BootOp \ {o}
    <3>1. \A i \in 1..Len(io) : io[i] \in IoRecord
      BY DEF BootTypes
    <3> QED BY <3>1, Zenon DEF Loading, IoRecord
  <2>2. \A i \in 1..Len(io') : io'[i].kind = "load" =>
            \/ i \in 1..Len(io) /\ io'[i] = io[i] /\ io'[i].value \in BootOp \ {o}
            \/ i = Len(io) + 1 /\ io'[i].value = o /\ at = "loading"
    BY <1>3, <2>1, Zenon
  <2>3. \A i \in 1..Len(io') : io'[i].kind = "load" => bootOp'[io'[i].value].at = "loading"
    BY <1>1, <1>2, <2>2 DEF Loading
  <2>4. \A i, j \in 1..Len(io') :
            i < j /\ io'[i].kind = "load" /\ io'[j].kind = "load" => io'[i].value # io'[j].value
    <3> SUFFICES ASSUME NEW i \in 1..Len(io'), NEW j \in 1..Len(io'),
                        i < j, io'[i].kind = "load", io'[j].kind = "load"
                 PROVE  io'[i].value # io'[j].value
      OBVIOUS
    <3>1. i \in 1..Len(io) /\ io'[i] = io[i] /\ io'[i].value \in BootOp \ {o}
      BY <1>3, <2>2
    <3>2. CASE j \in 1..Len(io)
      BY <1>3, <3>1, <3>2 DEF Loading
    <3>3. CASE j = Len(io) + 1
      BY <3>1, <3>3, <2>2, <1>3
    <3> QED BY <1>3, <3>2, <3>3, Zenon
  <2> QED BY <2>3, <2>4, Zenon DEF Loading
<1>4. BootTypes'
  BY <1>2, <1>3, Zenon DEF BootTypes
<1>5. Carried'
  BY <1>1, <1>2 DEF Carried
<1>6. Known'
  <2>1. ASSUME mem' = Nothing, NEW p \in BootOp, bootOp'[p].at = "loaded"
        PROVE  bootOp'[p].loaded = disk'
    BY <2>1, <1>1, <1>2, Zenon DEF Known
  <2>2. ASSUME mem' = Nothing, NEW i \in 1..Len(io')
        PROVE  io'[i].kind = "load"
    BY <2>2, <1>3, Zenon DEF Known
  <2> QED BY <2>1, <2>2, Zenon DEF Known
<1>7. Shells'
  <2>1. \A i \in 1..Len(io') : IsSave(i)' => /\ i \in 1..Len(io) /\ IsSave(i)
                                             /\ CarriesShell(i)' = CarriesShell(i)
    BY <1>3, Zenon DEF IsSave, CarriesShell
  <2> QED BY <2>1, Zenon DEF Shells
<1>8. Saved'
  BY <1>3 DEF Saved, LastSave
<1>9. Purged'
  BY <1>1, <1>2 DEF Purged, Adopting
<1>10. OneVersion' /\ PagesKnow'
  <2>1. OneVersion'
    BY <1>1, <1>2, <1>3 DEF OneVersion
  <2>2. PagesKnow'
    BY <1>1, <1>2, Zenon DEF PagesKnow, Adopting
  <2> QED BY <2>1, <2>2, Zenon
<1> QED BY <1>4, <1>5, <1>6, <1>7, <1>8, <1>9, <1>10, <1>11, Zenon

LEMMA BeginKeeps ==
    ASSUME NEW o \in BootOp, BootCore,
           BeginRestore(o) \/ BeginRemember(o) \/ RunAdopt(o)
    PROVE  BootCore'
<1> USE DEF BootCore
<1>1. NoOperation \in OpRecord /\ NoOperation.at = "idle"
  BY Zenon DEF NoOperation, OpRecord, Kept
<1>2. CASE BeginRestore(o)
  <2>1. PICK a \in BOOLEAN :
            LoadFirst(o, [NoOperation EXCEPT !.kind = IF a THEN "activate" ELSE "restore"])
    BY <1>2, Zenon DEF BeginRestore
  <2> DEFINE rec == [NoOperation EXCEPT !.kind = IF a THEN "activate" ELSE "restore"]
  <2>2. rec \in OpRecord /\ rec.kind \in {"restore", "activate"}
    BY <1>1, Zenon DEF NoOperation, OpRecord
  <2>3. /\ bootOp[o].at = "idle"
        /\ UNCHANGED <<mem, disk, active, caches, turn, handed, told, lost, restarts>>
    BY <1>2, <1>1, Zenon DEF BeginRestore
  <2> HIDE DEF rec
  <2>4. LoadFirst(o, rec)
    BY <2>1, Zenon DEF rec
  <2> QED BY <2>2, <2>3, <2>4, LoadFirstKeeps, Zenon
<1>3. CASE BeginRemember(o)
  <2>1. PICK shell \in BOOLEAN :
            LoadFirst(o, [NoOperation EXCEPT !.kind = "remember",
                             !.value = [shell |-> shell, version |-> Unversioned]])
    BY <1>3, Zenon DEF BeginRemember
  <2> DEFINE rec == [NoOperation EXCEPT !.kind = "remember",
                             !.value = [shell |-> shell, version |-> Unversioned]]
  <2>2. /\ rec \in OpRecord /\ rec.kind = "remember"
        /\ rec.value \in [shell : BOOLEAN, version : {Unversioned}]
    BY <1>1, Zenon DEF NoOperation, OpRecord, Kept, Bootstrap
  <2>3. /\ bootOp[o].at = "idle"
        /\ UNCHANGED <<mem, disk, active, caches, turn, handed, told, lost, restarts>>
    BY <1>3, <1>1, Zenon DEF BeginRemember
  <2> HIDE DEF rec
  <2>4. LoadFirst(o, rec)
    BY <2>1, Zenon DEF rec
  <2> QED BY <2>2, <2>3, <2>4, LoadFirstKeeps, Zenon
<1>4. CASE RunAdopt(o)
  <2>1. /\ turn # <<>> /\ Head(turn) = o /\ bootOp[o].at = "queued"
        /\ LoadFirst(o, bootOp[o])
        /\ UNCHANGED <<mem, disk, active, caches, turn, handed, told, lost, restarts>>
    BY <1>4, Zenon DEF RunAdopt, ghosts
  <2>2. bootOp[o] \in OpRecord /\ bootOp[o].kind = "adopt"
    BY <2>1, Zenon DEF BootTypes, Carried
  <2> QED BY <2>1, <2>2, LoadFirstKeeps, Zenon DEF Carried
<1> QED BY <1>2, <1>3, <1>4, Zenon

\* A handoff queues behind the others.
LEMMA BeginAdoptKeeps ==
    ASSUME NEW o \in BootOp, BootCore, BeginAdopt(o)
    PROVE  BootCore'
<1> USE DEF BootCore
<1>1. PICK v \in Version :
          bootOp' = [bootOp EXCEPT ![o] =
                        [NoOperation EXCEPT !.kind = "adopt", !.at = "queued",
                            !.value = [shell |-> FALSE, version |-> v], !.change = v # active]]
  BY Zenon DEF BeginAdopt
<1>2. /\ bootOp[o] = NoOperation /\ turn' = Append(turn, o)
      /\ UNCHANGED <<mem, disk, io, active, caches, handed, told, lost, restarts>>
  BY Zenon DEF BeginAdopt
<1> DEFINE rec == [NoOperation EXCEPT !.kind = "adopt", !.at = "queued",
                            !.value = [shell |-> FALSE, version |-> v], !.change = v # active]
<1>3. /\ rec \in OpRecord /\ rec.kind = "adopt" /\ rec.at = "queued"
      /\ rec.value.version = v
  BY Zenon DEF NoOperation, OpRecord, Kept, Bootstrap
<1> HIDE DEF rec
<1>4. /\ bootOp' \in [BootOp -> OpRecord] /\ bootOp'[o] = rec
      /\ \A p \in BootOp \ {o} : bootOp'[p] = bootOp[p]
  BY <1>1, <1>3, OneOperation DEF BootTypes, rec
<1>5. NoOperation.at = "idle" /\ NoOperation.kind = "none"
  BY Zenon DEF NoOperation
<1>6. turn' \in Seq(BootOp) /\ (turn # <<>> => turn' # <<>> /\ Head(turn') = Head(turn))
  BY <1>2 DEF BootTypes
<1>13. Loading'
  <2>1. \A i \in 1..Len(io) : io[i].kind = "load" => io[i].value \in BootOp \ {o}
    <3>1. \A i \in 1..Len(io) : io[i] \in IoRecord
      BY DEF BootTypes
    <3> QED BY <1>2, <1>5, <3>1, Zenon DEF Loading, IoRecord
  <2> QED BY <1>2, <1>4, <2>1 DEF Loading
<1>7. BootTypes'
  BY <1>2, <1>4, <1>6, Zenon DEF BootTypes
<1>8. Carried'
  BY <1>3, <1>4 DEF Carried
<1>9. Known'
  BY <1>2, <1>3, <1>4, Zenon DEF Known
<1>10. Shells' /\ Saved'
  BY <1>2, Zenon DEF Shells, Saved, IsSave, CarriesShell, LastSave
<1>11. Purged'
  BY <1>2, <1>3, <1>4, <1>5, <1>6 DEF Purged, Adopting
<1>12. OneVersion' /\ PagesKnow'
  <2>1. OneVersion'
    BY <1>2, <1>3, <1>4, Zenon DEF OneVersion
  <2>2. PagesKnow'
    BY <1>2, <1>3, <1>4, <1>5, Zenon DEF PagesKnow, Adopting
  <2> QED BY <2>1, <2>2, Zenon
<1> QED BY <1>2, <1>7, <1>8, <1>9, <1>10, <1>11, <1>12, <1>13, Zenon

\* IndexedDB's queue without the request it has done.
LEMMA Shifted ==
    ASSUME io \in Seq(IoRecord), io # <<>>, io' = Tail(io)
    PROVE  /\ io' \in Seq(IoRecord) /\ Len(io) \in Nat \ {0} /\ Len(io') = Len(io) - 1
           /\ Head(io) = io[1] /\ io[1] \in IoRecord /\ 1 \in 1..Len(io)
           /\ \A i \in 1..Len(io') :
                 /\ i + 1 \in 1..Len(io) /\ 1 < i + 1 /\ io'[i] = io[i + 1] /\ io'[i] \in IoRecord
                 /\ IsSave(i)' = IsSave(i + 1) /\ CarriesShell(i)' = CarriesShell(i + 1)
                 /\ LastSave(i)' => LastSave(i + 1)
           /\ (\A i \in 1..Len(io') : io'[i].kind = "load") =>
                 \A i \in 1..Len(io) : i = 1 \/ io[i].kind = "load"
           /\ (\A i, j \in 1..Len(io) :
                   i < j /\ io[i].kind = "load" /\ io[j].kind = "load" => io[i].value # io[j].value)
              => \A i, j \in 1..Len(io') :
                   i < j /\ io'[i].kind = "load" /\ io'[j].kind = "load" => io'[i].value # io'[j].value
<1>1. /\ io' \in Seq(IoRecord) /\ Len(io) \in Nat \ {0} /\ Len(io') = Len(io) - 1
      /\ \A i \in 1..Len(io') : i + 1 \in 1..Len(io) /\ 1 < i + 1 /\ io'[i] = io[i + 1]
      /\ Head(io) = io[1] /\ io[1] \in IoRecord /\ 1 \in 1..Len(io)
  BY Behead
<1>2. \A i \in 1..Len(io') : io'[i] \in IoRecord
  BY <1>1
<1>3. \A i \in 1..Len(io') : IsSave(i)' = IsSave(i + 1) /\ CarriesShell(i)' = CarriesShell(i + 1)
  BY <1>1, Zenon DEF IsSave, CarriesShell
<1>4. \A i \in 1..Len(io) : i = 1 \/ (i - 1 \in 1..Len(io') /\ io'[i - 1] = io[i])
  BY <1>1
<1>5. ASSUME NEW i \in 1..Len(io'), LastSave(i)'
      PROVE  LastSave(i + 1)
  <2>1. ASSUME NEW j \in 1..Len(io), io[j].kind = "save"
        PROVE  j <= i + 1
    <3>1. CASE j = 1
      BY <3>1
    <3>2. CASE j # 1
      <4>1. j - 1 \in 1..Len(io') /\ io'[j - 1].kind = "save"
        BY <1>4, <2>1, <3>2, Zenon
      <4>2. j - 1 <= i
        BY <4>1, <1>5, Zenon DEF LastSave
      <4> QED BY <4>2, <1>1
    <3> QED BY <3>1, <3>2, Zenon
  <2> QED BY <1>1, <1>5, <2>1, Zenon DEF LastSave
<1>6. ASSUME \A i \in 1..Len(io') : io'[i].kind = "load", NEW i \in 1..Len(io)
      PROVE  i = 1 \/ io[i].kind = "load"
  BY <1>4, <1>6, Zenon
<1>7. ASSUME \A i, j \in 1..Len(io) :
                i < j /\ io[i].kind = "load" /\ io[j].kind = "load" => io[i].value # io[j].value,
             NEW i \in 1..Len(io'), NEW j \in 1..Len(io'),
             i < j, io'[i].kind = "load", io'[j].kind = "load"
      PROVE  io'[i].value # io'[j].value
  <2>1. /\ i + 1 \in 1..Len(io) /\ io'[i] = io[i + 1]
        /\ j + 1 \in 1..Len(io) /\ io'[j] = io[j + 1] /\ i + 1 < j + 1
    BY <1>1, <1>7
  <2> QED BY <2>1, <1>7
<1> QED BY <1>1, <1>2, <1>3, <1>5, <1>6, <1>7

\* IndexedDB takes the next request: a load shows what is stored, a save stores
\* what carries on the shell's path.
LEMMA DoIoKeeps ==
    ASSUME BootCore, DoIo
    PROVE  BootCore'
<1> USE DEF BootCore
<1>1. /\ io # <<>> /\ io' = Tail(io)
      /\ UNCHANGED <<mem, active, caches, turn, handed, told, lost, restarts>>
  BY Zenon DEF DoIo, ghosts
<1>2. /\ io' \in Seq(IoRecord) /\ Len(io) \in Nat \ {0} /\ Len(io') = Len(io) - 1
      /\ Head(io) = io[1] /\ io[1] \in IoRecord /\ 1 \in 1..Len(io)
      /\ \A i \in 1..Len(io') :
            /\ i + 1 \in 1..Len(io) /\ 1 < i + 1 /\ io'[i] = io[i + 1] /\ io'[i] \in IoRecord
            /\ IsSave(i)' = IsSave(i + 1) /\ CarriesShell(i)' = CarriesShell(i + 1)
            /\ LastSave(i)' => LastSave(i + 1)
      /\ (\A i \in 1..Len(io') : io'[i].kind = "load") =>
            \A i \in 1..Len(io) : i = 1 \/ io[i].kind = "load"
      /\ \A i, j \in 1..Len(io') :
            i < j /\ io'[i].kind = "load" /\ io'[j].kind = "load" => io'[i].value # io'[j].value
  BY <1>1, Shifted, Zenon DEF BootTypes, Loading
<1>3. CASE Head(io).kind = "load"
  <2> DEFINE o == io[1].value
  <2>1. o \in BootOp
    BY <1>2, <1>3, Zenon DEF IoRecord
  <2>2. bootOp' = [bootOp EXCEPT ![o].loaded = disk, ![o].at = "loaded"] /\ disk' = disk
    BY <1>2, <1>3, Zenon DEF DoIo
  <2>3. bootOp[o].at = "loading" /\ \A i \in 1..Len(io') : io'[i].kind = "load" => io'[i].value # o
    BY <1>2, <1>3 DEF Loading, o
  <2> HIDE DEF o
  <2>4. bootOp \in [BootOp -> OpRecord] /\ bootOp[o] \in OpRecord /\ disk \in Kept
    BY <2>1, Zenon DEF BootTypes
  <2>5. bootOp' = [bootOp EXCEPT ![o] = [bootOp[o] EXCEPT !.loaded = disk, !.at = "loaded"]]
    BY <2>1, <2>2, <2>4, Zenon
  <2> DEFINE rec == [bootOp[o] EXCEPT !.loaded = disk, !.at = "loaded"]
  <2>6. /\ rec \in OpRecord /\ rec.loaded = disk /\ rec.at = "loaded"
        /\ rec.kind = bootOp[o].kind /\ rec.value = bootOp[o].value
    BY <2>4, Zenon DEF OpRecord
  <2> HIDE DEF rec
  <2>7. /\ bootOp' \in [BootOp -> OpRecord] /\ bootOp'[o] = rec
        /\ \A p \in BootOp \ {o} : bootOp'[p] = bootOp[p]
    BY <2>1, <2>4, <2>5, <2>6, OneOperation, Zenon DEF rec
  <2>8. BootTypes'
    BY <1>1, <1>2, <2>2, <2>7, Zenon DEF BootTypes
  <2>9. Carried'
    BY <2>6, <2>7 DEF Carried
  <2>10. Loading'
    <3>1. ASSUME NEW i \in 1..Len(io'), io'[i].kind = "load"
          PROVE  bootOp'[io'[i].value].at = "loading"
      <4>1. io'[i].value \in BootOp
        BY <1>2, <3>1, Zenon DEF IoRecord
      <4>2. i + 1 \in 1..Len(io) /\ io'[i] = io[i + 1]
        BY <1>2, Zenon
      <4> QED BY <3>1, <4>1, <4>2, <2>3, <2>7 DEF Loading
    <3> QED BY <1>2, <3>1, Zenon DEF Loading
  <2>11. Known'
    BY <1>1, <1>2, <2>2, <2>6, <2>7 DEF Known
  <2>12. Shells'
    BY <1>1, <1>2, <2>2 DEF Shells
  <2>13. Saved'
    BY <1>1, <1>2, <1>3, <2>2 DEF Saved
  <2>14. Purged'
    BY <1>1, <2>3, <2>6, <2>7 DEF Purged, Adopting
  <2>15. OneVersion'
    BY <1>1, <1>2, <2>2, <2>6, <2>7 DEF OneVersion
  <2>16. PagesKnow'
    <3>1. \A p \in BootOp : Adopting(p) => p # o
      BY <2>3, Zenon DEF Adopting
    <3> QED BY <1>1, <2>7, <3>1, Zenon DEF PagesKnow, Adopting
  <2> QED BY <1>1, <2>8, <2>9, <2>10, <2>11, <2>12, <2>13, <2>14, <2>15, <2>16
<1>4. CASE Head(io).kind = "save"
  <2>1. disk' = io[1].value /\ bootOp' = bootOp /\ IsSave(1)
    BY <1>2, <1>4, Zenon DEF DoIo, IsSave
  <2>2. disk' \in Bootstrap /\ disk' # Nothing /\ mem # Nothing
    BY <1>2, <2>1, Values DEF IoRecord, IsSave, Known
  <2>3. BootTypes' /\ Carried'
    BY <1>1, <1>2, <2>1, <2>2 DEF BootTypes, Carried, Kept
  <2>4. Loading'
    <3>1. \A i \in 1..Len(io') : io'[i].kind = "load" => bootOp'[io'[i].value].at = "loading"
      BY <1>2, <2>1 DEF Loading
    <3> QED BY <1>2, <3>1, Zenon DEF Loading
  <2>5. Known'
    BY <1>1, <2>1, <2>2, Zenon DEF Known
  <2>6. Shells'
    <3>1. disk'.shell = TRUE => CarriesShell(1)
      BY <2>1, Zenon DEF CarriesShell
    <3> QED BY <3>1, <1>1, <1>2, <2>1 DEF Shells
  <2>7. Saved'
    <3>1. (\A i \in 1..Len(io') : io'[i].kind = "load") => LastSave(1)
      BY <1>2, <2>1 DEF LastSave, IsSave
    <3> QED BY <1>1, <1>2, <2>1, <3>1 DEF Saved
  <2>8. Purged' /\ PagesKnow'
    BY <1>1, <2>1 DEF Purged, PagesKnow, Adopting
  <2>9. OneVersion'
    BY <1>1, <1>2, <2>1, <2>2 DEF OneVersion, IsSave
  <2> QED BY <1>1, <2>3, <2>4, <2>5, <2>6, <2>7, <2>8, <2>9
<1> QED BY <1>3, <1>4, Zenon DEF DoIo

\* A save that fails is forgotten; a later one, or none, has what memory has.
LEMMA SaveFailsKeeps ==
    ASSUME BootCore, SaveFails
    PROVE  BootCore'
<1> USE DEF BootCore
<1>1. /\ io # <<>> /\ Head(io).kind = "save" /\ io' = Tail(io) /\ lost' = TRUE
      /\ UNCHANGED <<mem, disk, active, caches, bootOp, turn, handed, told, restarts>>
  BY Zenon DEF SaveFails
<1>2. /\ io' \in Seq(IoRecord) /\ Len(io) \in Nat \ {0} /\ Len(io') = Len(io) - 1
      /\ Head(io) = io[1] /\ 1 \in 1..Len(io)
      /\ \A i \in 1..Len(io') :
            /\ i + 1 \in 1..Len(io) /\ io'[i] = io[i + 1]
            /\ IsSave(i)' = IsSave(i + 1) /\ CarriesShell(i)' = CarriesShell(i + 1)
      /\ \A i, j \in 1..Len(io') :
            i < j /\ io'[i].kind = "load" /\ io'[j].kind = "load" => io'[i].value # io'[j].value
  BY <1>1, Shifted DEF BootTypes, Loading
<1>3. BootTypes' /\ Carried' /\ Saved'
  BY <1>1, <1>2 DEF BootTypes, Carried, Saved
<1>4. Loading'
  BY <1>1, <1>2 DEF Loading
<1>5. Known'
  BY <1>1, <1>2, Zenon DEF Known
<1>6. Shells'
  BY <1>1, <1>2 DEF Shells
<1>7. Purged' /\ PagesKnow'
  BY <1>1, Zenon DEF Purged, PagesKnow, Adopting
<1>8. OneVersion'
  BY <1>1, <1>2 DEF OneVersion
<1> QED BY <1>1, <1>3, <1>4, <1>5, <1>6, <1>7, <1>8, Zenon

LEMMA StoreKeeps ==
    ASSUME BootCore, Store
    PROVE  BootCore'
<1> USE DEF BootCore
<1>1. /\ active \in Version /\ caches' = caches \cup {active}
      /\ UNCHANGED <<mem, disk, io, active, bootOp, turn, handed, told, lost, restarts>>
  BY Zenon DEF Store, ghosts
<1>2. BootTypes' /\ Carried' /\ Loading' /\ Known'
  BY <1>1 DEF BootTypes, Carried, Loading, Known
<1>3. Shells' /\ Saved'
  BY <1>1 DEF Shells, Saved, IsSave, CarriesShell, LastSave
<1>4. Purged' /\ PagesKnow' /\ OneVersion'
  BY <1>1 DEF Purged, PagesKnow, Adopting, OneVersion
<1> QED BY <1>1, <1>2, <1>3, <1>4, Zenon

\* The worker starts again with nothing but IndexedDB and the caches.
LEMMA RestartKeeps ==
    ASSUME BootCore, BootRestart
    PROVE  BootCore'
<1> USE DEF BootCore
<1>1. /\ restarts' = restarts + 1 /\ mem' = Nothing /\ active' = Unversioned
      /\ io' = <<>> /\ turn' = <<>> /\ bootOp' = [o \in BootOp |-> NoOperation]
      /\ handed' = Unversioned /\ UNCHANGED <<disk, caches, told>>
      /\ lost' \in BOOLEAN
  BY Zenon DEF BootRestart
<1>2. NoOperation \in OpRecord /\ NoOperation.at = "idle" /\ NoOperation.kind = "none"
  BY Zenon DEF NoOperation, OpRecord, Kept
<1>3. /\ bootOp' \in [BootOp -> OpRecord] /\ \A o \in BootOp : bootOp'[o] = NoOperation
      /\ io' \in Seq(IoRecord) /\ turn' \in Seq(BootOp) /\ 1..Len(io') = {}
  BY <1>1, <1>2
<1>4. BootTypes'
  BY <1>1, <1>3 DEF BootTypes, Kept, AnyVersion
<1>5. Carried' /\ Loading' /\ Known' /\ Shells' /\ Saved' /\ Purged'
  BY <1>1, <1>2, <1>3 DEF Carried, Loading, Known, Shells, Saved, Purged
<1>6. OneVersion' /\ PagesKnow'
  BY <1>1 DEF OneVersion, PagesKnow
<1> QED BY <1>1, <1>4, <1>5, <1>6

\* The loads under way stay those of their operations when another operation
\* changes and nothing but saves is asked for.
LEMMA LoadingKept ==
    ASSUME NEW o \in BootOp, BootCore, bootOp[o].at # "loading",
           \A p \in BootOp \ {o} : bootOp'[p] = bootOp[p],
           \A i \in 1..Len(io') : io'[i].kind = "load" => i \in 1..Len(io) /\ io'[i] = io[i]
    PROVE  Loading'
<1>1. \A i \in 1..Len(io) : io[i].kind = "load" => io[i].value \in BootOp \ {o}
  <2>1. \A i \in 1..Len(io) : io[i] \in IoRecord
    BY DEF BootCore, BootTypes
  <2> QED BY <2>1 DEF BootCore, Loading, IoRecord
<1>2. \A i \in 1..Len(io') : io'[i].kind = "load" => bootOp'[io'[i].value].at = "loading"
  BY <1>1 DEF BootCore, Loading
<1>3. \A i, j \in 1..Len(io') :
          i < j /\ io'[i].kind = "load" /\ io'[j].kind = "load" => io'[i].value # io'[j].value
  BY DEF BootCore, Loading
<1> QED BY <1>2, <1>3, Zenon DEF Loading

\* What follows a restore: a purge, for the changed build or for activate, or
\* nothing; a persistent session has nothing to clear.
LEMMA AfterRestore ==
    ASSUME NEW rec \in OpRecord, rec.kind \in {"restore", "activate"}, active' \in AnyVersion
    PROVE  /\ Purging(rec) \in OpRecord /\ Purging(rec).kind = rec.kind
           /\ Purging(rec).at = "purging"
           /\ Restored(rec) \in OpRecord /\ Restored(rec).kind \in {"none", "announce"}
           /\ Restored(rec).at \in {"idle", "purging"}
<1>1. [shell |-> FALSE, version |-> active'] \in Kept
  BY Zenon DEF Kept, Bootstrap, AnyVersion
<1>2. Purging(rec) \in OpRecord /\ Purging(rec).kind = rec.kind /\ Purging(rec).at = "purging"
  BY <1>1, Zenon DEF Purging, OpRecord
<1>3. /\ Purging([rec EXCEPT !.kind = "announce"]) \in OpRecord
      /\ Purging([rec EXCEPT !.kind = "announce"]).kind = "announce"
      /\ Purging([rec EXCEPT !.kind = "announce"]).at = "purging"
  BY <1>1, Zenon DEF Purging, OpRecord
<1>4. NoOperation \in OpRecord /\ NoOperation.at = "idle" /\ NoOperation.kind = "none"
  BY Zenon DEF NoOperation, OpRecord, Kept
<1> QED BY <1>2, <1>3, <1>4 DEF Restored

LEMMA RestoreKeeps ==
    ASSUME NEW o \in BootOp, BootCore, Persistent, Restore(o)
    PROVE  BootCore'
<1> USE DEF BootCore
<1>1. /\ bootOp[o].kind \in {"restore", "activate"} /\ bootOp[o].at = "loaded"
      /\ mem' = Previous(o) /\ active' = Applied(mem'.version)
      /\ UNCHANGED <<disk, io, caches, turn, handed, told, lost, restarts>>
  BY Zenon DEF Restore, ghosts
<1>2. mem' = IF mem # Nothing THEN mem ELSE disk
  BY <1>1, Zenon DEF Previous, Known
<1>3. active' = IF mem'.version \in Version THEN mem'.version ELSE active
  BY <1>1, Zenon DEF Applied
<1>4. bootOp \in [BootOp -> OpRecord] /\ bootOp[o] \in OpRecord
      /\ active' \in AnyVersion /\ mem' \in Kept
  BY <1>2, <1>3 DEF BootTypes, AnyVersion
<1>5. PICK new \in OpRecord :
          /\ bootOp' = [bootOp EXCEPT ![o] = new]
          /\ new.kind \in {"none", "restore", "activate", "announce"}
          /\ new.at \in {"idle", "purging"}
  <2>1. \/ bootOp' = [bootOp EXCEPT ![o] = Purging(bootOp[o])]
        \/ bootOp' = [bootOp EXCEPT ![o] = Restored(bootOp[o])]
    BY Zenon DEF Restore, EndRestore, MustClear, Persistent
  <2> QED BY <1>1, <1>4, <2>1, AfterRestore
<1>6. /\ bootOp' \in [BootOp -> OpRecord] /\ bootOp'[o] = new
      /\ \A p \in BootOp \ {o} : bootOp'[p] = bootOp[p]
  BY <1>4, <1>5, OneOperation
<1>7. BootTypes' /\ Carried'
  BY <1>1, <1>4, <1>5, <1>6, Zenon DEF BootTypes, Carried
<1>8. Loading'
  BY <1>1, <1>6, LoadingKept, ZenonT(40)
<1>9. Known'
  <2>1. handed # Unversioned => active' = handed
    <3> SUFFICES ASSUME handed # Unversioned PROVE active' = handed
      OBVIOUS
    <3>1. handed \in Version /\ active = handed
      BY DEF Known, BootTypes, AnyVersion
    <3>2. mem' = Nothing \/ mem'.version = handed
      BY <1>2, Zenon DEF Known
    <3>3. mem' = Nothing => mem'.version \notin Version
      BY Values, VersionAssumption
    <3> QED BY <1>3, <3>1, <3>2, <3>3
  <2> QED BY <2>1, <1>1, <1>2, <1>5, <1>6, Zenon DEF Known
<1>10. Shells'
  BY <1>1, <1>2 DEF Shells, IsSave, CarriesShell, Known
<1>11. Saved'
  BY <1>1, <1>2 DEF Saved, LastSave, Known
<1>12. Purged'
  BY <1>1, <1>5, <1>6, <1>9 DEF Purged, Adopting, Known
<1>13. OneVersion'
  <2> SUFFICES ASSUME restarts = 0, handed = Unversioned PROVE OneVersion'
    BY <1>1, Zenon DEF OneVersion
  <2>1. mem' # Nothing => mem'.version = told
    BY <1>2, Zenon DEF OneVersion
  <2>2. mem' = Nothing => mem'.version \notin Version /\ told = Unversioned
    BY <1>2, Values, VersionAssumption DEF OneVersion
  <2>3. active' = told
    BY <1>3, <2>1, <2>2, Values DEF OneVersion, BootTypes, AnyVersion
  <2> QED BY <1>1, <1>2, <2>1, <2>2, <2>3, ZenonT(40) DEF OneVersion
<1>14. PagesKnow'
  BY <1>1, <1>5, <1>6, <1>9, ZenonT(40) DEF PagesKnow, Adopting, Known
<1> QED BY <1>1, <1>7, <1>8, <1>9, <1>10, <1>11, <1>12, <1>13, <1>14

\* A bootstrap is put in memory and its save asked for.
LEMMA SaveKeeps ==
    ASSUME BootCore, NEW b \in Bootstrap, mem' = b, io' = Append(io, Save(b)),
           UNCHANGED <<disk, lost>>,
           disk.shell = TRUE \/ (mem # Nothing /\ mem.shell = TRUE) => b.shell = TRUE
    PROVE  /\ io' \in Seq(IoRecord) /\ mem' # Nothing /\ Shells' /\ Saved'
           /\ \A i \in 1..Len(io') :
                 \/ i \in 1..Len(io) /\ io'[i] = io[i]
                 \/ io'[i].kind = "save" /\ io'[i].value = b
<1> USE DEF BootCore
<1>1. Save(b) \in IoRecord /\ Save(b).kind = "save" /\ Save(b).value = b
  BY DEF Save, IoRecord
<1>2. /\ io' \in Seq(IoRecord) /\ Len(io) \in Nat /\ Len(io') = Len(io) + 1
      /\ \A i \in 1..Len(io) : io'[i] = io[i]
      /\ io'[Len(io) + 1] = Save(b)
  BY <1>1, Appended DEF BootTypes
<1>3. mem' # Nothing
  BY Values, Zenon
<1> PICK n \in Nat : n = Len(io)
  BY <1>2, Zenon
<1>4. n + 1 \in 1..Len(io') /\ \A i \in 1..Len(io') : i \in 1..Len(io) \/ i = n + 1
  BY <1>2
<1>5. Shells'
  <2>1. /\ \A i \in 1..Len(io) : IsSave(i)' = IsSave(i) /\ CarriesShell(i)' = CarriesShell(i)
        /\ (CarriesShell(n + 1)' <=> b.shell = TRUE)
    BY <1>1, <1>2 DEF IsSave, CarriesShell
  <2>2. \A i \in 1..Len(io) : IsSave(i) => mem # Nothing
    BY Zenon DEF Known, IsSave
  <2>3. \A i \in 1..Len(io) : IsSave(i) /\ CarriesShell(i) => b.shell = TRUE
    BY <2>2, Zenon DEF Shells
  <2>4. \A i \in 1..Len(io') : IsSave(i)' /\ disk.shell = TRUE => CarriesShell(i)'
    BY <1>4, <2>1, Zenon DEF Shells
  <2>5. \A i \in 1..Len(io') : IsSave(i)' /\ CarriesShell(i)' => b.shell = TRUE
    BY <1>4, <2>1, <2>3
  <2>6. ASSUME NEW i \in 1..Len(io'), NEW j \in 1..Len(io'),
               i < j, IsSave(i)', IsSave(j)', CarriesShell(i)'
        PROVE  CarriesShell(j)'
    <3>1. CASE j = n + 1
      BY <2>1, <2>5, <2>6, <3>1
    <3>2. CASE j \in 1..Len(io)
      <4>1. i \in 1..Len(io)
        BY <1>2, <1>4, <2>6, <3>2
      <4> QED BY <2>1, <2>6, <3>2, <4>1 DEF Shells
    <3> QED BY <1>4, <3>1, <3>2
  <2> QED BY <2>4, <2>5, <2>6 DEF Shells
<1>6. Saved'
  <2>1. Len(io) + 1 \in 1..Len(io') /\ io'[Len(io) + 1].kind = "save"
    BY <1>1, <1>2
  <2>2. ASSUME NEW i \in 1..Len(io'), LastSave(i)'
        PROVE  i = Len(io) + 1
    BY <1>2, <2>1, <2>2 DEF LastSave
  <2> QED BY <1>1, <1>2, <2>1, <2>2 DEF Saved
<1> QED BY <1>1, <1>2, <1>3, <1>4, <1>5, <1>6

LEMMA RememberKeeps ==
    ASSUME NEW o \in BootOp, BootCore, Persistent, Remember(o)
    PROVE  BootCore'
<1> USE DEF BootCore
<1> DEFINE prev == IF mem # Nothing THEN mem ELSE disk
           val == bootOp[o].value
           merged == MergeBootstrap(prev, val)
           b == IF active # Unversioned THEN [merged EXCEPT !.version = active] ELSE merged
<1>1. /\ bootOp[o].kind = "remember" /\ bootOp[o].at = "loaded"
      /\ UNCHANGED <<disk, caches, turn, handed, told, lost, restarts>>
  BY Zenon DEF Remember, ghosts
<1>2. Previous(o) = prev /\ prev \in Kept
  BY <1>1, Zenon DEF Previous, Known, BootTypes
<1>3. /\ mem' = b /\ active' = Applied(b.version) /\ io' = Append(io, Save(b))
      /\ bootOp' = [bootOp EXCEPT ![o] = NoOperation]
  BY <1>2, Zenon DEF Remember, EndRemember, MustClear, Persistent
<1>4. val \in [shell : BOOLEAN, version : {Unversioned}] /\ val.version = Unversioned
  BY <1>1, Zenon DEF Carried
<1>5. /\ merged \in Bootstrap
      /\ prev # Nothing => merged.version = prev.version
      /\ prev = Nothing => merged.version = Unversioned
      /\ prev # Nothing /\ prev.shell = TRUE => merged.shell = TRUE
  <2>1. CASE prev = Nothing
    BY <1>4, <2>1, ZenonT(40) DEF MergeBootstrap, Bootstrap
  <2>2. CASE prev # Nothing
    <3>1. prev \in Bootstrap
      BY <1>2, <2>2, Zenon DEF Kept
    <3>2. merged = [shell |-> val.shell \/ prev.shell, version |-> prev.version]
      BY <1>4, <2>2 DEF MergeBootstrap
    <3> QED BY <1>4, <2>2, <3>1, <3>2 DEF Bootstrap
  <2> QED BY <2>1, <2>2, Zenon
<1> HIDE DEF merged, val
<1>6. /\ b \in Bootstrap /\ b.shell = merged.shell
      /\ active # Unversioned => b.version = active
      /\ active = Unversioned => b.version = merged.version
  BY <1>5, Zenon DEF Bootstrap, BootTypes, AnyVersion
<1>7. disk.shell = TRUE \/ (mem # Nothing /\ mem.shell = TRUE) => b.shell = TRUE
  BY <1>5, <1>6, Values DEF Shells
<1> HIDE DEF b
<1>8. /\ io' \in Seq(IoRecord) /\ mem' # Nothing /\ Shells' /\ Saved'
      /\ \A i \in 1..Len(io') :
            \/ i \in 1..Len(io) /\ io'[i] = io[i]
            \/ io'[i].kind = "save" /\ io'[i].value = b
  BY <1>1, <1>3, <1>6, <1>7, SaveKeeps, Zenon
<1>9. NoOperation \in OpRecord /\ NoOperation.at = "idle" /\ NoOperation.kind = "none"
  BY Zenon DEF NoOperation, OpRecord, Kept
<1>10. /\ bootOp' \in [BootOp -> OpRecord] /\ bootOp'[o] = NoOperation
       /\ \A p \in BootOp \ {o} : bootOp'[p] = bootOp[p]
  BY <1>3, <1>9, OneOperation DEF BootTypes
<1>11. active' = IF b.version \in Version THEN b.version ELSE active
  BY <1>3, Zenon DEF Applied
<1>12. BootTypes' /\ Carried'
  BY <1>1, <1>3, <1>6, <1>8, <1>9, <1>10, <1>11, ZenonT(40) DEF BootTypes, Carried, AnyVersion, Kept
<1>13. Loading'
  BY <1>1, <1>8, <1>10, LoadingKept, Zenon
<1>14. handed # Unversioned => active' = active /\ b.version = handed
  BY <1>6, <1>11, Zenon DEF Known
<1>15. Known'
  BY <1>1, <1>3, <1>8, <1>14, ZenonT(40) DEF Known
<1>16. Purged'
  BY <1>1, <1>9, <1>10, <1>14 DEF Purged, Adopting
<1>17. OneVersion'
  <2> SUFFICES ASSUME restarts = 0, handed = Unversioned PROVE OneVersion'
    BY <1>1, Zenon DEF OneVersion
  <2>1. b.version = told
    BY <1>5, <1>6, Zenon DEF OneVersion
  <2>2. active' \in {Unversioned, told} /\ (active = told => active' = told)
    BY <1>11, <2>1, Zenon DEF OneVersion
  <2>3. disk # Nothing => disk.version = told
    BY Zenon DEF OneVersion
  <2>4. \A i \in 1..Len(io') : io'[i].kind = "save" => io'[i].value.version = told
    BY <1>8, <2>1, Zenon DEF OneVersion
  <2>5. ASSUME NEW p \in BootOp, bootOp'[p].at = "purging" PROVE active' = told
    <3>1. p # o
      BY <1>9, <1>10, <2>5, Zenon
    <3>2. bootOp[p].at = "purging"
      BY <1>10, <2>5, <3>1, Zenon
    <3> QED BY <2>2, <3>2, Zenon DEF OneVersion
  <2> QED BY <1>1, <1>3, <1>8, <2>1, <2>2, <2>3, <2>4, <2>5, Zenon DEF OneVersion
<1>18. PagesKnow'
  BY <1>1, <1>9, <1>10, <1>14 DEF PagesKnow, Adopting
<1> QED BY <1>1, <1>8, <1>12, <1>13, <1>15, <1>16, <1>17, <1>18

LEMMA AdoptKeeps ==
    ASSUME NEW o \in BootOp, BootCore, Adopt(o)
    PROVE  BootCore'
<1> USE DEF BootCore
<1> DEFINE v == bootOp[o].value.version
           prev == IF mem # Nothing THEN mem ELSE disk
           b == [prev EXCEPT !.version = v]
           carried == prev # Nothing /\ prev.version # v
           new == Purging([bootOp[o] EXCEPT !.change = Changed(o, v)])
<1>1. /\ bootOp[o].kind = "adopt" /\ bootOp[o].at = "loaded"
      /\ UNCHANGED <<disk, caches, turn, told, lost, restarts>>
  BY Zenon DEF Adopt, ghosts
<1>2. Previous(o) = prev /\ prev \in Kept
  BY <1>1, Zenon DEF Previous, Known, BootTypes
<1>3. /\ mem' = (IF carried THEN b ELSE mem)
      /\ io' = (IF carried THEN Append(io, Save(b)) ELSE io)
      /\ active' = v /\ handed' = v
      /\ bootOp' = [bootOp EXCEPT ![o] = new]
  BY <1>2, Zenon DEF Adopt
<1>4. v \in Version /\ v # Unversioned
  BY <1>1, Values, Zenon DEF Carried
<1>5. /\ new \in OpRecord /\ new.kind = "adopt" /\ new.at = "purging" /\ new.value.version = v
      /\ new.change = Changed(o, v)
  <2>1. bootOp[o] \in OpRecord /\ [shell |-> FALSE, version |-> v] \in Kept
    BY <1>4, Zenon DEF BootTypes, Kept, Bootstrap
  <2>2. Changed(o, v) \in BOOLEAN
    <3>1. bootOp[o].change \in BOOLEAN
      BY <2>1, Zenon DEF OpRecord
    <3> QED BY <3>1, Zenon DEF Changed
  <2> QED BY <1>1, <1>3, <2>1, <2>2, Zenon DEF Purging, OpRecord
<1>6. ~Changed(o, v) => active = v
  BY Zenon DEF Changed
<1> HIDE DEF new, v
<1>7. /\ bootOp' \in [BootOp -> OpRecord] /\ bootOp'[o] = new
      /\ \A p \in BootOp \ {o} : bootOp'[p] = bootOp[p]
  BY <1>3, <1>5, OneOperation DEF BootTypes
<1>8. carried => b \in Bootstrap /\ b.version = v /\ b.shell = prev.shell
  BY <1>2, <1>4, Zenon DEF Kept, Bootstrap
<1>9. carried => /\ io' \in Seq(IoRecord) /\ mem' # Nothing /\ Shells' /\ Saved'
                 /\ \A i \in 1..Len(io') :
                       \/ i \in 1..Len(io) /\ io'[i] = io[i]
                       \/ io'[i].kind = "save" /\ io'[i].value = b
  <2> SUFFICES ASSUME carried
               PROVE  /\ io' \in Seq(IoRecord) /\ mem' # Nothing /\ Shells' /\ Saved'
                      /\ \A i \in 1..Len(io') :
                            \/ i \in 1..Len(io) /\ io'[i] = io[i]
                            \/ io'[i].kind = "save" /\ io'[i].value = b
    OBVIOUS
  <2>1. disk.shell = TRUE \/ (mem # Nothing /\ mem.shell = TRUE) => b.shell = TRUE
    BY <1>8, Values, Zenon DEF Shells
  <2>2. b \in Bootstrap /\ mem' = b /\ io' = Append(io, Save(b)) /\ UNCHANGED <<disk, lost>>
    BY <1>1, <1>3, <1>8, Zenon
  <2> HIDE DEF b, carried
  <2> QED BY <2>1, <2>2, SaveKeeps, Zenon
<1>10. ~carried => /\ UNCHANGED <<io, mem, disk, lost>>
                   /\ mem # Nothing => mem.version = v
                   /\ mem = Nothing /\ disk # Nothing => disk.version = v
  BY <1>1, <1>3, Zenon
<1>11. carried => mem' = b /\ mem'.version = v
  BY <1>3, <1>8, Zenon
<1>12. BootTypes'
  BY <1>1, <1>3, <1>4, <1>7, <1>8, <1>9, <1>10, <1>11 DEF BootTypes, AnyVersion, Kept
<1> HIDE DEF b, carried, prev
<1>13. Carried'
  BY <1>4, <1>5, <1>7 DEF Carried
<1>14. Loading'
  <2>1. \A i \in 1..Len(io') : io'[i].kind = "load" => i \in 1..Len(io) /\ io'[i] = io[i]
    BY <1>9, <1>10, Zenon
  <2> QED BY <1>1, <1>7, <2>1, LoadingKept, ZenonT(40)
<1>15. Shells' /\ Saved'
  BY <1>9, <1>10, Zenon DEF Shells, Saved, IsSave, CarriesShell, LastSave
<1>16. Known'
  <2>1. CASE carried
    BY <1>1, <1>3, <1>9, <1>11, <2>1, ZenonT(40) DEF Known
  <2>2. CASE ~carried
    BY <1>1, <1>3, <1>5, <1>7, <1>10, <2>2, Zenon DEF Known
  <2> QED BY <2>1, <2>2, Zenon
<1>17. Purged'
  BY <1>1, <1>3, <1>5, <1>7 DEF Purged, Adopting
<1>18. OneVersion'
  BY <1>3, <1>4, Zenon DEF OneVersion
<1>19. PagesKnow'
  <2> SUFFICES ASSUME restarts = 0, new.change # TRUE PROVE told = v
    BY <1>1, <1>3, <1>5, <1>7, Zenon DEF PagesKnow, Adopting
  <2>1. active = v
    BY <1>5, <1>6, Zenon DEF Changed
  <2>2. CASE handed = Unversioned
    BY <1>4, <2>1, <2>2, Zenon DEF OneVersion
  <2>3. CASE handed # Unversioned
    <3>1. \A p \in BootOp : ~Adopting(p)
      BY <1>1, Zenon DEF Purged, Adopting
    <3> QED BY <2>1, <2>3, <3>1, Zenon DEF PagesKnow
  <2> QED BY <2>2, <2>3, Zenon
<1> QED BY <1>1, <1>12, <1>13, <1>14, <1>15, <1>16, <1>17, <1>18, <1>19, Zenon

LEMMA PurgeKeeps ==
    ASSUME NEW o \in BootOp, BootCore, Persistent, Purge(o)
    PROVE  BootCore'
<1> USE DEF BootCore
<1>1. /\ bootOp[o].at = "purging" /\ caches' = caches \cap {bootOp[o].value.version}
      /\ told' = IF bootOp[o].kind = "announce" \/ bootOp[o].change THEN active ELSE told
      /\ UNCHANGED <<mem, disk, io, active, handed, lost, restarts>>
  BY Zenon DEF Purge, PurgeStale, ghosts
<1>2. bootOp[o] \in OpRecord /\ bootOp[o].change \in BOOLEAN
  BY Zenon DEF BootTypes, OpRecord
<1>3. told' \in {told, active} /\ (bootOp[o].change = TRUE => told' = active)
  BY <1>1, <1>2, Zenon
<1>4. PICK new \in OpRecord :
          /\ bootOp' = [bootOp EXCEPT ![o] = new]
          /\ new.kind \in {"none", "announce"} /\ new.at \in {"idle", "purging"}
          /\ \/ bootOp[o].kind = "adopt" /\ turn' = Tail(turn)
             \/ bootOp[o].kind # "adopt" /\ turn' = turn
  <2>1. NoOperation \in OpRecord /\ NoOperation.at = "idle" /\ NoOperation.kind = "none"
    BY DEF NoOperation, OpRecord, Kept
  <2>2. CASE bootOp[o].kind \in {"restore", "activate"}
    <3>1. bootOp' = [bootOp EXCEPT ![o] = Restored(bootOp[o])] /\ turn' = turn
      BY <2>2 DEF Purge, EndRestore, MustClear, Persistent
    <3>2. active' \in AnyVersion
      BY <1>1 DEF BootTypes
    <3> QED BY <1>2, <2>2, <3>1, <3>2, AfterRestore, Zenon
  <2>3. CASE bootOp[o].kind \notin {"restore", "activate"}
    BY <2>1, <2>3, Zenon DEF Purge
  <2> QED BY <2>2, <2>3, Zenon
<1>5. /\ bootOp' \in [BootOp -> OpRecord] /\ bootOp'[o] = new
      /\ \A p \in BootOp \ {o} : bootOp'[p] = bootOp[p]
  BY <1>4, OneOperation, Zenon DEF BootTypes
<1>6. bootOp[o].kind = "adopt" => turn # <<>> /\ Head(turn) = o
  BY <1>1, Zenon DEF Purged
<1>7. BootTypes' /\ Carried'
  <2>1. turn' \in Seq(BootOp)
    <3>1. turn \in Seq(BootOp) /\ (turn # <<>> => Tail(turn) \in Seq(BootOp))
      BY Behead, Zenon DEF BootTypes
    <3> QED BY <1>4, <1>6, <3>1, Zenon
  <2> QED BY <1>1, <1>3, <1>4, <1>5, <2>1, Zenon DEF BootTypes, Carried
<1>8. Loading'
  BY <1>1, <1>5, LoadingKept, Zenon
<1>9. Known' /\ Shells' /\ Saved'
  <2>1. Known'
    BY <1>1, <1>4, <1>5, Zenon DEF Known
  <2> QED BY <2>1, <1>1, Zenon DEF Shells, Saved, IsSave, CarriesShell, LastSave
<1>10. Purged'
  <2>1. ASSUME NEW p \in BootOp, bootOp'[p].kind = "adopt", bootOp'[p].at # "queued"
        PROVE  turn' # <<>> /\ Head(turn') = p
    <3>1. p # o /\ turn # <<>> /\ Head(turn) = p
      BY <1>4, <1>5, <2>1, Zenon DEF Purged
    <3> QED BY <1>4, <1>6, <3>1, Zenon
  <2>2. ASSUME handed # Unversioned
        PROVE  \/ caches' \subseteq {active}
               \/ \E p \in BootOp : Adopting(p)' /\ bootOp'[p].value.version = active
    <3>1. CASE caches \subseteq {active}
      BY <1>1, <3>1, Zenon
    <3>2. ASSUME NEW p \in BootOp, Adopting(p), bootOp[p].value.version = active
          PROVE  \/ caches' \subseteq {active}
                 \/ Adopting(p)' /\ bootOp'[p].value.version = active
      BY <1>1, <1>5, <3>2, Zenon DEF Adopting
    <3> QED BY <2>2, <3>1, <3>2, Zenon DEF Purged
  <2> QED BY <1>1, <2>1, <2>2, Zenon DEF Purged
<1>11. OneVersion'
  <2> SUFFICES ASSUME restarts = 0, handed = Unversioned PROVE OneVersion'
    BY <1>1, Zenon DEF OneVersion
  <2>1. told' = told /\ active = told
    BY <1>1, <1>3, ZenonT(40) DEF OneVersion
  <2> QED BY <1>1, <1>4, <1>5, <2>1, Zenon DEF OneVersion
<1>12. PagesKnow'
  <2> SUFFICES ASSUME restarts = 0, handed # Unversioned, told' # active PROVE PagesKnow'
    BY <1>1, Zenon DEF PagesKnow
  <2>1. told' = told /\ bootOp[o].change # TRUE
    BY <1>3, ZenonT(40)
  <2>2. PICK p \in BootOp : Adopting(p) /\ bootOp[p].change = TRUE
    BY <2>1, Zenon DEF PagesKnow
  <2>3. p # o
    BY <2>1, <2>2, Zenon
  <2> QED BY <1>1, <1>5, <2>2, <2>3, Zenon DEF PagesKnow, Adopting
<1> QED BY <1>1, <1>7, <1>8, <1>9, <1>10, <1>11, <1>12

LEMMA BootInitHolds ==
    ASSUME BootInit
    PROVE  BootIInv
<1> USE DEF BootInit
<1>1. NoOperation \in OpRecord /\ NoOperation.at = "idle" /\ NoOperation.kind = "none"
  BY Zenon DEF NoOperation, OpRecord, Kept
<1>2. BootTypes
  <2>1. told \in AnyVersion
    BY Values, Zenon DEF AnyVersion
  <2>2. bootOp \in [BootOp -> OpRecord] /\ io \in Seq(IoRecord) /\ turn \in Seq(BootOp)
    BY <1>1
  <2> QED BY <2>1, <2>2, Zenon DEF BootTypes, Kept, AnyVersion
<1>3. \A o \in BootOp : bootOp[o] = NoOperation
  OBVIOUS
<1>4. Carried /\ Loading /\ Known /\ Shells /\ Saved /\ Purged
  BY <1>1, <1>3 DEF Carried, Loading, Known, Shells, Saved, Purged
<1>5. OneVersion /\ PagesKnow
  BY <1>1, <1>3 DEF OneVersion, PagesKnow
<1> QED BY <1>2, <1>4, <1>5, Zenon DEF BootIInv, BootCore

LEMMA BootNextKeeps ==
    ASSUME BootIInv, [BootNext]_bootVars
    PROVE  BootIInv'
<1>1. storage' = storage
  <2>1. CASE UNCHANGED bootVars
    BY <2>1 DEF bootVars
  <2>2. CASE BootNext
    BY <2>2, ZenonT(40) DEF BootNext, BeginRestore, BeginRemember, BeginAdopt, RunAdopt, Restore, Remember,
                Cleared, Adopt, Purge, DoIo, SaveFails, Store, BootRestart, ghosts
  <2> QED BY <2>1, <2>2, Zenon
<1> SUFFICES ASSUME Persistent, BootCore PROVE BootCore'
  BY <1>1, Zenon DEF BootIInv, Persistent
<1>2. CASE UNCHANGED bootVars
  <2>1. BootTypes' /\ Carried' /\ Loading' /\ Known'
    BY <1>2, Zenon DEF bootVars, BootCore, BootTypes, Carried, Loading, Known
  <2>2. Shells' /\ Saved'
    BY <1>2, Zenon DEF bootVars, BootCore, Shells, IsSave, CarriesShell, Saved, LastSave
  <2>3. Purged' /\ OneVersion' /\ PagesKnow'
    BY <1>2, Zenon DEF bootVars, BootCore, Purged, Adopting, OneVersion, PagesKnow
  <2>4. restarts' \in Nat /\ lost' \in BOOLEAN
    BY <1>2, Zenon DEF bootVars, BootCore
  <2> QED BY <2>1, <2>2, <2>3, <2>4, Zenon DEF BootCore
<1>3. ASSUME NEW o \in BootOp, Cleared(o) PROVE FALSE
  BY <1>3, Zenon DEF Cleared, BootCore, BootTypes, OpRecord
<1>4. CASE BootNext
  BY <1>3, <1>4, BeginKeeps, BeginAdoptKeeps, RestoreKeeps, RememberKeeps, AdoptKeeps, PurgeKeeps,
     DoIoKeeps, SaveFailsKeeps, StoreKeeps, RestartKeeps, Zenon DEF BootNext
<1> QED BY <1>2, <1>4, Zenon

LEMMA BootInvariant == BootSpec => []BootIInv
<1> HIDE DEF BootIInv, BootInit, BootNext, bootVars
<1> QED BY BootInitHolds, BootNextKeeps, PTL DEF BootSpec

\* sw.ts:130 and :214: in a persistent deployment nothing rolls the worker back
\* behind the build its site's page handed over, whatever was read from IndexedDB
\* before, by however many operations, in whatever order they go on.
THEOREM BuildNeverRolledBack == BootSpec => []NeverRolledBack
<1>1. BootIInv => NeverRolledBack
  BY Zenon DEF BootIInv, BootCore, Known, NeverRolledBack
<1> QED BY <1>1, BootInvariant, PTL

\* Whenever nothing is under way, IndexedDB, the caches and the pages agree with
\* the live build, for any number of interleaved restores, bootstraps, handoffs,
\* failed saves and restarts.
THEOREM QuietWorkerAgrees == BootSpec => []QuietStateAgrees
<1>1. BootIInv => QuietStateAgrees
  <2> SUFFICES ASSUME BootCore, Quiet
               PROVE  /\ ~lost /\ mem # Nothing => disk = mem
                      /\ handed # Unversioned => /\ caches \subseteq {active}
                                                 /\ restarts = 0 => told = handed
    BY Zenon DEF BootIInv, QuietStateAgrees
  <2>1. 1..Len(io) = {} /\ \A o \in BootOp : ~Adopting(o)
    BY DEF Quiet, Adopting, NoOperation
  <2>2. ~lost /\ mem # Nothing => disk = mem
    BY <2>1, Zenon DEF BootCore, Saved
  <2>3. handed # Unversioned => caches \subseteq {active} /\ active = handed
    BY <2>1, Zenon DEF BootCore, Purged, Known
  <2>4. handed # Unversioned /\ restarts = 0 => told = active
    BY <2>1, Zenon DEF BootCore, PagesKnow
  <2> QED BY <2>2, <2>3, <2>4, Zenon
<1> QED BY <1>1, BootInvariant, PTL

\* inject.ts, mergeBootstrap: no step takes a stored shell path away.
THEOREM ShellPathSurvives == BootSpec => ShellPathIsKept
<1>1. ASSUME BootIInv, [BootNext]_bootVars
      PROVE  [Persistent /\ disk.shell => disk'.shell]_disk
  <2> SUFFICES ASSUME Persistent, BootCore, disk.shell, disk' # disk
               PROVE  disk'.shell
    BY <1>1, Zenon DEF BootIInv
  <2>1. DoIo /\ Head(io).kind = "save"
    <3>1. BootNext
      BY <1>1, Zenon DEF bootVars
    <3> QED BY <3>1, ZenonT(40) DEF BootNext, BeginRestore, BeginRemember, BeginAdopt, RunAdopt, Restore,
                Remember, Cleared, Adopt, Purge, DoIo, SaveFails, Store, BootRestart
  <2>2. io \in Seq(IoRecord) /\ io # <<>> /\ disk' = Head(io).value
    BY <2>1, Zenon DEF DoIo, BootCore, BootTypes
  <2>3. 1 \in 1..Len(io) /\ Head(io) = io[1]
    BY <2>2, Behead
  <2>4. disk.shell = TRUE
    BY Values, Zenon DEF BootCore, BootTypes
  <2>5. CarriesShell(1)
    BY <2>1, <2>3, <2>4, Zenon DEF BootCore, Shells, IsSave
  <2> QED BY <2>2, <2>3, <2>5, Zenon DEF CarriesShell
<1>2. BootIInv /\ [BootNext]_bootVars => [Persistent /\ disk.shell => disk'.shell]_disk
  BY <1>1, Zenon
<1> HIDE DEF BootIInv, BootNext
<1> QED BY <1>2, BootInvariant, PTL DEF BootSpec, ShellPathIsKept

-----------------------------------------------------------------------------
(* WorkerFetch: the inductive invariant.                                     *)

Representation == [content : Nat, orders : Orders]
StoredCopy == [content : Nat, orders : Storable] \cup {None}
FetchRecord ==
    [at : {"idle", "held", "routing", "matching", "deciding", "network", "transport",
           "answered", "consuming", "served"},
     top : {"no", "app", "shell"}, always : BOOLEAN, mode : RequestModes,
     epoch : Nat, waits : Nat, floor : Nat, connected : BOOLEAN, fresh : BOOLEAN,
     hit : StoredCopy, answer : Representation \cup {None, Failure}, validated : BOOLEAN,
     via : {"none", "shell", "gateway-timeout", "hit", "stale", "origin", "error"}]

\* No invalidation was asked for when the origin had newer content than now.
Contents ==
    /\ expected \in BOOLEAN
    /\ origin \in Representation /\ fetchEpoch \in Nat /\ floor \in Nat
    /\ invalidations \in Seq(Nat)
    /\ floor <= origin.content
    /\ \A i \in 1..Len(invalidations) : invalidations[i] <= origin.content

EntryHolds ==
    entry \in StoredCopy /\ (entry # None => entry.content >= floor)

\* Content a request may still store: newer than every invalidation, pending or
\* acknowledged, unless the epoch has moved since the request noted it.
Outlives(q) ==
    q.epoch = fetchEpoch =>
        /\ q.answer.content >= floor
        /\ \A i \in 1..Len(invalidations) : q.answer.content >= invalidations[i]

\* A request has waited for the invalidations asked for before it, or knows how
\* many are left; what it holds is no older than they demand.
Sound(q) ==
    /\ q.epoch <= fetchEpoch /\ q.floor <= origin.content
    /\ q.at = "held" => q.waits \in 1..Len(invalidations) /\ invalidations[q.waits] = q.floor
    /\ q.at # "held" => q.floor <= floor
    /\ q.at # "served" => q.via = "none"
    /\ q.hit # None => q.hit.content >= q.floor
    /\ q.answer \notin {None, Failure} => q.answer.content >= q.floor
    /\ q.at \in {"answered", "consuming"} /\ q.answer \notin {None, Failure} => Outlives(q)
    /\ q.via \in {"hit", "stale"} /\ ForbidsStale(q.answer) =>
          q.via = "hit" /\ (q.fresh = TRUE \/ ForceCached(q))

FetchIInv ==
    /\ Contents /\ EntryHolds
    /\ req \in [Request -> FetchRecord] /\ \A r \in Request : Sound(req[r])
    /\ rv \in FetchRecord /\ Sound(rv) /\ rv.at # "held"

\* None and Failure are told apart from every representation by their orders,
\* and Stored and the fallbacks only ever take a stored copy or an answer.
LEMMA Placeholders ==
    /\ None \in StoredCopy /\ Failure.orders \notin Orders /\ None.orders \notin Orders
    /\ \A e \in StoredCopy : e \in Representation \cup {None, Failure}
    /\ \A e \in StoredCopy : e.content \in Nat
    /\ \A e \in Representation \cup {None, Failure} :
          e.content \in Nat /\ (e.orders \in Storable => e \in StoredCopy /\ e \notin {None, Failure})
  BY FetchAssumption DEF None, Failure, Representation, StoredCopy, Storable

\* A settled request is sound when what it was given is.
LEMMA ServedIsSound ==
    ASSUME Contents, NEW q \in FetchRecord, Sound(q), q.at # "held",
           NEW e \in Representation \cup {None, Failure},
           NEW how \in {"shell", "gateway-timeout", "hit", "stale", "origin", "error"},
           e \notin {None, Failure} => e.content >= q.floor,
           how \in {"hit", "stale"} /\ ForbidsStale(e) =>
               how = "hit" /\ (q.fresh = TRUE \/ ForceCached(q))
    PROVE  Served(q, e, how) \in FetchRecord /\ Sound(Served(q, e, how))
  <1> DEFINE p == Served(q, e, how)
  <1>1. /\ p = [NoRequest EXCEPT !.at = "served", !.floor = q.floor, !.answer = e, !.via = how,
                   !.fresh = q.fresh, !.mode = IF ForceCached(q) THEN q.mode ELSE "default"]
    BY Zenon DEF Served
  <1>2. p = [at |-> "served", top |-> "no", always |-> FALSE,
             mode |-> IF ForceCached(q) THEN q.mode ELSE "default",
             epoch |-> 0, waits |-> 0, floor |-> q.floor, connected |-> FALSE,
             fresh |-> q.fresh, hit |-> None, answer |-> e, validated |-> FALSE, via |-> how]
    BY <1>1, ZenonT(40) DEF NoRequest
  <1> HIDE DEF p
  <1>3. (IF ForceCached(q) THEN q.mode ELSE "default") \in RequestModes
    BY Zenon DEF FetchRecord, RequestModes
  <1>4. q.floor \in Nat /\ q.fresh \in BOOLEAN
    BY Zenon DEF FetchRecord
  <1>5. p \in FetchRecord
    BY <1>2, <1>3, <1>4, Placeholders, Zenon DEF FetchRecord
  <1>6. ForceCached(q) => ForceCached(p)
    BY <1>2, Zenon DEF ForceCached
  <1>7. Sound(p)
    <2>1. /\ p.at = "served" /\ p.epoch = 0 /\ p.floor = q.floor /\ p.fresh = q.fresh /\ p.hit = None
          /\ p.answer = e /\ p.via = how
      BY <1>2, Zenon
    <2>2. 0 <= fetchEpoch /\ q.floor <= origin.content /\ q.floor <= floor
      <3>1. fetchEpoch \in Nat
        BY Zenon DEF Contents
      <3>2. q.floor <= origin.content /\ q.floor <= floor
        BY Zenon DEF Sound
      <3> QED BY <3>1, <3>2
    <2>3. "served" \notin {"answered", "consuming"} /\ "served" # "held"
      OBVIOUS
    <2> QED BY <1>6, <2>1, <2>2, <2>3, ZenonT(40) DEF Sound
  <1> QED BY <1>5, <1>7, Zenon DEF p

\* Nor does a request lose anything on its way to the transport.
LEMMA AfterCacheIsSound ==
    ASSUME Contents, NEW q \in FetchRecord, Sound(q), q.at \notin {"held", "served"}
    PROVE  AfterCache(q) \in FetchRecord /\ Sound(AfterCache(q))
  <1>1. CASE q.mode = "only-if-cached"
    <2>1. AfterCache(q) = Served(q, None, "gateway-timeout")
      BY <1>1, Zenon DEF AfterCache
    <2> QED BY <2>1, ServedIsSound, Placeholders, Zenon
  <1>2. CASE q.mode # "only-if-cached"
    <2>1. PICK way \in {"network", "transport"} :
              AfterCache(q) = [q EXCEPT !.at = way, !.top = "no", !.always = FALSE,
                                        !.connected = FALSE, !.fresh = FALSE]
      <3>1. CASE ~q.connected /\ ~expected
        BY <1>2, <3>1, Zenon DEF AfterCache
      <3>2. CASE ~(~q.connected /\ ~expected)
        BY <1>2, <3>2, Zenon DEF AfterCache
      <3> QED BY <3>1, <3>2, Zenon
    <2> DEFINE p == [q EXCEPT !.at = way, !.top = "no", !.always = FALSE,
                              !.connected = FALSE, !.fresh = FALSE]
    <2>2. p \in FetchRecord
      BY Zenon DEF FetchRecord
    <2>3. /\ p.at = way /\ p.epoch = q.epoch /\ p.floor = q.floor /\ p.hit = q.hit
          /\ p.answer = q.answer /\ p.via = q.via
      BY DEF FetchRecord
    <2>4. q.via = "none"
      BY Zenon DEF Sound
    <2> HIDE DEF p
    <2>5. Sound(p)
      BY <2>3, <2>4, Zenon DEF Sound
    <2> QED BY <2>1, <2>2, <2>5, Zenon DEF p
  <1> QED BY <1>1, <1>2, Zenon

\* Whatever the node answers now is as new as any invalidation asked for so far.
LEMMA AnswersAreSound ==
    ASSUME Contents, NEW q \in FetchRecord, Sound(q), q.at = "transport", NEW p \in Answers(q)
    PROVE  p \in FetchRecord /\ Sound(p) /\ p.at = "answered"
  <1>1. PICK e \in {origin, Failure} :
            p = [q EXCEPT !.at = "answered", !.answer = e,
                          !.validated = e # Failure /\ q.hit.content = e.content]
    BY Zenon DEF Answers
  <1>2. e \in Representation \cup {None, Failure}
    BY Zenon DEF Contents
  <1>3. (e # Failure /\ q.hit.content = e.content) \in BOOLEAN
    OBVIOUS
  <1>4. p \in FetchRecord
    BY <1>1, <1>2, <1>3, ZenonT(40) DEF FetchRecord
  <1>5. /\ p.at = "answered" /\ p.epoch = q.epoch /\ p.floor = q.floor /\ p.hit = q.hit
        /\ p.answer = e /\ p.via = q.via
    BY <1>1, Zenon DEF FetchRecord
  <1>6. q.via = "none" /\ q.floor <= floor /\ q.floor <= origin.content
    BY Zenon DEF Sound
  <1>7. Sound(p)
    BY <1>5, <1>6, Zenon DEF Sound, Outlives, Contents
  <1> QED BY <1>4, <1>5, <1>7, Zenon

\* What a request stores never undoes an invalidation.
LEMMA StoredHolds ==
    ASSUME Contents, EntryHolds, NEW q \in FetchRecord, Sound(q),
           q.at \in {"answered", "consuming"}
    PROVE  Stored(q) \in StoredCopy /\ (Stored(q) # None => Stored(q).content >= floor)
  <1>1. CASE q.epoch = fetchEpoch /\ q.answer.orders \in Storable /\ q.mode # "no-store"
             /\ policy # "never"
    <2>1. Stored(q) = q.answer
      BY <1>1, Zenon DEF Stored
    <2>2. q.answer \in Representation \cup {None, Failure}
      BY Zenon DEF FetchRecord
    <2>3. q.answer \in StoredCopy /\ q.answer \notin {None, Failure}
      BY <1>1, <2>2, Placeholders
    <2> QED BY <1>1, <2>1, <2>3, Zenon DEF Sound, Outlives
  <1>2. CASE ~(q.epoch = fetchEpoch /\ q.answer.orders \in Storable /\ q.mode # "no-store"
             /\ policy # "never")
    BY <1>2, Zenon DEF Stored, EntryHolds
  <1> QED BY <1>1, <1>2, Zenon

\* A step that only replaces one request's record by a sound one, and perhaps
\* the entry by one that holds, keeps the invariant.
LEMMA OneRequestMoves ==
    ASSUME FetchIInv, NEW r \in Request, NEW p \in FetchRecord, Sound(p),
           req' = [req EXCEPT ![r] = p], EntryHolds',
           UNCHANGED <<expected, origin, fetchEpoch, invalidations, floor>>
    PROVE  Contents' /\ (req \in [Request -> FetchRecord])' /\ (\A x \in Request : Sound(req[x]))'
  <1>1. Contents'
    BY Zenon DEF FetchIInv, Contents
  <1>2. req' \in [Request -> FetchRecord]
    BY Zenon DEF FetchIInv
  <1>3. ASSUME NEW x \in Request PROVE Sound(req[x])'
    <2>1. Sound(req'[x])
      BY Zenon DEF FetchIInv
    <2> QED BY <2>1, Zenon DEF Sound, Outlives, ForbidsStale, ForceCached
  <1> QED BY <1>1, <1>2, <1>3, Zenon

\* The background revalidation's record, likewise.
LEMMA RevalidationStays ==
    ASSUME FetchIInv, UNCHANGED <<origin, fetchEpoch, invalidations, floor, rv>>
    PROVE  (rv \in FetchRecord /\ Sound(rv) /\ rv.at # "held")'
  BY Zenon DEF FetchIInv, Sound, Outlives, ForbidsStale, ForceCached

LEMMA RequestStepKeeps ==
    ASSUME FetchIInv, NEW r \in Request, NEW p \in FetchRecord, Sound(p),
           req' = [req EXCEPT ![r] = p], EntryHolds',
           UNCHANGED <<expected, origin, fetchEpoch, invalidations, floor, rv>>
    PROVE  FetchIInv'
  BY OneRequestMoves, RevalidationStays, Zenon DEF FetchIInv

\* A new request knows how many invalidations it has to wait for.
LEMMA BeginRequestKeeps == FetchIInv /\ (\E r \in Request : Begin(r)) => FetchIInv'
  <1> SUFFICES ASSUME FetchIInv, NEW r \in Request, Begin(r) PROVE FetchIInv'
    OBVIOUS
  <1>1. PICK s \in Shapes :
          req' = [req EXCEPT ![r] = [NoRequest EXCEPT !.top = s.top, !.always = s.always,
                     !.mode = s.mode, !.epoch = fetchEpoch, !.floor = AskedAt,
                     !.waits = Len(invalidations),
                     !.at = IF invalidations = <<>> THEN "routing" ELSE "held"]]
    BY Zenon DEF Begin
  <1> DEFINE p == [at |-> IF invalidations = <<>> THEN "routing" ELSE "held",
                   top |-> s.top, always |-> s.always, mode |-> s.mode, epoch |-> fetchEpoch,
                   waits |-> Len(invalidations), floor |-> AskedAt, connected |-> FALSE,
                   fresh |-> FALSE, hit |-> None, answer |-> None, validated |-> FALSE,
                   via |-> "none"]
  <1>2. req' = [req EXCEPT ![r] = p]
    <2> DEFINE at == IF invalidations = <<>> THEN "routing" ELSE "held"
    <2> DEFINE always == s.always
    <2>1. req' = [req EXCEPT ![r] = [NoRequest EXCEPT !.top = s.top, !.always = always,
                     !.mode = s.mode, !.epoch = fetchEpoch, !.floor = AskedAt,
                     !.waits = Len(invalidations), !.at = at]]
      BY <1>1, Zenon
    <2> HIDE DEF at, always
    <2>2. ASSUME NEW x, x = [NoRequest EXCEPT !.top = s.top, !.always = always,
                     !.mode = s.mode, !.epoch = fetchEpoch, !.floor = AskedAt,
                     !.waits = Len(invalidations), !.at = at]
          PROVE  x = [at |-> at, top |-> s.top, always |-> always, mode |-> s.mode,
             epoch |-> fetchEpoch, waits |-> Len(invalidations), floor |-> AskedAt,
             connected |-> FALSE, fresh |-> FALSE, hit |-> None, answer |-> None,
             validated |-> FALSE, via |-> "none"]
      BY <2>2, Zenon DEF NoRequest
    <2> QED BY <2>1, <2>2, Zenon DEF at, always
  <1>3. s.top \in {"no", "app", "shell"} /\ s.always \in BOOLEAN /\ s.mode \in RequestModes
    BY FetchAssumption, Zenon
  <1>4. Contents
    BY Zenon DEF FetchIInv
  <1>7. /\ p.epoch = fetchEpoch /\ p.waits = Len(invalidations) /\ p.floor = AskedAt /\ p.hit = None
        /\ p.answer = None /\ p.via = "none"
    BY Zenon
  <1>5. CASE invalidations = <<>>
    <2>1. AskedAt = floor /\ Len(invalidations) = 0
      BY <1>5, Zenon DEF AskedAt
    <2>2. p.at = "routing"
      BY <1>5, Zenon
    <2>3. p \in FetchRecord
      BY <1>3, <1>4, <1>5, <2>1, Placeholders, Zenon DEF FetchRecord, Contents
    <2>4. Sound(p)
      <3>1. "routing" \notin {"answered", "consuming", "held", "served"} /\ "none" \notin {"hit", "stale"}
        OBVIOUS
      <3>2. fetchEpoch <= fetchEpoch /\ floor <= origin.content /\ floor <= floor
        BY <1>4 DEF Contents, Representation
      <3> QED BY <2>1, <2>2, <3>1, <3>2, <1>7, ZenonT(40) DEF Sound
    <2> QED BY <1>2, <2>3, <2>4, RequestStepKeeps, ZenonT(40) DEF Begin, fixed, FetchIInv, EntryHolds
  <1>6. CASE invalidations # <<>>
    <2>1. /\ Len(invalidations) \in 1..Len(invalidations)
          /\ AskedAt = invalidations[Len(invalidations)] /\ AskedAt \in Nat
      BY <1>4, <1>6 DEF AskedAt, Contents
    <2>2. p.at = "held"
      BY <1>6, Zenon
    <2>3. p \in FetchRecord
      <3>1. Len(invalidations) \in Nat /\ fetchEpoch \in Nat
        BY <1>4 DEF Contents
      <3> QED BY <1>3, <1>6, <2>1, <3>1, Placeholders, ZenonT(40) DEF FetchRecord
    <2>4. Sound(p)
      <3>1. "held" \notin {"answered", "consuming", "served"} /\ "none" \notin {"hit", "stale"}
        OBVIOUS
      <3>2. fetchEpoch <= fetchEpoch /\ AskedAt <= origin.content
        BY <1>4, <2>1 DEF Contents
      <3> QED BY <2>1, <2>2, <3>1, <3>2, <1>7, ZenonT(40) DEF Sound
    <2> QED BY <1>2, <2>3, <2>4, RequestStepKeeps, Zenon DEF Begin, fixed, FetchIInv, EntryHolds
  <1> QED BY <1>5, <1>6, Zenon

\* A record that only moves on within handle().
LEMMA MovesOn ==
    ASSUME Contents, NEW q \in FetchRecord, Sound(q), q.at \notin {"held", "served"},
           NEW at \in {"routing", "matching", "deciding"}, NEW c \in BOOLEAN, NEW f \in BOOLEAN
    PROVE  /\ [q EXCEPT !.connected = c] \in FetchRecord /\ Sound([q EXCEPT !.connected = c])
           /\ [q EXCEPT !.fresh = f] \in FetchRecord /\ Sound([q EXCEPT !.fresh = f])
           /\ [q EXCEPT !.at = at] \in FetchRecord /\ Sound([q EXCEPT !.at = at])
  <1>0. q.via = "none" /\ q.at \notin {"held", "served"}
    BY Zenon DEF Sound
  <1>1. [q EXCEPT !.connected = c] \in FetchRecord
    BY Zenon DEF FetchRecord
  <1>2. [q EXCEPT !.fresh = f] \in FetchRecord
    BY Zenon DEF FetchRecord
  <1>3. [q EXCEPT !.at = at] \in FetchRecord
    BY DEF FetchRecord
  <1>4. ASSUME NEW p \in FetchRecord, p.epoch = q.epoch, p.floor = q.floor, p.hit = q.hit,
               p.answer = q.answer, p.via = q.via, p.at = q.at \/ p.at = at
        PROVE  Sound(p)
    BY <1>0, <1>4, Zenon DEF Sound, Outlives
  <1>5. Sound([q EXCEPT !.connected = c])
    BY <1>1, <1>4 DEF FetchRecord
  <1>6. Sound([q EXCEPT !.fresh = f])
    BY <1>2, <1>4 DEF FetchRecord
  <1>7. Sound([q EXCEPT !.at = at])
    BY <1>3, <1>4 DEF FetchRecord
  <1> QED BY <1>1, <1>2, <1>3, <1>5, <1>6, <1>7

LEMMA RouteKeeps == FetchIInv /\ (\E r \in Request : Route(r)) => FetchIInv'
  <1> SUFFICES ASSUME FetchIInv, NEW r \in Request, Route(r) PROVE FetchIInv'
    OBVIOUS
  <1> DEFINE q == req[r]
  <1>1. q \in FetchRecord /\ Sound(q) /\ Contents /\ q.at = "routing"
    BY Zenon DEF FetchIInv, Route
  <1>2. EntryHolds' /\ UNCHANGED <<expected, origin, fetchEpoch, invalidations, floor, rv>>
    BY Zenon DEF Route, FetchIInv, EntryHolds, fixed
  <1>3. \/ req' = [req EXCEPT ![r] = Served(q, None, "shell")]
        \/ \E c \in BOOLEAN :
              \/ req' = [req EXCEPT ![r] = [[q EXCEPT !.connected = c] EXCEPT !.at = "matching"]]
              \/ req' = [req EXCEPT ![r] = AfterCache([q EXCEPT !.connected = c])]
    BY Zenon DEF Route
  <1> HIDE DEF q
  <1>4. CASE req' = [req EXCEPT ![r] = Served(q, None, "shell")]
    BY <1>1, <1>2, <1>4, ServedIsSound, Placeholders, RequestStepKeeps, Zenon
  <1>5. ASSUME NEW c \in BOOLEAN,
               req' = [req EXCEPT ![r] = [[q EXCEPT !.connected = c] EXCEPT !.at = "matching"]]
        PROVE  FetchIInv'
    <2> DEFINE k == [q EXCEPT !.connected = c]
    <2>1. k \in FetchRecord /\ Sound(k)
      BY <1>1, MovesOn, Zenon
    <2>2. k.at = "routing"
      BY <1>1, Zenon DEF FetchRecord
    <2> HIDE DEF k
    <2>3. [k EXCEPT !.at = "matching"] \in FetchRecord /\ Sound([k EXCEPT !.at = "matching"])
      BY <1>1, <2>1, <2>2, MovesOn, Zenon
    <2> QED BY <1>2, <1>5, <2>3, RequestStepKeeps, Zenon DEF k
  <1>6. ASSUME NEW c \in BOOLEAN, req' = [req EXCEPT ![r] = AfterCache([q EXCEPT !.connected = c])]
        PROVE  FetchIInv'
    <2> DEFINE k == [q EXCEPT !.connected = c]
    <2>1. k \in FetchRecord /\ Sound(k)
      BY <1>1, MovesOn, Zenon
    <2>2. k.at = "routing"
      BY <1>1 DEF FetchRecord
    <2> HIDE DEF k
    <2>3. AfterCache(k) \in FetchRecord /\ Sound(AfterCache(k))
      BY <1>1, <2>1, <2>2, AfterCacheIsSound
    <2> QED BY <1>2, <1>6, <2>3, RequestStepKeeps, Zenon DEF k
  <1> QED BY <1>3, <1>4, <1>5, <1>6, Zenon

\* The copy a request matches is at least as new as the invalidations it waited for.
LEMMA LookUpKeeps == FetchIInv /\ (\E r \in Request : LookUp(r)) => FetchIInv'
  <1> SUFFICES ASSUME FetchIInv, NEW r \in Request, LookUp(r) PROVE FetchIInv'
    OBVIOUS
  <1> DEFINE q == req[r]
  <1> DEFINE p == [q EXCEPT !.hit = entry, !.at = "deciding"]
  <1>1. q \in FetchRecord /\ Sound(q) /\ Contents /\ EntryHolds /\ q.at = "matching"
    BY Zenon DEF FetchIInv, LookUp
  <1>2. EntryHolds' /\ UNCHANGED <<expected, origin, fetchEpoch, invalidations, floor, rv>>
    BY Zenon DEF LookUp, FetchIInv, EntryHolds, fixed
  <1>3. req' = [req EXCEPT ![r] = p]
    BY DEF LookUp, FetchIInv, FetchRecord
  <1>4. p \in FetchRecord
    BY <1>1, Zenon DEF FetchRecord, EntryHolds
  <1>5. /\ p.epoch = q.epoch /\ p.floor = q.floor /\ p.hit = entry /\ p.at = "deciding"
        /\ p.answer = q.answer /\ p.via = q.via
    BY <1>1 DEF FetchRecord
  <1>6. q.floor \in Nat
    BY <1>1, Zenon DEF FetchRecord
  <1> HIDE DEF q, p
  <1>7. q.floor <= floor /\ q.via = "none"
    BY <1>1, Zenon DEF Sound
  <1>8. entry # None => entry.content >= q.floor
    BY <1>1, <1>6, <1>7, Placeholders DEF EntryHolds, Contents
  <1>9. Sound(p)
    BY <1>1, <1>5, <1>7, <1>8, Zenon DEF Sound
  <1> QED BY <1>2, <1>3, <1>4, <1>9, RequestStepKeeps, Zenon

\* A copy past its age whose orders forbid stale use is not usable as it is.
LEMMA DecideKeeps == FetchIInv /\ (\E r \in Request : Decide(r)) => FetchIInv'
  <1> SUFFICES ASSUME FetchIInv, NEW r \in Request, Decide(r) PROVE FetchIInv'
    OBVIOUS
  <1> DEFINE q == req[r]
  <1>1. /\ q \in FetchRecord /\ Sound(q) /\ Contents /\ q.at = "deciding"
        /\ rv \in FetchRecord /\ Sound(rv) /\ rv.at # "held"
    BY Zenon DEF FetchIInv, Decide
  <1>2. EntryHolds' /\ UNCHANGED <<expected, origin, fetchEpoch, invalidations, floor>>
    BY Zenon DEF Decide, FetchIInv, EntryHolds, fixed
  <1>3. \/ req' = [req EXCEPT ![r] = AfterCache(q)]
        \/ \E f \in BOOLEAN :
              /\ q.hit # None
              /\ LET k == [q EXCEPT !.fresh = f] IN
                 \/ req' = [req EXCEPT ![r] = AfterCache(k)]
                 \/ Usable(k) /\ req' = [req EXCEPT ![r] = Served(k, k.hit, "hit")]
    <2>1. \A e : MayBeFresh(e) \subseteq BOOLEAN
      BY Zenon DEF MayBeFresh
    <2> QED BY <2>1, Zenon DEF Decide
  <1>4. \/ rv' = rv
        \/ rv' = [NoRequest EXCEPT !.at = "transport", !.epoch = fetchEpoch, !.hit = q.hit]
    BY Zenon DEF Decide
  <1> HIDE DEF q
  <1>5. q.hit \in StoredCopy
    BY <1>1, Zenon DEF FetchRecord
  <1>6. (rv \in FetchRecord /\ Sound(rv) /\ rv.at # "held")'
    <2>1. CASE rv' = rv
      BY <1>2, <2>1, RevalidationStays, Zenon
    <2>2. CASE rv' = [NoRequest EXCEPT !.at = "transport", !.epoch = fetchEpoch, !.hit = q.hit]
      <3>1. rv' = [at |-> "transport", top |-> "no", always |-> FALSE, mode |-> "default",
                   epoch |-> fetchEpoch, waits |-> 0, floor |-> 0, connected |-> FALSE,
                   fresh |-> FALSE, hit |-> q.hit, answer |-> None, validated |-> FALSE,
                   via |-> "none"]
        BY <2>2, Zenon DEF NoRequest
      <3>2. rv' \in FetchRecord
        BY <1>1, <1>5, <3>1, Placeholders, ZenonT(40) DEF FetchRecord, Contents, RequestModes
      <3>3. q.hit.content \in Nat
        BY <1>5, Placeholders, Zenon
      <3>4. Sound(rv)'
        BY <1>1, <1>2, <3>1, <3>3 DEF Sound, Contents, Representation
      <3> QED BY <3>1, <3>2, <3>4, Zenon
    <2> QED BY <1>4, <2>1, <2>2, Zenon
  <1>7. ASSUME NEW p \in FetchRecord, Sound(p), req' = [req EXCEPT ![r] = p]
        PROVE  FetchIInv'
    BY <1>2, <1>6, <1>7, OneRequestMoves, Zenon DEF FetchIInv
  <1>8. CASE req' = [req EXCEPT ![r] = AfterCache(q)]
    BY <1>1, <1>7, <1>8, AfterCacheIsSound, Zenon
  <1>9. ASSUME NEW f \in BOOLEAN, q.hit # None,
               LET k == [q EXCEPT !.fresh = f] IN
                 \/ req' = [req EXCEPT ![r] = AfterCache(k)]
                 \/ Usable(k) /\ req' = [req EXCEPT ![r] = Served(k, k.hit, "hit")]
        PROVE  FetchIInv'
    <2> DEFINE k == [q EXCEPT !.fresh = f]
    <2>1. k \in FetchRecord /\ Sound(k)
      BY <1>1, MovesOn, Zenon
    <2>2. k.at = "deciding" /\ k.hit = q.hit
      BY <1>1, Zenon DEF FetchRecord
    <2>3. \/ req' = [req EXCEPT ![r] = AfterCache(k)]
          \/ Usable(k) /\ req' = [req EXCEPT ![r] = Served(k, k.hit, "hit")]
      BY <1>9, Zenon
    <2> HIDE DEF k
    <2>4. CASE req' = [req EXCEPT ![r] = AfterCache(k)]
      BY <1>1, <1>7, <2>1, <2>2, <2>4, AfterCacheIsSound, Zenon
    <2>5. CASE Usable(k) /\ req' = [req EXCEPT ![r] = Served(k, k.hit, "hit")]
      <3>1. k.hit.content >= k.floor
        BY <1>9, <2>1, <2>2, Zenon DEF Sound
      <3>2. ForbidsStale(k.hit) => k.fresh = TRUE \/ ForceCached(k)
        <4>1. k.hit.orders \in Storable
          BY <1>5, <1>9, <2>2 DEF StoredCopy
        <4>2. ForbidsStale(k.hit) => HasExplicitFreshness(k.hit)
          BY <4>1, Zenon DEF ForbidsStale, HasExplicitFreshness, Storable
        <4>3. k.fresh \in BOOLEAN
          BY <2>1, Zenon DEF FetchRecord
        <4> QED BY <2>5, <4>2, <4>3, Zenon DEF Usable
      <3>3. k.hit \in Representation \cup {None, Failure}
        BY <1>5, <2>2, Placeholders, Zenon
      <3>4. Served(k, k.hit, "hit") \in FetchRecord /\ Sound(Served(k, k.hit, "hit"))
        BY <1>1, <2>1, <2>2, <3>1, <3>2, <3>3, ServedIsSound, Zenon
      <3> QED BY <1>7, <2>5, <3>4, Zenon
    <2> QED BY <2>3, <2>4, <2>5, Zenon
  <1> QED BY <1>3, <1>8, <1>9, Zenon

\* The stored copy a failed fetch falls back on is as new as the one a request
\* would have matched.
LEMMA FallbackIsSound ==
    ASSUME Contents, EntryHolds, NEW q \in FetchRecord, Sound(q), q.at # "held",
           NEW e \in {q.hit, entry, None}, e # None, ~ForbidsStale(e)
    PROVE  Served(q, e, "stale") \in FetchRecord /\ Sound(Served(q, e, "stale"))
  <1>1. e \in StoredCopy
    BY Placeholders, Zenon DEF EntryHolds, FetchRecord
  <1>2. q.floor \in Nat /\ e.content \in Nat
    BY <1>1, Placeholders, Zenon DEF FetchRecord
  <1>3. e.content >= q.floor
    BY <1>2 DEF Sound, EntryHolds, Contents
  <1> QED BY <1>1, <1>3, Placeholders, ServedIsSound, ZenonT(40)

LEMMA NetworkKeeps ==
    FetchIInv /\ (\E r \in Request : FromNetwork(r) \/ TransportFails(r)) => FetchIInv'
  <1> SUFFICES ASSUME FetchIInv, NEW r \in Request, FromNetwork(r) \/ TransportFails(r)
               PROVE  FetchIInv'
    OBVIOUS
  <1> DEFINE q == req[r]
  <1>1. /\ q \in FetchRecord /\ Sound(q) /\ Contents /\ EntryHolds
        /\ q.at \in {"network", "transport"}
    BY Zenon DEF FetchIInv, FromNetwork, TransportFails
  <1>2. EntryHolds' /\ UNCHANGED <<expected, origin, fetchEpoch, invalidations, floor, rv>>
    BY Zenon DEF FromNetwork, TransportFails, FetchIInv, EntryHolds, fixed
  <1>3. \/ req' = [req EXCEPT ![r] = Served(q, origin, "origin")]
        \/ req' = [req EXCEPT ![r] = Served(q, None, "error")]
        \/ \E e \in {q.hit, entry, None} :
              e # None /\ ~ForbidsStale(e) /\ req' = [req EXCEPT ![r] = Served(q, e, "stale")]
    <2>1. CASE FromNetwork(r)
      BY <2>1, Zenon DEF FromNetwork
    <2>2. CASE TransportFails(r)
      <3> DEFINE copy == IF q.hit # None THEN q.hit
                         ELSE IF policy # "never" THEN entry ELSE None
      <3>1. copy \in {q.hit, entry, None}
        OBVIOUS
      <3>2. req' = [req EXCEPT ![r] =
                    IF copy # None /\ CacheReadAllowed(q) /\ ~ForbidsStale(copy)
                    THEN Served(q, copy, "stale") ELSE Served(q, None, "error")]
        BY <2>2, Zenon DEF TransportFails
      <3> HIDE DEF copy, q
      <3> QED BY <3>1, <3>2, Zenon
    <2> QED BY <2>1, <2>2, Zenon
  <1> HIDE DEF q
  <1>4. CASE req' = [req EXCEPT ![r] = Served(q, origin, "origin")]
    <2>1. origin.content >= q.floor
      BY <1>1, Zenon DEF Sound, Contents, Representation, FetchRecord
    <2> QED BY <1>1, <1>2, <1>4, <2>1, ServedIsSound, RequestStepKeeps, Zenon DEF Contents
  <1>5. CASE req' = [req EXCEPT ![r] = Served(q, None, "error")]
    BY <1>1, <1>2, <1>5, ServedIsSound, Placeholders, RequestStepKeeps, Zenon
  <1>6. ASSUME NEW e \in {q.hit, entry, None}, e # None, ~ForbidsStale(e),
               req' = [req EXCEPT ![r] = Served(q, e, "stale")]
        PROVE  FetchIInv'
    BY <1>1, <1>2, <1>6, FallbackIsSound, RequestStepKeeps, Zenon
  <1> QED BY <1>3, <1>4, <1>5, <1>6, Zenon

LEMMA FromTransportKeeps == FetchIInv /\ (\E r \in Request : FromTransport(r)) => FetchIInv'
  <1> SUFFICES ASSUME FetchIInv, NEW r \in Request, FromTransport(r) PROVE FetchIInv'
    OBVIOUS
  <1>1. PICK p \in Answers(req[r]) : req' = [req EXCEPT ![r] = p]
    BY ZenonT(40) DEF FromTransport
  <1>2. req[r] \in FetchRecord /\ Sound(req[r]) /\ Contents /\ req[r].at = "transport"
    BY Zenon DEF FetchIInv, FromTransport
  <1>3. p \in FetchRecord /\ Sound(p)
    BY <1>2, AnswersAreSound, Zenon
  <1> QED BY <1>1, <1>3, RequestStepKeeps, Zenon DEF FromTransport, FetchIInv, EntryHolds, fixed

\* An answer in hand is served, and stored only if the epoch has not moved.
LEMMA AnsweredKeeps ==
    FetchIInv /\ (\E r \in Request : Answered(r) \/ ConsumeAnswer(r)) => FetchIInv'
  <1> SUFFICES ASSUME FetchIInv, NEW r \in Request, Answered(r) \/ ConsumeAnswer(r)
               PROVE  FetchIInv'
    OBVIOUS
  <1> DEFINE q == req[r]
  <1>1. /\ q \in FetchRecord /\ Sound(q) /\ Contents /\ EntryHolds
        /\ q.at \in {"answered", "consuming"}
    BY Zenon DEF FetchIInv, Answered, ConsumeAnswer
  <1>2. UNCHANGED <<expected, origin, fetchEpoch, invalidations, floor, rv>>
    BY Zenon DEF Answered, ConsumeAnswer, fixed
  <1>3. /\ entry' \in {entry, None, Stored(q)}
        /\ \/ req' = [req EXCEPT ![r] = Served(q, q.answer, "origin")]
           \/ /\ q.at = "answered" /\ q.answer # Failure
              /\ req' = [req EXCEPT ![r] = [q EXCEPT !.at = "consuming", !.hit = None]]
    <2>1. CASE Answered(r)
      BY <2>1, Zenon DEF Answered
    <2>2. CASE ConsumeAnswer(r)
      BY <2>2, Zenon DEF ConsumeAnswer
    <2> QED BY <2>1, <2>2, Zenon
  <1> HIDE DEF q
  <1>4. EntryHolds'
    <2>1. Stored(q) \in StoredCopy /\ (Stored(q) # None => Stored(q).content >= floor)
      BY <1>1, StoredHolds, Zenon
    <2> QED BY <1>1, <1>2, <1>3, <2>1, Placeholders, Zenon DEF EntryHolds
  <1>5. CASE req' = [req EXCEPT ![r] = Served(q, q.answer, "origin")]
    <2>1. q.answer \in Representation \cup {None, Failure}
      BY <1>1, Zenon DEF FetchRecord
    <2>2. q.answer \notin {None, Failure} => q.answer.content >= q.floor
      BY <1>1, Zenon DEF Sound
    <2> QED BY <1>1, <1>2, <1>4, <1>5, <2>1, <2>2, ServedIsSound, RequestStepKeeps, ZenonT(40)
  <1>6. CASE /\ q.at = "answered"
             /\ req' = [req EXCEPT ![r] = [q EXCEPT !.at = "consuming", !.hit = None]]
    <2> DEFINE p == [q EXCEPT !.at = "consuming", !.hit = None]
    <2>1. p \in FetchRecord
      BY <1>1, Placeholders, Zenon DEF FetchRecord
    <2>2. /\ p.at = "consuming" /\ p.epoch = q.epoch /\ p.floor = q.floor /\ p.hit = None
          /\ p.answer = q.answer /\ p.via = q.via
      BY <1>1, Zenon DEF FetchRecord
    <2> HIDE DEF p
    <2>3. Sound(p)
      BY <1>1, <1>6, <2>2, Zenon DEF Sound, Outlives
    <2> QED BY <1>2, <1>4, <1>6, <2>1, <2>3, RequestStepKeeps, Zenon DEF p
  <1> QED BY <1>3, <1>5, <1>6

\* A record that no request has touched, with the state it speaks of unchanged.
LEMMA RequestsStay ==
    ASSUME FetchIInv, UNCHANGED <<expected, origin, fetchEpoch, invalidations, floor, req>>
    PROVE  Contents' /\ (req \in [Request -> FetchRecord])' /\ (\A x \in Request : Sound(req[x]))'
  <1>1. Contents' /\ (req \in [Request -> FetchRecord])'
    BY Zenon DEF FetchIInv, Contents
  <1>2. ASSUME NEW x \in Request PROVE Sound(req[x])'
    BY Zenon DEF FetchIInv, Sound, Outlives, ForbidsStale, ForceCached
  <1> QED BY <1>1, <1>2, Zenon

LEMMA NoRequestIsSound ==
    ASSUME Contents PROVE NoRequest \in FetchRecord /\ Sound(NoRequest) /\ NoRequest.at = "idle"
  <1>1. NoRequest \in FetchRecord
    BY Placeholders, ZenonT(40) DEF NoRequest, FetchRecord, RequestModes
  <1>2. Sound(NoRequest)
    BY DEF NoRequest, Sound, Contents, Representation
  <1> QED BY <1>1, <1>2, Zenon DEF NoRequest

\* The revalidation stores under the epoch it began in, like any request.
LEMMA RevalidateKeeps == FetchIInv /\ (RevalidateAsks \/ RevalidateEnds) => FetchIInv'
  <1> SUFFICES ASSUME FetchIInv, RevalidateAsks \/ RevalidateEnds PROVE FetchIInv'
    OBVIOUS
  <1>1. /\ UNCHANGED <<expected, origin, fetchEpoch, invalidations, floor, req>>
        /\ Contents /\ EntryHolds /\ rv \in FetchRecord /\ Sound(rv) /\ rv.at # "held"
    BY Zenon DEF FetchIInv, RevalidateAsks, RevalidateEnds, fixed
  <1>2. rv' \in FetchRecord /\ Sound(rv') /\ rv'.at # "held"
    <2>1. CASE rv' = NoRequest
      BY <1>1, <2>1, NoRequestIsSound, Zenon
    <2>2. CASE RevalidateAsks /\ rv' \in Answers(rv)
      BY <1>1, <2>2, AnswersAreSound, Zenon DEF RevalidateAsks
    <2> QED BY <2>1, <2>2, Zenon DEF RevalidateAsks, RevalidateEnds
  <1>3. (rv \in FetchRecord /\ Sound(rv) /\ rv.at # "held")'
    BY <1>1, <1>2, Zenon DEF Sound, Outlives, ForbidsStale, ForceCached
  <1>4. EntryHolds'
    <2>1. CASE RevalidateAsks
      BY <1>1, <2>1, Zenon DEF RevalidateAsks, EntryHolds
    <2>2. CASE RevalidateEnds
      <3>1. Stored(rv) \in StoredCopy /\ (Stored(rv) # None => Stored(rv).content >= floor)
        BY <1>1, <2>2, StoredHolds, Zenon DEF RevalidateEnds
      <3>2. entry' \in {None, Stored(rv)}
        BY <2>2, ZenonT(40) DEF RevalidateEnds
      <3> QED BY <1>1, <3>1, <3>2, Placeholders, Zenon DEF EntryHolds
    <2> QED BY <2>1, <2>2, Zenon
  <1> QED BY <1>1, <1>3, <1>4, RequestsStay, Zenon DEF FetchIInv

\* New content at the origin only makes what is held older, never too old.
LEMMA PublishKeeps == FetchIInv /\ (Publish \/ CarrierChanges) => FetchIInv'
  <1> SUFFICES ASSUME FetchIInv, Publish \/ CarrierChanges PROVE FetchIInv'
    OBVIOUS
  <1>1. /\ UNCHANGED <<expected, entry, fetchEpoch, invalidations, floor, req, rv>>
        /\ origin' \in Representation /\ origin.content <= origin'.content
    BY DEF FetchIInv, Contents, Publish, CarrierChanges, Representation, fixed
  <1>2. Contents'
    <2>1. /\ Contents /\ origin.content \in Nat /\ origin'.content \in Nat
          /\ invalidations \in Seq(Nat) /\ floor \in Nat
      BY <1>1, Zenon DEF FetchIInv, Contents, Representation
    <2>2. \A i \in 1..Len(invalidations) : invalidations[i] \in Nat /\ invalidations[i] <= origin.content
      BY <2>1 DEF Contents
    <2>3. floor <= origin'.content /\ \A i \in 1..Len(invalidations) : invalidations[i] <= origin'.content
      <3>1. floor <= origin.content
        BY <2>1, Zenon DEF Contents
      <3> QED BY <1>1, <2>1, <2>2, <3>1
    <2> QED BY <1>1, <2>1, <2>3, Zenon DEF Contents
  <1>3. ASSUME NEW q \in FetchRecord, Sound(q), q' = q PROVE Sound(q)'
    <2>1. q.floor <= origin'.content
      <3>1. q.floor \in Nat /\ q.floor <= origin.content /\ origin.content \in Nat /\ origin'.content \in Nat
        BY <1>1, <1>3, Zenon DEF FetchIInv, Contents, Representation, FetchRecord, Sound
      <3> QED BY <1>1, <3>1
    <2> QED BY <1>1, <1>3, <2>1, ZenonT(40) DEF Sound, Outlives, ForbidsStale, ForceCached
  <1>4. ASSUME NEW x \in Request PROVE Sound(req[x])'
    BY <1>1, <1>3, Zenon DEF FetchIInv
  <1>5. Sound(rv)'
    BY <1>1, <1>3, Zenon DEF FetchIInv
  <1> QED BY <1>1, <1>2, <1>4, <1>5, Zenon DEF FetchIInv, EntryHolds

\* Once the epoch moves nothing already under way may be stored.
LEMMA EpochMovesKeeps == FetchIInv /\ (Invalidate \/ FetchUseVersion) => FetchIInv'
  <1> SUFFICES ASSUME FetchIInv, Invalidate \/ FetchUseVersion PROVE FetchIInv'
    OBVIOUS
  <1>1. /\ UNCHANGED <<expected, origin, floor, req, rv>> /\ fetchEpoch' = fetchEpoch + 1
        /\ Contents /\ EntryHolds
    BY Zenon DEF FetchIInv, Invalidate, FetchUseVersion, fixed
  <1>2. origin.content \in Nat /\ fetchEpoch \in Nat /\ invalidations \in Seq(Nat)
    BY <1>1, Zenon DEF Contents, Representation
  <1>3. EntryHolds'
    BY <1>1, Placeholders, Zenon DEF Invalidate, FetchUseVersion, EntryHolds
  <1>4. /\ invalidations' \in Seq(Nat) /\ Len(invalidations) \in Nat /\ Len(invalidations') \in Nat
        /\ Len(invalidations) <= Len(invalidations')
        /\ \A i \in 1..Len(invalidations) : invalidations'[i] = invalidations[i]
        /\ \A i \in 1..Len(invalidations') :
              i \in 1..Len(invalidations) \/ invalidations'[i] = origin.content
    <2>1. CASE Invalidate
      <3>1. invalidations' = Append(invalidations, origin.content)
        BY <2>1, Zenon DEF Invalidate
      <3> QED BY <1>2, <3>1, Appended
    <2>2. CASE FetchUseVersion
      BY <1>2, <2>2 DEF FetchUseVersion
    <2> QED BY <2>1, <2>2, ZenonT(40)
  <1>5. Contents'
    <2>1. ASSUME NEW i \in 1..Len(invalidations') PROVE invalidations'[i] <= origin.content
      <3>1. CASE i \in 1..Len(invalidations)
        BY <1>1, <1>4, <3>1, Zenon DEF Contents
      <3>2. CASE invalidations'[i] = origin.content
        BY <1>2, <3>2
      <3> QED BY <1>4, <3>1, <3>2, Zenon
    <2> QED BY <1>1, <1>2, <1>4, <2>1 DEF Contents
  <1>6. ASSUME NEW q \in FetchRecord, Sound(q)
        PROVE  /\ q.epoch <= fetchEpoch' /\ q.epoch # fetchEpoch'
               /\ q.at = "held" => /\ q.waits \in 1..Len(invalidations')
                                   /\ invalidations'[q.waits] = q.floor
    BY <1>1, <1>2, <1>4, <1>6 DEF Sound, FetchRecord
  <1>7. ASSUME NEW x \in Request PROVE Sound(req[x])'
    <2>1. req[x] \in FetchRecord /\ Sound(req[x])
      BY Zenon DEF FetchIInv
    <2> QED BY <1>1, <1>6, <2>1, Zenon DEF Sound, Outlives, ForbidsStale, ForceCached
  <1>8. Sound(rv)'
    <2>1. rv \in FetchRecord /\ Sound(rv)
      BY Zenon DEF FetchIInv
    <2> QED BY <1>1, <1>6, <2>1, ZenonT(40) DEF Sound, Outlives, ForbidsStale, ForceCached
  <1> QED BY <1>1, <1>3, <1>5, <1>7, <1>8, Zenon DEF FetchIInv

\* The oldest invalidation takes effect: what may still be stored is at least as
\* new, and the requests that waited for it alone go on.
LEMMA InvalidationDoneKeeps == FetchIInv /\ InvalidationDone => FetchIInv'
  <1> SUFFICES ASSUME FetchIInv, InvalidationDone PROVE FetchIInv'
    OBVIOUS
  <1> DEFINE first == invalidations[1]
  <1>1. /\ UNCHANGED <<expected, origin, fetchEpoch, rv>> /\ entry' = None
        /\ invalidations' = Tail(invalidations) /\ invalidations # <<>> /\ Contents
    BY ZenonT(40) DEF FetchIInv, InvalidationDone, fixed
  <1>2. origin.content \in Nat /\ fetchEpoch \in Nat /\ floor \in Nat /\ invalidations \in Seq(Nat)
    BY <1>1, Zenon DEF Contents, Representation
  <1>3. /\ invalidations' \in Seq(Nat) /\ Len(invalidations) \in Nat \ {0}
        /\ Len(invalidations') = Len(invalidations) - 1
        /\ \A i \in 1..Len(invalidations') : invalidations'[i] = invalidations[i + 1]
        /\ Head(invalidations) = first /\ first \in Nat
    BY <1>1, <1>2, Behead, Zenon
  <1>4. floor' = IF first > floor THEN first ELSE floor
    BY <1>3, ZenonT(40) DEF InvalidationDone
  <1>5. first <= origin.content /\ floor <= origin.content
    BY <1>1, <1>3 DEF Contents
  <1> HIDE DEF first
  <1>6. /\ floor' \in Nat /\ floor <= floor' /\ first <= floor' /\ floor' <= origin.content
        /\ floor' \in {first, floor}
    BY <1>2, <1>3, <1>4, <1>5
  <1>7. Contents'
    <2>1. ASSUME NEW i \in 1..Len(invalidations') PROVE invalidations'[i] <= origin.content
      <3>1. i + 1 \in 1..Len(invalidations) /\ invalidations'[i] = invalidations[i + 1]
        BY <1>3
      <3> QED BY <1>1, <3>1, ZenonT(40) DEF Contents
    <2> QED BY <1>1, <1>3, <1>6, <2>1, ZenonT(40) DEF Contents
  <1>8. EntryHolds'
    BY <1>1, Placeholders, Zenon DEF EntryHolds
  <1>9. ASSUME NEW q \in FetchRecord, Sound(q), q.at # "held"
        PROVE  /\ q.floor <= floor'
               /\ q.at \in {"answered", "consuming"} /\ q.answer \notin {None, Failure} /\ q.epoch = fetchEpoch =>
                     /\ q.answer.content >= floor'
                     /\ \A i \in 1..Len(invalidations') : q.answer.content >= invalidations'[i]
    <2>1. q.floor \in Nat /\ q.answer.content \in Nat
      BY Placeholders, ZenonT(40) DEF FetchRecord
    <2>2. q.floor <= floor'
      BY <1>2, <1>6, <1>9, <2>1 DEF Sound
    <2>3. ASSUME q.at \in {"answered", "consuming"}, q.answer \notin {None, Failure},
                 q.epoch = fetchEpoch
          PROVE  /\ q.answer.content >= floor'
                 /\ \A i \in 1..Len(invalidations') : q.answer.content >= invalidations'[i]
      <3>1. /\ q.answer.content >= floor
            /\ \A i \in 1..Len(invalidations) : q.answer.content >= invalidations[i]
        BY <1>9, <2>3, ZenonT(40) DEF Sound, Outlives
      <3>2. q.answer.content >= first
        BY <1>3, <3>1 DEF first
      <3>3. ASSUME NEW i \in 1..Len(invalidations') PROVE q.answer.content >= invalidations'[i]
        <4>1. i + 1 \in 1..Len(invalidations) /\ invalidations'[i] = invalidations[i + 1]
          BY <1>3
        <4> QED BY <3>1, <4>1, Zenon
      <3> QED BY <1>6, <3>1, <3>2, <3>3, Zenon
    <2> QED BY <2>2, <2>3, Zenon
  <1>10. Sound(rv)' /\ (rv \in FetchRecord)' /\ (rv.at # "held")'
    <2>1. rv \in FetchRecord /\ Sound(rv) /\ rv.at # "held"
      BY Zenon DEF FetchIInv
    <2> QED BY <1>1, <1>9, <2>1, ZenonT(40) DEF Sound, Outlives, ForbidsStale, ForceCached
  <1>11. ASSUME NEW x \in Request PROVE req'[x] \in FetchRecord /\ Sound(req[x])'
    <2> DEFINE q == req[x]
    <2>1. q \in FetchRecord /\ Sound(q)
      BY DEF FetchIInv
    <2>2. req'[x] = IF q.at # "held" THEN q
                ELSE [q EXCEPT !.waits = q.waits - 1, !.epoch = fetchEpoch,
                               !.at = IF q.waits = 1 THEN "routing" ELSE "held"]
      BY Zenon DEF InvalidationDone
    <2> HIDE DEF q
    <2>3. CASE q.at # "held"
      <3>1. req'[x] = q
        BY <2>2, <2>3, Zenon
      <3> QED BY <1>1, <1>9, <2>1, <2>3, <3>1, ZenonT(40) DEF Sound, Outlives, ForbidsStale, ForceCached
    <2>4. CASE q.at = "held"
      <3>1. /\ q.waits \in 1..Len(invalidations) /\ invalidations[q.waits] = q.floor
            /\ q.floor \in Nat
        BY <2>1, <2>4, Zenon DEF Sound, FetchRecord
      <3>2. PICK at \in {"routing", "held"} :
              /\ at = "routing" <=> q.waits = 1
              /\ req'[x] = [q EXCEPT !.waits = q.waits - 1, !.epoch = fetchEpoch, !.at = at]
        BY <2>2, <2>4, ZenonT(40)
      <3>3. q.waits - 1 \in Nat
        BY <1>3, <3>1
      <3>4. req'[x] \in FetchRecord
        <4>1. ASSUME NEW p \in FetchRecord, NEW n \in Nat
              PROVE  [p EXCEPT !.waits = n] \in FetchRecord /\ [p EXCEPT !.epoch = n] \in FetchRecord
          BY <4>1 DEF FetchRecord
        <4>2. ASSUME NEW p \in FetchRecord PROVE [p EXCEPT !.at = at] \in FetchRecord
          BY <3>2, <4>2 DEF FetchRecord
        <4>3. req'[x] = [[[q EXCEPT !.waits = q.waits - 1] EXCEPT !.epoch = fetchEpoch] EXCEPT !.at = at]
          BY <3>2, Zenon
        <4> QED BY <1>2, <2>1, <3>3, <4>1, <4>2, <4>3, Zenon
      <3>5. /\ req'[x].at = at /\ req'[x].waits = q.waits - 1 /\ req'[x].epoch = fetchEpoch
            /\ req'[x].floor = q.floor /\ req'[x].hit = q.hit /\ req'[x].answer = q.answer
            /\ req'[x].via = q.via
        BY <2>1, <3>2 DEF FetchRecord
      <3>6. at = "held" => /\ q.waits - 1 \in 1..Len(invalidations')
                           /\ invalidations'[q.waits - 1] = q.floor
        <4>1. at = "held" => q.waits - 1 \in 1..Len(invalidations')
          BY <1>3, <3>1, <3>2
        <4>2. q.waits = (q.waits - 1) + 1
          BY <3>1, <1>3
        <4> QED BY <1>3, <3>1, <4>1, <4>2, Zenon
      <3>7. at # "held" => q.floor <= floor'
        BY <1>6, <3>1, <3>2, Zenon DEF first
      <3>8. q.via = "none" /\ fetchEpoch <= fetchEpoch
        BY <1>2, <2>1, <2>4 DEF Sound
      <3> QED BY <1>1, <2>1, <3>4, <3>5, <3>6, <3>7, <3>8, Zenon DEF Sound
    <2> QED BY <2>3, <2>4
  <1>12. (req \in [Request -> FetchRecord])'
    <2>1. req' = [x \in Request |-> req'[x]]
      BY Zenon DEF InvalidationDone
    <2> QED BY <1>11, <2>1
  <1> QED BY <1>7, <1>8, <1>10, <1>11, <1>12, ZenonT(40) DEF FetchIInv

LEMMA FetchInitHolds == FetchInit => FetchIInv
  <1> SUFFICES ASSUME FetchInit PROVE FetchIInv
    OBVIOUS
  <1>1. Contents
    BY DEF FetchInit, Contents, Representation
  <1>2. EntryHolds
    BY <1>1, Placeholders, Zenon DEF FetchInit, EntryHolds, Contents
  <1> QED BY <1>1, <1>2, NoRequestIsSound, Zenon DEF FetchInit, FetchIInv

LEMMA FetchNextKeeps == FetchIInv /\ [FetchNext]_fetchVars => FetchIInv'
  <1> SUFFICES ASSUME FetchIInv, [FetchNext]_fetchVars PROVE FetchIInv'
    OBVIOUS
  <1>1. CASE UNCHANGED fetchVars
    <2>1. UNCHANGED <<expected, origin, fetchEpoch, invalidations, floor, req, rv, entry>>
      BY <1>1, Zenon DEF fetchVars
    <2> QED BY <2>1, RequestsStay, RevalidationStays, Zenon DEF FetchIInv, EntryHolds
  <1>2. CASE FetchStep
    BY <1>2, RouteKeeps, LookUpKeeps, DecideKeeps, NetworkKeeps, FromTransportKeeps,
       AnsweredKeeps, RevalidateKeeps, InvalidationDoneKeeps, ZenonT(40) DEF FetchStep
  <1>3. CASE FetchNext /\ ~FetchStep
    BY <1>3, BeginRequestKeeps, PublishKeeps, EpochMovesKeeps, Zenon DEF FetchNext
  <1> QED BY <1>1, <1>2, <1>3, Zenon

LEMMA FetchInvariant == FetchSpec => []FetchIInv
<1> HIDE DEF FetchIInv, FetchInit, FetchNext, fetchVars
<1> QED BY FetchInitHolds, FetchNextKeeps, PTL DEF FetchSpec

\* sw.ts, handle and revalidate with cacheEpoch: for any number of requests,
\* invalidations, build changes and publications, an acknowledged invalidation
\* is never undone, and no request asked after one is answered with older content.
THEOREM InvalidationIsNeverUndone == FetchSpec => []InvalidationHolds
<1>1. FetchIInv => InvalidationHolds
  BY ZenonT(40) DEF FetchIInv, EntryHolds, Sound, InvalidationHolds
<1> QED BY <1>1, FetchInvariant, PTL

\* sw.ts, the conditions under which handle() returns a hit or falls back on one:
\* no copy whose orders forbid stale use is served past its age unasked for.
THEOREM StaleOnlyWhenAllowed == FetchSpec => []OrdersAreKept
<1>1. FetchIInv => OrdersAreKept
  <2> SUFFICES ASSUME FetchIInv, NEW r \in Request,
                      req[r].via \in {"hit", "stale"}, ForbidsStale(req[r].answer)
               PROVE  req[r].via = "hit" /\ (req[r].fresh \/ ForceCached(req[r]))
    BY ZenonT(40) DEF OrdersAreKept
  <2>1. Sound(req[r])
    BY Zenon DEF FetchIInv
  <2> QED BY <2>1, Zenon DEF Sound
<1> QED BY <1>1, FetchInvariant, PTL
=============================================================================
