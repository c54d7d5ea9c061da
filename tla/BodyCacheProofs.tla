-------------------------- MODULE BodyCacheProofs --------------------------
(***************************************************************************)
(* For any URLs, sizes, budget and number of requests: no body older than   *)
(* an acknowledged invalidation is in the cache, and every stored body is    *)
(* counted in the table once the table's transactions have run.              *)
(***************************************************************************)
EXTENDS BodyCache, TLAPS

USE SMTT(60)

-----------------------------------------------------------------------------
(* The structure both arguments rest on: who waits for which transaction, and *)
(* who is in the queue for the eviction lock.                                *)

OpRecord ==
    [at : {"idle", "held", "fetching", "forgetting", "room", "queued", "landing", "touching"},
     url : Url \cup {"none"}, size : Nat, epoch : Nat, waits : Int, detached : BOOLEAN,
     then : {"put", "settle"}]

InvRecord ==
    [at : {"waiting", "deleting", "forgetting", "clearing"}, targets : SUBSET Url,
     left : SUBSET Url, epoch : Nat, awaits : SUBSET Op]

TxRecord ==
    [do : {"touch"}, by : Op, url : Url \cup {"none"}]
    \cup [do : {"forget"}, by : Op \cup {"pass", "inv"}, url : Url \cup {"none"}]
    \cup [do : {"uses"}, urls : SUBSET Url] \cup [do : {"read"}] \cup [do : {"clear"}]

PassRecord(at, late, voided, seen, left, projected) ==
    [at |-> at, late |-> late, voided |-> voided, seen |-> seen, left |-> left,
     projected |-> projected]
IsPass(p) ==
    \E at \in {"none", "flushing", "reading", "evicting", "forgetting"} :
    \E late, voided, seen, left, projected :
        p = PassRecord(at, late, voided, seen, left, projected)

Types ==
    /\ epoch \in Nat /\ acked \in [Url -> Nat] /\ row \in [Url -> Nat]
    /\ body \in [Url -> [size : Nat, epoch : Nat]]
    /\ op \in [Op -> OpRecord] /\ IsPass(pass) /\ uses \subseteq Url
    /\ inv \in Seq(InvRecord) /\ tx \in Seq(TxRecord) /\ locks \in Seq(Op)

\* Who waits for a transaction, where they then are, and where they are now.
Who(t) ==
    CASE t.do \in {"touch", "forget"} -> t.by
      [] t.do = "clear" -> "inv"
      [] t.do = "read" -> "pass"
      [] OTHER -> "none"
Doing(t) ==
    CASE t.do = "touch" -> "touching"
      [] t.do = "clear" -> "clearing"
      [] t.do = "read" -> "reading"
      [] OTHER -> "forgetting"
At(w) ==
    IF w = "inv" THEN IF inv = <<>> THEN "none" ELSE inv[1].at
    ELSE IF w = "pass" THEN pass.at ELSE op[w].at

Holders == Op \cup {"inv", "pass"}
Busy == {"touching", "forgetting", "clearing", "reading"}

\* A transaction is the only one its holder waits for.
Errands ==
    \A i \in 1..Len(tx) : Who(tx[i]) # "none" =>
        /\ At(Who(tx[i])) = Doing(tx[i])
        /\ \A j \in 1..Len(tx) : Who(tx[j]) = Who(tx[i]) => i = j

\* A request is queued for the lock once, and a pass is its first one's.
Queue ==
    /\ \A i \in 1..Len(locks) : op[locks[i]].at = "queued"
    /\ \A i, j \in 1..Len(locks) : locks[i] = locks[j] => i = j
    /\ pass.at # "none" => locks # <<>>

Base == Types /\ Errands /\ Queue

-----------------------------------------------------------------------------
(* Lemmas about sequences, records and the code's small steps.               *)

LEMMA Appended ==
    ASSUME NEW S, NEW s \in Seq(S), NEW x \in S
    PROVE  /\ Append(s, x) \in Seq(S)
           /\ Len(s) \in Nat /\ Len(Append(s, x)) = Len(s) + 1
           /\ \A i \in 1..Len(s) : Append(s, x)[i] = s[i]
           /\ Append(s, x)[Len(s) + 1] = x
           /\ Append(s, x) # <<>> /\ (s # <<>> => Append(s, x)[1] = s[1])
  <1>1. /\ Append(s, x) \in Seq(S)
        /\ Len(s) \in Nat /\ Len(Append(s, x)) = Len(s) + 1
        /\ \A i \in 1..Len(s) : Append(s, x)[i] = s[i]
        /\ Append(s, x)[Len(s) + 1] = x
    OBVIOUS
  <1>2. s # <<>> => 1 \in 1..Len(s)
    OBVIOUS
  <1>3. Append(s, x) # <<>>
    BY <1>1
  <1> QED BY <1>1, <1>2, <1>3, Zenon

LEMMA Behead ==
    ASSUME NEW S, NEW s \in Seq(S), s # <<>>
    PROVE  /\ Tail(s) \in Seq(S)
           /\ Len(s) \in Nat \ {0} /\ Len(Tail(s)) = Len(s) - 1
           /\ \A i \in 1..Len(s) - 1 : Tail(s)[i] = s[i + 1]
           /\ Head(s) = s[1] /\ s[1] \in S
  OBVIOUS

\* The transactions the code starts, and their holders.
LEMMA Transactions ==
    /\ \A o \in Op, u \in Url \cup {"none"} :
          LET t == [do |-> "touch", by |-> o, url |-> u]
          IN t \in TxRecord /\ Who(t) = o /\ Doing(t) = "touching"
    /\ \A w \in Holders, u \in Url \cup {"none"} :
          LET t == [do |-> "forget", by |-> w, url |-> u]
          IN t \in TxRecord /\ Who(t) = w /\ Doing(t) = "forgetting"
    /\ \A us \in SUBSET Url :
          LET t == [do |-> "uses", urls |-> us] IN t \in TxRecord /\ Who(t) = "none"
    /\ LET t == [do |-> "read"] IN t \in TxRecord /\ Who(t) = "pass" /\ Doing(t) = "reading"
    /\ LET t == [do |-> "clear"] IN t \in TxRecord /\ Who(t) = "inv" /\ Doing(t) = "clearing"
    /\ \A t \in TxRecord : Who(t) \in Holders \cup {"none"} /\ Doing(t) \in Busy
    /\ "pass" \notin Op /\ "inv" \notin Op /\ "none" \notin Holders
  <1>1. "pass" \notin Op /\ "inv" \notin Op /\ "none" \notin Op
    BY CacheAssumption, Zenon
  <1>2. /\ \A o \in Op, u \in Url \cup {"none"} :
             [do |-> "touch", by |-> o, url |-> u] \in TxRecord
        /\ \A w \in Holders, u \in Url \cup {"none"} :
             [do |-> "forget", by |-> w, url |-> u] \in TxRecord
        /\ \A us \in SUBSET Url : [do |-> "uses", urls |-> us] \in TxRecord
        /\ [do |-> "read"] \in TxRecord /\ [do |-> "clear"] \in TxRecord
    BY Zenon DEF TxRecord, Holders
  <1>3. \A t \in TxRecord : Who(t) \in Holders \cup {"none"} /\ Doing(t) \in Busy
    BY Zenon DEF TxRecord, Holders, Who, Doing, Busy
  <1> QED BY <1>1, <1>2, <1>3, Zenon DEF Who, Doing, Holders

-----------------------------------------------------------------------------
(* What a step does to one request.                                          *)

\* No invalidation changes, except that it stops waiting for the request.
InvKept(o) ==
    /\ inv' \in Seq(InvRecord) /\ Len(inv') = Len(inv)
    /\ \A i \in 1..Len(inv) :
          /\ inv'[i].at = inv[i].at /\ inv'[i].targets = inv[i].targets
          /\ inv'[i].left = inv[i].left /\ inv'[i].epoch = inv[i].epoch
          /\ inv'[i].awaits \subseteq inv[i].awaits /\ inv[i].awaits \ {o} \subseteq inv'[i].awaits

\* The request moves, and a write is allowed to land under the live epoch only.
Moves(o) ==
    /\ op' \in [Op -> OpRecord] /\ \A x \in Op : x # o => op'[x] = op[x]
    /\ op'[o].at = "landing" => op'[o].epoch = epoch
    /\ InvKept(o)

LEMMA Becomes ==
    ASSUME Types, NEW o \in Op, NEW p \in OpRecord, p.at = "landing" => p.epoch = epoch,
           op' = [op EXCEPT ![o] = p], UNCHANGED inv
    PROVE  Moves(o) /\ op'[o] = p
  <1>1. /\ op' \in [Op -> OpRecord] /\ op'[o] = p
        /\ \A x \in Op : x # o => op'[x] = op[x]
    BY Zenon DEF Types
  <1>2. InvKept(o)
    BY Zenon DEF Types, InvKept
  <1> QED BY <1>1, <1>2, Zenon DEF Moves

LEMMA BecomesAt ==
    ASSUME Types, NEW o \in Op,
           NEW at \in {"fetching", "forgetting", "room", "queued", "landing", "touching"},
           at = "landing" => op[o].epoch = epoch,
           op' = [op EXCEPT ![o].at = at], UNCHANGED inv
    PROVE  Moves(o) /\ op'[o] = [op[o] EXCEPT !.at = at] /\ op'[o].at = at
  <1> DEFINE p == [op[o] EXCEPT !.at = at]
  <1>1. op[o] \in OpRecord
    BY Zenon DEF Types
  <1>2. p \in OpRecord /\ p.at = at /\ p.epoch = op[o].epoch
    BY <1>1, Zenon DEF OpRecord
  <1>3. op' = [op EXCEPT ![o] = p]
    OBVIOUS
  <1>4. p = [op[o] EXCEPT !.at = at]
    OBVIOUS
  <1> HIDE DEF p
  <1>5. p.at = "landing" => p.epoch = epoch
    BY <1>2, Zenon
  <1>6. Moves(o) /\ op'[o] = p
    BY <1>2, <1>3, <1>5, Becomes, Zenon
  <1> QED BY <1>2, <1>4, <1>6, Zenon

LEMMA IdleRequest == Idle \in OpRecord /\ Idle.at = "idle"
  BY DEF Idle, OpRecord

LEMMA Settles ==
    ASSUME Types, NEW o \in Op, Settle(o)
    PROVE  Moves(o) /\ op'[o] = Idle
  <1>1. /\ op' = [op EXCEPT ![o] = Idle]
        /\ inv' = [i \in 1..Len(inv) |-> [inv[i] EXCEPT !.awaits = inv[i].awaits \ {o}]]
    BY DEF Settle, Types
  <1>2. inv \in Seq(InvRecord)
    BY Zenon DEF Types
  <1>3. ASSUME NEW i \in 1..Len(inv)
        PROVE  /\ [inv[i] EXCEPT !.awaits = inv[i].awaits \ {o}] \in InvRecord
               /\ inv'[i].at = inv[i].at /\ inv'[i].targets = inv[i].targets
               /\ inv'[i].left = inv[i].left /\ inv'[i].epoch = inv[i].epoch
               /\ inv'[i].awaits = inv[i].awaits \ {o}
    <2>1. inv[i] \in InvRecord
      BY <1>2
    <2>2. inv'[i] = [inv[i] EXCEPT !.awaits = inv[i].awaits \ {o}]
      BY <1>1, Zenon
    <2>3. [inv[i] EXCEPT !.awaits = inv[i].awaits \ {o}] \in InvRecord
      BY <2>1, Zenon DEF InvRecord
    <2> QED BY <2>1, <2>2, <2>3, Zenon DEF InvRecord
  <1>4. Len(inv) \in Nat
    BY <1>2
  <1>5. inv' \in Seq(InvRecord) /\ Len(inv') = Len(inv)
    BY <1>1, <1>3, <1>4
  <1>6. /\ op' \in [Op -> OpRecord] /\ op'[o] = Idle
        /\ \A x \in Op : x # o => op'[x] = op[x]
    BY <1>1, IdleRequest, Zenon DEF Types
  <1> QED BY <1>3, <1>5, <1>6, IdleRequest, Zenon DEF Moves, InvKept

LEMMA Resumes ==
    ASSUME Types, NEW o \in Op, Resume(o)
    PROVE  Moves(o) /\ op'[o].at \in {"landing", "idle"}
  <1>1. CASE Settle(o)
    BY <1>1, Settles, IdleRequest, Zenon
  <1>2. CASE op[o].epoch = epoch /\ op' = [op EXCEPT ![o].at = "landing"] /\ UNCHANGED inv
    BY <1>2, BecomesAt, Zenon
  <1> QED BY <1>1, <1>2, Zenon DEF Resume

\* The steps of one request, and what they leave to the other components.
RequestStep(o) ==
    Fetch(o) \/ Discard(o) \/ Consume(o) \/ EnsureRoom(o) \/ Land(o) \/ LandFails(o) \/ RemoveCached(o)

LEMMA RequestSteps ==
    ASSUME Types, NEW o \in Op, RequestStep(o)
    PROVE  /\ Moves(o) /\ op[o].at \in {"idle", "fetching", "room", "landing"}
           /\ UNCHANGED <<row, epoch, acked, pass, miscounted>>
           /\ IF op'[o].at = "queued" THEN locks' = Append(locks, o) ELSE locks' = locks
           /\ ~Land(o) /\ ~RemoveCached(o) => UNCHANGED <<body, uses, tx>>
           /\ Land(o) => op'[o] = [op[o] EXCEPT !.at = "touching"] /\ op'[o].at = "touching"
           /\ RemoveCached(o) => op'[o].at = "forgetting"
  <1>0. op[o] \in OpRecord /\ op \in [Op -> OpRecord]
    BY Zenon DEF Types
  <1>1. CASE Fetch(o)
    <2>1. PICK u \in Url, s \in Sizes :
            op' = [op EXCEPT ![o] = [Idle EXCEPT !.url = u, !.size = s, !.epoch = epoch,
                      !.waits = Len(inv), !.at = IF inv = <<>> THEN "fetching" ELSE "held"]]
      BY <1>1, Zenon DEF Fetch
    <2> DEFINE at == IF inv = <<>> THEN "fetching" ELSE "held"
    <2> DEFINE p == [Idle EXCEPT !.url = u, !.size = s, !.epoch = epoch,
                                 !.waits = Len(inv), !.at = at]
    <2>2. at \in {"fetching", "held"}
      OBVIOUS
    <2>3. s \in Nat /\ epoch \in Nat /\ Len(inv) \in Int
      BY CacheAssumption DEF Types
    <2>4. op' = [op EXCEPT ![o] = p]
      BY <2>1, Zenon
    <2> HIDE DEF at
    <2>5. p \in OpRecord /\ p.at = at
      BY <2>2, <2>3, Zenon DEF Idle, OpRecord
    <2> HIDE DEF p
    <2>6. Moves(o) /\ op'[o] = p
      BY <1>1, <2>2, <2>4, <2>5, Becomes, Zenon DEF Fetch
    <2> QED BY <1>1, <2>2, <2>5, <2>6, Zenon DEF Fetch, Land, RemoveCached
  <1>2. CASE Discard(o)
    <2>1. Moves(o) /\ op'[o] = Idle
      BY <1>2, Becomes, IdleRequest, Zenon DEF Discard
    <2> QED BY <1>2, <2>1, IdleRequest DEF Discard, Land, RemoveCached
  <1>3. CASE Consume(o)
    <2>1. Moves(o) /\ op'[o].at \in {"room", "idle"}
      BY <1>3, Becomes, BecomesAt, IdleRequest, Zenon DEF Consume
    <2> QED BY <1>3, <2>1 DEF Consume, Land, RemoveCached
  <1>4. CASE EnsureRoom(o)
    <2>1. CASE Resume(o) /\ UNCHANGED locks
      BY <1>4, <2>1, Resumes, Zenon DEF EnsureRoom, Land, RemoveCached
    <2>2. CASE locks' = Append(locks, o) /\ op' = [op EXCEPT ![o].at = "queued"] /\ UNCHANGED inv
      <3>1. Moves(o) /\ op'[o].at = "queued"
        BY <2>2, BecomesAt, Zenon
      <3> QED BY <1>4, <2>2, <3>1, Zenon DEF EnsureRoom, Land, RemoveCached
    <2> QED BY <1>4, <2>1, <2>2, Zenon DEF EnsureRoom
  <1>5. CASE Land(o)
    <2>1. Moves(o) /\ op'[o] = [op[o] EXCEPT !.at = "touching"] /\ op'[o].at = "touching"
      BY <1>5, BecomesAt, Zenon DEF Land
    <2> QED BY <1>5, <2>1, Zenon DEF Land, RemoveCached
  <1>6. CASE LandFails(o)
    <2>1. CASE Settle(o)
      BY <1>6, <2>1, Settles, IdleRequest DEF LandFails, Land, RemoveCached
    <2>2. CASE op' = [op EXCEPT ![o].at = "room", ![o].then = "settle"] /\ UNCHANGED inv
      <3> DEFINE p == [op[o] EXCEPT !.at = "room", !.then = "settle"]
      <3>1. op' = [op EXCEPT ![o] = p]
        BY <1>0, <2>2, Zenon
      <3>2. p \in OpRecord /\ p.at = "room"
        BY <1>0, Zenon DEF OpRecord
      <3> HIDE DEF p
      <3>3. Moves(o) /\ op'[o].at = "room"
        BY <2>2, <3>1, <3>2, Becomes, Zenon
      <3> QED BY <1>6, <3>3 DEF LandFails, Land, RemoveCached
    <2> QED BY <1>6, <2>1, <2>2, Zenon DEF LandFails
  <1>7. CASE RemoveCached(o)
    <2>1. Moves(o) /\ op'[o].at = "forgetting"
      BY <1>7, BecomesAt, Zenon DEF RemoveCached
    <2> QED BY <1>7, <2>1, Zenon DEF Land, RemoveCached
  <1> QED BY <1>1, <1>2, <1>3, <1>4, <1>5, <1>6, <1>7, Zenon DEF RequestStep

-----------------------------------------------------------------------------
(* The structure is kept.                                                    *)

\* Where each holder is, before a step and after it.
LEMMA Stages ==
    /\ \A o \in Op : At(o) = op[o].at /\ At(o)' = op'[o].at
    /\ At("pass") = pass.at /\ At("pass")' = pass'.at
    /\ At("inv") = IF inv = <<>> THEN "none" ELSE inv[1].at
    /\ At("inv")' = IF inv' = <<>> THEN "none" ELSE inv'[1].at
  <1>1. "pass" \notin Op /\ "inv" \notin Op
    BY CacheAssumption, Zenon
  <1> QED BY <1>1, Zenon DEF At

\* A holder that moves waits for no transaction, or for the one that has just run,
\* and one that starts a transaction waited for none before.
Stays(x) == At(x)' = At(x) \/ At(x) \notin Busy
TxStep ==
    \/ tx' = tx /\ \A x \in Holders : Stays(x)
    \/ tx # <<>> /\ tx' = Tail(tx) /\ \A x \in Holders : Stays(x) \/ x = Who(Head(tx))
    \/ /\ \A x \in Holders : Stays(x)
       /\ \E t \in TxRecord :
             /\ tx' = Append(tx, t)
             /\ Who(t) # "none" => At(Who(t)) \notin Busy /\ At(Who(t))' = Doing(t)

LEMMA ErrandsKept ==
    ASSUME tx \in Seq(TxRecord), Errands, TxStep
    PROVE  Errands' /\ tx' \in Seq(TxRecord)
  <1>1. \A i \in 1..Len(tx) : tx[i] \in TxRecord
    OBVIOUS
  <1>2. ASSUME NEW i \in 1..Len(tx), Who(tx[i]) # "none"
        PROVE  /\ Who(tx[i]) \in Holders /\ Doing(tx[i]) \in Busy /\ At(Who(tx[i])) = Doing(tx[i])
               /\ \A j \in 1..Len(tx) : Who(tx[j]) = Who(tx[i]) => i = j
    BY <1>1, <1>2, Transactions, Zenon DEF Errands
  <1>3. SUFFICES /\ tx' \in Seq(TxRecord)
                 /\ \A i \in 1..Len(tx') : \A w \in Holders : w = Who(tx'[i]) =>
                       /\ At(w)' = Doing(tx'[i])
                       /\ \A j \in 1..Len(tx') : Who(tx'[j]) = w => i = j
    <2>1. tx' \in Seq(TxRecord) => \A i \in 1..Len(tx') : tx'[i] \in TxRecord
      OBVIOUS
    <2> QED BY <2>1, Transactions DEF Errands, Who, Doing
  <1>4. CASE tx' = tx /\ \A x \in Holders : Stays(x)
    BY <1>2, <1>4, Transactions DEF Stays
  <1>5. CASE /\ tx # <<>> /\ tx' = Tail(tx)
             /\ \A x \in Holders : Stays(x) \/ x = Who(Head(tx))
    <2>1. /\ tx' \in Seq(TxRecord) /\ Len(tx) \in Nat \ {0} /\ Len(tx') = Len(tx) - 1
          /\ \A i \in 1..Len(tx') : tx'[i] = tx[i + 1] /\ i + 1 \in 1..Len(tx)
          /\ Head(tx) = tx[1] /\ 1 \in 1..Len(tx)
      BY <1>5, Behead
    <2>2. ASSUME NEW i \in 1..Len(tx'), NEW w \in Holders, w = Who(tx'[i])
          PROVE  /\ At(w)' = Doing(tx'[i])
                 /\ \A j \in 1..Len(tx') : Who(tx'[j]) = w => i = j
      <3>1. /\ i + 1 \in 1..Len(tx) /\ tx'[i] = tx[i + 1] /\ w # "none"
        BY <2>1, Transactions, Zenon
      <3>2. /\ Doing(tx[i + 1]) \in Busy /\ At(w) = Doing(tx[i + 1])
            /\ \A j \in 1..Len(tx) : Who(tx[j]) = w => i + 1 = j
        BY <1>2, <2>2, <3>1, Zenon
      <3>3. w # Who(Head(tx))
        BY <2>1, <3>2
      <3>4. At(w)' = Doing(tx'[i])
        BY <1>5, <3>1, <3>2, <3>3, Zenon DEF Stays
      <3> QED BY <2>1, <3>2, <3>4
    <2> QED BY <2>1, <2>2, Zenon
  <1>6. CASE /\ \A x \in Holders : Stays(x)
             /\ \E t \in TxRecord :
                   /\ tx' = Append(tx, t)
                   /\ Who(t) # "none" => At(Who(t)) \notin Busy /\ At(Who(t))' = Doing(t)
    <2>0. PICK t \in TxRecord :
                   /\ tx' = Append(tx, t)
                   /\ Who(t) # "none" => At(Who(t)) \notin Busy /\ At(Who(t))' = Doing(t)
      BY <1>6, Zenon
    <2>1. /\ tx' \in Seq(TxRecord) /\ Len(tx) \in Nat /\ Len(tx') = Len(tx) + 1
          /\ \A i \in 1..Len(tx) : tx'[i] = tx[i]
          /\ tx'[Len(tx) + 1] = t
      BY <2>0, Appended
    <2>2. ASSUME NEW i \in 1..Len(tx), NEW w \in Holders, w = Who(tx[i])
          PROVE  At(w) \in Busy /\ At(w)' = Doing(tx[i]) /\ Who(t) # w
      BY <1>2, <1>6, <2>0, <2>2, Transactions DEF Stays
    <2>3. ASSUME NEW i \in 1..Len(tx'), NEW w \in Holders, w = Who(tx'[i])
          PROVE  /\ At(w)' = Doing(tx'[i])
                 /\ \A j \in 1..Len(tx') : Who(tx'[j]) = w => i = j
      <3>1. CASE i = Len(tx) + 1
        <4>1. At(w)' = Doing(tx'[i])
          BY <2>0, <2>1, <2>3, <3>1, Transactions
        <4>2. ASSUME NEW j \in 1..Len(tx'), Who(tx'[j]) = w PROVE i = j
          BY <2>1, <2>2, <2>3, <3>1, <4>2
        <4> QED BY <4>1, <4>2, Zenon
      <3>2. CASE i \in 1..Len(tx)
        <4>1. ASSUME NEW j \in 1..Len(tx'), Who(tx'[j]) = w PROVE i = j
          <5>1. j # Len(tx) + 1
            BY <2>1, <2>2, <2>3, <3>2, <4>1, Zenon
          <5>2. j \in 1..Len(tx)
            BY <2>1, <5>1
          <5> QED BY <1>2, <2>1, <2>3, <3>2, <4>1, <5>2, Transactions
        <4> QED BY <2>1, <2>2, <2>3, <3>2, <4>1, Zenon
      <3> QED BY <2>1, <3>1, <3>2
    <2> QED BY <2>1, <2>3, Zenon
  <1> QED BY <1>4, <1>5, <1>6, Zenon DEF TxStep

\* The queue grows by a request that was not in it and loses its first.
LockStep ==
    \/ /\ locks' = locks /\ (pass'.at = "none" \/ locks # <<>>)
       /\ \A x \in Op : op[x].at = "queued" => op'[x].at = "queued"
    \/ \E o \in Op :
          /\ locks' = Append(locks, o) /\ op[o].at # "queued" /\ op'[o].at = "queued"
          /\ \A x \in Op : op[x].at = "queued" => op'[x].at = "queued"
    \/ /\ locks # <<>> /\ locks' = Tail(locks) /\ pass'.at = "none"
       /\ \A x \in Op : x # Head(locks) /\ op[x].at = "queued" => op'[x].at = "queued"

LEMMA QueueKept ==
    ASSUME locks \in Seq(Op), Queue, LockStep
    PROVE  Queue' /\ locks' \in Seq(Op)
  <1>1. \A i \in 1..Len(locks) : locks[i] \in Op
    OBVIOUS
  <1>2. CASE /\ locks' = locks /\ (pass'.at = "none" \/ locks # <<>>)
             /\ \A x \in Op : op[x].at = "queued" => op'[x].at = "queued"
    BY <1>1, <1>2, Zenon DEF Queue
  <1>3. ASSUME NEW o \in Op, locks' = Append(locks, o), op[o].at # "queued", op'[o].at = "queued",
               \A x \in Op : op[x].at = "queued" => op'[x].at = "queued"
        PROVE  Queue' /\ locks' \in Seq(Op)
    <2>1. /\ locks' \in Seq(Op) /\ Len(locks) \in Nat /\ Len(locks') = Len(locks) + 1
          /\ \A i \in 1..Len(locks) : locks'[i] = locks[i]
          /\ locks'[Len(locks) + 1] = o /\ locks' # <<>>
      BY <1>3, Appended
    <2>2. \A i \in 1..Len(locks) : locks[i] # o /\ op'[locks[i]].at = "queued"
      BY <1>1, <1>3, Zenon DEF Queue
    <2>3. \A i \in 1..Len(locks') : i \in 1..Len(locks) \/ i = Len(locks) + 1
      BY <2>1
    <2>4. \A i \in 1..Len(locks') : op'[locks'[i]].at = "queued"
      BY <1>3, <2>1, <2>2, <2>3, Zenon
    <2>5. \A i, j \in 1..Len(locks') : locks'[i] = locks'[j] => i = j
      BY <2>1, <2>2, <2>3 DEF Queue
    <2> QED BY <2>1, <2>4, <2>5, Zenon DEF Queue
  <1>4. CASE /\ locks # <<>> /\ locks' = Tail(locks) /\ pass'.at = "none"
             /\ \A x \in Op : x # Head(locks) /\ op[x].at = "queued" => op'[x].at = "queued"
    <2>1. /\ locks' \in Seq(Op) /\ Len(locks) \in Nat \ {0} /\ Len(locks') = Len(locks) - 1
          /\ \A i \in 1..Len(locks') : locks'[i] = locks[i + 1] /\ i + 1 \in 1..Len(locks)
          /\ Head(locks) = locks[1] /\ 1 \in 1..Len(locks)
      BY <1>4, Behead
    <2>2. \A i \in 1..Len(locks') : locks'[i] # Head(locks) /\ locks'[i] \in Op /\ op[locks'[i]].at = "queued"
      BY <1>1, <2>1 DEF Queue
    <2>3. ASSUME NEW i \in 1..Len(locks'), NEW j \in 1..Len(locks'), locks'[i] = locks'[j]
          PROVE  i = j
      <3>1. i + 1 = j + 1
        BY <2>1, <2>3 DEF Queue
      <3> QED BY <2>1, <3>1
    <2> QED BY <1>4, <2>1, <2>2, <2>3, Zenon DEF Queue
  <1> QED BY <1>2, <1>3, <1>4, Zenon DEF LockStep

LEMMA BaseKept ==
    ASSUME Base, TxStep, LockStep,
           epoch' \in Nat, acked' \in [Url -> Nat], row' \in [Url -> Nat],
           body' \in [Url -> [size : Nat, epoch : Nat]], op' \in [Op -> OpRecord],
           IsPass(pass'), uses' \subseteq Url, inv' \in Seq(InvRecord)
    PROVE  Base'
  BY ErrandsKept, QueueKept, Zenon DEF Base, Types, IsPass
LEMMA OthersStay ==
    ASSUME Types, NEW o \in Op, Moves(o)
    PROVE  \A x \in Holders : x # o /\ x # "pass" => Stays(x)
  <1>1. At("inv")' = At("inv")
    <2>1. inv \in Seq(InvRecord) /\ inv' \in Seq(InvRecord) /\ Len(inv') = Len(inv)
      BY Zenon DEF Types, Moves, InvKept
    <2>2. CASE inv = <<>>
      <3>1. inv' = <<>>
        BY <2>1, <2>2
      <3> QED BY <2>2, <3>1, Stages, Zenon
    <2>3. CASE inv # <<>>
      <3>1. inv' # <<>> /\ 1 \in 1..Len(inv)
        BY <2>1, <2>3
      <3> QED BY <2>3, <3>1, Stages, Zenon DEF Moves, InvKept
    <2> QED BY <2>2, <2>3, Zenon
  <1>2. \A x \in Op : x # o => At(x)' = At(x)
    BY Stages DEF Moves
  <1> QED BY <1>1, <1>2, Stages, Zenon DEF Holders, Stays

\* Removing a body keeps the cache's type.
LEMMA Removed ==
    ASSUME body \in [Url -> [size : Nat, epoch : Nat]], NEW u, body' = [body EXCEPT ![u] = NoBody]
    PROVE  /\ body' \in [Url -> [size : Nat, epoch : Nat]]
           /\ \A v \in Url : IF v = u THEN body'[v].size = 0 ELSE body'[v] = body[v]
  BY Zenon DEF NoBody

LEMMA BaseRequest ==
    ASSUME Base, NEW o \in Op, RequestStep(o)
    PROVE  Base'
  <1>1. Types /\ op[o] \in OpRecord
    BY Zenon DEF Base, Types
  <1>2. /\ Moves(o) /\ op[o].at \in {"idle", "fetching", "room", "landing"}
        /\ UNCHANGED <<row, epoch, acked, pass, miscounted>>
        /\ IF op'[o].at = "queued" THEN locks' = Append(locks, o) ELSE locks' = locks
        /\ ~Land(o) /\ ~RemoveCached(o) => UNCHANGED <<body, uses, tx>>
        /\ Land(o) => op'[o].at = "touching"
        /\ RemoveCached(o) => op'[o].at = "forgetting"
    BY <1>1, RequestSteps, Zenon
  <1>3. \A x \in Holders : Stays(x)
    <2>1. Stays(o)
      BY <1>2, Stages, Zenon DEF Stays, Busy
    <2>2. Stays("pass")
      BY <1>2, Stages, Zenon DEF Stays
    <2> QED BY <1>1, <1>2, <2>1, <2>2, OthersStay, Zenon
  <1>4. At(o) \notin Busy /\ At(o)' = op'[o].at
    BY <1>2, Stages, Zenon DEF Busy
  <1>5. LockStep
    <2>1. \A x \in Op : op[x].at = "queued" => op'[x].at = "queued"
      BY <1>2, Zenon DEF Moves
    <2>2. pass'.at = "none" \/ locks # <<>>
      BY <1>2, Zenon DEF Base, Queue
    <2> QED BY <1>2, <2>1, <2>2, Zenon DEF LockStep
  <1>6. op[o].url \in Url \cup {"none"} /\ op[o].size \in Nat /\ op[o].epoch \in Nat
    BY <1>1, Zenon DEF OpRecord
  <1>7. TxStep
    <2>1. CASE Land(o)
      <3> DEFINE t == [do |-> "touch", by |-> o, url |-> op[o].url]
      <3>1. tx' = Append(tx, t)
        BY <2>1, Zenon DEF Land
      <3>2. t \in TxRecord /\ Who(t) = o /\ Doing(t) = "touching"
        BY <1>6, Transactions
      <3> HIDE DEF t
      <3> QED BY <1>2, <1>3, <1>4, <2>1, <3>1, <3>2, Zenon DEF TxStep
    <2>2. CASE RemoveCached(o)
      <3> DEFINE t == [do |-> "forget", by |-> o, url |-> op[o].url]
      <3>1. tx' = Append(tx, t)
        BY <2>2, Zenon DEF RemoveCached
      <3>2. t \in TxRecord /\ Who(t) = o /\ Doing(t) = "forgetting"
        BY <1>6, Transactions DEF Holders
      <3> HIDE DEF t
      <3> QED BY <1>2, <1>3, <1>4, <2>2, <3>1, <3>2, Zenon DEF TxStep
    <2>3. CASE ~Land(o) /\ ~RemoveCached(o)
      BY <1>2, <1>3, <2>3, Zenon DEF TxStep
    <2> QED BY <2>1, <2>2, <2>3, Zenon
  <1>8. body' \in [Url -> [size : Nat, epoch : Nat]] /\ uses' \subseteq Url
    <2>1. CASE Land(o)
      BY <1>1, <1>6, <2>1, Zenon DEF Land, Types
    <2>2. CASE RemoveCached(o)
      BY <1>1, <2>2, Removed, Zenon DEF RemoveCached, Types
    <2> QED BY <1>1, <1>2, <2>1, <2>2, Zenon DEF Types
  <1> QED BY <1>1, <1>2, <1>5, <1>7, <1>8, BaseKept, Zenon DEF Types, Moves, InvKept
\* The records of a pass that the steps make.
LEMMA Passes ==
    ASSUME IsPass(pass), NEW q
    PROVE  /\ pass.at \in {"none", "flushing", "reading", "evicting", "forgetting"}
           /\ q = NoPass
                 => IsPass(q) /\ q.at = "none"
           /\ q = [NoPass EXCEPT !.at = "flushing"]
                 => IsPass(q) /\ q.at = "flushing"
           /\ q = [pass EXCEPT !.at = "reading"]
                 => IsPass(q) /\ q.at = "reading"
           /\ \A x, y, z : q = [pass EXCEPT !.at = "evicting", !.seen = x, !.left = y, !.projected = z]
                 => IsPass(q) /\ q.at = "evicting"
           /\ \A x : q = [pass EXCEPT !.at = "forgetting", !.left = x]
                 => IsPass(q) /\ q.at = "forgetting"
           /\ \A x : q = [pass EXCEPT !.at = "evicting", !.projected = x]
                 => IsPass(q) /\ q.at = "evicting"
           /\ \A x : q = [pass EXCEPT !.voided = x]
                 => IsPass(q) /\ q.at = pass.at
           /\ \A x : q = [pass EXCEPT !.late = x]
                 => IsPass(q) /\ q.at = pass.at
  <1>0. ASSUME NEW a \in {"none", "flushing", "reading", "evicting", "forgetting"},
               NEW b, NEW c, NEW d, NEW e, NEW f
        PROVE  IsPass(PassRecord(a, b, c, d, e, f)) /\ PassRecord(a, b, c, d, e, f).at = a
    BY Zenon DEF IsPass, PassRecord
  <1>1. PICK at \in {"none", "flushing", "reading", "evicting", "forgetting"} :
        \E late, voided, seen, left, projected :
            pass = PassRecord(at, late, voided, seen, left, projected)
    BY Zenon DEF IsPass
  <1>2. PICK late, voided, seen, left, projected :
            pass = PassRecord(at, late, voided, seen, left, projected)
    BY <1>1, Zenon
  <1>3. pass.at = at
    BY <1>0, <1>2
  <1>4. ASSUME q = NoPass
        PROVE  IsPass(q) /\ q.at = "none"
    <2> DEFINE unseen == [u \in Url |-> 0]
    <2> DEFINE no == FALSE
    <2>1. q = PassRecord("none", 0, no, unseen, {}, 0)
      BY <1>2, <1>4, Zenon DEF PassRecord, NoPass
    <2> HIDE DEF unseen, no
    <2> QED BY <1>0, <1>3, <2>1
  <1>5. ASSUME q = [NoPass EXCEPT !.at = "flushing"]
        PROVE  IsPass(q) /\ q.at = "flushing"
    <2> DEFINE unseen == [u \in Url |-> 0]
    <2> DEFINE no == FALSE
    <2>1. q = PassRecord("flushing", 0, no, unseen, {}, 0)
      BY <1>2, <1>5, Zenon DEF PassRecord, NoPass
    <2> HIDE DEF unseen, no
    <2> QED BY <1>0, <1>3, <2>1
  <1>6. ASSUME q = [pass EXCEPT !.at = "reading"]
        PROVE  IsPass(q) /\ q.at = "reading"
    <2>1. q = PassRecord("reading", late, voided, seen, left, projected)
      BY <1>2, <1>6, Zenon DEF PassRecord, NoPass
    <2> QED BY <1>0, <1>3, <2>1
  <1>7. ASSUME NEW x, NEW y, NEW z, q = [pass EXCEPT !.at = "evicting", !.seen = x, !.left = y, !.projected = z]
        PROVE  IsPass(q) /\ q.at = "evicting"
    <2>1. q = PassRecord("evicting", late, voided, x, y, z)
      BY <1>2, <1>7, Zenon DEF PassRecord, NoPass
    <2> QED BY <1>0, <1>3, <2>1
  <1>8. ASSUME NEW x, q = [pass EXCEPT !.at = "forgetting", !.left = x]
        PROVE  IsPass(q) /\ q.at = "forgetting"
    <2>1. q = PassRecord("forgetting", late, voided, seen, x, projected)
      BY <1>2, <1>8, Zenon DEF PassRecord, NoPass
    <2> QED BY <1>0, <1>3, <2>1
  <1>9. ASSUME NEW x, q = [pass EXCEPT !.at = "evicting", !.projected = x]
        PROVE  IsPass(q) /\ q.at = "evicting"
    <2>1. q = PassRecord("evicting", late, voided, seen, left, x)
      BY <1>2, <1>9, Zenon DEF PassRecord, NoPass
    <2> QED BY <1>0, <1>3, <2>1
  <1>10. ASSUME NEW x, q = [pass EXCEPT !.voided = x]
        PROVE  IsPass(q) /\ q.at = pass.at
    <2>1. q = PassRecord(at, late, x, seen, left, projected)
      BY <1>2, <1>10, Zenon DEF PassRecord, NoPass
    <2> QED BY <1>0, <1>3, <2>1
  <1>11. ASSUME NEW x, q = [pass EXCEPT !.late = x]
        PROVE  IsPass(q) /\ q.at = pass.at
    <2>1. q = PassRecord(at, x, voided, seen, left, projected)
      BY <1>2, <1>11, Zenon DEF PassRecord, NoPass
    <2> QED BY <1>0, <1>3, <2>1
  <1> QED BY <1>3, <1>4, <1>5, <1>6, <1>7, <1>8, <1>9, <1>10, <1>11, Zenon

\* The lock passes on: its holder, and nobody else, leaves the queue.
LEMMA Releases ==
    ASSUME Base, locks # <<>>, locks' = Tail(locks), Resume(Head(locks)), pass'.at = "none"
    PROVE  /\ Head(locks) \in Op /\ Moves(Head(locks)) /\ LockStep
           /\ \A x \in Op : op[x].at \in Busy => op'[x] = op[x]
           /\ \A x \in Holders : x # "pass" => Stays(x)
  <1>1. Head(locks) \in Op /\ op[Head(locks)].at = "queued"
    <2>1. Head(locks) = locks[1] /\ locks[1] \in Op /\ 1 \in 1..Len(locks)
      BY DEF Base, Types
    <2> QED BY <2>1, Zenon DEF Base, Queue
  <1>2. Moves(Head(locks))
    BY <1>1, Resumes, Zenon DEF Base
  <1>3. LockStep
    BY <1>2, Zenon DEF LockStep, Moves
  <1>4. Stays(Head(locks))
    BY <1>1, Stages, Zenon DEF Stays, Busy
  <1>5. \A x \in Holders : x # "pass" => Stays(x)
    BY <1>1, <1>2, <1>4, OthersStay, Zenon DEF Base
  <1> QED BY <1>1, <1>2, <1>3, <1>5, Zenon DEF Moves, Busy

PassStep ==
    \/ TakeLock \/ SyncTotal \/ ReadAdopted \/ ReadRefused \/ EndPass \/ RunFlush \/ WriteUses
    \/ \E u \in Url : Evict(u) \/ MatchCached(u)

\* A step of the pass moves at most the lock's holder.
LEMMA PassMoves ==
    ASSUME Base, PassStep
    PROVE  /\ LockStep /\ IsPass(pass')
           /\ \/ UNCHANGED <<op, inv>>
              \/ Head(locks) \in Op /\ Moves(Head(locks))
           /\ \A x \in Op : op[x].at \in Busy => op'[x] = op[x]
           /\ \A x \in Holders : x # "pass" => Stays(x)
  <1>0. Types /\ IsPass(pass)
    BY Zenon DEF Base, Types
  <1>1. ASSUME UNCHANGED <<op, inv, locks>>, IsPass(pass'), pass'.at = "none" \/ locks # <<>>
        PROVE  /\ LockStep /\ IsPass(pass')
               /\ \A x \in Op : op[x].at \in Busy => op'[x] = op[x]
               /\ \A x \in Holders : x # "pass" => Stays(x)
    <2>1. \A x \in Holders : x # "pass" => Stays(x)
      BY <1>1, Stages, Zenon DEF Stays, Holders
    <2> QED BY <1>1, <2>1, Zenon DEF LockStep
  <1>2. pass.at # "none" => locks # <<>>
    BY Zenon DEF Base, Queue
  <1>3. FirstTx("read") => pass.at = "reading"
    <2>1. ASSUME FirstTx("read") PROVE pass.at = "reading"
      <3>1. 1 \in 1..Len(tx) /\ tx[1].do = "read"
        BY <1>0, <2>1 DEF FirstTx, Types
      <3>2. Who(tx[1]) = "pass" /\ Doing(tx[1]) = "reading"
        BY <3>1, Zenon DEF Who, Doing
      <3> QED BY <3>1, <3>2, Stages, Zenon DEF Base, Errands
    <2> QED BY <2>1, Zenon
  <1>4. CASE TakeLock
    <2>1. CASE locks' = Tail(locks) /\ Resume(Head(locks)) /\ UNCHANGED pass
      BY <1>0, <1>4, <2>1, Releases, Zenon DEF TakeLock
    <2>2. CASE pass' = [NoPass EXCEPT !.at = "flushing"] /\ UNCHANGED <<locks, op, inv>>
      BY <1>0, <1>1, <1>4, <2>2, Passes, Zenon DEF TakeLock
    <2> QED BY <1>4, <2>1, <2>2, Zenon DEF TakeLock
  <1>5. ASSUME ReleaseLock, pass.at # "none"
        PROVE  /\ LockStep /\ IsPass(pass')
               /\ Head(locks) \in Op /\ Moves(Head(locks))
               /\ \A x \in Op : op[x].at \in Busy => op'[x] = op[x]
               /\ \A x \in Holders : x # "pass" => Stays(x)
    BY <1>0, <1>2, <1>5, Passes, Releases, Zenon DEF ReleaseLock
  <1>6. CASE SyncTotal
    BY <1>0, <1>1, <1>2, <1>6, Passes, Zenon DEF SyncTotal
  <1>7. CASE ReadAdopted
    <2>1. CASE ReleaseLock
      BY <1>3, <1>5, <1>7, <2>1, Zenon DEF ReadAdopted
    <2>2. CASE /\ pass' = [pass EXCEPT !.at = "evicting", !.seen = row,
                         !.left = {u \in Url : row[u] > 0}, !.projected = total' + reserved]
               /\ UNCHANGED <<locks, op, inv>>
      BY <1>0, <1>1, <1>2, <1>3, <1>7, <2>2, Passes, Zenon DEF ReadAdopted
    <2> QED BY <1>7, <2>1, <2>2, Zenon DEF ReadAdopted
  <1>8. CASE ReadRefused
    BY <1>3, <1>5, <1>8, Zenon DEF ReadRefused
  <1>9. CASE EndPass
    BY <1>5, <1>9, Zenon DEF EndPass
  <1>10. CASE RunFlush \/ WriteUses \/ \E u \in Url : MatchCached(u)
    BY <1>0, <1>1, <1>2, <1>10, Zenon DEF RunFlush, WriteUses, MatchCached
  <1>11. ASSUME NEW u \in Url, Evict(u)
        PROVE  /\ LockStep /\ IsPass(pass') /\ UNCHANGED <<op, inv>>
               /\ \A x \in Op : op[x].at \in Busy => op'[x] = op[x]
               /\ \A x \in Holders : x # "pass" => Stays(x)
    BY <1>0, <1>1, <1>2, <1>11, Passes, Zenon DEF Evict
  <1> QED BY <1>4, <1>6, <1>7, <1>8, <1>9, <1>10, <1>11, Zenon DEF PassStep
LEMMA BasePass ==
    ASSUME Base, PassStep
    PROVE  Base'
  <1>0. Types /\ IsPass(pass) /\ uses \in SUBSET Url /\ tx \in Seq(TxRecord)
    BY Zenon DEF Base, Types
  <1>1. /\ LockStep /\ IsPass(pass')
        /\ \/ UNCHANGED <<op, inv>>
           \/ Head(locks) \in Op /\ Moves(Head(locks))
        /\ \A x \in Holders : x # "pass" => Stays(x)
    BY PassMoves, Zenon
  <1>2. UNCHANGED <<row, epoch, acked>>
    BY Zenon DEF PassStep, TakeLock, SyncTotal, ReadAdopted, ReadRefused, EndPass, RunFlush, WriteUses,
           Evict, MatchCached
  <1>3. uses' \subseteq Url
    BY <1>0, Zenon DEF PassStep, TakeLock, SyncTotal, ReadAdopted, ReadRefused, EndPass, RunFlush,
                WriteUses, Evict, MatchCached, NoteUse
  <1>4. op' \in [Op -> OpRecord] /\ inv' \in Seq(InvRecord)
    BY <1>0, <1>1, Zenon DEF Types, Moves, InvKept
  <1>5. body' \in [Url -> [size : Nat, epoch : Nat]]
    <2>1. ASSUME NEW u \in Url, Evict(u) PROVE body' \in [Url -> [size : Nat, epoch : Nat]]
      BY <1>0, <2>1, Removed, Zenon DEF Evict, Types
    <2>2. (\E u \in Url : Evict(u)) \/ UNCHANGED body
      BY Zenon DEF PassStep, TakeLock, SyncTotal, ReadAdopted, ReadRefused, EndPass, RunFlush, WriteUses,
             MatchCached
    <2> QED BY <1>0, <2>1, <2>2, Zenon DEF Types
  <1>6. TxStep
    <2>1. Stays("pass") /\ tx' = tx => TxStep
      BY <1>1, Zenon DEF TxStep
    <2>2. ASSUME NEW t \in TxRecord, tx' = Append(tx, t), Stays("pass"),
                 Who(t) # "none" => At(Who(t)) \notin Busy /\ At(Who(t))' = Doing(t)
          PROVE  TxStep
      BY <1>1, <2>2, Zenon DEF TxStep
    <2>3. pass.at \in {"none", "flushing", "evicting"} => Stays("pass")
      BY Stages, Zenon DEF Stays, Busy
    <2>4. UNCHANGED pass => Stays("pass")
      BY Stages, Zenon DEF Stays
    <2>5. [do |-> "uses", urls |-> uses] \in TxRecord /\ Who([do |-> "uses", urls |-> uses]) = "none"
      BY <1>0, Transactions, Zenon
    <2>6. CASE TakeLock \/ RunFlush
      <3>1. Stays("pass")
        BY <2>3, <2>4, <2>6, Zenon DEF TakeLock, RunFlush
      <3>2. tx' = tx \/ tx' = Append(tx, [do |-> "uses", urls |-> uses])
        BY <2>6, Zenon DEF TakeLock, RunFlush
      <3> QED BY <2>1, <2>2, <2>5, <3>1, <3>2, Zenon
    <2>7. CASE SyncTotal
      <3> DEFINE t == [do |-> "read"]
      <3>1. t \in TxRecord /\ Who(t) = "pass" /\ Doing(t) = "reading"
        BY Transactions, Zenon
      <3>2. tx' = Append(tx, t) /\ pass.at = "flushing" /\ pass'.at = "reading"
        BY <1>0, <2>7, Passes, Zenon DEF SyncTotal
      <3> HIDE DEF t
      <3> QED BY <2>2, <2>3, <3>1, <3>2, Stages, Zenon DEF Busy
    <2>8. CASE ReadAdopted \/ ReadRefused \/ WriteUses
      <3>1. tx # <<>> /\ tx' = Tail(tx) /\ Head(tx).do \in {"read", "uses"}
        BY <2>8, Zenon DEF ReadAdopted, ReadRefused, WriteUses, FirstTx
      <3>2. Stays("pass") \/ Who(Head(tx)) = "pass"
        BY <2>4, <2>8, Zenon DEF ReadAdopted, ReadRefused, WriteUses, FirstTx, Who
      <3> QED BY <1>1, <3>1, <3>2, Zenon DEF TxStep
    <2>9. CASE EndPass \/ \E u \in Url : MatchCached(u)
      BY <2>1, <2>3, <2>4, <2>9, Zenon DEF EndPass, MatchCached
    <2>10. ASSUME NEW u \in Url, Evict(u) PROVE TxStep
      <3> DEFINE t == [do |-> "forget", by |-> "pass", url |-> u]
      <3>1. t \in TxRecord /\ Who(t) = "pass" /\ Doing(t) = "forgetting"
        BY Transactions, Zenon DEF Holders
      <3>2. tx' = Append(tx, t) /\ pass.at = "evicting" /\ pass'.at = "forgetting"
        BY <1>0, <2>10, Passes, ZenonT(40) DEF Evict
      <3> HIDE DEF t
      <3> QED BY <2>2, <2>3, <3>1, <3>2, Stages, Zenon DEF Busy
    <2> QED BY <2>6, <2>7, <2>8, <2>9, <2>10, Zenon DEF PassStep
  <1> QED BY <1>0, <1>1, <1>2, <1>3, <1>4, <1>5, <1>6, BaseKept, Zenon DEF Types
\* The transaction that commits next, and where its holder is.
LEMMA NextTx ==
    ASSUME Base, tx # <<>>
    PROVE  /\ Head(tx) = tx[1] /\ 1 \in 1..Len(tx) /\ Head(tx) \in TxRecord
           /\ Who(Head(tx)) # "none" => At(Who(Head(tx))) = Doing(Head(tx))
           /\ Head(tx).do = "touch" => Head(tx).by \in Op /\ Who(Head(tx)) = Head(tx).by
           /\ Head(tx).do = "forget" => Head(tx).by \in Holders /\ Who(Head(tx)) = Head(tx).by
           /\ Head(tx).do = "clear" => Who(Head(tx)) = "inv"
  <1>1. Head(tx) = tx[1] /\ 1 \in 1..Len(tx) /\ Head(tx) \in TxRecord
    BY DEF Base, Types
  <1>2. Who(Head(tx)) # "none" => At(Who(Head(tx))) = Doing(Head(tx))
    BY <1>1, Zenon DEF Base, Errands
  <1>3. \A t \in TxRecord : (t.do = "touch" => t.by \in Op) /\ (t.do = "forget" => t.by \in Holders)
    BY Zenon DEF TxRecord, Holders
  <1> QED BY <1>1, <1>2, <1>3, Zenon DEF Who

\* touch() commits or fails: its request is over.
LEMMA TouchMoves ==
    ASSUME Base, Touch \/ TouchFails
    PROVE  /\ tx # <<>> /\ tx' = Tail(tx) /\ Head(tx).do = "touch" /\ Head(tx).by \in Op
           /\ Moves(Head(tx).by) /\ op'[Head(tx).by] = Idle /\ op[Head(tx).by].at = "touching"
           /\ UNCHANGED <<body, uses, epoch, acked, locks>>
           /\ IsPass(pass') /\ pass'.at = pass.at /\ row' \in [Url -> Nat]
  <1>0. Types /\ IsPass(pass)
    BY Zenon DEF Base, Types
  <1>1. /\ tx # <<>> /\ tx' = Tail(tx) /\ Head(tx).do = "touch"
        /\ UNCHANGED <<body, uses, epoch, acked, locks>> /\ Settle(Head(tx).by)
    BY Zenon DEF Touch, TouchFails, FirstTx
  <1>2. Head(tx).by \in Op /\ op[Head(tx).by].at = "touching"
    BY <1>1, NextTx, Stages, Transactions DEF Doing, Holders
  <1>3. Moves(Head(tx).by) /\ op'[Head(tx).by] = Idle
    BY <1>0, <1>1, <1>2, Settles, Zenon
  <1>4. IsPass(pass') /\ pass'.at = pass.at
    <2>1. pass' = pass \/ \E x : pass' = [pass EXCEPT !.late = x]
      BY Zenon DEF Touch, TouchFails, ApplyDelta
    <2> QED BY <1>0, <2>1, Passes, Zenon
  <1>5. row' \in [Url -> Nat]
    <2>1. op[Head(tx).by] \in OpRecord /\ row \in [Url -> Nat]
      BY <1>0, <1>2, Zenon DEF Types
    <2>2. op[Head(tx).by].size \in Nat
      BY <2>1, Zenon DEF OpRecord
    <2>3. row' = row \/ row' = [row EXCEPT ![op[Head(tx).by].url] = op[Head(tx).by].size]
      BY Zenon DEF Touch, TouchFails
    <2> QED BY <2>1, <2>2, <2>3, Zenon
  <1> QED BY <1>1, <1>2, <1>3, <1>4, <1>5, Zenon

LEMMA BaseTouch ==
    ASSUME Base, Touch \/ TouchFails
    PROVE  Base'
  <1> DEFINE o == Head(tx).by
  <1>0. Types
    BY Zenon DEF Base
  <1>1. /\ tx # <<>> /\ tx' = Tail(tx) /\ Head(tx).do = "touch" /\ o \in Op
        /\ Moves(o) /\ op'[o] = Idle /\ op[o].at = "touching"
        /\ UNCHANGED <<body, uses, epoch, acked, locks>>
        /\ IsPass(pass') /\ pass'.at = pass.at /\ row' \in [Url -> Nat]
    BY TouchMoves, Zenon
  <1>2. Who(Head(tx)) = o
    BY <1>1, NextTx, Zenon
  <1> HIDE DEF o
  <1>3. TxStep
    <2>1. Stays("pass")
      BY <1>1, Stages, Zenon DEF Stays
    <2>2. \A x \in Holders : Stays(x) \/ x = Who(Head(tx))
      BY <1>0, <1>1, <1>2, <2>1, OthersStay, Zenon
    <2> QED BY <1>1, <2>2, Zenon DEF TxStep
  <1>4. LockStep
    <2>1. \A x \in Op : op[x].at = "queued" => op'[x].at = "queued"
      BY <1>1, Zenon DEF Moves
    <2>2. pass'.at = "none" \/ locks # <<>>
      BY <1>1, Zenon DEF Base, Queue
    <2> QED BY <1>1, <2>1, <2>2, Zenon DEF LockStep
  <1> QED BY <1>0, <1>1, <1>3, <1>4, BaseKept, Zenon DEF Types, Moves, InvKept

\* The first of the chain moves to a stage; the others wait on.
FirstTo(at, left) ==
    /\ inv # <<>> /\ inv' \in Seq(InvRecord) /\ Len(inv') = Len(inv)
    /\ \A i \in 2..Len(inv) : inv'[i] = inv[i]
    /\ inv'[1].at = at /\ inv'[1].left = left /\ inv'[1].targets = inv[1].targets
    /\ inv'[1].epoch = inv[1].epoch /\ inv'[1].awaits = inv[1].awaits

LEMMA FirstMoves ==
    ASSUME inv \in Seq(InvRecord), inv # <<>>,
           NEW at \in {"waiting", "deleting", "forgetting", "clearing"}, NEW left \in SUBSET Url,
           inv' = [inv EXCEPT ![1] = [inv[1] EXCEPT !.at = at, !.left = left]]
    PROVE  /\ FirstTo(at, left)
           /\ At("inv") = inv[1].at /\ At("inv")' = at
  <1> DEFINE q == [inv[1] EXCEPT !.at = at, !.left = left]
  <1>1. inv[1] \in InvRecord /\ 1 \in 1..Len(inv) /\ Len(inv) \in Nat
    OBVIOUS
  <1>2. /\ q \in InvRecord /\ q.at = at /\ q.left = left /\ q.targets = inv[1].targets
        /\ q.epoch = inv[1].epoch /\ q.awaits = inv[1].awaits
    BY <1>1, Zenon DEF InvRecord
  <1>3. inv' = [inv EXCEPT ![1] = q]
    OBVIOUS
  <1> HIDE DEF q
  <1>4. /\ inv' \in Seq(InvRecord) /\ Len(inv') = Len(inv) /\ inv'[1] = q
        /\ \A i \in 2..Len(inv) : inv'[i] = inv[i]
    <2>1. inv \in [1..Len(inv) -> InvRecord]
      OBVIOUS
    <2>2. /\ inv' \in [1..Len(inv) -> InvRecord] /\ inv'[1] = q
          /\ \A i \in 2..Len(inv) : inv'[i] = inv[i]
      BY <1>1, <1>2, <1>3, <2>1
    <2>3. inv' \in Seq(InvRecord) /\ Len(inv') = Len(inv)
      BY <1>1, <2>2
    <2> QED BY <2>2, <2>3, Zenon
  <1>5. inv' # <<>>
    BY <1>1, <1>4
  <1> QED BY <1>2, <1>4, <1>5, Stages, Zenon DEF FirstTo
LEMMA BaseForget ==
    ASSUME Base, ForgetEntry
    PROVE  Base'
  <1> DEFINE t == Head(tx)
  <1>0. Types /\ IsPass(pass) /\ inv \in Seq(InvRecord)
    BY Zenon DEF Base, Types
  <1>1. /\ tx # <<>> /\ t.do = "forget" /\ tx' = Tail(tx) /\ row' = [row EXCEPT ![t.url] = 0]
        /\ UNCHANGED <<body, uses, epoch, locks, acked>>
    BY Zenon DEF ForgetEntry, FirstTx
  <1>2. t.by \in Holders /\ Who(t) = t.by /\ At(t.by) = "forgetting"
    BY <1>1, NextTx, Transactions DEF Doing
  <1>3. /\ op' \in [Op -> OpRecord] /\ inv' \in Seq(InvRecord) /\ IsPass(pass')
        /\ pass'.at = "none" => pass.at = "none"
        /\ pass.at = "none" => pass'.at = "none"
        /\ \A x \in Op : op[x].at = "queued" => op'[x].at = "queued"
        /\ \A x \in Holders : x # t.by => Stays(x)
    <2>1. CASE t.by \in Op /\ op' = [op EXCEPT ![t.by] = Idle] /\ UNCHANGED <<pass, inv>>
      <3>1. Moves(t.by) /\ op[t.by].at = "forgetting"
        BY <1>0, <1>2, <2>1, Becomes, IdleRequest, Stages, Zenon
      <3>2. Stays("pass")
        BY <2>1, Stages, Zenon DEF Stays
      <3> QED BY <1>0, <2>1, <3>1, <3>2, OthersStay, Zenon DEF Moves, InvKept
    <2>2. CASE /\ t.by = "pass" /\ pass' = [pass EXCEPT !.at = "evicting", !.projected = @ - pass.seen[t.url]]
               /\ UNCHANGED <<op, inv>>
      <3>1. IsPass(pass') /\ pass'.at = "evicting" /\ pass.at = "forgetting"
        BY <1>0, <1>2, <2>2, Passes, Stages, Zenon
      <3>2. \A x \in Holders : x # "pass" => Stays(x)
        BY <2>2, Stages, Zenon DEF Stays, Holders
      <3> QED BY <1>0, <2>2, <3>1, <3>2, Zenon DEF Types
    <2>3. CASE t.by = "inv" /\ inv' = [inv EXCEPT ![1].at = "deleting"] /\ UNCHANGED <<op, pass>>
      <3>1. inv # <<>>
        BY <1>2, <2>3, Stages, Zenon
      <3>2. inv[1] \in InvRecord
        BY <1>0, <3>1
      <3>3. inv[1].left \in SUBSET Url
        BY <3>2, Zenon DEF InvRecord
      <3>4. inv' = [inv EXCEPT ![1] = [inv[1] EXCEPT !.at = "deleting", !.left = inv[1].left]]
        <4>1. [inv[1] EXCEPT !.at = "deleting"] = [inv[1] EXCEPT !.at = "deleting", !.left = inv[1].left]
          BY <3>2, Zenon DEF InvRecord
        <4> QED BY <2>3, <4>1, Zenon
      <3>5. FirstTo("deleting", inv[1].left)
        BY <1>0, <3>1, <3>3, <3>4, FirstMoves, Zenon
      <3>6. \A x \in Holders : x # "inv" => Stays(x)
        BY <2>3, Stages, Zenon DEF Stays, Holders
      <3> QED BY <1>0, <2>3, <3>5, <3>6, Zenon DEF Types, FirstTo
    <2> QED BY <2>1, <2>2, <2>3, Zenon DEF ForgetEntry
  <1>4. TxStep
    BY <1>1, <1>2, <1>3, Zenon DEF TxStep
  <1>5. LockStep
    BY <1>1, <1>3, Zenon DEF LockStep, Base, Queue
  <1>6. row' \in [Url -> Nat]
    BY <1>0, <1>1, Zenon DEF Types
  <1> QED BY <1>0, <1>1, <1>3, <1>4, <1>5, <1>6, BaseKept, Zenon DEF Types
\* An invalidation's own steps up to its answer, as moves of the first of the chain.
LEMMA InvalidationMoves ==
    ASSUME Base
    PROVE  /\ InvalidationRuns =>
                 /\ FirstTo("deleting", {u \in inv[1].targets : body[u].size > 0})
                 /\ inv[1].at = "waiting" /\ inv[1].awaits = {}
           /\ \A u \in Url : DeleteEntry(u) =>
                 /\ FirstTo("forgetting", inv[1].left \ {u}) /\ inv[1].at = "deleting"
           /\ DeleteCaches => FirstTo("clearing", {}) /\ inv[1].at = "deleting"
  <1>0. inv \in Seq(InvRecord)
    BY Zenon DEF Base, Types
  <1>1. inv # <<>> => Head(inv) = inv[1] /\ inv[1] \in InvRecord
    BY <1>0
  <1>2. ASSUME inv # <<>>
        PROVE  /\ {u \in inv[1].targets : body[u].size > 0} \in SUBSET Url
               /\ \A u \in Url : inv[1].left \ {u} \in SUBSET Url
    BY <1>1, <1>2, Zenon DEF InvRecord
  <1>3. ASSUME InvalidationRuns
        PROVE  /\ FirstTo("deleting", {u \in inv[1].targets : body[u].size > 0})
               /\ inv[1].at = "waiting" /\ inv[1].awaits = {}
    <2> DEFINE left == {u \in inv[1].targets : body[u].size > 0}
    <2>1. inv # <<>> /\ inv[1].at = "waiting" /\ inv[1].awaits = {}
      BY <1>1, <1>3, Zenon DEF InvalidationRuns
    <2>2. inv' = [inv EXCEPT ![1] = [inv[1] EXCEPT !.at = "deleting", !.left = left]]
      BY <1>0, <1>1, <1>3, <2>1, Zenon DEF InvalidationRuns
    <2>3. left \in SUBSET Url
      BY <1>2, <2>1, Zenon
    <2> HIDE DEF left
    <2>4. FirstTo("deleting", left)
      BY <1>0, <2>1, <2>2, <2>3, FirstMoves, Zenon
    <2> QED BY <2>1, <2>4, Zenon DEF left
  <1>4. ASSUME NEW u \in Url, DeleteEntry(u)
        PROVE  FirstTo("forgetting", inv[1].left \ {u}) /\ inv[1].at = "deleting"
    <2> DEFINE left == inv[1].left \ {u}
    <2>1. inv # <<>> /\ inv[1].at = "deleting"
      BY <1>1, <1>4, Zenon DEF DeleteEntry
    <2>2. inv' = [inv EXCEPT ![1] = [inv[1] EXCEPT !.at = "forgetting", !.left = left]]
      BY <1>0, <1>1, <1>4, <2>1, Zenon DEF DeleteEntry, InvRecord
    <2>3. left \in SUBSET Url
      BY <1>2, <2>1, Zenon
    <2> HIDE DEF left
    <2>4. FirstTo("forgetting", left)
      BY <1>0, <2>1, <2>2, <2>3, FirstMoves, Zenon
    <2> QED BY <2>1, <2>4, Zenon DEF left
  <1>5. ASSUME DeleteCaches
        PROVE  FirstTo("clearing", {}) /\ inv[1].at = "deleting"
    <2>1. inv # <<>> /\ inv[1].at = "deleting"
      BY <1>1, <1>5, Zenon DEF DeleteCaches
    <2>2. inv' = [inv EXCEPT ![1] = [inv[1] EXCEPT !.at = "clearing", !.left = {}]]
      BY <1>0, <1>1, <1>5, <2>1, Zenon DEF DeleteCaches
    <2> QED BY <1>0, <2>1, <2>2, FirstMoves, Zenon
  <1> QED BY <1>3, <1>4, <1>5, Zenon

LEMMA FirstStage ==
    ASSUME inv \in Seq(InvRecord), NEW at, NEW left, FirstTo(at, left)
    PROVE  At("inv") = inv[1].at /\ At("inv")' = at
  <1>1. inv' # <<>>
    BY DEF FirstTo
  <1> QED BY <1>1, Stages, Zenon DEF FirstTo

\* deleteCaches: a handle under way is cut off, nothing else of a request changes.
LEMMA HandlesCut ==
    ASSUME Types, DeleteCaches
    PROVE  /\ op' \in [Op -> OpRecord]
           /\ \A x \in Op : /\ op'[x].at = op[x].at /\ op'[x].url = op[x].url
                            /\ op'[x].size = op[x].size /\ op'[x].epoch = op[x].epoch
  <1>1. ASSUME NEW x \in Op
        PROVE  /\ op'[x] \in OpRecord /\ op'[x].at = op[x].at /\ op'[x].url = op[x].url
               /\ op'[x].size = op[x].size /\ op'[x].epoch = op[x].epoch
    <2>1. op[x] \in OpRecord /\ (op[x].at \in Opened) \in BOOLEAN
      BY DEF Types
    <2>2. op'[x] = [op[x] EXCEPT !.detached = op[x].at \in Opened]
      BY Zenon DEF DeleteCaches
    <2> QED BY <2>1, <2>2, Zenon DEF OpRecord
  <1>2. op' = [x \in Op |-> op'[x]]
    BY Zenon DEF DeleteCaches
  <1> QED BY <1>1, <1>2, Zenon

\* The answer: requests held for it may go on, under the live epoch.
LEMMA Acknowledged ==
    ASSUME Types, inv # <<>>, Acknowledge
    PROVE  /\ op' \in [Op -> OpRecord] /\ acked' \in [Url -> Nat]
           /\ \A x \in Op : op[x].at # "held" => op'[x] = op[x]
           /\ \A x \in Op : op[x].at = "held" => op'[x].at \in {"held", "fetching"}
           /\ inv' \in Seq(InvRecord) /\ inv' = Tail(inv)
  <1>1. ASSUME NEW x \in Op
        PROVE  /\ op'[x] \in OpRecord
               /\ op[x].at # "held" => op'[x] = op[x]
               /\ op[x].at = "held" => op'[x].at \in {"held", "fetching"}
    <2> DEFINE at == IF op[x].waits = 1 THEN "fetching" ELSE "held"
    <2>1. op[x] \in OpRecord /\ epoch \in Nat
      BY Zenon DEF Types
    <2>2. op[x].waits - 1 \in Int
      BY <2>1 DEF OpRecord
    <2>3. op'[x] = IF op[x].at # "held" THEN op[x]
                   ELSE [op[x] EXCEPT !.waits = op[x].waits - 1, !.epoch = epoch, !.at = at]
      BY Zenon DEF Acknowledge
    <2>4. at \in {"held", "fetching"}
      OBVIOUS
    <2> HIDE DEF at
    <2> QED BY <2>1, <2>2, <2>3, <2>4, ZenonT(40) DEF OpRecord
  <1>2. op' = [x \in Op |-> op'[x]]
    BY Zenon DEF Acknowledge
  <1>3. inv' \in Seq(InvRecord) /\ inv' = Tail(inv) /\ Head(inv) \in InvRecord
    <2>1. inv \in Seq(InvRecord) /\ inv' = Tail(inv)
      BY Zenon DEF Acknowledge, Types
    <2> QED BY <2>1
  <1>4. Head(inv).epoch \in Nat
    BY <1>3, Zenon DEF InvRecord
  <1>5. acked' \in [Url -> Nat]
    BY <1>4, Zenon DEF Acknowledge, Types
  <1> QED BY <1>1, <1>2, <1>3, <1>5, Zenon
InvalidationStep ==
    \/ \E ts \in SUBSET Url : InvalidateCaches(ts)
    \/ UseVersion \/ InvalidationRuns \/ (\E u \in Url : DeleteEntry(u)) \/ DeleteCaches
    \/ ClearTable \/ EndInvalidation

LEMMA BaseInvalidation ==
    ASSUME Base, InvalidationStep
    PROVE  Base'
  <1>0. /\ Types /\ IsPass(pass) /\ inv \in Seq(InvRecord) /\ epoch \in Nat /\ uses \subseteq Url
        /\ acked \in [Url -> Nat] /\ row \in [Url -> Nat] /\ op \in [Op -> OpRecord]
        /\ body \in [Url -> [size : Nat, epoch : Nat]]
    BY Zenon DEF Base, Types
  <1>1. ASSUME \A x \in Op : op'[x].at = op[x].at \/ op[x].at \notin Busy, pass'.at = pass.at
        PROVE  \A x \in Holders : x # "inv" => Stays(x)
    BY <1>1, Stages, Zenon DEF Stays, Holders
  <1>2. ASSUME \A x \in Op : op[x].at = "queued" => op'[x].at = "queued", pass'.at = pass.at, UNCHANGED locks
        PROVE  LockStep
    BY <1>2, Zenon DEF LockStep, Base, Queue
  <1>3. ASSUME NEW ts \in SUBSET Url, InvalidateCaches(ts) PROVE Base'
    <2> DEFINE r == [at |-> "waiting", targets |-> ts, left |-> {}, epoch |-> epoch',
                     awaits |-> {o \in Op : op[o].at \in Writing}]
    <2>1. epoch' \in Nat /\ inv' = Append(inv, r)
      BY <1>0, <1>3 DEF InvalidateCaches
    <2>2. r \in InvRecord /\ r.at = "waiting"
      BY <2>1, Zenon DEF InvRecord
    <2> HIDE DEF r
    <2>3. /\ inv' \in Seq(InvRecord) /\ inv' # <<>> /\ (inv # <<>> => inv'[1] = inv[1])
      BY <1>0, <2>1, <2>2, Appended
    <2>4. UNCHANGED <<body, row, uses, tx, op, locks, pass, acked>>
      BY <1>3, Zenon DEF InvalidateCaches
    <2>5. Stays("inv")
      BY <2>3, Stages, Zenon DEF Stays, Busy
    <2>6. TxStep
      BY <1>1, <2>4, <2>5, Zenon DEF TxStep
    <2>7. LockStep
      BY <1>2, <2>4, Zenon
    <2> QED BY <1>0, <2>1, <2>3, <2>4, <2>6, <2>7, BaseKept, Zenon
  <1>4. CASE UseVersion
    <2>1. epoch' \in Nat /\ UNCHANGED <<body, row, uses, tx, op, locks, pass, inv, acked>>
      BY <1>0, <1>4 DEF UseVersion
    <2>2. Stays("inv")
      BY <2>1, Stages, Zenon DEF Stays
    <2>3. TxStep
      BY <1>1, <2>1, <2>2, Zenon DEF TxStep
    <2>4. LockStep
      BY <1>2, <2>1, Zenon
    <2> QED BY <1>0, <2>1, <2>3, <2>4, BaseKept, Zenon
  <1>5. CASE InvalidationRuns
    <2>1. /\ FirstTo("deleting", {u \in inv[1].targets : body[u].size > 0}) /\ inv[1].at = "waiting"
      BY <1>5, InvalidationMoves, Zenon
    <2>2. UNCHANGED <<body, row, tx, epoch, op, locks, acked>> /\ uses' = {}
      BY <1>5, Zenon DEF InvalidationRuns
    <2>3. IsPass(pass') /\ pass'.at = pass.at
      <3>1. \E x : pass' = [pass EXCEPT !.voided = x]
        BY <1>5, Zenon DEF InvalidationRuns
      <3> QED BY <1>0, <3>1, Passes, Zenon
    <2>4. Stays("inv") /\ inv' \in Seq(InvRecord)
      <3>1. At("inv") = "waiting"
        BY <2>1, Stages, Zenon DEF FirstTo
      <3> QED BY <2>1, <3>1, Zenon DEF Stays, Busy, FirstTo
    <2>5. TxStep
      BY <1>1, <2>2, <2>3, <2>4, Zenon DEF TxStep
    <2>6. LockStep
      BY <1>2, <2>2, <2>3, Zenon
    <2> QED BY <1>0, <2>2, <2>3, <2>4, <2>5, <2>6, BaseKept, Zenon
  <1>6. ASSUME NEW u \in Url, DeleteEntry(u) PROVE Base'
    <2> DEFINE t == [do |-> "forget", by |-> "inv", url |-> u]
    <2>1. FirstTo("forgetting", inv[1].left \ {u}) /\ inv[1].at = "deleting"
      BY <1>6, InvalidationMoves, Zenon
    <2>2. /\ UNCHANGED <<row, epoch, op, locks, pass, acked>>
          /\ uses' \subseteq Url /\ tx' = Append(tx, t) /\ body' = [body EXCEPT ![u] = NoBody]
      BY <1>0, <1>6, Zenon DEF DeleteEntry
    <2>3. t \in TxRecord /\ Who(t) = "inv" /\ Doing(t) = "forgetting"
      BY Transactions, Zenon DEF Holders
    <2> HIDE DEF t
    <2>4. At("inv") = "deleting" /\ At("inv")' = "forgetting" /\ inv' \in Seq(InvRecord)
      BY <1>0, <2>1, FirstStage, Zenon DEF FirstTo
    <2>5. TxStep
      <3>1. \A x \in Holders : Stays(x)
        BY <1>1, <2>2, <2>4, Zenon DEF Stays, Busy
      <3> QED BY <2>2, <2>3, <2>4, <3>1, Zenon DEF TxStep, Busy
    <2>6. LockStep
      BY <1>2, <2>2, Zenon
    <2>7. body' \in [Url -> [size : Nat, epoch : Nat]]
      BY <1>0, <2>2, Removed, Zenon
    <2> QED BY <1>0, <2>2, <2>4, <2>5, <2>6, <2>7, BaseKept, Zenon
  <1>7. CASE DeleteCaches
    <2> DEFINE t == [do |-> "clear"]
    <2>1. FirstTo("clearing", {}) /\ inv[1].at = "deleting"
      BY <1>7, InvalidationMoves, Zenon
    <2>2. /\ UNCHANGED <<row, uses, epoch, locks, pass, acked>>
          /\ tx' = Append(tx, t) /\ body' = [u \in Url |-> NoBody]
      BY <1>7, Zenon DEF DeleteCaches
    <2>3. t \in TxRecord /\ Who(t) = "inv" /\ Doing(t) = "clearing"
      BY Transactions, Zenon
    <2> HIDE DEF t
    <2>4. op' \in [Op -> OpRecord] /\ \A x \in Op : op'[x].at = op[x].at
      BY <1>0, <1>7, HandlesCut, Zenon
    <2>5. At("inv") = "deleting" /\ At("inv")' = "clearing" /\ inv' \in Seq(InvRecord)
      BY <1>0, <2>1, FirstStage, Zenon DEF FirstTo
    <2>6. TxStep
      <3>1. \A x \in Holders : Stays(x)
        BY <1>1, <2>2, <2>4, <2>5, Zenon DEF Stays, Busy
      <3> QED BY <2>2, <2>3, <2>5, <3>1, Zenon DEF TxStep, Busy
    <2>7. LockStep
      BY <1>2, <2>2, <2>4, Zenon
    <2>8. body' \in [Url -> [size : Nat, epoch : Nat]]
      BY <2>2, Zenon DEF NoBody
    <2> QED BY <1>0, <2>2, <2>4, <2>5, <2>6, <2>7, <2>8, BaseKept, Zenon
  <1>8. CASE ClearTable \/ EndInvalidation
    <2>1. Acknowledge /\ UNCHANGED <<body, uses, epoch, locks, pass>> /\ row' \in [Url -> Nat]
      BY <1>0, <1>8 DEF ClearTable, EndInvalidation
    <2>2. inv # <<>>
      <3>1. ASSUME ClearTable PROVE inv # <<>>
        <4>1. tx # <<>> /\ Head(tx).do = "clear"
          BY <3>1, Zenon DEF ClearTable, FirstTx
        <4>2. At("inv") = "clearing"
          BY <4>1, NextTx, Zenon DEF Doing
        <4> QED BY <4>2, Stages, Zenon
      <3> QED BY <1>8, <3>1, Zenon DEF EndInvalidation
    <2>3. /\ op' \in [Op -> OpRecord] /\ acked' \in [Url -> Nat]
          /\ \A x \in Op : op[x].at # "held" => op'[x] = op[x]
          /\ inv' \in Seq(InvRecord)
      BY <1>0, <2>1, <2>2, Acknowledged, Zenon
    <2>4. \A x \in Holders : x # "inv" => Stays(x)
      BY <1>1, <2>1, <2>3, Zenon DEF Busy
    <2>5. TxStep
      <3>1. CASE ClearTable
        <4>1. tx # <<>> /\ tx' = Tail(tx) /\ Who(Head(tx)) = "inv"
          BY <3>1, NextTx, Zenon DEF ClearTable, FirstTx
        <4> QED BY <2>4, <4>1, Zenon DEF TxStep
      <3>2. CASE EndInvalidation
        <4>1. tx' = tx /\ At("inv") = "deleting"
          <5>1. Head(inv) = inv[1]
            BY <1>0, <2>2
          <5> QED BY <2>2, <3>2, <5>1, Stages, Zenon DEF EndInvalidation
        <4> QED BY <2>4, <4>1, Zenon DEF TxStep, Stays, Busy
      <3> QED BY <1>8, <3>1, <3>2, Zenon
    <2>6. LockStep
      BY <1>2, <2>1, <2>3, Zenon
    <2> QED BY <1>0, <2>1, <2>3, <2>5, <2>6, BaseKept, Zenon
  <1> QED BY <1>3, <1>4, <1>5, <1>6, <1>7, <1>8, Zenon DEF InvalidationStep

LEMMA BaseRestart ==
    ASSUME Base, Restart
    PROVE  Base'
  <1>1. /\ tx' = <<>> /\ locks' = <<>> /\ inv' = <<>> /\ uses' = {} /\ pass' = NoPass
        /\ op' = [o \in Op |-> Idle] /\ UNCHANGED <<body, row, epoch, acked>>
    BY Zenon DEF Restart
  <1>2. IsPass(pass') /\ pass'.at = "none"
    BY <1>1, Passes, Zenon DEF Base, Types
  <1>3. Types'
    BY <1>1, <1>2, IdleRequest DEF Base, Types
  <1> QED BY <1>1, <1>2, <1>3 DEF Base, Errands, Queue

LEMMA BaseInit == Init => Base
  <1> SUFFICES ASSUME Init PROVE Base
    OBVIOUS
  <1>1. IsPass(pass) /\ pass.at = "none"
    <2> DEFINE unseen == [u \in Url |-> 0]
    <2> DEFINE no == FALSE
    <2>1. pass = PassRecord("none", 0, no, unseen, {}, 0)
      BY Zenon DEF Init, NoPass, PassRecord
    <2> HIDE DEF unseen, no
    <2> QED BY <2>1, Zenon DEF IsPass, PassRecord
  <1>2. Types
    BY <1>1, IdleRequest DEF Init, Types, NoBody
  <1> QED BY <1>1, <1>2 DEF Base, Errands, Queue, Init

LEMMA StepKinds ==
    ASSUME Next
    PROVE  \/ \E o \in Op : RequestStep(o)
           \/ PassStep \/ InvalidationStep \/ Touch \/ TouchFails \/ ForgetEntry \/ Restart
  <1>1. CASE Step
    BY <1>1, Zenon DEF Step, RequestStep, PassStep, InvalidationStep
  <1>2. CASE Environment
    BY <1>2, Zenon DEF Environment, RequestStep, PassStep, InvalidationStep
  <1> QED BY <1>1, <1>2, Zenon DEF Next

LEMMA BaseStutters == Base /\ UNCHANGED vars => Base'
  BY DEF vars, Base, Types, IsPass, Errands, Queue, Who, Doing, At
-----------------------------------------------------------------------------
(* No body older than an acknowledged invalidation.                          *)

\* An invalidation past its wait has no write left to wait for; one that has
\* deleted the caches has nothing left.
Chain ==
    \A i \in 1..Len(inv) :
        /\ inv[i].epoch <= epoch
        /\ inv[i].at # "waiting" => inv[i].awaits = {}
        /\ inv[i].at = "clearing" => inv[i].left = {}

\* A body about to land is as new as every invalidation that does not wait for it.
NewEnough(o) ==
    /\ op[o].url \in Url => acked[op[o].url] <= op[o].epoch
    /\ \A i \in 1..Len(inv) : inv[i].epoch <= op[o].epoch \/ o \in inv[i].awaits

\* A stored body is as new as what was acknowledged, and as every invalidation
\* under way that will not delete it.
Current(u) ==
    /\ body[u].epoch >= acked[u]
    /\ \A i \in 1..Len(inv) :
          u \in inv[i].targets =>
              inv[i].epoch <= body[u].epoch \/ inv[i].at = "waiting" \/ u \in inv[i].left

Epochs ==
    /\ Chain
    /\ \A u \in Url : acked[u] <= epoch
    /\ \A o \in Op : op[o].at = "landing" => NewEnough(o)
    /\ \A u \in Url : body[u].size > 0 => Current(u)

Shrinks == \A u \in Url : body'[u].size > 0 => body'[u] = body[u]

LEMMA EpochsMoved ==
    ASSUME Types, Epochs, NEW o \in Op, Moves(o), UNCHANGED <<epoch, acked>>
    PROVE  /\ Chain' /\ \A x \in Op : op'[x].at = "landing" => NewEnough(x)'
           /\ \A u \in Url : Current(u) /\ body'[u] = body[u] => Current(u)'
  <1>1. Chain'
    BY DEF Epochs, Chain, Moves, InvKept
  <1>2. ASSUME NEW x \in Op, op'[x].at = "landing" PROVE NewEnough(x)'
    <2>1. CASE x = o
      <3>1. op'[o].epoch = epoch
        BY <1>2, <2>1, Zenon DEF Moves
      <3> QED BY <1>1, <2>1, <3>1, Zenon DEF Chain, NewEnough, Epochs
    <2>2. CASE x # o
      <3>1. op'[x] = op[x] /\ NewEnough(x)
        BY <1>2, <2>2, Zenon DEF Moves, Epochs
      <3> QED BY <2>2, <3>1, Zenon DEF NewEnough, Moves, InvKept
    <2> QED BY <2>1, <2>2, Zenon
  <1>3. ASSUME NEW u \in Url, Current(u), body'[u] = body[u] PROVE Current(u)'
    BY <1>3, Zenon DEF Current, Moves, InvKept
  <1> QED BY <1>1, <1>2, <1>3, Zenon

LEMMA EpochsShrink ==
    ASSUME Types, Epochs, Shrinks, UNCHANGED <<epoch, acked>>,
           UNCHANGED <<op, inv>> \/ \E o \in Op : Moves(o)
    PROVE  Epochs'
  <1>1. ASSUME NEW o \in Op, Moves(o) PROVE Epochs'
    BY <1>1, EpochsMoved, Zenon DEF Epochs, Shrinks
  <1>2. CASE UNCHANGED <<op, inv>>
    <2>1. \A x \in Op : op'[x].at = "landing" => NewEnough(x)'
      BY <1>2, Zenon DEF Epochs, NewEnough
    <2>2. \A u \in Url : body'[u].size > 0 => Current(u)'
      BY <1>2, Zenon DEF Epochs, Current, Shrinks
    <2> QED BY <1>2, <2>1, <2>2, Zenon DEF Epochs, Chain
  <1> QED BY <1>1, <1>2, Zenon

LEMMA EpochsRequest ==
    ASSUME Base, Epochs, NEW o \in Op, RequestStep(o)
    PROVE  Epochs'
  <1>1. Types /\ op[o] \in OpRecord /\ body \in [Url -> [size : Nat, epoch : Nat]]
    BY Zenon DEF Base, Types
  <1>2. Moves(o) /\ UNCHANGED <<epoch, acked>> /\ (~Land(o) /\ ~RemoveCached(o) => UNCHANGED body)
    BY <1>1, RequestSteps, Zenon
  <1>3. CASE ~Land(o)
    <2>1. Shrinks
      BY <1>1, <1>2, <1>3, Removed DEF Shrinks, RemoveCached
    <2> QED BY <1>1, <1>2, <2>1, EpochsShrink, Zenon
  <1>4. CASE Land(o)
    <2>1. /\ Chain' /\ \A x \in Op : op'[x].at = "landing" => NewEnough(x)'
          /\ \A u \in Url : Current(u) /\ body'[u] = body[u] => Current(u)'
      BY <1>1, <1>2, EpochsMoved, Zenon
    <2>2. NewEnough(o)
      BY <1>4, Zenon DEF Land, Epochs
    <2>3. ASSUME NEW u \in Url, body'[u].size > 0 PROVE Current(u)'
      <3>1. CASE body'[u] = body[u]
        BY <2>1, <2>3, <3>1, Zenon DEF Epochs
      <3>2. CASE body'[u] # body[u]
        <4>1. u = op[o].url /\ body'[u].epoch = op[o].epoch
          BY <1>1, <1>4, <3>2, Zenon DEF Land
        <4>2. body'[u].epoch >= acked'[u]
          BY <1>1, <1>2, <2>2, <4>1, Zenon DEF NewEnough, Types, OpRecord
        <4>3. ASSUME NEW i \in 1..Len(inv) PROVE inv'[i].epoch <= body'[u].epoch \/ inv'[i].at = "waiting"
          BY <1>2, <2>2, <4>1, ZenonT(40) DEF NewEnough, Epochs, Chain, Moves, InvKept
        <4> QED BY <1>2, <4>2, <4>3, Zenon DEF Current, Moves, InvKept
      <3> QED BY <3>1, <3>2, Zenon
    <2> QED BY <1>2, <2>1, <2>3, Zenon DEF Epochs
  <1> QED BY <1>3, <1>4, Zenon

LEMMA EpochsPass ==
    ASSUME Base, Epochs, PassStep
    PROVE  Epochs'
  <1>1. UNCHANGED <<op, inv>> \/ (Head(locks) \in Op /\ Moves(Head(locks)))
    BY PassMoves, Zenon
  <1>2. UNCHANGED <<epoch, acked>>
    BY Zenon DEF PassStep, TakeLock, SyncTotal, ReadAdopted, ReadRefused, EndPass, RunFlush, WriteUses,
           Evict, MatchCached
  <1>3. Shrinks
    <2>1. body \in [Url -> [size : Nat, epoch : Nat]]
      BY Zenon DEF Base, Types
    <2>2. ASSUME NEW u \in Url, Evict(u) PROVE Shrinks
      <3>1. \A v \in Url : IF v = u THEN body'[v].size = 0 ELSE body'[v] = body[v]
        BY <2>1, <2>2, Removed, Zenon DEF Evict
      <3> QED BY <3>1 DEF Shrinks
    <2>3. (\E u \in Url : Evict(u)) \/ UNCHANGED body
      BY Zenon DEF PassStep, TakeLock, SyncTotal, ReadAdopted, ReadRefused, EndPass, RunFlush, WriteUses,
             MatchCached
    <2> QED BY <2>2, <2>3, Zenon DEF Shrinks
  <1> QED BY <1>1, <1>2, <1>3, EpochsShrink, Zenon DEF Base

LEMMA EpochsTouch ==
    ASSUME Base, Epochs, Touch \/ TouchFails
    PROVE  Epochs'
  <1>1. /\ Head(tx).by \in Op /\ Moves(Head(tx).by) /\ UNCHANGED <<body, epoch, acked>>
    BY TouchMoves, Zenon
  <1> QED BY <1>1, EpochsShrink, Zenon DEF Base, Shrinks

\* The first of the chain moves on; the bodies it no longer answers for are gone.
LEMMA EpochsFirst ==
    ASSUME Base, Epochs, NEW at, NEW left, FirstTo(at, left), inv[1].awaits = {}, UNCHANGED <<epoch, acked>>,
           at = "clearing" => left = {}, Shrinks,
           \A x \in Op : /\ op'[x].at = op[x].at /\ op'[x].url = op[x].url /\ op'[x].epoch = op[x].epoch,
           \A u \in Url : body'[u].size > 0 /\ u \in inv[1].targets
              => u \in left \/ inv[1].epoch <= body[u].epoch
    PROVE  Epochs'
  <1>0. inv \in Seq(InvRecord) /\ Len(inv) \in Nat
    BY DEF Base, Types
  <1>1. \A i \in 1..Len(inv) : /\ i = 1 \/ inv'[i] = inv[i]
                               /\ inv'[i].epoch = inv[i].epoch /\ inv'[i].awaits = inv[i].awaits
                               /\ inv'[i].targets = inv[i].targets
    <2>1. \A i \in 1..Len(inv) : i = 1 \/ i \in 2..Len(inv)
      BY <1>0
    <2> QED BY <2>1, ZenonT(40) DEF FirstTo
  <1>2. Len(inv') = Len(inv) /\ inv'[1].at = at /\ inv'[1].left = left /\ inv'[1].awaits = {}
    BY Zenon DEF FirstTo
  <1>3. Chain'
    BY <1>1, <1>2 DEF Chain, Epochs
  <1>4. ASSUME NEW x \in Op, op'[x].at = "landing" PROVE NewEnough(x)'
    BY <1>1, <1>2, <1>4 DEF Epochs, NewEnough
  <1>5. ASSUME NEW u \in Url, body'[u].size > 0 PROVE Current(u)'
    <2>1. body'[u] = body[u] /\ Current(u)
      BY <1>5, Zenon DEF Shrinks, Epochs
    <2>2. ASSUME NEW i \in 1..Len(inv), u \in inv'[i].targets
          PROVE  inv'[i].epoch <= body'[u].epoch \/ inv'[i].at = "waiting" \/ u \in inv'[i].left
      BY <1>1, <1>2, <1>5, <2>1, <2>2 DEF Current
    <2> QED BY <1>2, <2>1, <2>2, Zenon DEF Current
  <1> QED BY <1>3, <1>4, <1>5, Zenon DEF Epochs
LEMMA EpochsForget ==
    ASSUME Base, Epochs, ForgetEntry
    PROVE  Epochs'
  <1> DEFINE t == Head(tx)
  <1>0. Types /\ inv \in Seq(InvRecord)
    BY Zenon DEF Base, Types
  <1>1. /\ tx # <<>> /\ t.do = "forget" /\ UNCHANGED <<body, epoch, acked>> /\ Shrinks
    BY Zenon DEF ForgetEntry, FirstTx, Shrinks
  <1>2. CASE t.by \in Op /\ op' = [op EXCEPT ![t.by] = Idle] /\ UNCHANGED inv
    <2>1. Moves(t.by)
      BY <1>0, <1>2, Becomes, IdleRequest, Zenon
    <2> QED BY <1>0, <1>1, <1>2, <2>1, EpochsShrink, Zenon
  <1>3. CASE UNCHANGED <<op, inv>>
    BY <1>0, <1>1, <1>3, EpochsShrink, Zenon
  <1>4. CASE t.by = "inv" /\ inv' = [inv EXCEPT ![1].at = "deleting"] /\ UNCHANGED op
    <2>1. At("inv") = "forgetting"
      BY <1>1, <1>4, NextTx, Transactions DEF Doing
    <2>2. inv # <<>> /\ inv[1].at = "forgetting"
      BY <2>1, Stages, Zenon
    <2>3. inv[1] \in InvRecord /\ 1 \in 1..Len(inv)
      BY <1>0, <2>2
    <2>4. inv[1].left \in SUBSET Url
      BY <2>3, Zenon DEF InvRecord
    <2>5. inv' = [inv EXCEPT ![1] = [inv[1] EXCEPT !.at = "deleting", !.left = inv[1].left]]
      <3>1. [inv[1] EXCEPT !.at = "deleting"] = [inv[1] EXCEPT !.at = "deleting", !.left = inv[1].left]
        BY <2>3, Zenon DEF InvRecord
      <3> QED BY <1>4, <3>1, Zenon
    <2>6. FirstTo("deleting", inv[1].left)
      BY <1>0, <2>2, <2>4, <2>5, FirstMoves, Zenon
    <2>7. inv[1].awaits = {}
      BY <2>2, <2>3, Zenon DEF Epochs, Chain
    <2>8. \A u \in Url : body'[u].size > 0 /\ u \in inv[1].targets
              => u \in inv[1].left \/ inv[1].epoch <= body[u].epoch
      BY <1>1, <2>2, <2>3, Zenon DEF Epochs, Current
    <2>9. \A x \in Op : /\ op'[x].at = op[x].at /\ op'[x].url = op[x].url /\ op'[x].epoch = op[x].epoch
      BY <1>4, Zenon
    <2> HIDE DEF t
    <2> QED BY <1>1, <2>6, <2>7, <2>8, <2>9, EpochsFirst, Zenon
  <1> QED BY <1>2, <1>3, <1>4, Zenon DEF ForgetEntry

LEMMA EpochsInvalidation ==
    ASSUME Base, Epochs, InvalidationStep
    PROVE  Epochs'
  <1>0. /\ Types /\ inv \in Seq(InvRecord) /\ epoch \in Nat /\ acked \in [Url -> Nat]
        /\ op \in [Op -> OpRecord] /\ body \in [Url -> [size : Nat, epoch : Nat]]
    BY Zenon DEF Base, Types
  <1>1. \A i \in 1..Len(inv) : inv[i] \in InvRecord /\ inv[i].epoch \in Nat /\ inv[i].epoch <= epoch
    <2>1. \A i \in 1..Len(inv) : inv[i] \in InvRecord
      BY <1>0
    <2> QED BY <2>1, Zenon DEF Epochs, Chain, InvRecord
  <1>2. ASSUME UNCHANGED op
        PROVE  \A x \in Op : /\ op'[x].at = op[x].at /\ op'[x].url = op[x].url /\ op'[x].epoch = op[x].epoch
    BY <1>2, Zenon
  <1>3. ASSUME NEW ts \in SUBSET Url, InvalidateCaches(ts) PROVE Epochs'
    <2> DEFINE r == [at |-> "waiting", targets |-> ts, left |-> {}, epoch |-> epoch',
                     awaits |-> {o \in Op : op[o].at \in Writing}]
    <2>1. epoch' = epoch + 1 /\ inv' = Append(inv, r) /\ UNCHANGED <<body, op, acked>>
      BY <1>3, Zenon DEF InvalidateCaches
    <2>2. /\ r \in InvRecord /\ r.at = "waiting" /\ r.epoch = epoch'
          /\ \A x \in Op : op[x].at = "landing" => x \in r.awaits
      BY <1>0, <2>1 DEF InvRecord, Writing, Opened
    <2> HIDE DEF r
    <2>3. /\ Len(inv) \in Nat /\ Len(inv') = Len(inv) + 1
          /\ \A i \in 1..Len(inv) : inv'[i] = inv[i]
          /\ inv'[Len(inv) + 1] = r
      BY <1>0, <2>1, <2>2, Appended
    <2>4. \A i \in 1..Len(inv') : i \in 1..Len(inv) \/ i = Len(inv) + 1
      BY <2>3
    <2>5. Chain'
      BY <1>0, <1>1, <2>1, <2>2, <2>3, <2>4 DEF Chain, Epochs
    <2>6. ASSUME NEW x \in Op, op'[x].at = "landing" PROVE NewEnough(x)'
      BY <2>1, <2>2, <2>3, <2>4, <2>6, Zenon DEF NewEnough, Epochs
    <2>7. ASSUME NEW u \in Url, body'[u].size > 0 PROVE Current(u)'
      BY <2>1, <2>2, <2>3, <2>4, <2>7 DEF Current, Epochs
    <2>8. \A u \in Url : acked'[u] <= epoch'
      BY <1>0, <2>1 DEF Epochs
    <2> QED BY <2>5, <2>6, <2>7, <2>8, Zenon DEF Epochs
  <1>4. CASE UseVersion
    <2>1. epoch' = epoch + 1 /\ UNCHANGED <<body, op, inv, acked>>
      BY <1>4, Zenon DEF UseVersion
    <2>2. Chain'
      BY <1>0, <1>1, <2>1 DEF Chain, Epochs
    <2>3. \A u \in Url : acked'[u] <= epoch'
      BY <1>0, <2>1 DEF Epochs
    <2> QED BY <2>1, <2>2, <2>3, Zenon DEF Epochs, NewEnough, Current
  <1>5. CASE InvalidationRuns
    <2> DEFINE left == {u \in inv[1].targets : body[u].size > 0}
    <2>1. FirstTo("deleting", left) /\ inv[1].awaits = {}
      BY <1>5, InvalidationMoves, Zenon
    <2>2. UNCHANGED <<body, epoch, acked, op>>
      BY <1>5, Zenon DEF InvalidationRuns
    <2>3. \A u \in Url : body'[u].size > 0 /\ u \in inv[1].targets
              => u \in left \/ inv[1].epoch <= body[u].epoch
      BY <2>2, Zenon
    <2>4. Shrinks
      BY <2>2, Zenon DEF Shrinks
    <2> HIDE DEF left
    <2> QED BY <1>2, <2>1, <2>2, <2>3, <2>4, EpochsFirst, Zenon
  <1>6. ASSUME inv # <<>>, inv[1].at = "deleting"
        PROVE  /\ inv[1].awaits = {} /\ 1 \in 1..Len(inv)
               /\ \A u \in Url : body[u].size > 0 /\ u \in inv[1].targets
                      => u \in inv[1].left \/ inv[1].epoch <= body[u].epoch
    <2>1. 1 \in 1..Len(inv)
      BY <1>0, <1>6
    <2> QED BY <1>6, <2>1, Zenon DEF Epochs, Chain, Current
  <1>7. ASSUME NEW u \in Url, DeleteEntry(u) PROVE Epochs'
    <2> DEFINE left == inv[1].left \ {u}
    <2>1. FirstTo("forgetting", left) /\ inv[1].at = "deleting" /\ inv # <<>>
      BY <1>7, InvalidationMoves, Zenon DEF FirstTo
    <2>2. UNCHANGED <<epoch, acked, op>> /\ body' = [body EXCEPT ![u] = NoBody]
      BY <1>7, Zenon DEF DeleteEntry
    <2>3. \A v \in Url : IF v = u THEN body'[v].size = 0 ELSE body'[v] = body[v]
      BY <1>0, <2>2, Removed, ZenonT(40)
    <2>4. Shrinks
      BY <2>3 DEF Shrinks
    <2>5. \A v \in Url : body'[v].size > 0 /\ v \in inv[1].targets
              => v \in left \/ inv[1].epoch <= body[v].epoch
      BY <1>6, <2>1, <2>3
    <2> HIDE DEF left
    <2> QED BY <1>2, <1>6, <2>1, <2>2, <2>4, <2>5, EpochsFirst, Zenon
  <1>8. CASE DeleteCaches
    <2>1. FirstTo("clearing", {}) /\ inv[1].at = "deleting" /\ inv # <<>>
      BY <1>8, InvalidationMoves, Zenon DEF FirstTo
    <2>2. UNCHANGED <<epoch, acked>> /\ \A u \in Url : ~(body'[u].size > 0)
      BY <1>8 DEF DeleteCaches, NoBody
    <2>3. \A x \in Op : /\ op'[x].at = op[x].at /\ op'[x].url = op[x].url /\ op'[x].epoch = op[x].epoch
      BY <1>0, <1>8, HandlesCut, Zenon
    <2> QED BY <1>6, <2>1, <2>2, <2>3, EpochsFirst, ZenonT(40) DEF Shrinks
  <1>9. CASE ClearTable \/ EndInvalidation
    <2>1. Acknowledge /\ UNCHANGED <<body, epoch>>
      BY <1>9, Zenon DEF ClearTable, EndInvalidation
    <2>2. /\ inv # <<>> /\ inv[1].at # "waiting" /\ inv[1].left = {} /\ inv[1].awaits = {}
          /\ 1 \in 1..Len(inv) /\ Head(inv) = inv[1]
      <3>1. inv # <<>> => 1 \in 1..Len(inv) /\ Head(inv) = inv[1]
        BY <1>0
      <3>2. CASE ClearTable
        <4>1. tx # <<>> /\ Head(tx).do = "clear"
          BY <3>2, Zenon DEF ClearTable, FirstTx
        <4>2. At("inv") = "clearing"
          BY <4>1, NextTx, Zenon DEF Doing
        <4>3. inv # <<>> /\ inv[1].at = "clearing"
          BY <4>2, Stages, Zenon
        <4> QED BY <3>1, <4>3, Zenon DEF Epochs, Chain
      <3>3. CASE EndInvalidation
        BY <3>1, <3>3, Zenon DEF EndInvalidation, Epochs, Chain
      <3> QED BY <1>9, <3>2, <3>3, Zenon
    <2>3. /\ \A x \in Op : op'[x].at = "landing" => op'[x] = op[x]
          /\ inv' = Tail(inv)
      BY <1>0, <2>1, <2>2, Acknowledged, ZenonT(40)
    <2>4. /\ Len(inv) \in Nat \ {0} /\ Len(inv') = Len(inv) - 1
          /\ \A i \in 1..Len(inv') : inv'[i] = inv[i + 1] /\ i + 1 \in 1..Len(inv)
      BY <1>0, <2>2, <2>3, Behead
    <2>5. \A u \in Url : acked'[u] = IF u \in inv[1].targets THEN inv[1].epoch ELSE acked[u]
      BY <2>1, <2>2, Zenon DEF Acknowledge
    <2>6. Chain'
      BY <2>1, <2>4, Zenon DEF Chain, Epochs
    <2>7. \A u \in Url : acked'[u] <= epoch'
      BY <1>1, <2>1, <2>2, <2>5, Zenon DEF Epochs
    <2>8. ASSUME NEW x \in Op, op'[x].at = "landing" PROVE NewEnough(x)'
      <3>1. op'[x] = op[x] /\ NewEnough(x)
        BY <2>3, <2>8, Zenon DEF Epochs
      <3>2. inv[1].epoch <= op[x].epoch
        BY <2>2, <3>1, Zenon DEF NewEnough
      <3> QED BY <2>4, <2>5, <3>1, <3>2, Zenon DEF NewEnough
    <2>9. ASSUME NEW u \in Url, body'[u].size > 0 PROVE Current(u)'
      <3>1. body'[u] = body[u] /\ Current(u)
        BY <2>1, <2>9, Zenon DEF Epochs
      <3>2. u \in inv[1].targets => inv[1].epoch <= body[u].epoch
        BY <2>2, <3>1, Zenon DEF Current
      <3>3. body'[u].epoch >= acked'[u]
        BY <1>0, <1>1, <2>2, <2>5, <3>1, <3>2, Zenon DEF Current
      <3> QED BY <2>4, <3>1, <3>3, Zenon DEF Current
    <2> QED BY <2>6, <2>7, <2>8, <2>9, ZenonT(40) DEF Epochs
  <1> QED BY <1>3, <1>4, <1>5, <1>7, <1>8, <1>9, Zenon DEF InvalidationStep

LEMMA EpochsRestart ==
    ASSUME Base, Epochs, Restart
    PROVE  Epochs'
  <1>1. inv' = <<>> /\ op' = [o \in Op |-> Idle] /\ UNCHANGED <<body, epoch, acked>>
    BY Zenon DEF Restart
  <1> QED BY <1>1, IdleRequest DEF Epochs, Chain, NewEnough, Current
LEMMA BaseStep ==
    ASSUME Base, [Next]_vars
    PROVE  Base'
  <1>1. CASE Next
    BY <1>1, StepKinds, BaseRequest, BasePass, BaseInvalidation, BaseTouch, BaseForget, BaseRestart, Zenon
  <1>2. CASE UNCHANGED vars
    BY <1>2, BaseStutters, Zenon
  <1> QED BY <1>1, <1>2, Zenon

LEMMA EpochsStep ==
    ASSUME Base, Epochs, [Next]_vars
    PROVE  Epochs'
  <1>1. CASE Next
    BY <1>1, StepKinds, EpochsRequest, EpochsPass, EpochsInvalidation, EpochsTouch, EpochsForget,
       EpochsRestart, Zenon
  <1>2. CASE UNCHANGED vars
    BY <1>2, Zenon DEF vars, Epochs, Chain, NewEnough, Current
  <1> QED BY <1>1, <1>2, Zenon

\* cache.ts:887 "cannot repopulate cache": for any URLs, requests and sizes, once
\* an invalidation is acknowledged no URL it named holds a body requested before
\* it, whatever the writes, passes and invalidations in flight.
THEOREM AcknowledgedBodiesAreGone == Spec => []OldEpochStaysOut
  <1>1. Init => Base /\ Epochs
    <2>1. Init => Epochs
      BY IdleRequest DEF Init, Epochs, Chain, NoBody
    <2> QED BY <2>1, BaseInit, Zenon
  <1>2. Base /\ Epochs /\ [Next]_vars => Base' /\ Epochs'
    BY BaseStep, EpochsStep, Zenon
  <1>3. Base /\ Epochs => OldEpochStaysOut
    BY Zenon DEF Epochs, Current, OldEpochStaysOut
  <1> HIDE DEF Base, Epochs, OldEpochStaysOut, Init, Next, vars
  <1> QED BY <1>1, <1>2, <1>3, PTL DEF Spec

-----------------------------------------------------------------------------
(* Every stored body is counted.                                             *)

\* A touch writes its request's URL.
Owners == \A i \in 1..Len(tx) : tx[i].do = "touch" => op[tx[i].by].url = tx[i].url

\* The last transaction on a URL leaves in the table what the cache holds already.
About(t, u) == t.do = "clear" \/ (t.do \in {"touch", "forget"} /\ t.url = u)
LastOn(i, u) == About(tx[i], u) /\ \A j \in 1..Len(tx) : j > i => ~About(tx[j], u)
Leaves(t, u) ==
    IF t.do = "touch" THEN op[t.by].detached = TRUE \/ body[u].size = op[t.by].size
    ELSE body[u].size = 0

Counts ==
    /\ Owners
    /\ \A u \in Url : \A i \in 1..Len(tx) : LastOn(i, u) => Leaves(tx[i], u)
    /\ EveryBodyIsCounted

\* A URL the table has no work for has no last transaction, and one with work has.
LEMMA Settled ==
    ASSUME Base
    PROVE  \A u \in Url : TxOn(u) <=> \E i \in 1..Len(tx) : About(tx[i], u)
  <1>1. DOMAIN tx = 1..Len(tx)
    BY DEF Base, Types
  <1> QED BY <1>1, Zenon DEF TxOn, About

\* A request that waits for its touch does not change, and its touch is its own.
LEMMA TouchersWait ==
    ASSUME Base, NEW i \in 1..Len(tx), tx[i].do = "touch"
    PROVE  tx[i].by \in Op /\ op[tx[i].by].at = "touching"
  <1>1. tx[i] \in TxRecord
    BY DEF Base, Types
  <1>2. tx[i].by \in Op
    BY <1>1, Zenon DEF TxRecord
  <1>3. Who(tx[i]) = tx[i].by /\ Doing(tx[i]) = "touching" /\ Who(tx[i]) # "none"
    BY <1>2, Transactions DEF Who, Doing, Holders
  <1> QED BY <1>2, <1>3, Stages, ZenonT(40) DEF Base, Errands

\* Nothing is committed, started on a URL, stored or removed.
LEMMA CountsSame ==
    ASSUME Base, Counts, Base', UNCHANGED <<body, row, miscounted, tx>>,
           \A x \in Op : op[x].at = "touching" => op'[x] = op[x]
    PROVE  Counts'
  <1>1. \A i \in 1..Len(tx) : tx[i].do = "touch" => op'[tx[i].by] = op[tx[i].by]
    BY TouchersWait, Zenon
  <1>2. Owners'
    BY <1>1, Zenon DEF Counts, Owners
  <1>3. EveryBodyIsCounted'
    BY Zenon DEF Counts, EveryBodyIsCounted, TxOn
  <1>4. ASSUME NEW u \in Url, NEW i \in 1..Len(tx), LastOn(i, u) PROVE Leaves(tx[i], u)'
    BY <1>1, <1>4, Zenon DEF Counts, Leaves
  <1> QED BY <1>2, <1>3, <1>4, ZenonT(40) DEF Counts, LastOn, About

\* A transaction is started: on its URL, the cache is as it will leave the table.
LEMMA CountsStarted ==
    ASSUME Base, Counts, Base', NEW t \in TxRecord, tx' = Append(tx, t), UNCHANGED <<row, miscounted>>,
           t.do = "touch" => op'[t.by].url = t.url,
           \A x \in Op : op[x].at = "touching" => op'[x].url = op[x].url,
           t.do = "clear" \/ \A x \in Op : op[x].at = "touching" => op'[x] = op[x],
           \A u \in Url : IF About(t, u) THEN Leaves(t, u)' ELSE body'[u].size = body[u].size
    PROVE  Counts'
  <1>0. tx \in Seq(TxRecord)
    BY Zenon DEF Base, Types
  <1>1. /\ Len(tx) \in Nat /\ Len(tx') = Len(tx) + 1
        /\ \A i \in 1..Len(tx) : tx'[i] = tx[i] /\ i \in 1..Len(tx')
        /\ tx'[Len(tx) + 1] = t /\ Len(tx) + 1 \in 1..Len(tx')
    BY <1>0, Appended
  <1>2. \A i \in 1..Len(tx') : i \in 1..Len(tx) \/ i = Len(tx) + 1
    BY <1>1
  <1>3. Owners'
    <2>1. \A i \in 1..Len(tx) : tx[i].do = "touch" => op'[tx[i].by].url = tx[i].url
      BY TouchersWait, Zenon DEF Counts, Owners
    <2> QED BY <1>1, <1>2, <2>1, ZenonT(40) DEF Owners
  <1>4. ASSUME NEW u \in Url, NEW i \in 1..Len(tx'), LastOn(i, u)' PROVE Leaves(tx[i], u)'
    <2>1. CASE i = Len(tx) + 1
      <3>1. About(t, u)
        BY <1>1, <1>4, <2>1, Zenon DEF LastOn, About
      <3>2. Leaves(t, u)'
        BY <3>1, Zenon
      <3> QED BY <1>1, <2>1, <3>2, Zenon DEF Leaves
    <2>2. CASE i \in 1..Len(tx)
      <3>1. ~About(t, u)
        BY <1>1, <1>4, <2>2 DEF LastOn, About
      <3>2. LastOn(i, u)
        BY <1>1, <1>4, <2>2, ZenonT(40) DEF LastOn, About
      <3>3. Leaves(tx[i], u) /\ body'[u].size = body[u].size
        BY <2>2, <3>1, <3>2, Zenon DEF Counts
      <3>4. tx[i].do = "touch" => op'[tx[i].by] = op[tx[i].by]
        BY <2>2, <3>1, TouchersWait, Zenon DEF About
      <3> QED BY <1>1, <2>2, <3>3, <3>4, ZenonT(40) DEF Leaves
    <2> QED BY <1>2, <2>1, <2>2, Zenon
  <1>5. ASSUME NEW u \in Url, u \notin miscounted', ~TxOn(u)' PROVE row'[u] = body'[u].size
    <2>1. \A i \in 1..Len(tx') : ~About(tx'[i], u)
      <3>1. DOMAIN tx' = 1..Len(tx')
        BY DEF Base, Types
      <3> QED BY <1>5, <3>1, ZenonT(40) DEF TxOn, About
    <2>2. ~About(t, u) /\ \A i \in 1..Len(tx) : ~About(tx[i], u)
      BY <1>1, <2>1, Zenon
    <2>3. ~TxOn(u)
      BY <2>2, Settled, Zenon
    <2> QED BY <1>5, <2>2, <2>3, Zenon DEF Counts, EveryBodyIsCounted
  <1> QED BY <1>3, <1>4, <1>5, Zenon DEF Counts, EveryBodyIsCounted
\* A transaction commits: it leaves the others' URLs alone, and the table as the
\* cache is when it is the last on its own.
LEMMA CountsCommitted ==
    ASSUME Base, Counts, Base', tx # <<>>, tx' = Tail(tx), UNCHANGED body,
           \A x \in Op : op[x].at = "touching" /\ x # Who(Head(tx)) => op'[x] = op[x],
           \A u \in Url : ~About(Head(tx), u) =>
              row'[u] = row[u] /\ (u \in miscounted => u \in miscounted'),
           \A u \in Url : LastOn(1, u) => u \in miscounted' \/ row'[u] = body[u].size
    PROVE  Counts'
  <1>0. tx \in Seq(TxRecord)
    BY Zenon DEF Base, Types
  <1>1. /\ Len(tx) \in Nat \ {0} /\ Len(tx') = Len(tx) - 1
        /\ \A i \in 1..Len(tx') : tx'[i] = tx[i + 1] /\ i + 1 \in 1..Len(tx)
        /\ Head(tx) = tx[1] /\ 1 \in 1..Len(tx)
    BY <1>0, Behead
  <1>2. ASSUME NEW i \in 1..Len(tx'), tx'[i].do = "touch"
        PROVE  tx'[i].by \in Op /\ op'[tx'[i].by] = op[tx'[i].by]
    <2>1. i + 1 \in 1..Len(tx) /\ tx'[i] = tx[i + 1] /\ i + 1 # 1
      BY <1>1
    <2>2. tx[i + 1].by \in Op /\ op[tx[i + 1].by].at = "touching"
      BY <1>2, <2>1, TouchersWait, Zenon
    <2>3. Who(tx[i + 1]) = tx[i + 1].by /\ Who(tx[i + 1]) # "none"
      BY <1>2, <2>1, <2>2, Transactions DEF Who, Holders
    <2>4. Who(tx[1]) # Who(tx[i + 1])
      BY <1>1, <2>1, <2>3, Zenon DEF Base, Errands
    <2> QED BY <1>1, <2>1, <2>2, <2>3, <2>4, ZenonT(40)
  <1>3. Owners'
    <2>1. ASSUME NEW i \in 1..Len(tx'), tx'[i].do = "touch" PROVE op'[tx'[i].by].url = tx'[i].url
      BY <1>1, <1>2, <2>1 DEF Counts, Owners
    <2> QED BY <2>1, ZenonT(40) DEF Owners
  <1>4. ASSUME NEW u \in Url, NEW i \in 1..Len(tx'), LastOn(i, u)' PROVE Leaves(tx[i], u)'
    <2>1. i + 1 \in 1..Len(tx) /\ tx'[i] = tx[i + 1] /\ i \in Nat
      BY <1>1
    <2>2. ASSUME NEW j \in 1..Len(tx), j > i + 1 PROVE ~About(tx[j], u)
      <3>1. j - 1 \in 1..Len(tx') /\ j - 1 > i /\ (j - 1) + 1 = j
        BY <1>1, <2>1, <2>2
      <3>2. tx'[j - 1] = tx[j]
        BY <1>1, <3>1, Zenon
      <3> QED BY <1>4, <3>1, <3>2, ZenonT(40) DEF LastOn, About
    <2>3. LastOn(i + 1, u)
      BY <1>4, <2>1, <2>2, Zenon DEF LastOn, About
    <2>4. Leaves(tx[i + 1], u)
      BY <2>1, <2>3, Zenon DEF Counts
    <2> QED BY <1>2, <2>1, <2>4, ZenonT(40) DEF Leaves
  <1>5. ASSUME NEW u \in Url, u \notin miscounted', ~TxOn(u)' PROVE row'[u] = body'[u].size
    <2>1. \A i \in 1..Len(tx') : ~About(tx'[i], u)
      <3>1. DOMAIN tx' = 1..Len(tx')
        BY DEF Base, Types
      <3> QED BY <1>5, <3>1, Zenon DEF TxOn, About
    <2>2. ASSUME NEW j \in 1..Len(tx), j # 1 PROVE ~About(tx[j], u)
      <3>1. j - 1 \in 1..Len(tx') /\ (j - 1) + 1 = j
        BY <1>1, <2>2
      <3>2. tx'[j - 1] = tx[j]
        BY <1>1, <3>1, Zenon
      <3> QED BY <2>1, <3>1, <3>2, ZenonT(40)
    <2>3. CASE About(tx[1], u)
      <3>1. LastOn(1, u)
        BY <2>2, <2>3 DEF LastOn
      <3> QED BY <1>5, <3>1, ZenonT(40)
    <2>4. CASE ~About(tx[1], u)
      <3>1. ~TxOn(u)
        BY <2>2, <2>4, Settled, Zenon
      <3> QED BY <1>1, <1>5, <2>4, <3>1, Zenon DEF Counts, EveryBodyIsCounted
    <2> QED BY <2>3, <2>4, Zenon
  <1> QED BY <1>3, <1>4, <1>5, Zenon DEF Counts, EveryBodyIsCounted

LEMMA CountsRequest ==
    ASSUME Base, Counts, Base', NEW o \in Op, RequestStep(o)
    PROVE  Counts'
  <1>0. Types /\ op[o] \in OpRecord /\ body \in [Url -> [size : Nat, epoch : Nat]]
    BY Zenon DEF Base, Types
  <1>1. /\ Moves(o) /\ op[o].at \in {"idle", "fetching", "room", "landing"}
        /\ UNCHANGED <<row, miscounted>>
        /\ ~Land(o) /\ ~RemoveCached(o) => UNCHANGED <<body, tx>>
        /\ Land(o) => op'[o] = [op[o] EXCEPT !.at = "touching"]
    BY <1>0, RequestSteps, Zenon
  <1>2. \A x \in Op : op[x].at = "touching" => op'[x] = op[x]
    BY <1>1, Zenon DEF Moves
  <1>3. op[o].url \in Url \cup {"none"} /\ op[o].size \in Nat /\ op[o].epoch \in Nat
    BY <1>0, Zenon DEF OpRecord
  <1>4. CASE ~Land(o) /\ ~RemoveCached(o)
    BY <1>1, <1>2, <1>4, CountsSame, Zenon
  <1>5. CASE Land(o)
    <2>1. PICK t \in TxRecord : t = [do |-> "touch", by |-> o, url |-> op[o].url]
      BY <1>3, Transactions, Zenon
    <2>2. /\ op'[o].url = op[o].url /\ op'[o].size = op[o].size /\ op'[o].detached = op[o].detached
      BY <1>0, <1>1, <1>5, Zenon DEF OpRecord
    <2>3. tx' = Append(tx, t)
      BY <1>5, <2>1, Zenon DEF Land
    <2>4. ASSUME NEW u \in Url
          PROVE  IF About(t, u) THEN Leaves(t, u)' ELSE body'[u].size = body[u].size
      <3>1. About(t, u) <=> u = op[o].url
        BY <2>1, Zenon DEF About
      <3>2. CASE op[o].detached = TRUE
        <4>1. body' = body
          BY <1>5, <3>2, Zenon DEF Land
        <4> QED BY <2>1, <2>2, <3>2, <4>1, Zenon DEF Leaves
      <3>3. CASE op[o].detached = FALSE
        <4>1. body' = [body EXCEPT ![op[o].url] = [size |-> op[o].size, epoch |-> op[o].epoch]]
          BY <1>5, <3>3, Zenon DEF Land
        <4>2. CASE u = op[o].url
          <5>1. body'[u].size = op'[o].size
            BY <1>0, <2>2, <4>1, <4>2, Zenon
          <5> QED BY <2>1, <3>1, <4>2, <5>1, Zenon DEF Leaves
        <4>3. CASE u # op[o].url
          <5>1. body'[u] = body[u]
            BY <1>0, <4>1, <4>3, Zenon
          <5> QED BY <3>1, <4>3, <5>1, Zenon
        <4> QED BY <4>2, <4>3, Zenon
      <3>4. op[o].detached \in BOOLEAN
        BY <1>0, Zenon DEF OpRecord
      <3> QED BY <3>2, <3>3, <3>4, ZenonT(40)
    <2>5. t.do = "touch" => op'[t.by].url = t.url
      BY <2>1, <2>2, Zenon
    <2> QED BY <1>1, <1>2, <2>1, <2>3, <2>4, <2>5, CountsStarted, Zenon
  <1>6. CASE RemoveCached(o)
    <2>1. PICK t \in TxRecord : t = [do |-> "forget", by |-> o, url |-> op[o].url]
      BY <1>3, Transactions, Zenon DEF Holders
    <2>2. tx' = Append(tx, t) /\ body' = [body EXCEPT ![op[o].url] = NoBody]
      BY <1>6, <2>1, Zenon DEF RemoveCached
    <2>3. ASSUME NEW u \in Url
          PROVE  IF About(t, u) THEN Leaves(t, u)' ELSE body'[u].size = body[u].size
      BY <1>0, <2>1, <2>2, Removed, ZenonT(40) DEF About, Leaves
    <2>4. t.do # "touch"
      BY <2>1, Zenon
    <2> QED BY <1>1, <1>2, <2>1, <2>2, <2>3, <2>4, CountsStarted, Zenon
  <1> QED BY <1>4, <1>5, <1>6, Zenon
\* A body is removed and the transaction that forgets its row is started.
LEMMA CountsRemoved ==
    ASSUME Base, Counts, Base', NEW u \in Url, NEW w \in Holders,
           body' = [body EXCEPT ![u] = NoBody],
           tx' = Append(tx, [do |-> "forget", by |-> w, url |-> u]), UNCHANGED <<op, row, miscounted>>
    PROVE  Counts'
  <1>1. PICK t \in TxRecord : t = [do |-> "forget", by |-> w, url |-> u]
    BY Transactions, ZenonT(40)
  <1>2. tx' = Append(tx, t) /\ t.do # "touch"
    BY <1>1, Zenon
  <1>3. ASSUME NEW v \in Url
        PROVE  IF About(t, v) THEN Leaves(t, v)' ELSE body'[v].size = body[v].size
    BY <1>1, Removed, Zenon DEF About, Leaves, Base, Types
  <1> QED BY <1>2, <1>3, CountsStarted, Zenon

LEMMA CountsPass ==
    ASSUME Base, Counts, Base', PassStep
    PROVE  Counts'
  <1>1. \A x \in Op : op[x].at = "touching" => op'[x] = op[x]
    BY PassMoves, Zenon DEF Busy
  <1>2. UNCHANGED <<row, miscounted>>
    BY Zenon DEF PassStep, TakeLock, SyncTotal, ReadAdopted, ReadRefused, EndPass, RunFlush, WriteUses,
           Evict, MatchCached
  <1>3. ASSUME NEW u \in Url, Evict(u) PROVE Counts'
    BY <1>3, CountsRemoved, Zenon DEF Evict, Holders
  <1>4. CASE TakeLock \/ RunFlush \/ SyncTotal \/ EndPass \/ \E u \in Url : MatchCached(u)
    <2>1. UNCHANGED body
      BY <1>4, Zenon DEF TakeLock, RunFlush, SyncTotal, EndPass, MatchCached
    <2>2. \/ tx' = tx
          \/ tx' = Append(tx, [do |-> "uses", urls |-> uses])
          \/ tx' = Append(tx, [do |-> "read"])
      BY <1>4, Zenon DEF TakeLock, RunFlush, SyncTotal, EndPass, MatchCached
    <2>3. tx' = tx \/ \E t \in TxRecord : tx' = Append(tx, t) /\ t.do \in {"uses", "read"}
      BY <2>2, Transactions DEF Base, Types
    <2>4. ASSUME NEW t \in TxRecord, tx' = Append(tx, t), t.do \in {"uses", "read"} PROVE Counts'
      <3>1. \A u \in Url : ~About(t, u)
        BY <2>4, Zenon DEF About
      <3>2. t.do # "touch"
        BY <2>4, Zenon
      <3> QED BY <1>1, <1>2, <2>1, <2>4, <3>1, <3>2, CountsStarted, Zenon
    <2> QED BY <1>1, <1>2, <2>1, <2>3, <2>4, CountsSame, Zenon
  <1>5. CASE ReadAdopted \/ ReadRefused \/ WriteUses
    <2>1. tx # <<>> /\ tx' = Tail(tx) /\ Head(tx).do \in {"read", "uses"} /\ UNCHANGED body
      BY <1>5, Zenon DEF ReadAdopted, ReadRefused, WriteUses, FirstTx
    <2>2. Head(tx) = tx[1]
      BY <2>1, NextTx, Zenon
    <2>3. \A u \in Url : ~LastOn(1, u)
      BY <2>1, <2>2, Zenon DEF LastOn, About
    <2> QED BY <1>1, <1>2, <2>1, <2>3, CountsCommitted, Zenon
  <1> QED BY <1>3, <1>4, <1>5, Zenon DEF PassStep

LEMMA CountsTouch ==
    ASSUME Base, Counts, Base', Touch \/ TouchFails
    PROVE  Counts'
  <1> DEFINE o == Head(tx).by
  <1>1. /\ tx # <<>> /\ tx' = Tail(tx) /\ Head(tx).do = "touch" /\ o \in Op /\ Moves(o)
        /\ UNCHANGED body
    BY TouchMoves, Zenon
  <1>2. Who(Head(tx)) = o /\ Head(tx) = tx[1] /\ 1 \in 1..Len(tx)
    BY <1>1, NextTx, Zenon
  <1>3. op[o].url = Head(tx).url
    BY <1>1, <1>2, Zenon DEF Counts, Owners
  <1>4. row \in [Url -> Nat] /\ op[o].detached \in BOOLEAN
    <2>1. row \in [Url -> Nat] /\ op[o] \in OpRecord
      BY <1>1, Zenon DEF Base, Types
    <2> QED BY <2>1, Zenon DEF OpRecord
  <1>5. \/ /\ row' = [row EXCEPT ![op[o].url] = op[o].size]
           /\ miscounted' = IF op[o].detached THEN miscounted \cup {op[o].url}
                            ELSE miscounted \ {op[o].url}
        \/ row' = row /\ miscounted' = miscounted \cup {Head(tx).url}
    BY Zenon DEF Touch, TouchFails
  <1> HIDE DEF o
  <1>6. ASSUME NEW u \in Url, ~About(Head(tx), u)
        PROVE  row'[u] = row[u] /\ (u \in miscounted => u \in miscounted')
    <2>1. u # op[o].url
      BY <1>1, <1>3, <1>6, Zenon DEF About
    <2> QED BY <1>3, <1>4, <1>5, <2>1, Zenon
  <1>7. ASSUME NEW u \in Url, LastOn(1, u) PROVE u \in miscounted' \/ row'[u] = body[u].size
    <2>1. u = op[o].url /\ Leaves(tx[1], u)
      BY <1>1, <1>2, <1>3, <1>7, Zenon DEF Counts, LastOn, About
    <2>2. op[o].detached = TRUE \/ body[u].size = op[o].size
      BY <1>1, <1>2, <2>1, ZenonT(40) DEF Leaves, o
    <2> QED BY <1>3, <1>4, <1>5, <2>1, <2>2, ZenonT(40)
  <1>8. \A x \in Op : op[x].at = "touching" /\ x # Who(Head(tx)) => op'[x] = op[x]
    BY <1>1, <1>2, Zenon DEF Moves
  <1> QED BY <1>1, <1>6, <1>7, <1>8, CountsCommitted, ZenonT(40)

LEMMA CountsForget ==
    ASSUME Base, Counts, Base', ForgetEntry
    PROVE  Counts'
  <1> DEFINE t == Head(tx)
  <1>1. /\ tx # <<>> /\ t.do = "forget" /\ tx' = Tail(tx) /\ row' = [row EXCEPT ![t.url] = 0]
        /\ miscounted' = miscounted \ {t.url} /\ UNCHANGED body
    BY Zenon DEF ForgetEntry, FirstTx
  <1>2. Who(t) = t.by /\ t = tx[1] /\ 1 \in 1..Len(tx) /\ row \in [Url -> Nat]
    BY <1>1, NextTx, Zenon DEF Base, Types
  <1>3. ASSUME NEW x \in Op, x # Who(t) PROVE op'[x] = op[x]
    BY <1>2, <1>3, Zenon DEF ForgetEntry, Base, Types
  <1> HIDE DEF t
  <1>4. ASSUME NEW u \in Url, ~About(t, u)
        PROVE  row'[u] = row[u] /\ (u \in miscounted => u \in miscounted')
    BY <1>1, <1>2, <1>4, Zenon DEF About
  <1>5. ASSUME NEW u \in Url, LastOn(1, u) PROVE row'[u] = body[u].size
    BY <1>1, <1>2, <1>5, Zenon DEF Counts, LastOn, About, Leaves
  <1> QED BY <1>1, <1>3, <1>4, <1>5, CountsCommitted, Zenon DEF t

LEMMA CountsInvalidation ==
    ASSUME Base, Counts, Base', InvalidationStep
    PROVE  Counts'
  <1>0. Types /\ inv \in Seq(InvRecord)
    BY Zenon DEF Base, Types
  <1>1. ASSUME NEW u \in Url, DeleteEntry(u) PROVE Counts'
    BY <1>1, CountsRemoved, Zenon DEF DeleteEntry, Holders
  <1>2. CASE UseVersion \/ InvalidationRuns \/ \E ts \in SUBSET Url : InvalidateCaches(ts)
    BY <1>2, CountsSame, Zenon DEF UseVersion, InvalidationRuns, InvalidateCaches
  <1>3. CASE DeleteCaches
    <2>1. PICK t \in TxRecord : t = [do |-> "clear"]
      BY Transactions, Zenon
    <2>2. tx' = Append(tx, t) /\ t.do = "clear" /\ UNCHANGED <<row, miscounted>>
      BY <1>3, <2>1, Zenon DEF DeleteCaches
    <2>3. \A u \in Url : About(t, u) /\ Leaves(t, u)'
      BY <1>3, <2>2, Zenon DEF About, Leaves, DeleteCaches, NoBody
    <2>4. \A x \in Op : op'[x].url = op[x].url
      BY <1>0, <1>3, HandlesCut, Zenon
    <2> QED BY <2>2, <2>3, <2>4, CountsStarted, ZenonT(40)
  <1>4. ASSUME inv # <<>>, Acknowledge PROVE \A x \in Op : op[x].at = "touching" => op'[x] = op[x]
    BY <1>0, <1>4, Acknowledged, Zenon
  <1>5. CASE EndInvalidation
    BY <1>4, <1>5, CountsSame, Zenon DEF EndInvalidation
  <1>6. CASE ClearTable
    <2>1. tx # <<>> /\ tx' = Tail(tx) /\ Head(tx).do = "clear" /\ UNCHANGED body
      BY <1>6, Zenon DEF ClearTable, FirstTx
    <2>2. Head(tx) = tx[1] /\ 1 \in 1..Len(tx) /\ At("inv") = "clearing"
      BY <2>1, NextTx, Zenon DEF Doing
    <2>3. inv # <<>>
      BY <2>2, Stages, Zenon
    <2>4. \A u \in Url : row'[u] = 0 /\ About(Head(tx), u)
      BY <1>6, <2>1, Zenon DEF ClearTable, About
    <2>5. ASSUME NEW u \in Url, LastOn(1, u) PROVE row'[u] = body[u].size
      BY <2>1, <2>2, <2>4, <2>5, Zenon DEF Counts, Leaves
    <2>6. \A x \in Op : op[x].at = "touching" => op'[x] = op[x]
      BY <1>4, <1>6, <2>3, Zenon DEF ClearTable
    <2> QED BY <2>1, <2>4, <2>5, <2>6, CountsCommitted, Zenon
  <1> QED BY <1>1, <1>2, <1>3, <1>5, <1>6, Zenon DEF InvalidationStep

LEMMA CountsRestart ==
    ASSUME Base, Counts, Restart
    PROVE  Counts'
  <1>1. tx' = <<>> /\ miscounted' = miscounted \cup {u \in Url : TxOn(u)} /\ UNCHANGED <<body, row>>
    BY Zenon DEF Restart
  <1>2. EveryBodyIsCounted'
    BY <1>1, Zenon DEF Counts, EveryBodyIsCounted
  <1> QED BY <1>1, <1>2 DEF Counts, Owners

LEMMA CountsStep ==
    ASSUME Base, Counts, [Next]_vars
    PROVE  Counts'
  <1>0. Base'
    BY BaseStep, Zenon
  <1>1. CASE Next
    BY <1>0, <1>1, StepKinds, CountsRequest, CountsPass, CountsInvalidation, CountsTouch, CountsForget,
       CountsRestart, Zenon
  <1>2. CASE UNCHANGED vars
    BY <1>0, <1>2, CountsSame, Zenon DEF vars
  <1> QED BY <1>1, <1>2

\* cache.ts touch, forget and clearTable: for any URLs, requests and sizes, as
\* soon as the table has no work left for a URL, its row and its stored body are
\* of one size, unless a failure or a restart parted them.
THEOREM TableFollowsCache == Spec => []EveryBodyIsCounted
  <1>1. Init => Base /\ Counts
    <2>1. Init => Counts
      BY DEF Init, Counts, Owners, EveryBodyIsCounted, NoBody
    <2> QED BY <2>1, BaseInit
  <1>2. Base /\ Counts /\ [Next]_vars => Base' /\ Counts'
    BY BaseStep, CountsStep, Zenon
  <1>3. Base /\ Counts => EveryBodyIsCounted
    BY Zenon DEF Counts
  <1> HIDE DEF Base, Counts, EveryBodyIsCounted, Init, Next, vars
  <1> QED BY <1>1, <1>2, <1>3, PTL DEF Spec
=============================================================================
