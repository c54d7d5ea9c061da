------------------------------ MODULE Signaling ------------------------------
(* One offer on its way through both databases: the race of the two legs in    *)
(* the page (SignalRace), a record per leg, and the node's Signaler, which     *)
(* watches both databases, answers the session once (Dedupe), replies on each  *)
(* record and removes it later (scheduleCleanup).  The databases are external. *)
(*                                                                             *)
(* Time enters in two guards only.  Cleanup timers (30 s after an answer, one  *)
(* or five minutes after an offer) fire after the leg that wrote the record has *)
(* ended (8 s and 15 s); a Dedupe entry (2 min) expires after both legs and    *)
(* after the handlers that share it (10 s and 2 s at most in answerOffer).     *)
EXTENDS SignalRace, Sequences

CONSTANT
    MaxTroubles \* bound on reopened watches, restarts of the node, and failed
                \* database calls of the node, together

ASSUME TroublesAssumption == MaxTroubles \in Nat

\* The legs of YuriRTCClient.backends, the preferred one first; a further one
\* would be treated as the second.
Firestore == 1

VARIABLES
    upload,     \* the leg's write of its offer: "no", "flight" or "over"
    record,     \* what the leg's database holds
    events,     \* what the node's watch of it has still to deliver
    handlers,   \* how many handle goroutines of the record are at each stage
    timer,      \* the registered cleanup timer: with a delay, or "now"
    removing,   \* cleanup callbacks about to delete
    entry,      \* the Dedupe entry of the session
    peers,      \* peer connections the node has built for the session
    troubles,
    \* history: records nobody is left to remove, and those the node may discard
    \* because it could not build an answer or a reply failed
    orphans, spoiled

store == <<upload, record, events>>
node == <<handlers, timer, removing, entry, peers>>
history == <<orphans, spoiled>>
vars == <<raceVars, store, node, troubles, history>>

Stages == {"join", "answering", "waiting", "replied", "discard"}
NoHandlers == [l \in Legs |-> [s \in Stages |-> 0]]

Init ==
    /\ RaceInit
    /\ upload = [l \in Legs |-> "no"]
    /\ record = [l \in Legs |-> "none"]
    /\ events = [l \in Legs |-> <<>>]
    /\ handlers = NoHandlers
    /\ timer = [l \in Legs |-> "none"]
    /\ removing = [l \in Legs |-> FALSE]
    /\ entry = "none" /\ peers = 0
    /\ troubles = 0
    /\ orphans = {} /\ spoiled = {}

Trouble == troubles < MaxTroubles /\ troubles' = troubles + 1

-----------------------------------------------------------------------------
(* The page.                                                                  *)
\* The parts of the race that touch no database.
RaceSteps ==
    /\ Start \/ HedgeTimer
    /\ UNCHANGED <<store, node, troubles, history>>

CallerAborts ==
    /\ OnOuterAbort
    /\ UNCHANGED <<store, node, troubles, history>>

\* exchange sends its offer, unless the race was settled meanwhile: fetch then
\* rejects at once.
BeginExchange(l) ==
    /\ Exchange(l)
    /\ upload' = [upload EXCEPT ![l] = IF settled THEN "over" ELSE "flight"]
    /\ UNCHANGED <<record, events, node, troubles, history>>

\* The write reaches the database, perhaps after the leg has given up.
OfferLands(l) ==
    /\ upload[l] = "flight"
    /\ upload' = [upload EXCEPT ![l] = "over"]
    /\ record' = [record EXCEPT ![l] = "offer"]
    /\ events' = [events EXCEPT ![l] = Append(@, "offer")]
    /\ UNCHANGED <<raceVars, node, troubles, history>>

OfferLost(l) ==
    /\ upload[l] = "flight"
    /\ upload' = [upload EXCEPT ![l] = "over"]
    /\ UNCHANGED <<raceVars, record, events, node, troubles, history>>

\* The Firestore poll or the RTDB stream finds the answer.
LegAnswers(l) ==
    /\ record[l] = "answer"
    /\ ExchangeAnswers(l)
    /\ UNCHANGED <<store, node, troubles, history>>

\* An error, a missing document, the leg's timeout, or the abort of a loser.
LegFails(l) ==
    /\ ExchangeFails(l)
    /\ UNCHANGED <<store, node, troubles, history>>

-----------------------------------------------------------------------------
(* The node.                                                                  *)
\* scheduleCleanup replaces the record's timer.  A callback whose timer was
\* replaced does nothing, and is not a step.
ScheduleCleanup(l, what) == timer' = [timer EXCEPT ![l] = what]

Move(l, from, to) ==
    /\ handlers[l][from] > 0
    /\ handlers' = [handlers EXCEPT ![l][from] = @ - 1, ![l][to] = @ + 1]

Leave(l, from) ==
    /\ handlers[l][from] > 0
    /\ handlers' = [handlers EXCEPT ![l][from] = @ - 1]

\* A change of a record: an offer gets a handler.
ObserveOffer(l) ==
    /\ events[l] # <<>> /\ Head(events[l]) = "offer"
    /\ events' = [events EXCEPT ![l] = Tail(@)]
    /\ ScheduleCleanup(l, "later")
    /\ handlers' = [handlers EXCEPT ![l]["join"] = @ + 1]
    /\ UNCHANGED <<raceVars, upload, record, removing, entry, peers, troubles, history>>

\* Mutant: a document with an answer has no offer, and is discarded as malformed.
DiscardsAnswer(l) ==
    /\ events[l] # <<>> /\ Head(events[l]) = "answer"
    /\ events' = [events EXCEPT ![l] = Tail(@)]
    /\ ScheduleCleanup(l, "now")
    /\ UNCHANGED <<raceVars, upload, record, handlers, removing, entry, peers, troubles, history>>

\* Only Firestore reports the node's own answer; the RTDB stream skips it.
ObserveAnswer(l) ==
    /\ events[l] # <<>> /\ Head(events[l]) = "answer"
    /\ events' = [events EXCEPT ![l] = Tail(@)]
    /\ ScheduleCleanup(l, "later")
    /\ UNCHANGED <<raceVars, upload, record, handlers, removing, entry, peers, troubles, history>>

\* Mutant: a caller that finds an entry still waiting produces an answer as well.
AnswersTwice(l) ==
    /\ IF entry \in {"none", "pending"}
         THEN Move(l, "join", "answering") /\ entry' = "pending"
         ELSE Move(l, "join", "waiting") /\ UNCHANGED entry
    /\ UNCHANGED <<raceVars, store, timer, removing, peers, troubles, history>>

Join(l) ==
    /\ IF entry = "none"
         THEN Move(l, "join", "answering") /\ entry' = "pending"
         ELSE Move(l, "join", "waiting") /\ UNCHANGED entry
    /\ UNCHANGED <<raceVars, store, timer, removing, peers, troubles, history>>

\* answerOffer by the leader, then complete: a peer connection, or an error that
\* closed it.
Answer(l) ==
    /\ Move(l, "answering", "waiting")
    /\ \/ entry' = "answer" /\ peers' = peers + 1 /\ UNCHANGED spoiled
       \/ entry' = "error" /\ spoiled' = Legs /\ UNCHANGED peers
    /\ UNCHANGED <<raceVars, store, timer, removing, troubles, orphans>>

\* wait returns the error of the completed entry.
Refused(l) ==
    /\ entry = "error"
    /\ Move(l, "waiting", "discard")
    /\ UNCHANGED <<raceVars, store, timer, removing, entry, peers, troubles, history>>

\* The answer is written, over whatever the record holds or held.
Written(l) ==
    /\ record' = [record EXCEPT ![l] = "answer"]
    /\ events' = [events EXCEPT ![l] = IF l = Firestore THEN Append(@, "answer") ELSE @]

\* wait returns the answer, and reply writes it.
Reply(l) ==
    /\ entry = "answer"
    /\ Move(l, "waiting", "replied")
    /\ Written(l)
    /\ UNCHANGED <<raceVars, upload, timer, removing, entry, peers, troubles, history>>

\* The write fails, or its confirmation does.
ReplyFails(l) ==
    /\ Trouble
    /\ entry = "answer"
    /\ Move(l, "waiting", "discard")
    /\ Written(l) \/ UNCHANGED <<record, events>>
    /\ spoiled' = spoiled \cup {l}
    /\ UNCHANGED <<raceVars, upload, timer, removing, entry, peers, orphans>>

\* Mutant: the offer's timer is thought to be enough.
RepliedOnly(l) ==
    /\ Leave(l, "replied")
    /\ UNCHANGED <<raceVars, store, timer, removing, entry, peers, troubles, history>>

Replied(l) ==
    /\ Leave(l, "replied")
    /\ ScheduleCleanup(l, "later")
    /\ UNCHANGED <<raceVars, store, removing, entry, peers, troubles, history>>

Discard(l) ==
    /\ Leave(l, "discard")
    /\ ScheduleCleanup(l, "now")
    /\ UNCHANGED <<raceVars, store, removing, entry, peers, troubles, history>>

\* The timer's callback finds itself registered.
CleanupTimer(l) ==
    /\ timer[l] # "none"
    /\ timer[l] = "now" \/ leg[l] \notin Running
    /\ timer' = [timer EXCEPT ![l] = "none"]
    /\ removing' = [removing EXCEPT ![l] = TRUE]
    /\ UNCHANGED <<raceVars, store, handlers, entry, peers, troubles, history>>

\* removeRTDB or removeDoc, whose error is ignored.
RemoveRecord(l) ==
    /\ removing[l]
    /\ removing' = [removing EXCEPT ![l] = FALSE]
    /\ \/ record' = [record EXCEPT ![l] = "gone"] /\ UNCHANGED <<troubles, history>>
       \/ /\ Trouble
          /\ orphans' = orphans \cup {l}
          /\ UNCHANGED <<record, spoiled>>
    /\ UNCHANGED <<raceVars, upload, events, handlers, timer, entry, peers>>

\* pruneLocked, in some later Join.
Expire ==
    /\ entry \in {"answer", "error"}
    /\ \A l \in Legs : leg[l] \notin Running /\ handlers[l]["waiting"] = 0
    /\ entry' = "none"
    /\ UNCHANGED <<raceVars, store, handlers, timer, removing, peers, troubles, history>>

\* A watch that is opened again starts with a snapshot, which stands for what the
\* old one had not delivered.  RTDB's is read without the answered offers.
Snapshot(l) ==
    IF record[l] = "offer" \/ (record[l] = "answer" /\ l = Firestore)
      THEN <<record[l]>> ELSE <<>>

Reconnect(l) ==
    /\ Trouble
    /\ events' = [events EXCEPT ![l] = Snapshot(l)]
    /\ UNCHANGED <<raceVars, upload, record, node, history>>

\* The process ends, its peer connections and timers with it, and starts again.
Restart ==
    /\ Trouble
    /\ handlers' = NoHandlers
    /\ timer' = [l \in Legs |-> "none"]
    /\ removing' = [l \in Legs |-> FALSE]
    /\ entry' = "none" /\ peers' = 0
    /\ events' = [l \in Legs |-> Snapshot(l)]
    /\ orphans' = orphans \cup {l \in Legs : l # Firestore /\ record[l] = "answer"}
    /\ UNCHANGED <<raceVars, upload, record, spoiled>>

-----------------------------------------------------------------------------
Page == RaceSteps \/ \E l \in Legs :
    BeginExchange(l) \/ OfferLands(l) \/ OfferLost(l) \/ LegAnswers(l) \/ LegFails(l)

Node == \E l \in Legs :
    \/ ObserveOffer(l) \/ ObserveAnswer(l)
    \/ Join(l) \/ Answer(l) \/ Refused(l) \/ Reply(l) \/ ReplyFails(l)
    \/ Replied(l) \/ Discard(l) \/ CleanupTimer(l) \/ RemoveRecord(l)

Next == Page \/ Node \/ CallerAborts \/ Expire \/ Restart \/ \E l \in Legs : Reconnect(l)

Spec == Init /\ [][Next]_vars

\* Event loop, goroutines and timers run, and a leg's timeout ends it; nothing
\* is assumed of the caller's abort, of failures, of the streams or of restarts.
FairSpec == Spec /\ WF_vars(Page) /\ WF_vars(Node)

-----------------------------------------------------------------------------
(* Properties.                                                                *)

\* signal.go:9-11, 44-46, 74-89 -- "a raced offer produces one peer connection
\* rather than two": as long as a leg waits, whatever the databases deliver twice.
OnePeerPerOffer == (\E l \in Legs : leg[l] \in Running) => peers <= 1

\* signal.go:74-76, 276-283, 323-346 -- a record is not removed under a leg that
\* still waits for its answer, unless the node could not build one or failed to
\* write one to this record.
WaitingLegKeepsRecord ==
    \A l \in Legs : leg[l] = "exchanging" /\ record[l] = "gone" => l \in spoiled

\* signal.go:231-242, 284-287 -- "Every observed offer owns its cleanup timer": in
\* the end a database holds a record only if its removal failed, or if it is an
\* RTDB record that was answered before the node restarted.
RecordsAreReaped ==
    <>[](\A l \in Legs : record[l] \in {"offer", "answer"} => l \in orphans)

\* race.ts:88-118 -- the race ends, as each leg does: the last failure launches
\* the next backend or rejects.
RaceSettles == <>[]settled
=============================================================================
