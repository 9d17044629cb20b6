------------------------------ MODULE EventRelay ------------------------------
(***************************************************************************)
(* The push relay's event endpoint: publish_event of push_relay/app.py,    *)
(* with the network to it, the event documents of Firestore and the        *)
(* multicast of Firebase Cloud Messaging it calls.                         *)
(*                                                                         *)
(* The handler is an async function that blocks on Firestore and FCM after *)
(* it has read its body, so one instance serves one request at a time; the *)
(* service may run several instances over the same documents.  A step is   *)
(* what a handler does up to and including one call to a shared service.   *)
(* The client of one Agent waits for one request at a time, but a request  *)
(* it gave up on may still be on its way or being served.                  *)
(***************************************************************************)
EXTENDS Naturals

CONSTANTS
    EventIds,   \* ids of the events an Agent may publish
    Instances,  \* running instances of the relay service
    Limit,      \* MAX_EVENTS_PER_AGENT_PER_HOUR
    MaxPurges,  \* bound: event documents Firestore's TTL deletes
    NoId,       \* not serving any event
    Faults      \* which failures below may happen

(* "list": Firestore fails while the devices are listed or pruned;         *)
(* "devices": every message of a multicast fails without an exception;     *)
(* "undo": Firestore fails while the event document is deleted again;      *)
(* "die": an instance is killed while it serves a request.                 *)
FaultKinds == {"list", "devices", "undo", "die"}

ASSUME RelayAssumption ==
    /\ Limit \in Nat \ {0}
    /\ MaxPurges \in Nat
    /\ NoId \notin EventIds
    /\ Faults \subseteq FaultKinds

VARIABLES
    net,      \* requests sent and not yet taken by an instance
    reply,    \* the answer on its way to the waiting client
    records,  \* ids with an event document
    step,     \* where each instance is
    serving,  \* the event each instance serves
    live,     \* is the client of that request still waiting?
    windows,  \* events each instance counts in the current hour
    pushes,   \* history: multicasts that reached a device, per document life
    outcome,  \* history: how the last multicast of an event ended
    purges    \* how many documents were purged (bounded)

relayVars == <<net, reply, records, step, serving, live, windows, pushes,
               outcome, purges>>

Answers == {"ok", "retry", "refused"}

RelayTypeOK ==
    /\ net \subseteq [id : EventIds, live : BOOLEAN]
    /\ reply \in Answers \cup {"none"}
    /\ records \subseteq EventIds
    /\ step \in [Instances -> {"free", "created", "undo"}]
    /\ serving \in [Instances -> EventIds \cup {NoId}]
    /\ live \in [Instances -> BOOLEAN]
    /\ windows \in [Instances -> 0..Limit]
    /\ pushes \in [EventIds -> Nat]
    /\ outcome \in [EventIds -> {"open", "reached", "nobody", "unreached"}]
    /\ purges \in Nat

RelayInit ==
    /\ net = {}
    /\ reply = "none"
    /\ records = {}
    /\ step = [i \in Instances |-> "free"]
    /\ serving = [i \in Instances |-> NoId]
    /\ live = [i \in Instances |-> FALSE]
    /\ windows = [i \in Instances |-> 0]
    /\ pushes = [id \in EventIds |-> 0]
    /\ outcome = [id \in EventIds |-> "open"]
    /\ purges = 0

-----------------------------------------------------------------------------
(* The client side of a request (AgentRelay._request)                      *)

Request(id) ==
    /\ net' = net \cup {[id |-> id, live |-> TRUE]}
    /\ reply' = "none"
    /\ UNCHANGED <<records, step, serving, live, windows, pushes, outcome, purges>>

TakeReply(answer) ==
    /\ reply = answer
    /\ reply' = "none"
    /\ UNCHANGED <<net, records, step, serving, live, windows, pushes, outcome,
                   purges>>

\* The client stops waiting: it timed out, or it died.  Nothing tells the relay.
Abandon ==
    /\ net' = {[r EXCEPT !.live = FALSE] : r \in net}
    /\ reply' = "none"
    /\ live' = [i \in Instances |-> FALSE]
    /\ UNCHANGED <<records, step, serving, windows, pushes, outcome, purges>>

Lose(r) ==
    /\ net' = net \ {r}
    /\ UNCHANGED <<reply, records, step, serving, live, windows, pushes, outcome,
                   purges>>

-----------------------------------------------------------------------------
(* The first part of the handler, up to the creation of the document       *)

AnswerTo(waiting, answer) == reply' = IF waiting THEN answer ELSE reply

\* Authentication refuses the request, or Firestore is down.
RefuseOrFail(i, r) ==
    /\ step[i] = "free"
    /\ net' = net \ {r}
    /\ \E answer \in {"refused", "retry"} : AnswerTo(r.live, answer)
    /\ UNCHANGED <<records, step, serving, live, windows, pushes, outcome, purges>>

\* The hourly window of this instance is full: 429.
RateLimited(i, r) ==
    /\ step[i] = "free"
    /\ windows[i] = Limit
    /\ net' = net \ {r}
    /\ AnswerTo(r.live, "retry")
    /\ UNCHANGED <<records, step, serving, live, windows, pushes, outcome, purges>>

\* The request is counted before anybody looks whether it is a repetition.
Counted(i, r) ==
    /\ step[i] = "free"
    /\ windows[i] < Limit
    /\ windows' = [windows EXCEPT ![i] = @ + 1]
    /\ net' = net \ {r}

\* event_ref.create raises AlreadyExists, it fails for another reason, or the
\* validation before it refuses the event.
DuplicateOrFail(i, r) ==
    /\ Counted(i, r)
    /\ \/ r.id \in records /\ AnswerTo(r.live, "ok")
       \/ \E answer \in {"refused", "retry"} : AnswerTo(r.live, answer)
    /\ UNCHANGED <<records, step, serving, live, pushes, outcome, purges>>

\* Variant with a fault: set instead of create.
SetRecord(i, r) ==
    /\ Counted(i, r)
    /\ records' = records \cup {r.id}
    /\ step' = [step EXCEPT ![i] = "created"]
    /\ serving' = [serving EXCEPT ![i] = r.id]
    /\ live' = [live EXCEPT ![i] = r.live]
    /\ UNCHANGED <<reply, pushes, outcome, purges>>

CreateRecord(i, r) ==
    /\ Counted(i, r)
    /\ r.id \notin records
    /\ records' = records \cup {r.id}
    /\ step' = [step EXCEPT ![i] = "created"]
    /\ serving' = [serving EXCEPT ![i] = r.id]
    /\ live' = [live EXCEPT ![i] = r.live]
    /\ UNCHANGED <<reply, pushes, outcome, purges>>

-----------------------------------------------------------------------------
(* The second part: list the devices, send, undo on an exception           *)

\* The handler of instance i returns or raises.
Finish(i, answer) ==
    /\ AnswerTo(live[i], answer)
    /\ step' = [step EXCEPT ![i] = "free"]
    /\ serving' = [serving EXCEPT ![i] = NoId]
    /\ live' = [live EXCEPT ![i] = FALSE]

ListingFails(i) ==
    /\ "list" \in Faults
    /\ step[i] = "created"
    /\ Finish(i, "retry")
    /\ UNCHANGED <<net, records, windows, pushes, outcome, purges>>

\* No device wants the event.
NobodyToTell(i) ==
    /\ step[i] = "created"
    /\ outcome' = [outcome EXCEPT ![serving[i]] = "nobody"]
    /\ Finish(i, "ok")
    /\ UNCHANGED <<net, records, windows, pushes, purges>>

\* At least one device gets it; then dead tokens are removed, which may fail.
Push(i) ==
    /\ step[i] = "created"
    /\ pushes' = [pushes EXCEPT ![serving[i]] = @ + 1]
    /\ outcome' = [outcome EXCEPT ![serving[i]] = "reached"]
    /\ \/ Finish(i, "ok")
       \/ "list" \in Faults /\ Finish(i, "retry")
    /\ UNCHANGED <<net, records, windows, purges>>

\* Every message fails inside the batch response: failure_count is only logged.
PushUnreached(i) ==
    /\ "devices" \in Faults
    /\ step[i] = "created"
    /\ outcome' = [outcome EXCEPT ![serving[i]] = "unreached"]
    /\ Finish(i, "ok")
    /\ UNCHANGED <<net, records, windows, pushes, purges>>

PushRaises(i) ==
    /\ step[i] = "created"
    /\ step' = [step EXCEPT ![i] = "undo"]
    /\ UNCHANGED <<net, reply, records, serving, live, windows, pushes, outcome,
                   purges>>

\* Variant with a fault: the document outlives the failed multicast.
UndoNothing(i) ==
    /\ step[i] = "undo"
    /\ Finish(i, "retry")
    /\ UNCHANGED <<net, records, windows, pushes, outcome, purges>>

Undo(i) ==
    /\ step[i] = "undo"
    /\ \/ records' = records \ {serving[i]}
       \/ "undo" \in Faults /\ UNCHANGED records
    /\ Finish(i, "retry")
    /\ UNCHANGED <<net, windows, pushes, outcome, purges>>

-----------------------------------------------------------------------------
(* Time and the platform                                                   *)

\* An hour passes for the oldest entry of a window.
WindowSlides(i) ==
    /\ windows[i] > 0
    /\ windows' = [windows EXCEPT ![i] = @ - 1]
    /\ UNCHANGED <<net, reply, records, step, serving, live, pushes, outcome,
                   purges>>

\* The instance is killed; its windows are in its memory.
Die(i) ==
    /\ "die" \in Faults
    /\ step' = [step EXCEPT ![i] = "free"]
    /\ serving' = [serving EXCEPT ![i] = NoId]
    /\ live' = [live EXCEPT ![i] = FALSE]
    /\ windows' = [windows EXCEPT ![i] = 0]
    /\ UNCHANGED <<net, reply, records, pushes, outcome, purges>>

\* expiresAt, two days after creation: no request lives that long.
Purge(id) ==
    /\ purges < MaxPurges
    /\ id \in records
    /\ \A i \in Instances : serving[i] # id
    /\ purges' = purges + 1
    /\ records' = records \ {id}
    /\ pushes' = [pushes EXCEPT ![id] = 0]
    /\ UNCHANGED <<net, reply, step, serving, live, windows, outcome>>

Receive(i, r) ==
    RefuseOrFail(i, r) \/ RateLimited(i, r) \/ DuplicateOrFail(i, r)
        \/ CreateRecord(i, r)

Multicast(i) ==
    ListingFails(i) \/ NobodyToTell(i) \/ Push(i) \/ PushUnreached(i)
        \/ PushRaises(i)

RelayNext ==
    \/ \E r \in net : Lose(r) \/ \E i \in Instances : Receive(i, r)
    \/ \E i \in Instances : Multicast(i) \/ Undo(i) \/ WindowSlides(i) \/ Die(i)
    \/ \E id \in EventIds : Purge(id)
=============================================================================
