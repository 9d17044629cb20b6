----------------------------- MODULE AgentOutbox -----------------------------
(***************************************************************************)
(* The Agent's durable relay outbox: class AgentRelay of                   *)
(* src/pbxsense_agent/relay.py, the operations that read or write its      *)
(* outbox (observe, register_device, _flush) with the state file they save.*)
(*                                                                         *)
(* AgentRelay holds one lock for the whole of every public operation, so   *)
(* `pc' says which operation holds it and how far it is.  The state file   *)
(* is replaced as a whole by every _save; a save happens in the step that  *)
(* changes the state in memory, because nobody else can look at that state *)
(* under the lock and a crash between the two is a crash before the step.  *)
(* The relay is only its answers here: any answer may come to any request. *)
(***************************************************************************)
EXTENDS Naturals, Sequences, Functions

CONSTANTS
    Signals,        \* stable ids of the signals that _should_relay lets through
    EpisodeSignals, \* those that carry a notificationId of their own occurrence
    Tokens,         \* FCM tokens of the apps that register through this Agent
    MaxChanges,     \* bound: changes of the signals and registrations requested
    MaxCrashes,     \* bound: crashes of the Agent process
    None,           \* no fingerprint is stored (fingerprints are versions)
    SavesMayFail    \* may a _save raise OSError (full or read-only volume)?

ASSUME OutboxAssumption ==
    /\ EpisodeSignals \subseteq Signals
    /\ MaxChanges \in Nat /\ MaxCrashes \in Nat
    /\ SavesMayFail \in BOOLEAN
    /\ None \notin Nat

Events ==
    [kind : {"events"}, signal : Signals, occurrence : Nat, version : Nat]
Registrations ==
    [kind : {"devices"}, token : Tokens, preference : Nat]
Items == Events \cup Registrations

\* What the state file holds of the outbox protocol.
States ==
    [enrolled  : BOOLEAN,
     outbox    : Seq(Items),
     delivered : [Signals -> Nat \cup {None}]]

VARIABLES
    signals,   \* the signals of the current home payload
    mem,       \* AgentRelay._state in memory
    disk,      \* the state file
    pc,        \* where the operation that holds the lock is
    todo,      \* events observe has still to queue
    accepted,  \* history: items answered with success while at the head
    rejected,  \* history: items the relay refused for good
    changes,   \* how many changes and registrations happened (bounded)
    crashes    \* how many crashes happened (bounded)

agentVars == <<mem, disk, pc, todo, accepted, rejected>>
worldVars == <<signals, changes, crashes>>
vars == <<signals, mem, disk, pc, todo, accepted, rejected, changes, crashes>>

TypeOK ==
    /\ signals \in [Signals -> [status     : {"clear", "active", "hidden"},
                                occurrence : Nat,
                                version    : Nat]]
    /\ mem \in States
    /\ disk \in States
    /\ pc \in {"idle", "observe", "enroll", "flush", "request"}
    /\ todo \subseteq Events
    /\ accepted \subseteq Items
    /\ rejected \subseteq Items
    /\ changes \in Nat
    /\ crashes \in Nat

\* An Agent whose state file does not exist yet (_load).
Init ==
    /\ signals = [s \in Signals |->
                     [status |-> "clear", occurrence |-> 0, version |-> 0]]
    /\ mem = [enrolled |-> FALSE, outbox |-> <<>>,
              delivered |-> [s \in Signals |-> None]]
    /\ disk = mem
    /\ pc = "idle"
    /\ todo = {}
    /\ accepted = {}
    /\ rejected = {}
    /\ changes = 0
    /\ crashes = 0

-----------------------------------------------------------------------------
(* The signals of the home payload.  A signal is raised with a fresh       *)
(* occurrence, its wording may change while it is active, it clears, and   *)
(* it is hidden while the PBX is unreachable and then comes back with the  *)
(* occurrence its tracker kept.                                            *)

Change(s, status, occurrence, version) ==
    /\ changes < MaxChanges
    /\ changes' = changes + 1
    /\ signals' = [signals EXCEPT ![s] = [status     |-> status,
                                          occurrence |-> occurrence,
                                          version    |-> version]]
    /\ UNCHANGED <<agentVars, crashes>>

Raise(s) ==
    /\ signals[s].status = "clear"
    /\ Change(s, "active", signals[s].occurrence + 1, 0)

Clear(s) ==
    /\ signals[s].status # "clear"
    /\ Change(s, "clear", signals[s].occurrence, 0)

Reword(s) ==
    /\ signals[s].status = "active"
    /\ Change(s, "active", signals[s].occurrence, signals[s].version + 1)

Hide(s) ==
    /\ signals[s].status = "active"
    /\ Change(s, "hidden", signals[s].occurrence, signals[s].version)

Reveal(s) ==
    /\ signals[s].status = "hidden"
    /\ Change(s, "active", signals[s].occurrence, signals[s].version)

-----------------------------------------------------------------------------
(* Saving                                                                  *)

\* The change reaches memory and the state file, and the operation goes on.
Saved(m, next) ==
    /\ mem' = m
    /\ disk' = m
    /\ pc' = next

\* The change reaches memory only and the OSError abandons the operation.
SaveFailed(m) ==
    /\ SavesMayFail
    /\ mem' = m
    /\ pc' = "idle"
    /\ UNCHANGED disk

\* _adopt_claimed_activation, reached through _ensure_enrolled: an app has
\* claimed this Agent's activation and the relay reports the Agent id.
AdoptClaim ==
    /\ pc \in {"idle", "enroll"}
    /\ ~mem.enrolled
    /\ LET m == [mem EXCEPT !.enrolled = TRUE] IN
       \/ Saved(m, IF pc = "enroll" THEN "flush" ELSE "idle")
       \/ SaveFailed(m)
    /\ UNCHANGED <<todo, accepted, rejected, worldVars>>

-----------------------------------------------------------------------------
(* observe                                                                 *)

Active == {s \in Signals : signals[s].status = "active"}

\* The payload observe queues for s; its id is the pair signal, occurrence:
\* signal.get("notificationId", signal_id).
EventOf(s) ==
    [kind       |-> "events",
     signal     |-> s,
     occurrence |-> IF s \in EpisodeSignals THEN signals[s].occurrence ELSE 0,
     version    |-> signals[s].version]

EventId(e) == <<e.signal, e.occurrence>>

\* Variant with a fault: the dedupe looks at ids and not at fingerprints.
UnannouncedById == {s \in Active : mem.delivered[s] = None}

\* The signals whose fingerprint differs from the delivered one.
Unannounced == {s \in Active : mem.delivered[s] # signals[s].version}

\* Take the lock with the current signals, forget the fingerprints of signals
\* that are gone and find the signals whose fingerprint is new.
ObserveBegin ==
    /\ pc = "idle"
    /\ mem.enrolled
    /\ mem' = [mem EXCEPT !.delivered =
                  [s \in Signals |-> IF s \in Active THEN @[s] ELSE None]]
    /\ todo' = {EventOf(s) : s \in Unannounced}
    /\ pc' = "observe"
    /\ UNCHANGED <<disk, accepted, rejected, worldVars>>

\* Variant with a fault: the save comes between the fingerprint and the event.
QueueSignalSavedEarly(e) ==
    /\ pc = "observe"
    /\ e \in todo
    /\ disk' = [mem EXCEPT !.delivered[e.signal] = e.version]
    /\ mem' = [disk' EXCEPT !.outbox = Append(@, e)]
    /\ todo' = todo \ {e}
    /\ UNCHANGED <<pc, accepted, rejected, worldVars>>

\* Record the fingerprint, append the event and save, in that order.
QueueSignal(e) ==
    /\ pc = "observe"
    /\ e \in todo
    /\ LET m == [mem EXCEPT !.delivered[e.signal] = e.version,
                            !.outbox = Append(@, e)] IN
       \/ Saved(m, "observe") /\ todo' = todo \ {e}
       \/ SaveFailed(m) /\ todo' = {}
    /\ UNCHANGED <<accepted, rejected, worldVars>>

ObserveEnd ==
    /\ pc = "observe"
    /\ todo = {}
    /\ Saved(mem, "flush") \/ SaveFailed(mem)
    /\ UNCHANGED <<todo, accepted, rejected, worldVars>>

-----------------------------------------------------------------------------
(* register_device                                                         *)

\* Variant with a fault: the new registration jumps the queue.
QueuedFirst(r, queue) == <<r>> \o queue

SameToken(i, r) == i.kind = "devices" /\ i.token = r.token

\* The queue without its n-th item.
Without(queue, n) ==
    [i \in 1..(Len(queue) - 1) |-> IF i < n THEN queue[i] ELSE queue[i + 1]]

\* _queue("devices"): the new registration goes to the end and replaces the
\* queued one of the same token, of which there is never more than one.
Queued(r, queue) ==
    LET old == {n \in 1..Len(queue) : SameToken(queue[n], r)} IN
    Append(IF old = {} THEN queue ELSE Without(queue, CHOOSE n \in old : TRUE), r)

\* Registrations are numbered in the order the apps send them.
RegisterDevice(t) ==
    /\ pc = "idle"
    /\ changes < MaxChanges
    /\ changes' = changes + 1
    /\ LET r == [kind |-> "devices", token |-> t, preference |-> changes + 1]
           m == [mem EXCEPT !.outbox = Queued(r, @)] IN
       Saved(m, "enroll") \/ SaveFailed(m)
    /\ UNCHANGED <<signals, todo, accepted, rejected, crashes>>

\* _ensure_enrolled after the registration is queued: flush only if enrolled.
EnrollmentChecked ==
    /\ pc = "enroll"
    /\ pc' = IF mem.enrolled THEN "flush" ELSE "idle"
    /\ UNCHANGED <<mem, disk, todo, accepted, rejected, worldVars>>

-----------------------------------------------------------------------------
(* _flush                                                                  *)

FlushDone ==
    /\ pc = "flush"
    /\ mem.outbox = <<>>
    /\ pc' = "idle"
    /\ UNCHANGED <<mem, disk, todo, accepted, rejected, worldVars>>

Send ==
    /\ pc = "flush"
    /\ mem.outbox # <<>>
    /\ pc' = "request"
    /\ UNCHANGED <<mem, disk, todo, accepted, rejected, worldVars>>

PopHead ==
    LET m == [mem EXCEPT !.outbox = Tail(@)] IN
    Saved(m, "flush") \/ SaveFailed(m)

\* A 2xx answer: accepted, duplicate or registered.
Accepted ==
    /\ pc = "request"
    /\ PopHead
    /\ accepted' = accepted \cup {Head(mem.outbox)}
    /\ UNCHANGED <<todo, rejected, worldVars>>

\* Variant with a fault: an item refused for good is tried again.
RejectedAgain ==
    /\ pc = "request"
    /\ Saved(mem, "flush")
    /\ UNCHANGED <<todo, accepted, rejected, worldVars>>

\* A status that is not retryable: the item moves to rejected_outbox.
Rejected ==
    /\ pc = "request"
    /\ PopHead
    /\ rejected' = rejected \cup {Head(mem.outbox)}
    /\ UNCHANGED <<todo, accepted, worldVars>>

\* Variant with a fault: a retryable answer drops the item.
PostponedForever ==
    /\ pc = "request"
    /\ PopHead
    /\ UNCHANGED <<todo, accepted, rejected, worldVars>>

\* 408, 425, 429, 5xx, no connection, no answer in time, or an answer that
\* cannot be read: the item stays at the head until the next flush.
Postponed ==
    /\ pc = "request"
    /\ pc' = "idle"
    /\ UNCHANGED <<mem, disk, todo, accepted, rejected, worldVars>>

-----------------------------------------------------------------------------
\* The process dies and starts again from the state file.  The trackers that
\* raise signals keep their state in memory only, so no signal is confirmed.
Crash ==
    /\ crashes < MaxCrashes
    /\ crashes' = crashes + 1
    /\ mem' = disk
    /\ pc' = "idle"
    /\ todo' = {}
    /\ signals' = [s \in Signals |-> [signals[s] EXCEPT !.status = "clear",
                                                        !.version = 0]]
    /\ UNCHANGED <<disk, accepted, rejected, changes>>

World ==
    \E s \in Signals : Raise(s) \/ Clear(s) \/ Reword(s) \/ Hide(s) \/ Reveal(s)

Observe == ObserveBegin \/ (\E e \in todo : QueueSignal(e)) \/ ObserveEnd

Next ==
    \/ World
    \/ Crash
    \/ AdoptClaim
    \/ Observe
    \/ \E t \in Tokens : RegisterDevice(t)
    \/ EnrollmentChecked
    \/ FlushDone
    \/ Send
    \/ Accepted
    \/ Rejected
    \/ Postponed

Spec == Init /\ [][Next]_vars

(* The publish loop of main.py calls observe again every five seconds, an  *)
(* app claims the activation at some time, and the relay, asked again and  *)
(* again, gives a final answer in the end; saves succeed again and again.  *)
Fairness ==
    /\ WF_vars(AdoptClaim /\ disk'.enrolled)
    /\ SF_vars(ObserveBegin)
    /\ SF_vars((\E e \in todo : QueueSignal(e)) /\ pc' = "observe")
    /\ SF_vars(ObserveEnd /\ pc' = "flush")
    /\ WF_vars(EnrollmentChecked)
    /\ WF_vars(FlushDone)
    /\ WF_vars(Send)
    /\ SF_vars((Accepted \/ Rejected) /\ pc' = "flush")

FairSpec == Spec /\ Fairness

-----------------------------------------------------------------------------
(* Properties                                                              *)

Answered == accepted \cup rejected

\* State m accounts for every fingerprint it records: the event is queued in
\* the same state, or the relay has given its final answer to it.
Accounts(m) ==
    \A s \in Signals : m.delivered[s] # None =>
        \E e \in Range(m.outbox) \cup Answered :
            /\ e.kind = "events"
            /\ e.signal = s
            /\ e.version = m.delivered[s]

\* A fingerprint marks a signal as handled, so the dedupe of observe skips it
\* for as long as the signal lasts.  Neither a crash at any point nor a save
\* that fails halfway through observe or _flush may leave a fingerprint whose
\* event is gone (relay.py observe, _queue, _flush).
FingerprintsAccounted == Accounts(mem) /\ Accounts(disk)

\* i gave way to a later registration of the same token.
Superseded(i, queue, answers) ==
    /\ i.kind = "devices"
    /\ \E j \in Range(queue) \cup answers :
          j.kind = "devices" /\ j.token = i.token /\ j.preference > i.preference

\* What the state file owes leaves it only once the relay gave a final answer
\* or a newer registration took its place: no timeout, retryable status, crash
\* or failed save drops an item (relay.py _flush, _queue).
OwedUntilAnswered ==
    [][\A i \in Range(disk.outbox) :
          i \in Range(disk'.outbox) \cup Answered'
             \/ Superseded(i, disk'.outbox, Answered')]_vars

\* No queued registration is older than one the relay has answered.
NothingStale ==
    \A i \in Range(mem.outbox), a \in Answered :
        (i.kind = "devices" /\ a.kind = "devices" /\ i.token = a.token)
            => a.preference <= i.preference

\* An app's older preferences never follow its newer ones to the relay on a
\* retry, after a failed save or after a restart (relay.py _queue, _flush).  The
\* only exception is a crash that forgets a queue the file never got.
NoStaleRegistration ==
    [][(NothingStale /\ (crashes' = crashes \/ mem.outbox = disk.outbox))
          => NothingStale']_vars

\* One bad or refused item does not keep the others in the outbox for ever: it
\* empties again and again while the loops run (relay.py _flush).
OutboxDrains == []<>(mem.outbox = <<>> /\ disk.outbox = <<>>)

\* A signal that stays active in one wording gets a final answer for that
\* wording, whatever crashes, failed saves or retries come before
\* (relay.py observe, _fingerprint).
WordingAnnounced ==
    \A s \in Signals, v \in 0..MaxChanges :
        (signals[s].status = "active" /\ signals[s].version = v)
            ~> \/ signals[s].status # "active" \/ signals[s].version # v
               \/ \E e \in Answered :
                     e.kind = "events" /\ e.signal = s /\ e.version = v
=============================================================================
