# A TLA+ model of the PBXSense Agent and its push relay

The PBXSense Agent polls a PBX, turns what it sees into a *home payload*, and sends the
signals in that payload to phones through a *push relay*, a small service on Cloud Run in
front of Firestore and Firebase Cloud Messaging (FCM). Apps are paired with the Agent
through the relay, read its payload over a live socket or as encrypted snapshots, and
learn from the relay when the Agent is lost. These modules model the parts of the two
programs that keep state: where a notification, a registration, a pairing, a snapshot or a
count can be lost, repeated or invented. Every definition is translated from the Python
code; `PROJECT.json` says which lines each one stands for.

## 1. Inventory

| Part | State | Operations | What is hard | Module |
|---|---|---|---|---|
| **Agent outbox** (`relay.py`, `AgentRelay`) | the state file: enrollment, `outbox`, `delivered` fingerprints | `observe`, `register_device`, `_ensure_enrolled`, `_flush`, `_save`, `_load` | crashes between steps, saves that fail, retries, an item that blocks the queue | `AgentOutbox` |
| **Relay event endpoint** (`push_relay/app.py`, `publish_event`) | event documents, hourly windows in memory | authenticate, count, create document, list devices, multicast, undo | two instances, repeated requests, each call failing or the instance dying between calls | `EventRelay`, with the outbox `EventDelivery` |
| **Endpoint tracker** (`pulse.py`, `EndpointAvailabilitySignalTracker`) | one state per endpoint | `observe`, `notification_ids` | flapping, failed and partial snapshots, two confirmation times | `EndpointTracker`, with the outbox `OutageAlerts` |
| **Activity tracker** (`pulse.py`, `ActivityTracker`) | the last healthy snapshot, outages, recoveries, busy queues, restored trunks, the events of a day | `observe` | transitions over partial snapshots, events that stop being true | `ActivityMoments` |
| **Call history** (`history.py`, `engine.py`) | the calls kept from the CDR file | read, moments about clean days | the file is in the order of ends, its end is cut off | `CallHistory` |
| **Last-active tracker** (`presence_history.py`) | times in memory and in a file | `observe`, save, load | reads and writes that fail, restarts | `LastActive` |
| **Presence** (`app.py` `heartbeat`, `sweep_agent_heartbeats`) | `lastSeenAt`, `lostAt` | heartbeat, sweep, status push | sweep against heartbeat, FCM exceptions | `Presence` |
| **Device registry** (`app.py`) | device documents, token pointers | claim, register, register own, revoke, remove, prune | several documents without a transaction, an awaited body | `DeviceRegistry` |
| **Enrollment** (`app.py`, `relay.py`) | agents, activations, tickets; on the Agent `agent_id` and `activation` | `create_activation`, `claim_activation`, `activation_status`, `_activation_locked`, `_ensure_enrolled` | claims cut off half-way, a deployment in another mode, two pairings at once | `Enrollment` |
| **Secure relay** (`internet_relay.py`, `relay.py`, `app.py`) | poller, pending responses, fingerprint, sequence, device list; commands, envelopes | poll, exchange, ping, publish and read snapshots | expiry, lost answers, failed saves, a stale device list, exceptions nobody catches | `SecureChannel` |
| **Rate limiter** (`app.py`) | a bounded table of windows | admit, refuse, evict | sliding minute, a full table | `RateLimiter` |
| **Usage counters** (`app.py`) | the map of a day, the archive | update, archive, report | midnight between the steps of a handler | `UsageRollup` |
| **Live feed** (`live.py`, `main.py`) | the payload last sent on a socket | connect, diff, send | an app that folds events | `LiveFeed` |
| **AMI connector** (`ami.py`) | a connection | login, five actions, packets | late and torn packets, lists that end without their end | `AmiSession` |
| **JTAPI bridge** (`jtapi.py`, `jtapi_bridge/`) | a Java process, reader threads, the last calls | start, read, age, close | two threads start it, it dies, old lines are read late | `JtapiBridge` |
| **Yeastar connector** (`yeastar.py`) | token and its expiry, the kept snapshot | token, requests | two threads and no lock, tokens that expire or are withdrawn | `YeastarSession` |
| **Home state** (`main.py`) | `_cached_home_state`, cached history, the trackers | snapshot, publish, heartbeat and secure relay loops | the loops interleave; restarts forget the trackers, not the outbox | `OutageAlerts` (outages only) |
| **Interpretation** (`engine.py`, `history.py`, most of `pulse.py`), FreeSWITCH, Grandstream, CUCM | none | functions of one snapshot or one answer | classification rules | - |
| **Web pages, settings, installers** | none that runs | | presentation and configuration | - |

How they interact: the snapshot loop (every second) calls the connector and the trackers
under `_snapshot_lock` and stores the result; the publish loop (every five seconds) builds
the payload and calls `AgentRelay.observe`, which holds the lock of `AgentRelay` until its
`_flush` ends; the app's registration reaches `register_device` from a web request, under
the same lock. `_flush` posts the head of the outbox and waits at most five seconds. The
heartbeat loop and the loop of the secure relay are tasks of their own. A relay handler
blocks its event loop while it talks to Firestore and FCM, so one instance serves one
request at a time, but for `register_own_device`, which awaits its body;
`deploy_cloud_run.sh` allows three instances.

What makes each part correct: the outbox drops nothing before a final answer and remembers
no fingerprint without its event; the event endpoint pushes once and drops nothing it
accepted; the tracker shows exactly the confirmed outages, each under its own id; a moment
shown to the user is still true; a token belongs to one device and a ticket, a code and a
key to one identity; a settled command stays settled, and an app's snapshots go back only to
what was never saved;
no window admits more than its limit; no request of a day is lost from its count; a
connector says no more than the PBX told it, and comes back. `PROJECT.json` lists the
hazards with their lines, and the properties that would catch each one.

## 2. The modules and the code

    EndpointTracker ----+                        DeviceRegistry --+
                        +--> OutageAlerts        Enrollment ------+--> MCRelayParts
    AgentOutbox --------+                        RateLimiter -----+
        |                                        UsageRollup -----+
        +--> EventDelivery <-- EventRelay
                 |    |                          EndpointTracker, ActivityMoments,
                 |    +--> MCEventDelivery       LastActive, LiveFeed,     --> MCAgentParts
                 +--> implements PushPromise     AmiSession, JtapiBridge,
                                                 YeastarSession, CallHistory
    Presence         SecureChannel --> MCSecureChannel

**AgentOutbox** (`relay.py`). `mem` and `disk` are the outbox part of `AgentRelay._state`
and of the state file; `pc` is where the operation under the lock is. `observe` is
`ObserveBegin`, one `QueueSignal` for each new fingerprint, and `ObserveEnd`; it continues
in `_flush` (`Send`, then `Accepted`, `Rejected` or `Postponed`, and `FlushDone`).
`RegisterDevice` queues and goes through `EnrollmentChecked` to the same `_flush`. `_save`
is part of the step that changes the state: it succeeds (`Saved`) or raises (`SaveFailed`),
which leaves memory changed, the file as it was and the operation abandoned. `Crash` starts
again from the file. `World` changes the signals as `_build_signals` and the trackers do: a
signal is raised, reworded (the label of an activity ages), hidden while the PBX cannot be
reached, shown again under its old occurrence, or cleared.

**EventRelay** (`app.py`, `publish_event`). One step is the work of a handler up to and
including a call to Firestore or FCM. `Receive` is the part up to the creation of the event
document, `Multicast` the part after it, `Undo` the deletion in the `except` clause. A
request the Agent gave up on stays on its way, or is still served, with `live` false.
`Faults` names the failures a run allows after the document exists; before it, every
failure is possible in every run. Firestore's TTL is `Purge`, the killed instance `Die`.

**EventDelivery** joins the two: an answer the outbox takes is one the relay gave.
**PushPromise** is the abstract specification: occurrences are raised, and each is told at
most once, after it was raised. `EventDelivery` maps the signals to `raised` and the pushes
to `told`, and `PromiseKept` says that every step is a step of `PushPromise` or a stutter.

**EndpointTracker** (`pulse.py`). A `Poll` is one `observe` with a report for each endpoint
(`down`, `up`, or `missing` from the list), `PollUnreachable` one with a failed snapshot.
`Observed` is the body of the loop for one endpoint. The history variables record when the
unbroken run of `down` reports began and which ids were shown.

**OutageAlerts** puts the tracker in front of the outbox as `main.py` does. `Restart` loses
the tracker and keeps the state file.

**ActivityMoments** (`pulse.py`). `Observe(s)` is one `ActivityTracker.observe` of a healthy
snapshot `s`: phones (`Confirmed`, `Recovered`, `StillOut`), queues (`Baseline`, `Cleared`),
trunks (`BackUp`), voicemail, and `Kept` for the events that are still current. A snapshot
may leave out any phone, queue or trunk. Times are kept as durations up to the larger
confirmation; `Passes` is a second, `Expire` the day after which entries go. The history
variable `pressed` has, for each queue, the calls known to be abandoned at the first
snapshot with two callers since it was last empty; `_busy_queues` is kept from pairs of
snapshots instead.

**LastActive** (`presence_history.py`). `ObservePhones` is `observe`, with the write that
replaces the file or fails; `RestartTracker` loads the file, or nothing if it cannot be read:
then (`unloaded`) the next save replaces what the file held.

**CallHistory** (`history.py`, `main.py`, `engine.py`). A call is its place in the order of
starts. Asterisk writes its row when it ends (`CallEnds`); `ReadHistory` is the read of the
end of the file that refreshes `_cached_history`, `RecentCalls` its sort and cut.
`Streak` and `Praised` are the days `_operational_moments` counts as free of missed calls.

**Presence** (`relay.py`, `main.py`, `app.py`) is one Agent, its document and the handlers
that serve its heartbeats and the sweeps, one per instance and one step per call to
Firestore or FCM. `beat` is the heartbeat loop: `Send` when the interval has passed, `GiveUp`
when there is no good answer, `Reply` when there is. `Authenticate` is where `heartbeat`
reads `was_lost`, `Find` where the sweep reads a document that is too old, `Notify` is
`_send_agent_status`, `SeenAgain` and `Mark` are the updates that follow it. A handler may
`Fail` anywhere; `FailsAfterPush` says whether also between a notice and its update.
`Register` is the registration, the one other request that writes `lastSeenAt`. Time is
kept as ages, so that there are finitely many states and no bound on it.

**DeviceRegistry** (`app.py`). `docs` are the device documents, `pointers` the `deviceTokens`
collection, `tasks` the handler each instance is in, one step per Firestore write:
`SetDocument`, `DeletePrevious`, `WritePointer` for the registrations, `DeleteDocument` and
`DropPointer` for the removals and the pruning of dead tokens after a `Multicast`,
`DropOldPointer` for an app that changes its own token. `waiting` holds the requests of
`register_own_device` between the read of the document and the arrival of the body. `Cut`
is a call that fails or an instance that dies; `torn` remembers whose tokens it left
half-way.

**Enrollment** (`app.py`, `relay.py`). On the relay `NewActivation` is `create_activation`
(with its caller, `_activation_locked`), `Claim`, `Commit` and `GrantDevice` are
`claim_activation` up to its batch, the batch, and the credential of the app. On the Agent
`EnsureEnrolled` and `OpenPage` ask for the status, adopt a claim or drop the activation.
Codes and tickets age, and `Deploy` changes the enrollment mode between requests.

**RateLimiter** (`app.py`). `Lookup` is `_client_window` with its eviction and its overflow
window, `Counted` what the loop of `_consume_window` leaves (`Popped`), `Admit` and `Refuse` the two ends of
`bound_public_requests`. Times are ages and the history `recent` has the admitted requests
of the last minute.

**UsageRollup** (`app.py`). `ReadUsage` is where a handler authenticates and reads the
document, `WriteArchive` and `MarkArchived` are `_archive_usage`, `Update` the update built
by `_usage_update`. `Midnight` may come between any two of them.

**SecureChannel** (`internet_relay.py`, `relay.py`, `app.py`). `poller` is
`SecureInternetRelay` and the device list `AgentRelay` caches, `remembered` the fingerprint
and sequence of its state and `file` those in the state file. A poll is `Wake`, `Exchange` if it is due, `ListDevices` if the
list is old, `Upload` if the fingerprint differs. Each request may fail before the relay is
done (`ExchangeFails`, `UploadFails`, with any part of its writes made) or after it, and
`Broken` says whether `poll` catches the error or the loop ends. `Recorded` is what follows
an upload that was answered: the new sequence is remembered, and the save succeeds or
raises, which fails the poll and may leave the file behind. `SaveState` is any other
operation that saves the same state; a `Restart` before it goes back to the file, and
`forgotten` is the highest sequence lost that way.

**LiveFeed** (`live.py`, `main.py`). `FeedEvents` is `home_live_events`, `SendChanges` one
round of the socket's loop. The app (`Folded`, `Read`) is not in the repository.

**AmiSession** (`ami.py`). One session is one snapshot: `LogIn`, `ReadPacket` and `ReadEnd`
for the packets of the action being read, `GiveUp` for a read that times out or fails,
`Closes` for the connection. `Interpreted` is what the packets are taken to mean. What a PBX
answers is a constant, and `PbxAssumption` says what is asked of it.

**JtapiBridge** (`jtapi.py`, `PBXSenseJtapiBridge.java`). `FindsNone`, `PushRestart` and
`StartBridge` or `StartFails` are `_ensure_running` under its lock, `ReadCalls` is
`_read_stdout`, `WritesCalls` the Java program, `CloseBridge` the exit handler.

**YeastarSession** (`yeastar.py`). A thread begins its requests (`BeginRequests`), and for
each of them uses the token at hand (`UseToken`) or gets one (`AskForToken`, `IssueToken`,
then `StoreToken` and `StoreExpiry`, the two assignments another thread may come between).

**MCRelayParts** and **MCAgentParts** put parts that share no state in one run: the variable
`part` says which one a behaviour is of, and the others stay as they are at the start. The
run explores the sum of the parts, not their product. Where fairness is
part of a specification, `MCAgentParts` asks for it only in the behaviours of that part,
and `BridgeComesBack` and `YeastarComesBack` are `BridgeReturns` and `YeastarRecovers` said
of those behaviours. `MCEventDelivery` gives the event ids their finite set,
and `MCSecureChannel` says which of two payloads is there first, since they differ only in name.

Definitions called *variant with a fault* are not part of any specification: each is a
plausible mistake in the definition that follows it, and shows that the property of a run
would notice.

### What is abstracted

- Cryptography (signatures, envelopes, tickets, secrets) is its verdict only. Texts,
  titles and layouts are left out; an item's content is a member of a small set.
- A fingerprint is the version of a signal's wording, and an event id the pair of signal
  and occurrence. `EventOf` gives occurrence 0 to a signal without a `notificationId`, as
  `signal.get("notificationId", signal_id)` does.
- The payload is read before `observe` takes the lock. `ObserveBegin` reads it with the
  lock; a change in between is, for `observe`, a change after it.
- The order of new signals within one `observe` is open (any order of `QueueSignal`).
- A state file of the relay client that cannot be read or parsed, and one written by hand,
  are not modelled; `_load` starts from an empty state without key and identity, so it is
  another Agent that begins to pair.
- A Firestore call fails before or after its effect only where the code has a step for
  it: a creation that is committed but answered with an error is not modelled.
- Equal requests the client gave up on are one element of `net`.
- Registration counters, `rejected_outbox` (the last 20) and `last_outbox_error` are only
  shown to the user. `rejected` in the model is a history of all refused items.
- The clocks of the trackers never go back.
- `Presence` has one Agent: the sweep treats the Agents one after another, and an exception
  that ends it leaves the others for the next sweep, as if it had not found them. A notice
  counts as told when FCM has taken it, whatever devices are paired. `Longest` covers the
  wait for the lock of `AgentRelay` and the request; a flush of many items may hold the
  lock for longer, and then the cadence assumption does not hold. `revoked` is never set
  by the code.
- `ActivityMoments` counts the callers of a queue up to two, because the code asks for none,
  one or more, and equal events are one. `DeviceRegistry` keeps of a device document its
  token and whether it has a credential.
- The activation of `Enrollment` has three ages: `valid`, `closing` (less than half a minute
  left, when the Agent stops showing it) and `expired`. An activation whose answer is lost
  is one nobody ever sees.
- In `SecureChannel` a request of one poll is not overtaken by one of the next: polls are 15
  seconds apart, which is also Cloud Run's time limit. A device list that has grown old is
  left out of the state, as it is read again before it is used.
- `UsageRollup` has one counter for all the fields of a day's map.
- `LiveFeed` has one kind of item for all that have removal events (signals), one for those
  that have none (people, trunks, queues), and one for the parts sent whole.
- In `AmiSession` what the PBX has to report does not change during a session. A PBX answers
  each action with events of its own, counts in `QueueParams` no more callers than are to be
  reported (those it lists, if it lists any), and no endpoint of PJSIP has the name of a
  peer of chan_sip (`PbxAssumption`).
- `CallHistory` has two halves of a day, before and from 17 o'clock. Rows are shorter than
  the 2 KB `_recent_cdr_rows` allows for each, no two calls start in the same second, and a
  call that is neither missed nor answered is one that was not missed.
- A line of the JTAPI bridge is its age. `YeastarSession` leaves out the parsing of answers
  and counts a token's time from its issue.

## 3. The runs

Every run takes about a minute or less on two cores, but for `channel`, which takes less than
three.

| Run | Shows | Bounds, and why they are enough |
|---|---|---|
| `outbox` | `FingerprintsAccounted`, `OwedUntilAnswered`, `NoStaleRegistration`; with fairness `OutboxDrains`, `WordingAnnounced` | two signals (one of each kind of id), one app, three changes, a crash, failing saves: every pair of operations meets a crash or a failed save at every point, a registration is replaced at any place of the queue, and a wording changes while its event waits |
| `delivery_promise` | `AtMostOnePush`, `PromiseKept` | two instances and all failures, two changes of one signal, a crash, an hourly limit of one, documents kept: a third instance could only repeat what the second does |
| `delivery_liveness` | `AcceptedMeansTold`; with fairness `QueuedIsTold` | one instance whose only failures after the document exists are exceptions of the multicast; two changes, a crash, a purge, an hourly limit of one |
| `delivery_batch_failure` | `AcceptedMeansTold` **fails** | one instance, messages that fail one by one |
| `outage_alerts` | `EventsNameOutages`, `OneEventPerLife` | one phone, six seconds, confirmations of one second, two restarts: an outage, a failed snapshot in it, a restart, another outage |
| `presence` | `LostOnlyAfterMisses`, `RecoveryAfterLoss`, `NoticesInTurn`; with fairness `LossTold`, `RecoveryTold` | one instance and the real cadence in units of five seconds: 30 seconds, a heartbeat of up to 10, loss after 90. With loss after 85 seconds `LostOnlyAfterMisses` would fail: the bound is exact. No number of failures, restarts or rounds is bounded |
| `presence_two_instances` | `RecoveryTold` **fails** | two instances and the shortest cadence |
| `relay_parts` | `OneOwner`, `CapacityKept`; `TicketOnce`, `OneIdentity`, `PairsOneApp`, `IdentityKept`; `WithinLimits`; `CountsKept` | one instance. Registry: two credentials and two tokens with room for two devices, so that a third document is refused, a token moves, and one handler fails half-way. Enrollment: two Agents with one ticket, two codes, two ids, all three modes. Limiter: three addresses and a table for one, limits of three and two in two time units: eviction and overflow happen. Usage: four days, two requests a day |
| `channel` | `CommandsFinal`, `FallsOnlyIfForgotten`; with fairness `EveryAppServed`, `CommandSettled` | one app with two keys, two payloads, a command, three changes and three troubles (failed requests, failed saves, restarts): the app changes its key while an upload is under way, a failure hits any request before, during or after its writes, and two uploads that are stored but not saved, or not answered, come before a restart |
| `stale_channel` | `LiveMeansCurrent` **fails** | one app, one key, two payloads, one failure |
| `activation_limit` | `ActivationsApart` **fails** | two addresses and room for both |
| `agent_parts` | `ShownIffConfirmed`, `IdNamesOutage`, `AlertsApart`; `RecoveriesHold`, `PraiseEarned`; `LastActiveSurvives`; `CleanDaysTrue`; `SnapshotTold`; `OneBridge`; with fairness `FeedCatchesUp`, `BridgeComesBack`, `YeastarComesBack` | Tracker: two endpoints, ten seconds, confirmations of two: two complete outages with a flap between them. Moments: two phones, or a queue, a trunk and a record, or a queue and two records. Last-active: two phones, five observations, any number of restarts. Feed: one item, six payloads that differ in each part. History: five calls on two days, three kept of four rows read, two lines: a missed call overtaken by a longer one, and a day before today that is kept whole and counted. AMI: a PBX with PJSIP, contacts and a queue with callers, one with chan_sip, and one with a phone of each kind. JTAPI: two threads, two processes, two mishaps. Yeastar: two threads, a lifetime of four, two refusals |

`NoStaleRegistration` is an action property because of its one exception: a save that fails
leaves an answered registration in the file, and a crash before the next save brings it back.

`CleanDaysTrue` rests on `HistoryAssumption`: of `3 * limit` rows read, `limit` calls kept
are those that started last as long as the PBX has at most `2 * limit + 1` calls at once,
2001 with the limit of 1000. The bound is exact; with one line more TLC finds a missed call
on a day that is counted clean.

Deadlock is checked in the runs of outbox, delivery, outage alerts, presence and
`activation_limit`, where the program can always go on. It is switched off where a bound
ends the behaviours: the clock of a tracker, the ids and codes of the relay, the failures
and changes of the channel.

`OneOwner`, `CapacityKept`, `OneIdentity`, `PairsOneApp`, `IdentityKept` and `CountsKept` are
what *one* instance keeps. With two they do not hold, and nothing in the code says they
would: registry, enrollment and counters are written without transactions, but for the
batch of `Commit`, and `TicketOnce` rests on that batch and holds for any number.

### What the failing runs say

1. `delivery_batch_failure`: messages that fail one by one are only counted in the log.
   The answer is `accepted`, and nobody sends them again. The comment at
   `push_relay/app.py:839-840` promises the opposite.
2. `presence_two_instances`: a heartbeat reads its Agent as not lost, a sweep on another
   instance tells the loss and marks it, and the heartbeat removes the mark. No later
   heartbeat sends the recovery that `push_relay/README.md:161-164` promises, unless the
   Agent is lost once more.
3. `stale_channel`: an `http.client.IncompleteRead` is neither an `OSError` nor one of the
   other exceptions `poll` catches, and `_internet_relay_loop` has no handler. The task
   ends; the heartbeats go on, and the relay shows the last envelope as available
   (`docs/TROUBLESHOOTING.md:146-149` says stale state does not appear live).
4. `activation_limit`: one window per address counts all requests, and six of any kind use
   up the limit for activations that `push_relay/README.md:126-127` states separately.

### Seen while modelling

Each of these was a trace of a model before it was left without a run; the properties that
remain say what does hold.

- An outage that ends and starts again between two observes gets no event, because the
  fingerprint leaves out the occurrence (`relay.py:611`, `relay.py:328`); the tracker does
  show it under a new id ("Never suppress it", `pulse.py:343-345`).
- The docstring of the tracker's `observe` (`pulse.py:319-320`) says a short recovery does
  not arm another alert; the code, and the comment inside it, say it does.
- An outage that outlives a restart is pushed again: the first `observe` after the restart
  forgets the fingerprint (`relay.py:319-321`), because the tracker has not confirmed the
  outage yet. The comment in `_fingerprint` (`relay.py:608-610`) wants it deduplicated.
- A retry served by a second instance is answered `duplicate` (`app.py:805`) while the
  first instance is still sending; when that multicast raises, the document is deleted, but
  the Agent has dropped the event.
- A trunk that a snapshot leaves out counts as recovered, and the next call on it gives the
  moment "recovered and is carrying a call" (`pulse.py:183-195`).
- A queue that a snapshot leaves out counts as empty: its busy period ends, and it may be
  praised for it while callers wait (`pulse.py:155-181`). The calls known to be abandoned
  are those of the history read by then, which may lack the last ones.
- Two uploads that the relay stores while the saves that follow fail, and then a restart: the
  next upload goes out under the first one's sequence (`relay.py:422-425`, `relay.py:406`,
  `relay.py:564-569`), so an app sees the sequence fall. `FallsOnlyIfForgotten` is what
  remains: never to a sequence that is in the file, and never without such a restart.
- A registration deletes the document its token's pointer names without asking whose it is
  (`app.py:416-428`), which is what moves an app to a rebuilt Agent; and two instances
  pruning dead tokens may delete a document that has just got a live one.
- The pairing page drops an activation that is about to expire without asking whether it
  was claimed (`relay.py:142-144`): the app is paired with an identity the Agent learns at
  its next pairing.
- The oldest day of a full history is only partly read (`main.py:1007`, a thousand calls),
  and a missed call may be in the part that is not. The streak counts that day all the same
  (`engine.py:680-691`), which says "each counted day had real call activity and no missed
  calls", and its calls enter the daily average as a completed day's (`engine.py:707`).
  `CleanDaysTrue` is about the other days.
- People, trunks and queues have no removal events in the live feed, so an app that folds
  events keeps a removed one until it connects again. `FeedCatchesUp` is about the rest.

### Fairness

`FairSpec` of the outbox asks no more than the loops of `main.py` give: the publish loop
catches every exception and calls `observe` again (strong fairness of `ObserveBegin`,
because a crash or another operation may have the lock for a while); steps inside an
operation are weakly fair; a save that is tried again and again succeeds in the end; a
relay that is asked again and again gives a final answer in the end; some app claims the
activation. Nothing makes the world, a crash, a registration or a failure happen.
`FairDeliverySpec` replaces the last assumption about the relay by its handler: a request
sent again and again is received in the end, an instance goes on with its request, a
multicast tried again and again succeeds in the end, an answer given again and again
arrives in time, and an hour of the window passes while requests wait. Only deletion after
an exception is assumed to succeed (`Faults = {}`), as the failing run shows it must.
`FairSpec` of `Presence` lets time pass, lets the loop wake up and give up when it is due
(`_relay_heartbeat_loop` drops every exception), repeats the sweep as the scheduler does
every minute, and lets a request, a read, a notice or an update that is tried again and
again succeed in the end. Nothing makes the Agent start, stop or register an app.

`ChannelFairness` has weak fairness of the poll's steps and of time (the list grows old, the
exchange falls due, a command expires). Failures are bounded by `MaxTrouble`, so a request
that is tried again succeeds; the loop is not assumed to survive (`Stopped`), and
`EveryAppServed` and `CommandSettled` are promised only while it does. `FeedFairness`: the
socket's loop runs every second, the app reads what it was sent and connects again.
`BridgeFairness`: the publish loop asks at every refresh, time passes, a started thread
reads. `YeastarFairness`: snapshots are taken, requests end and time passes, the last with
strong fairness because another request may always begin at the same instant.

## 4. The proofs

Eight modules hold the theorems TLAPS checks for every value of the constants, one for each
of the larger parts (`AgentOutbox_proofs`, `EventDelivery_proofs`, `OutageAlerts_proofs`,
`Presence_proofs`, `Enrollment_proofs`, `SecureChannel_proofs`) and two for several smaller
ones: `AgentParts_proofs` (activity moments, call history, last-active times, JTAPI bridge,
AMI sessions)
and `RelayParts_proofs` (counters, device registry, rate limiter). The assumptions are those
the modules name, and what one instance keeps is proved under a hypothesis that says so:
`OneServer` in `Enrollment_proofs`, `OneInstance` in `EventDelivery_proofs` and for the
registry, `OneHandler` for the counters.

- **Outbox**: `TypeCorrect`, `FingerprintsCorrect`, `OwedCorrect`, `NoStaleCorrect`.
  `FingerprintsAccounted`
  is not inductive: it says nothing of where `_flush` is. `OutboxInv` adds that a request
  is out only while the outbox has a head (`RequestHasHead`), that queued registrations
  carry numbers already given out (`Numbered`), and `DiskKept`: what the file still owes is
  in memory or answered. This last conjunct is what a save needs, because it replaces the
  file by memory; memory and file differ after a save that failed. `OwedCorrect` is an
  action property and follows from the same invariant. `NoStaleCorrect` needs one more,
  `OneEach`: memory and file hold at most one registration of each token, which `_queue`
  keeps because it takes the old one out before it appends the new one (`QueuedKeepsOne`).
  Then the answer to a registration leaves none of its token behind, older or newer, and a
  new one carries a number above every number answered.
- **Delivery**: `DeliveryTypeCorrect`, `AtMostOncePerDocument`, `OneServerOnly` and
  `PromiseIsKept`. The invariant `Coordinated` says that a served event has its document
  and one server, has not been pushed in the life of that document if its server has still
  to send, and that an event without a document was not pushed in this life. `RaisedInv`
  says that what is queued, asked for or served names an occurrence that was raised. The
  refinement is proved step by step, under `MaxPurges = 0`: a purge begins a new life of
  an id, and the promise is about one. `AcceptedCorrect` (`AcceptedMeansTold`) assumes one
  instance and `Faults = {}`, and allows crashes, timeouts, late requests, exceptions of the
  multicast and purges. `ToldInv` says that a document is of an event that was told or is
  being told (`RecordsTold`), that of all requests on their way or served only the one the
  Agent waits for is live (`OneAwaited`), and that the answer `ok` is for a told event.
  A second instance would break the first: it answers `duplicate` for a document the first
  one may still undo.
- **Tracker**: `TrackerTypeCorrect`, `ShownCorrect`, `IdCorrect`, `AlertsApartCorrect`, for
  any confirmation times, zero included. `TrackerInv` relates the state of an endpoint to
  the run of reports it is in: its outage began with the run of `down` reports, its id is
  the time of that beginning, and the alerts so far are older than the present run.
- **Outage alerts**: `AlertTypeCorrect`, `OutagesNamed` (`EventsNameOutages`) and
  `OneEventCorrect` (`OneEventPerLife`), for tracker and outbox together. A failed snapshot
  hides an outage from the tracker's own history, so `FollowsLate` lets the tracker's idea
  of its beginning be late. `OccurrenceFits` relates each id ever shown to the outage it was
  shown for and to the present state: an id of the running outage in this life of the Agent
  is the one the tracker would show again. `OutboxPart` says that whatever is signalled,
  queued, fingerprinted or answered carries an id that was shown.
- **Activity moments**: `MomentsTypeCorrect`, `RecoveriesCorrect`, `PraiseCorrect`.
  `RecoveriesHold` is inductive with the types: each observe keeps of the old events only
  those that agree with the outages it leaves. `PraiseEarned` needs `BaselinesTrue`: after a
  comparison the baseline of a queue, or of the snapshot it will be taken from, is the
  `pressed` of the history. The first snapshot sets none, being compared with nothing, and
  the second takes it from the first (`BaselineNoted`).
- **Call history**: `HistoryTypeCorrect`, `CleanDaysCorrect` (`CleanDaysTrue`), from
  `HistoryLimit + Lines <= TailRows + 1` alone. A row is overtaken by fewer calls than there
  are lines (`OvertakesFew`), so every later call than one that is kept is within the rows
  read (`LaterCallsAreKept`): a missed call of a praised day would be among the calls kept.
- **Presence**: `PresenceTypeCorrect`, `MissesCorrect`, `RecoveryCorrect` for any number of
  instances and any failures, `NoticesCorrect` for one instance whose handlers do not fail
  between a notice and its update. `CadenceInv` bounds the age of the document by the
  rounds since the last answer (`AgeBound`), and needs that an answer on its way is no
  older than the request (`AnswerIsFresh`). With fewer than two misses the bound is at most
  `2 * Interval + 3 * Longest`, which `PresenceAssumption` keeps within `LossAfter`. `Agree`
  says that `lostAt` and the last notice agree but for the handler between the two.
- **Last-active**: `LastActiveCorrect`. `LastActiveInv` adds that a phone known to be
  available has its true time in memory, which is what the next save of *all* values
  writes; without it a save for one phone could put back an older time of another. In a life
  that could not read the file (`unloaded`) it says nothing of memory until a save.
- **JTAPI bridge**: `OneBridgeCorrect` and `CallsFreshCorrect`. `OnlyHolderStarts` says that
  a thread that found no process still holds the lock and no process lives;
  `ReadInTime`, that the calls kept are at most a pipe's delay older than the last reading.
- **AMI sessions**: `SessionTypeCorrect` and `SnapshotCorrect` (`SnapshotTold`), for any PBX
  of `PbxAssumption` and lists of any length. `SessionInv` is about the packets collected,
  read and on their way as one sequence, `flow`: it has only what the PBX says to the actions
  sent, and no caller twice (`OnlyTold`); the list of each finished action that was not given
  up is whole, in order and in one piece within the collected part (`InTimeWhole`), however
  much was lost around it (`CutKeepsWhole`); and the end of the action being read is the last
  packet and comes right behind its whole list (`EndComesLast`), which is why a list of which
  the end is read is complete. A whole list means to the Agent what the PBX said
  (`FirstAndLastMoved`, `ContactStateWhole`, `CallersWhole`), and a part of it never more
  (`ToldIs`, `CallersTold`).
- **Enrollment**: `EnrollmentTypeCorrect`, and `TicketOnceCorrect` for any number of
  instances: its invariant, `TicketsUsed`, is that the ticket of every identity has its
  document, so that the batch of a second one fails. `OneIdentityCorrect`,
  `PairsOneAppCorrect` and `IdentityKeptCorrect` assume one instance. `PairingInv` says of
  a claim under way (`ClaimFits`) that its code is unclaimed or claimed by itself and that
  its id is the key's, or new and the key still without one; of a code (`CodeFits`) that
  an unclaimed one has paired nobody and a claimed one names an identity of its key; and
  of an Agent (`AgentFits`) that its id and its activation are of its own key.
- **Device registry**: `RegistryTypeCorrect`, `OneOwnerCorrect`, `CapacityCorrect`, for one
  instance. `OneOwner` is silent about the tokens of a handler at work; the invariant says
  of each step which tokens are in motion (`InMotion`), which documents may still hold them
  (`HoldersKnown`), what the handler knows (`TaskFits`) and that the room it found is still
  there when it writes (`RoomLeft`), which is where `register_own_device` differs: the wait
  for its body comes between. `NoneAssumption` keeps `None` apart from ids and tokens.
- **Rate limiter**: `LimiterTypeCorrect`, `WithinLimitsCorrect`, `TableBoundedCorrect`.
  `LimiterInv` is stronger than the limit at this moment: for every age `a` a window holds
  at least as many times of at most `a` as requests of at most `a` were counted in it, and
  a window that is gone has none (`NoneForgotten`). It holds because the times are in order
  (`OldestFirst`), so that `Popped` removes expired ones only, and because only idle windows
  are evicted (`IdleIsOld`).
- **Secure relay**: `ChannelTypeCorrect`, `CommandsFinalCorrect`, `SequenceCorrect`, for any
  number of failures. `PendingOpen`: the Agent answers only for commands that wait or whose
  answer has arrived, so no answer finds an expired one. `FileBehind`: the file is never
  ahead of memory. `NeverAhead`: no envelope is ahead of the next upload, also when the
  upload that made it got no answer, unless restarts have forgotten it or the one before it.
- **Usage**: `CountsKeptCorrect`, for any number of days and requests and one handler at a
  time. `UsageInv` says that the document and the archive are complete for their days
  (`DocumentFits`, `ArchiveFits`) and that what the handler read is still so
  (`HandlerFits`), with the day it read archived before its update replaces the map.

Only model-checked: everything under fairness (`OutboxDrains`, `WordingAnnounced`,
`QueuedIsTold`, `LossTold`, `RecoveryTold`, `EveryAppServed`, `CommandSettled`,
`FeedCatchesUp`, `BridgeComesBack`, `YeastarComesBack`), which is out of the prover's reach.
Every safety property of the passing runs is a theorem, some under a hypothesis named above
where the run is about one server or one instance.

## 5. What is not modelled

- **Interpretation** (the rest of `engine.py` and `history.py`, most of `pulse.py`): functions from a
  snapshot and the call history to texts and signals, without state. What the outbox and
  the trackers see of them is the inputs those modules allow. The aggregate tip tracker
  (`pulse.py:389-408`) is the time since which two phones or more have been unavailable; a
  snapshot with fewer, a failed one included, starts it over.
- **FreeSWITCH, Grandstream, CUCM snapshots**: one request and one answer per command, and
  the parsing of the answers. The two-second snapshot cache of the Yeastar client is only
  there as the pause between two snapshots.
- **Web pages, settings, installers, the login of the dashboard**: presentation and
  configuration.
- **`remove_device` with a registration that still waits in the outbox**: the next flush
  registers the app again (`relay.py:282`). It takes `DeviceRegistry` and `AgentOutbox`
  together; each is modelled alone.
- **A corrupt state file of the relay client**, and Firestore writes that are committed but answered with an
  error.
- **The loops of `main.py` as such**: each is the actions of the part it drives.
