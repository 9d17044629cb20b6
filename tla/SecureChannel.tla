---------------------------- MODULE SecureChannel ----------------------------
(***************************************************************************)
(* The secure internet relay: the Agent's poll (internet_relay.py, and     *)
(* relay.py publish_secure_snapshot), the relay's handlers secure_exchange *)
(* and publish_secure_snapshots, and the operator's ping (push_relay/      *)
(* app.py).  A poll exchanges control frames when that is due, and then    *)
(* publishes one envelope per paired app if the snapshot, the status of    *)
(* the channel in it or the recipients differ from what was last stored.   *)
(*                                                                         *)
(* A request may fail before the relay is done, or be done with its answer *)
(* lost.  Polls are 15 seconds apart, which is also Cloud Run's time limit *)
(* for a request: one poll's request is not overtaken by the next one's.   *)
(* What was uploaded is remembered in memory and then saved; a save that   *)
(* fails leaves the state file behind until another operation of the Agent *)
(* saves the same state, or a restart goes back to the file.               *)
(***************************************************************************)
EXTENDS Integers, FiniteSets

CONSTANTS
    Apps,       \* ids of relay devices; one is never used twice
    Keys,       \* public keys an app may register
    Homes,      \* home payloads, but for the status of the channel
    Commands,   \* ids of commands
    MaxTrouble, \* bound: failed requests, failed saves and restarts
    MaxChanges, \* bound: changes of the payload and of the registrations
    Absent

ASSUME ChannelAssumption ==
    /\ MaxTrouble \in Nat /\ MaxChanges \in Nat
    /\ Absent \notin Keys \cup Homes

VARIABLES
    poller,     \* the Agent's SecureInternetRelay and the device list it caches
    remembered, \* the fingerprint and the sequence of the Agent's state
    file,       \* those in the state file
    forgotten,  \* history: the highest sequence lost by a restart that found
                \* the state file behind
    home,       \* what _home_payload returns now
    keys,       \* the relay's devices: encryptionPublicKey
    gone,       \* apps that were removed
    envelopes,  \* secureSnapshots/latest of every device
    commands,   \* the state of every command, "none" before it is queued
    overdue,    \* commands whose expiresAt passed while they were queued
    trouble, changes

channelVars ==
    <<poller, remembered, file, forgotten, home, keys, gone, envelopes, commands,
      overdue, trouble, changes>>

memory == <<remembered, file, forgotten>>
agentSide == <<poller, memory>>
relaySide == <<envelopes, commands>>
outside == <<home, keys, gone, overdue, changes>>

Recipients == [Apps -> Keys \cup {Absent}]

Pollers ==
    [phase : {"idle", "ask", "list", "upload", "stopped"},
     pending : SUBSET Commands, due : BOOLEAN, connected : BOOLEAN,
     listed : Recipients \cup {Absent},
     home : Homes \cup {Absent}, status : BOOLEAN]

Fingerprints == [home : Homes, status : BOOLEAN, listed : Recipients]

ChannelTypeOK ==
    /\ poller \in Pollers
    /\ remembered.print \in Fingerprints \cup {Absent} /\ remembered.sequence \in Nat
    /\ file.print \in Fingerprints \cup {Absent} /\ file.sequence \in Nat
    /\ forgotten \in Nat
    /\ home \in Homes /\ keys \in Recipients /\ gone \subseteq Apps
    /\ \A d \in Apps : envelopes[d] = Absent \/
          /\ envelopes[d].sequence \in Nat
          /\ envelopes[d].home \in Homes /\ envelopes[d].key \in Keys
    /\ commands \in [Commands -> {"none", "queued", "completed", "expired"}]
    /\ overdue \subseteq Commands
    /\ trouble \in 0..MaxTrouble /\ changes \in 0..MaxChanges

Nobody == [d \in Apps |-> Absent]

\* A session: the due exchange, the pending responses, the status and the list
\* of devices live in memory.  A list that is to be read again is left out.
NewSession ==
    [phase |-> "idle", pending |-> {}, due |-> TRUE, connected |-> FALSE,
     listed |-> Absent, home |-> Absent, status |-> FALSE]

ChannelInit ==
    /\ poller = NewSession
    /\ remembered = [print |-> Absent, sequence |-> 0]
    /\ file = remembered /\ forgotten = 0
    /\ home \in Homes
    /\ keys = Nobody /\ gone = {}
    /\ envelopes = [d \in Apps |-> Absent]
    /\ commands = [c \in Commands |-> "none"]
    /\ overdue = {} /\ trouble = 0 /\ changes = 0

-----------------------------------------------------------------------------
(* The Agent                                                               *)

Ended(p, ok) ==
    [p EXCEPT !.phase = "idle", !.connected = ok, !.home = Absent, !.status = FALSE]

Done(p) == Ended(p, TRUE)
Failed(p) == Ended(p, FALSE)

\* Variant with a fault: the status of the channel is left out of the fingerprint.
FingerprintOfPayload(p) == [home |-> p.home, status |-> FALSE, listed |-> p.listed]

Fingerprint(p) == [home |-> p.home, status |-> p.status, listed |-> p.listed]

Addressed(p) == {d \in Apps : p.listed[d] # Absent}

\* With the device list at hand: nothing to do, or an upload.
Compared(p) ==
    IF Fingerprint(p) = remembered.print \/ Addressed(p) = {}
    THEN Done(p)
    ELSE [p EXCEPT !.phase = "upload"]

\* The payload is read, with the status of the channel in it.
Published(p) ==
    LET q == [p EXCEPT !.home = home, !.status = p.connected]
    IN  IF p.listed # Absent THEN Compared(q) ELSE [q EXCEPT !.phase = "list"]

Wake ==
    /\ poller.phase = "idle"
    /\ poller' = IF poller.due \/ poller.pending # {}
                 THEN [poller EXCEPT !.phase = "ask"]
                 ELSE Published(poller)
    /\ UNCHANGED <<memory, relaySide, outside, trouble>>

\* Five minutes pass since the last exchange; since the list was read.
DueAgain ==
    /\ poller.phase # "stopped" /\ ~poller.due
    /\ poller' = [poller EXCEPT !.due = TRUE]
    /\ UNCHANGED <<memory, relaySide, outside, trouble>>

ListAges ==
    /\ poller.listed # Absent /\ poller.phase # "upload"
    /\ poller' = [poller EXCEPT !.listed = Absent]
    /\ UNCHANGED <<memory, relaySide, outside, trouble>>

Troubled == trouble < MaxTrouble /\ trouble' = trouble + 1

Larger(a, b) == IF a > b THEN a ELSE b

\* A request fails or its answer is lost: poll catches the OSError.  If the
\* answer breaks off, http.client raises IncompleteRead, which poll does not
\* catch and _internet_relay_loop does not either: nothing reads its session again.
Broken ==
    /\ Troubled
    /\ \/ poller' = Failed(poller)
       \/ poller' = [NewSession EXCEPT !.phase = "stopped"]
    /\ UNCHANGED memory

\* Another operation on the same state saves it: the outbox, the enrollment, an
\* activation.  The lock keeps it out of an upload.
SaveState ==
    /\ poller.phase \notin {"list", "upload"}
    /\ file # remembered /\ file' = remembered
    /\ UNCHANGED <<poller, remembered, forgotten, relaySide, outside, trouble>>

\* Variant with a fault: the sequence is not in the file.
ReloadedPrint == [file EXCEPT !.sequence = 0]

Reloaded == file

Restart ==
    /\ Troubled
    /\ poller' = NewSession
    /\ remembered' = Reloaded
    /\ forgotten' = IF remembered.sequence > file.sequence
                    THEN Larger(forgotten, remembered.sequence) ELSE forgotten
    /\ UNCHANGED <<file, relaySide, outside>>

-----------------------------------------------------------------------------
(* secure_exchange                                                         *)

\* The responses are written first; then the queued commands are listed.  The
\* Agent leaves out those that are overdue by its own clock.
\* Variant with a fault: an expired command is passed over and stays queued.
ExchangedLeavingExpired(done, late) ==
    [c \in Commands |-> IF c \in done THEN "completed" ELSE commands[c]]

Exchanged(done, late) ==
    [c \in Commands |-> IF c \in done THEN "completed"
                        ELSE IF c \in late THEN "expired" ELSE commands[c]]

QueuedAfter(done) == {c \in Commands \ done : commands[c] = "queued"}

\* Variant with a fault: the commands are listed before the responses are written.
ListedFirst(done, late) == done # {} => late = QueuedAfter({}) \cap overdue

InOrder(done, late) == late # {} => done = poller.pending

\* _accept_commands: those that are overdue by the Agent's clock are left out.
Accepted(late) == SUBSET (QueuedAfter(poller.pending) \ late)

Exchange ==
    LET late == QueuedAfter(poller.pending) \cap overdue
    IN  /\ poller.phase = "ask"
        /\ commands' = Exchanged(poller.pending, late)
        /\ UNCHANGED <<envelopes, outside>>
        /\ \/ \E accepted \in Accepted(late) :
                 /\ poller' = Published([poller EXCEPT !.pending = accepted, !.due = FALSE])
                 /\ UNCHANGED <<memory, trouble>>
           \/ Broken

\* The exchange is refused, or fails with part of its writes done.
ExchangeFails ==
    /\ poller.phase = "ask"
    /\ \E done \in SUBSET poller.pending, late \in SUBSET overdue :
          /\ late \subseteq QueuedAfter(done)
          /\ InOrder(done, late)
          /\ commands' = Exchanged(done, late)
    /\ Broken
    /\ UNCHANGED <<envelopes, outside>>

-----------------------------------------------------------------------------
(* list_devices and publish_secure_snapshots                               *)

ListDevices ==
    /\ poller.phase = "list"
    /\ \/ /\ poller' = Compared([poller EXCEPT !.listed = keys])
          /\ UNCHANGED <<memory, trouble>>
       \/ Broken
    /\ UNCHANGED <<relaySide, outside>>

NextSequence == remembered.sequence + 1

\* Envelopes are stored one by one, each for the key that was listed.
StoredEnvelopes(written) ==
    [d \in Apps |->
        IF d \in written
        THEN [sequence |-> NextSequence, home |-> poller.home, key |-> poller.listed[d]]
        ELSE envelopes[d]]

\* Devices that no longer exist are skipped.
Reached == {d \in Addressed(poller) : keys[d] # Absent}

Remembered == [print |-> Fingerprint(poller), sequence |-> NextSequence]

\* Only an upload that stored something is remembered and saved.  A save that
\* raises, before or after it replaced the file, fails the poll.
Recorded ==
    \/ Reached = {} /\ poller' = Done(poller) /\ UNCHANGED <<remembered, file, trouble>>
    \/ /\ Reached # {}
       /\ remembered' = Remembered
       /\ \/ file' = Remembered /\ poller' = Done(poller) /\ UNCHANGED trouble
          \/ file' \in {file, Remembered} /\ poller' = Failed(poller) /\ Troubled

Upload ==
    /\ poller.phase = "upload"
    /\ envelopes' = StoredEnvelopes(Reached)
    /\ \/ Recorded /\ UNCHANGED forgotten
       \/ Broken
    /\ UNCHANGED <<commands, outside>>

UploadFails ==
    /\ poller.phase = "upload"
    /\ \E written \in SUBSET Reached : envelopes' = StoredEnvelopes(written)
    /\ Broken
    /\ UNCHANGED <<commands, outside>>

-----------------------------------------------------------------------------
(* The PBX, the apps and the operator                                      *)

Changed == changes < MaxChanges /\ changes' = changes + 1

HomeChanges ==
    /\ Changed
    /\ home' \in Homes \ {home}
    /\ UNCHANGED <<agentSide, relaySide, keys, gone, overdue, trouble>>

\* An app registers a key or is removed, at the relay or through the Agent,
\* which then reads the device list again; it does neither while it publishes.
Relist ==
    \/ UNCHANGED poller
    \/ /\ poller.phase \notin {"list", "upload"}
       /\ poller' = [poller EXCEPT !.listed = Absent]

RegisterKey(d, k) ==
    /\ Changed
    /\ d \notin gone /\ keys[d] # k
    /\ keys' = [keys EXCEPT ![d] = k]
    /\ Relist
    /\ UNCHANGED <<memory, relaySide, home, gone, overdue, trouble>>

RemoveApp(d) ==
    /\ Changed
    /\ keys[d] # Absent
    /\ keys' = [keys EXCEPT ![d] = Absent]
    /\ gone' = gone \cup {d}
    /\ Relist
    /\ UNCHANGED <<memory, relaySide, home, overdue, trouble>>

\* queue_secure_ping; a ping expires after a minute, which matters while it waits.
QueuePing(c) ==
    /\ commands[c] = "none"
    /\ commands' = [commands EXCEPT ![c] = "queued"]
    /\ UNCHANGED <<agentSide, envelopes, outside, trouble>>

Expires(c) ==
    /\ commands[c] = "queued"
    /\ overdue' = overdue \cup {c}
    /\ UNCHANGED <<agentSide, relaySide, home, keys, gone, changes, trouble>>

-----------------------------------------------------------------------------

ChannelNext ==
    \/ Wake \/ DueAgain \/ ListAges \/ SaveState \/ Restart
    \/ Exchange \/ ExchangeFails \/ ListDevices \/ Upload \/ UploadFails
    \/ HomeChanges
    \/ \E d \in Apps : RemoveApp(d) \/ \E k \in Keys : RegisterKey(d, k)
    \/ \E c \in Commands : QueuePing(c) \/ Expires(c)

\* The loop polls for ever, requests get an answer in the end (MaxTrouble bounds
\* those that do not), and time passes.
Polling == Wake \/ Exchange \/ ListDevices \/ Upload

ChannelFairness ==
    /\ WF_channelVars(Polling)
    /\ WF_channelVars(ListAges)
    /\ WF_channelVars(DueAgain)
    /\ \A c \in Commands : WF_channelVars(Expires(c))

ChannelSpec == ChannelInit /\ [][ChannelNext]_channelVars /\ ChannelFairness

-----------------------------------------------------------------------------
(* Properties                                                              *)

\* A command that is settled stays as it is, whatever is answered twice or late:
\* an expired one is not reported completed (app.py secure_exchange).
CommandsFinal ==
    [][\A c \in Commands :
          commands[c] \in {"completed", "expired"} => commands'[c] = commands[c]]_channelVars

\* The envelope of an app goes back only to a sequence that a restart forgot,
\* since no save of it had reached the file, and never to one that is in the file:
\* through lost answers, failed saves and restarts (relay.py
\* publish_secure_snapshot, _save, _load).
FallsOnlyIfForgotten ==
    [][\A d \in Apps :
          envelopes'[d] # envelopes[d] =>
              /\ envelopes'[d].sequence > file.sequence
              /\ \/ envelopes[d] = Absent
                 \/ envelopes'[d].sequence >= envelopes[d].sequence
                 \/ envelopes'[d].sequence <= forgotten]_channelVars

Stopped == poller.phase = "stopped"

\* read_secure_snapshot while the heartbeats arrive, which are another loop's: the
\* stored envelope is available.
ShownLive(d) == envelopes[d] # Absent

Serves(d, h, k) ==
    envelopes[d] # Absent /\ envelopes[d].home = h /\ envelopes[d].key = k

\* While the loop runs, a payload that stays is in the envelope of every app in
\* the end, readable with the key the app has registered - also when it is a
\* payload stored before, and the answer to a newer one was lost (relay.py
\* publish_secure_snapshot, internet_relay.py poll).
EveryAppServed ==
    \A d \in Apps, h \in Homes, k \in Keys :
        <>[](home = h /\ keys[d] = k /\ ~Stopped) => <>[]Serves(d, h, k)

\* While the loop runs, a queued command is completed or expires (internet_relay.py
\* _accept_commands, app.py secure_exchange).
CommandSettled ==
    \A c \in Commands :
        commands[c] = "queued" ~> commands[c] \in {"completed", "expired"} \/ Stopped

\* A payload that stays is the one shown to an app whose Agent's heartbeats arrive,
\* if any is shown (docs/TROUBLESHOOTING.md:146-149: "this prevents stale PBX state
\* appearing live").
LiveMeansCurrent ==
    \A d \in Apps, h \in Homes, k \in Keys :
        <>[](home = h /\ keys[d] = k) => <>[](ShownLive(d) => Serves(d, h, k))
=============================================================================
