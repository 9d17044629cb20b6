--------------------------- MODULE ActivityMoments ---------------------------
(***************************************************************************)
(* ActivityTracker of src/pbxsense_agent/pulse.py: the Activity events of  *)
(* the home payload, found by comparing one PBX snapshot with the last     *)
(* healthy one - phones that came back, queues that cleared, trunks that   *)
(* recovered, new voicemail.  A Poll is one observe; the refresh of the    *)
(* home state serialises them.  A snapshot may leave anything out: the     *)
(* connectors read phones, trunks and queues in separate requests and go   *)
(* on without the ones that fail.                                          *)
(***************************************************************************)
EXTENDS Integers

CONSTANTS
    Offices,       \* what a PBX may have: [phones, queues, trunks, records]
    OutageWait,    \* phone_outage_confirmation
    RecoveryWait,  \* phone_recovery_confirmation
    Nothing

\* A queue has no callers, one, or "2+".  Records are calls abandoned in queues
\* and voicemail messages, as far as the history files have been read.
SnapshotsOf(o) ==
    [phones : [o.phones -> {"up", "down", "missing"}],
     queues : [o.queues -> 0..2 \cup {Nothing}],
     trunks : [o.trunks -> {"up", "calling", "down", "draining", "missing"}],
     abandoned : SUBSET o.records,
     voicemail : SUBSET o.records]

ASSUME MomentsAssumption ==
    /\ OutageWait \in Nat /\ RecoveryWait \in Nat
    /\ Nothing \notin Nat
    /\ \A o \in Offices :
          Nothing \notin SnapshotsOf(o) /\ \A r \in SUBSET o.records : r # Nothing

VARIABLES
    office,       \* which of the offices this Agent watches
    elapsed,      \* time since each phone's outage and recovery were first seen
    outstanding,  \* _outstanding_phone_outages
    reported,     \* _reported_phone_recoveries
    busyQueues,   \* _busy_queues: the abandoned calls known when it got busy
    awaitingCall, \* _recovered_trunks_waiting_for_call
    moment,       \* _previous: the last healthy snapshot
    activity,     \* _events; equal ones are told apart by their time only
    pressed       \* history: the calls known to be abandoned at the first snapshot
                  \* with two callers since the one that last showed a queue empty

momentVars ==
    <<office, elapsed, outstanding, reported, busyQueues, awaitingCall, moment,
      activity, pressed>>

Limit == IF OutageWait > RecoveryWait THEN OutageWait ELSE RecoveryWait

Durations == 0..Limit \cup {Nothing}

Snapshots == SnapshotsOf(office)

\* Two kinds of trunk report are of an endpoint that is down, one of them with
\* calls still on it.
Down(s) == {p \in office.phones : s.phones[p] = "down"}
Listed(s) == {p \in office.phones : s.phones[p] # "missing"}
TrunksDown(s) == {t \in office.trunks : s.trunks[t] \in {"down", "draining"}}
TrunksActive(s) == {t \in office.trunks : s.trunks[t] \in {"calling", "draining"}}
Waiting(s, q) == IF s.queues[q] = Nothing THEN 0 ELSE s.queues[q]

Events ==
    [kind : {"recovered"}, phones : SUBSET office.phones, all : BOOLEAN]
        \cup [kind : {"cleared", "quiet"}, queue : office.queues]
        \cup [kind : {"trunk"}, trunk : office.trunks]
        \cup [kind : {"voicemail"}]

MomentsTypeOK ==
    /\ office \in Offices
    /\ elapsed \in [office.phones -> [outage : Durations, recovery : Durations]]
    /\ outstanding \subseteq office.phones /\ reported \subseteq office.phones
    /\ \A q \in office.queues :
          /\ busyQueues[q] = Nothing \/ busyQueues[q] \subseteq office.records
          /\ pressed[q] = Nothing \/ pressed[q] \subseteq office.records
    /\ awaitingCall \subseteq office.trunks
    /\ moment = Nothing \/ moment \in Snapshots
    /\ activity \subseteq Events

MomentsInit ==
    /\ office \in Offices
    /\ elapsed = [p \in office.phones |-> [outage |-> Nothing, recovery |-> Nothing]]
    /\ outstanding = {} /\ reported = {} /\ awaitingCall = {} /\ activity = {}
    /\ busyQueues = [q \in office.queues |-> Nothing] /\ pressed = busyQueues
    /\ moment = Nothing

-----------------------------------------------------------------------------
(* Phones                                                                  *)

OrElse(d, default) == IF d = Nothing THEN default ELSE d

\* How long each phone has been down, and those whose outage is confirmed.
OutageOf(s, p) ==
    IF p \in Down(s) THEN OrElse(elapsed[p].outage, 0) ELSE Nothing

Confirmed(s) ==
    {p \in Down(s) : OutageOf(s, p) >= OutageWait}

\* A phone that is missing from the snapshot has not recovered.
Recovering(s) == ((outstanding \cup Confirmed(s)) \cap Listed(s)) \ Down(s)

RecoveryOf(s, p) ==
    IF p \in Recovering(s) THEN OrElse(elapsed[p].recovery, 0) ELSE Nothing

Recovered(s) ==
    {p \in Recovering(s) :
        p \notin reported \ Confirmed(s) /\ RecoveryOf(s, p) >= RecoveryWait}

\* The first healthy snapshot is compared with nothing.
HasMoment == moment # Nothing

NewlyRecovered(s) == IF HasMoment THEN Recovered(s) ELSE {}

StillOut(s) == (outstanding \cup Confirmed(s)) \ NewlyRecovered(s)

PhoneEvents(s) ==
    IF NewlyRecovered(s) = {} THEN {}
    ELSE {[kind |-> "recovered", phones |-> NewlyRecovered(s), all |-> StillOut(s) = {}]}

\* A confirmed outage ends a recovery; without an earlier snapshot recoveries
\* are left as they are.
Timed(s) ==
    [p \in office.phones |->
        [outage |-> OutageOf(s, p),
         recovery |-> IF p \in Confirmed(s) \cup NewlyRecovered(s) THEN Nothing
                      ELSE IF HasMoment THEN RecoveryOf(s, p)
                      ELSE elapsed[p].recovery]]

-----------------------------------------------------------------------------
(* Queues, trunks and voicemail                                            *)

\* Variant with a fault: the baseline is that of the last comparison.
BaselineOfLast(s, q) ==
    IF Waiting(moment, q) = 2 THEN moment.abandoned
    ELSE IF Waiting(s, q) = 2 THEN s.abandoned
    ELSE busyQueues[q]

\* A queue that is seen with two callers or more gets a baseline, the calls
\* known to be abandoned by then, if it has none.
Baseline(s, q) ==
    IF busyQueues[q] # Nothing THEN busyQueues[q]
    ELSE IF Waiting(moment, q) = 2 THEN moment.abandoned
    ELSE IF Waiting(s, q) = 2 THEN s.abandoned
    ELSE Nothing

Cleared(s) == {q \in office.queues : Waiting(moment, q) > 0 /\ Waiting(s, q) = 0}

QueueEvents(s) ==
    {[kind |-> "cleared", queue |-> q] : q \in Cleared(s)}
        \cup {[kind |-> "quiet", queue |-> q] :
                 q \in {c \in Cleared(s) : Baseline(s, c) = s.abandoned}}

Busy(s) ==
    [q \in office.queues |-> IF q \in Cleared(s) THEN Nothing ELSE Baseline(s, q)]

\* A trunk that is no longer reported down waits for a call.
BackUp(s) == awaitingCall \cup (TrunksDown(moment) \ TrunksDown(s))

TrunkEvents(s) ==
    {[kind |-> "trunk", trunk |-> t] : t \in BackUp(s) \cap TrunksActive(s)}

\* What the history variable takes from a snapshot.
PressedSince(s, q) ==
    IF Waiting(s, q) = 0 THEN Nothing
    ELSE IF pressed[q] = Nothing /\ Waiting(s, q) = 2 THEN s.abandoned
    ELSE pressed[q]

VoicemailEvents(s) ==
    IF s.voicemail \subseteq moment.voicemail THEN {} ELSE {[kind |-> "voicemail"]}

-----------------------------------------------------------------------------

\* _activity_event_is_still_current
StillCurrent(e, s) ==
    CASE e.kind = "recovered" ->
            IF e.all THEN Down(s) = {} ELSE e.phones \cap Down(s) = {}
      [] e.kind = "cleared" -> Waiting(s, e.queue) = 0
      [] OTHER -> TRUE

NewEvents(s) ==
    IF HasMoment
    THEN PhoneEvents(s) \cup QueueEvents(s) \cup TrunkEvents(s) \cup VoicemailEvents(s)
    ELSE {}

\* Variant with a fault: an event is only checked when it is recorded.
KeptOnce(s) == activity \cup {e \in NewEvents(s) : StillCurrent(e, s)}

Kept(s) == {e \in activity \cup NewEvents(s) : StillCurrent(e, s)}

Observe(s) ==
    /\ elapsed' = Timed(s)
    /\ outstanding' = StillOut(s)
    /\ reported' = (reported \ Confirmed(s)) \cup NewlyRecovered(s)
    /\ IF HasMoment
       THEN /\ busyQueues' = Busy(s)
            /\ awaitingCall' = BackUp(s) \ TrunksActive(s)
       ELSE UNCHANGED <<busyQueues, awaitingCall>>
    /\ activity' = Kept(s)
    /\ moment' = s
    /\ pressed' = [q \in office.queues |-> PressedSince(s, q)]
    /\ UNCHANGED office

\* A snapshot that did not reach the PBX only lets old entries go (Expire).
ObservePBX == \E s \in Snapshots : Observe(s)

Longer(d) == IF d = Nothing THEN Nothing ELSE IF d < Limit THEN d + 1 ELSE d

\* A second passes.
Passes ==
    /\ elapsed' = [p \in office.phones |->
                      [outage |-> Longer(elapsed[p].outage),
                       recovery |-> Longer(elapsed[p].recovery)]]
    /\ UNCHANGED <<office, outstanding, reported, busyQueues, awaitingCall, moment>>
    /\ UNCHANGED <<activity, pressed>>

\* Events and recoveries of more than a day ago are dropped at the end of an
\* observe.
Expire ==
    /\ \E old \in SUBSET activity : activity' = activity \ old
    /\ \E old \in SUBSET reported : reported' = reported \ old
    /\ UNCHANGED <<office, elapsed, outstanding, busyQueues, awaitingCall, moment, pressed>>

MomentsNext == ObservePBX \/ Passes \/ Expire

MomentsSpec == MomentsInit /\ [][MomentsNext]_momentVars

-----------------------------------------------------------------------------
(* Properties                                                              *)

\* An event that says phones are back is never shown beside an unfinished outage
\* of one of them, nor "All monitored phones are reachable again" beside any:
\* through flapping, snapshots with phones left out and the delays of both
\* confirmations (pulse.py observe, _activity_event_is_still_current).
RecoveriesHold ==
    \A e \in activity :
        e.kind = "recovered" =>
            /\ e.phones \cap outstanding = {}
            /\ e.all => outstanding = {}

\* A queue that empties is praised for its busy period just if the calls known to
\* be abandoned are those of the first snapshot that showed two callers, however
\* many snapshots of it, of other queues and of none lie between (pulse.py
\* _record_transitions: "Waiting callers were cleared without a new abandoned
\* queue call.").
PraiseEarned ==
    [][\A q \in office.queues :
          LET praise == [kind |-> "quiet", queue |-> q]
              earned == /\ HasMoment
                        /\ Waiting(moment, q) > 0 /\ Waiting(moment', q) = 0
                        /\ pressed[q] = moment'.abandoned
          IN  /\ praise \in activity' \ activity => earned
              /\ earned => praise \in activity']_momentVars
=============================================================================
