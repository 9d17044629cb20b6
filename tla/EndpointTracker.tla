---------------------------- MODULE EndpointTracker ----------------------------
(***************************************************************************)
(* EndpointAvailabilitySignalTracker of src/pbxsense_agent/pulse.py: it    *)
(* turns the endpoint states of one PBX snapshot after another into the    *)
(* set of endpoints whose unavailable Signal is shown, and names each      *)
(* outage for the notifications.  main.py runs two of them, one for the    *)
(* phones and one for the trunks, inside the refresh of the home state     *)
(* that _snapshot_lock serialises; a Poll is one such refresh.             *)
(***************************************************************************)
EXTENDS Naturals

CONSTANTS
    Endpoints,            \* endpoints of the role the tracker looks at
    OutageConfirmation,   \* outage_confirmation
    RecoveryConfirmation, \* recovery_confirmation
    MaxTime,              \* bound: the clock
    MaxGap,               \* bound: time from one poll to the next
    NoTime                \* None, and the empty notification id

ASSUME TrackerAssumption ==
    /\ OutageConfirmation \in Nat
    /\ RecoveryConfirmation \in Nat
    /\ MaxTime \in Nat
    /\ MaxGap \in Nat \ {0}
    /\ NoTime \notin Nat

Times == Nat \cup {NoTime}

\* _EndpointSignalState.  A notification id is the endpoint and the time at
\* which the id is made.
EndpointStates ==
    [outage_started_at   : Times,
     recovery_started_at : Times,
     episode_notified    : BOOLEAN,
     signal_visible      : BOOLEAN,
     notification_id     : Times]

\* The state setdefault creates; an endpoint without a state has this one.
Fresh ==
    [outage_started_at   |-> NoTime,
     recovery_started_at |-> NoTime,
     episode_notified    |-> FALSE,
     signal_visible      |-> FALSE,
     notification_id     |-> NoTime]

\* What a snapshot says of one endpoint; "missing" is not listed at all.
Reports == {"down", "up", "missing"}

VARIABLES
    now,       \* observed_at of the last refresh
    states,    \* _states
    visible,   \* what the last observe returned
    reachable, \* did the last snapshot reach the PBX?
    downSince, \* history: first of the unbroken "down" reports of an endpoint
    alerts     \* history: notification ids it was shown with

trackerHistory == <<downSince, alerts>>
trackerVars == <<now, states, visible, reachable, trackerHistory>>

TrackerTypeOK ==
    /\ now \in Nat
    /\ states \in [Endpoints -> EndpointStates]
    /\ visible \subseteq Endpoints
    /\ reachable \in BOOLEAN
    /\ downSince \in [Endpoints -> Times]
    /\ alerts \in [Endpoints -> SUBSET Nat]

TrackerInit ==
    /\ now = 0
    /\ states = [e \in Endpoints |-> Fresh]
    /\ visible = {}
    /\ reachable = FALSE
    /\ downSince = [e \in Endpoints |-> NoTime]
    /\ alerts = [e \in Endpoints |-> {}]

-----------------------------------------------------------------------------
\* Variant with a fault: an outage within a recovery keeps the earlier id.
OutageStartedAgain(s, t) ==
    IF s.recovery_started_at # NoTime
    THEN [Fresh EXCEPT !.outage_started_at = t,
                       !.notification_id = s.notification_id]
    ELSE [s EXCEPT !.outage_started_at = IF @ = NoTime THEN t ELSE @]

\* Variant with a fault: an outage within a recovery does not alert again.
OutageStartedQuietly(s, t) ==
    [s EXCEPT !.recovery_started_at = NoTime,
              !.outage_started_at = IF @ = NoTime THEN t ELSE @]

\* When a report at time t says "down", an outage in the middle of a recovery
\* starts all over, any other goes on or starts.
OutageStarted(s, t) ==
    IF s.recovery_started_at # NoTime
    THEN [Fresh EXCEPT !.outage_started_at = t]
    ELSE [s EXCEPT !.outage_started_at = IF @ = NoTime THEN t ELSE @]

\* The outage is named when it starts.
OutageFrom(s, t) ==
    [OutageStarted(s, t) EXCEPT !.notification_id = IF @ = NoTime THEN t ELSE @]

\* Variant with a fault: the first report of an outage alerts.
ConfirmAtOnce(s, t) ==
    IF ~s.episode_notified
    THEN [s EXCEPT !.episode_notified = TRUE, !.signal_visible = TRUE]
    ELSE s

\* An outage that has lasted long enough alerts, once.
Confirm(s, t) ==
    IF ~s.episode_notified /\ t - s.outage_started_at >= OutageConfirmation
    THEN [s EXCEPT !.episode_notified = TRUE, !.signal_visible = TRUE]
    ELSE s

\* The state is dropped unless it has alerted and its recovery is not over.
RecoverFrom(s, t) ==
    IF \/ ~s.episode_notified
       \/ /\ s.recovery_started_at # NoTime
          /\ t - s.recovery_started_at >= RecoveryConfirmation
    THEN Fresh
    ELSE [s EXCEPT !.outage_started_at = NoTime,
                   !.signal_visible = FALSE,
                   !.recovery_started_at = IF @ = NoTime THEN t ELSE @]

Observed(s, report, t) ==
    CASE report = "down" -> Confirm(OutageFrom(s, t), t)
      [] report = "up" -> RecoverFrom(s, t)
      [] report = "missing" -> Fresh

\* Variant with a fault: a failed snapshot counts as one without endpoints.
PollForgets(t) ==
    /\ now' = t
    /\ reachable' = FALSE
    /\ visible' = {}
    /\ states' = [e \in Endpoints |-> Fresh]
    /\ UNCHANGED trackerHistory

\* A failed snapshot: observe returns the empty set and touches nothing.
PollUnreachable(t) ==
    /\ now' = t
    /\ reachable' = FALSE
    /\ visible' = {}
    /\ UNCHANGED <<states, trackerHistory>>

Since(times, reports, t) ==
    [e \in Endpoints |-> IF reports[e] # "down" THEN NoTime
                         ELSE IF times[e] = NoTime THEN t ELSE times[e]]

Poll(t, reports) ==
    /\ now' = t
    /\ reachable' = TRUE
    /\ states' = [e \in Endpoints |-> Observed(states[e], reports[e], t)]
    /\ visible' = {e \in Endpoints : states'[e].signal_visible}
    /\ downSince' = Since(downSince, reports, t)
    /\ alerts' = [e \in Endpoints |->
                     alerts[e] \cup {n \in {states'[e].notification_id} :
                                        states'[e].signal_visible}]

TrackerNext ==
    \E gap \in 1..MaxGap :
        /\ now + gap <= MaxTime
        /\ \/ PollUnreachable(now + gap)
           \/ \E reports \in [Endpoints -> Reports] : Poll(now + gap, reports)

TrackerSpec == TrackerInit /\ [][TrackerNext]_trackerVars

-----------------------------------------------------------------------------
(* Properties                                                              *)

\* The Signal is shown exactly while the PBX is reachable and every report
\* since OutageConfirmation or longer said the endpoint is down, however it
\* flapped before: no earlier alert suppresses it and no recovery prolongs it
\* (pulse.py observe, "Never suppress it").
ShownIffConfirmed ==
    \A e \in Endpoints :
        e \in visible <=> /\ reachable
                          /\ downSince[e] # NoTime
                          /\ now - downSince[e] >= OutageConfirmation

\* The notification id of a shown Signal belongs to the outage it is shown for
\* and to no earlier one, also after a flap and after snapshots that failed
\* (pulse.py notification_ids).
IdNamesOutage ==
    \A e \in visible : states[e].notification_id = downSince[e]

\* However an endpoint flaps, two outages it alerts for begin further apart than
\* the confirmation period, which bounds the pushes it can cause.
AlertsApart ==
    \A e \in Endpoints : \A a, b \in alerts[e] : a < b => a + OutageConfirmation < b
=============================================================================
