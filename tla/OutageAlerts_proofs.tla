-------------------------- MODULE OutageAlerts_proofs --------------------------
(***************************************************************************)
(* Proofs about EndpointTracker and about OutageAlerts, in which it feeds  *)
(* the Agent's outbox, for any endpoints and confirmation periods.         *)
(***************************************************************************)
EXTENDS OutageAlerts, AgentOutbox_proofs

-----------------------------------------------------------------------------
(* What observe does to the state of one endpoint                          *)

\* An outage that began at time d and, if it was long enough at time t, alerted.
InOutage(s, d, t) ==
    /\ s \in EndpointStates
    /\ s.outage_started_at = d
    /\ s.recovery_started_at = NoTime
    /\ s.notification_id = d
    /\ s.signal_visible <=> s.episode_notified
    /\ s.episode_notified => d + OutageConfirmation <= t

\* No outage: nothing is known, or an alert waits for the end of the recovery.
Resting(s) ==
    /\ s \in EndpointStates
    /\ s.outage_started_at = NoTime
    /\ ~s.signal_visible
    /\ s = Fresh \/ (s.episode_notified /\ s.recovery_started_at # NoTime)

LEMMA FreshRests == Resting(Fresh)
<1>1. Fresh \in EndpointStates
  BY DEF Fresh, EndpointStates, Times
<1>2. Fresh.outage_started_at = NoTime /\ Fresh.signal_visible = FALSE
  BY DEF Fresh
<1> QED BY <1>1, <1>2 DEF Resting

\* An outage starts with its first "down" report and is named after it.
LEMMA OutageStarts ==
    ASSUME NEW s, Resting(s), NEW t \in Nat
    PROVE  /\ InOutage(OutageFrom(s, t), t, t)
           /\ ~OutageFrom(s, t).episode_notified
<1> USE TrackerAssumption
<1> DEFINE new == [Fresh EXCEPT !.outage_started_at = t, !.notification_id = t]
<1>1. OutageFrom(s, t) = new
  <2>1. OutageStarted(s, t) = [Fresh EXCEPT !.outage_started_at = t]
    <3>1. CASE s = Fresh
      BY <3>1 DEF OutageStarted, Fresh
    <3>2. CASE s.recovery_started_at # NoTime
      BY <3>2 DEF OutageStarted
    <3> QED BY <3>1, <3>2 DEF Resting
  <2>2. [Fresh EXCEPT !.outage_started_at = t].notification_id = NoTime
    BY DEF Fresh
  <2>3. OutageFrom(s, t) =
            [[Fresh EXCEPT !.outage_started_at = t] EXCEPT !.notification_id = t]
    BY <2>1, <2>2 DEF OutageFrom
  <2> QED BY <2>3 DEF Fresh
<1>2. InOutage(new, t, t) /\ ~new.episode_notified
  BY DEF InOutage, Fresh, EndpointStates, Times
<1> QED BY <1>1, <1>2

\* A further "down" report leaves a running outage as it is.
LEMMA OutageGoesOn ==
    ASSUME NEW d \in Nat, NEW u \in Nat, NEW s, InOutage(s, d, u), NEW t \in Nat
    PROVE  OutageFrom(s, t) = s
<1>1. s \in EndpointStates /\ d # NoTime
  BY TrackerAssumption DEF InOutage
<1> QED BY <1>1 DEF InOutage, OutageFrom, OutageStarted, EndpointStates

\* The confirmation alerts exactly when the outage is long enough.
LEMMA ConfirmAlerts ==
    ASSUME NEW d \in Nat, NEW t \in Nat, NEW s, InOutage(s, d, t)
    PROVE  /\ InOutage(Confirm(s, t), d, t)
           /\ Confirm(s, t).signal_visible <=> t - d >= OutageConfirmation
<1> USE TrackerAssumption
<1>1. s \in EndpointStates
  BY DEF InOutage
<1>2. CASE ~s.episode_notified /\ t - d >= OutageConfirmation
  <2>1. Confirm(s, t) = [s EXCEPT !.episode_notified = TRUE,
                                  !.signal_visible = TRUE]
    BY <1>2 DEF Confirm, InOutage
  <2> DEFINE n == [s EXCEPT !.episode_notified = TRUE, !.signal_visible = TRUE]
  <2>2. /\ n \in EndpointStates
        /\ n.outage_started_at = s.outage_started_at
        /\ n.recovery_started_at = s.recovery_started_at
        /\ n.notification_id = s.notification_id
        /\ n.signal_visible = TRUE
        /\ n.episode_notified = TRUE
    BY <1>1 DEF EndpointStates
  <2> HIDE DEF n
  <2>3. InOutage(n, d, t)
    BY <1>2, <2>2 DEF InOutage
  <2> QED BY <1>2, <2>1, <2>2, <2>3 DEF n
<1>3. CASE ~(~s.episode_notified /\ t - d >= OutageConfirmation)
  <2>1. Confirm(s, t) = s
    BY <1>3 DEF Confirm, InOutage
  <2> QED BY <1>1, <1>3, <2>1 DEF InOutage, EndpointStates
<1> QED BY <1>2, <1>3

\* An "up" report ends every outage.
LEMMA RecoveryRests ==
    ASSUME NEW s \in EndpointStates, NEW t \in Nat
    PROVE  Resting(RecoverFrom(s, t))
<1> USE TrackerAssumption
<1>1. CASE RecoverFrom(s, t) = Fresh
  BY <1>1, FreshRests
<1>2. CASE RecoverFrom(s, t) # Fresh
  <2>1. /\ s.episode_notified
        /\ RecoverFrom(s, t) =
              [s EXCEPT !.outage_started_at = NoTime,
                        !.signal_visible = FALSE,
                        !.recovery_started_at = IF @ = NoTime THEN t ELSE @]
    BY <1>2 DEF RecoverFrom
  <2> QED BY <2>1 DEF Resting, EndpointStates, Times
<1> QED BY <1>1, <1>2

-----------------------------------------------------------------------------
(* The inductive invariant                                                 *)

\* The state of an endpoint follows from the reports of it up to time t.
Follows(s, d, t) ==
    IF d = NoTime THEN Resting(s)
    ELSE d <= t /\ InOutage(s, d, t)

\* Alerts up to time t, of which the running outage may be the last.
AlertsFit(A, d, t) ==
    /\ \A a \in A : a + OutageConfirmation <= t
    /\ d # NoTime => \A a \in A : a = d \/ a + OutageConfirmation < d
    /\ \A a, b \in A : a < b => a + OutageConfirmation < b

TrackerInv ==
    /\ TrackerTypeOK
    /\ \A e \in Endpoints : Follows(states[e], downSince[e], now)
    /\ \A e \in Endpoints : AlertsFit(alerts[e], downSince[e], now)
    /\ \A e \in Endpoints :
          e \in visible <=> reachable /\ states[e].signal_visible
    /\ reachable => \A e \in Endpoints :
          downSince[e] # NoTime =>
              (states[e].signal_visible <=> now - downSince[e] >= OutageConfirmation)

LEMMA TrackerInvInit == TrackerInit => TrackerInv
<1> SUFFICES ASSUME TrackerInit PROVE TrackerInv
  OBVIOUS
<1>1. Fresh \in EndpointStates /\ Fresh.signal_visible = FALSE
  BY DEF Fresh, EndpointStates, Times
<1>2. \A e \in Endpoints : Follows(states[e], downSince[e], now)
  BY FreshRests DEF TrackerInit, Follows
<1> QED BY <1>1, <1>2 DEF TrackerInit, TrackerInv, TrackerTypeOK, AlertsFit, Times

\* What one report makes of an endpoint.
LEMMA ObservedFollows ==
    ASSUME NEW s, NEW d \in Times, NEW u \in Nat, Follows(s, d, u),
           NEW t \in Nat, u < t, NEW report \in Reports,
           NEW d2, d2 = IF report # "down" THEN NoTime
                        ELSE IF d = NoTime THEN t ELSE d
    PROVE  /\ Follows(Observed(s, report, t), d2, t)
           /\ d2 # NoTime =>
                 (Observed(s, report, t).signal_visible
                     <=> t - d2 >= OutageConfirmation)
<1> USE TrackerAssumption
<1>1. s \in EndpointStates
  BY DEF Follows, Resting, InOutage
<1>2. CASE report = "down"
  <2>1. Observed(s, report, t) = Confirm(OutageFrom(s, t), t)
    BY <1>2 DEF Observed
  <2>2. CASE d = NoTime
    <3>1. d2 = t /\ Resting(s)
      BY <1>2, <2>2 DEF Follows
    <3>2. InOutage(OutageFrom(s, t), t, t)
      BY <3>1, OutageStarts
    <3> QED BY <2>1, <3>1, <3>2, ConfirmAlerts DEF Follows
  <2>3. CASE d # NoTime
    <3>1. d2 = d /\ d \in Nat /\ d <= u /\ InOutage(s, d, u)
      BY <1>2, <2>3 DEF Follows, Times
    <3>2. OutageFrom(s, t) = s
      BY <3>1, OutageGoesOn
    <3>3. InOutage(s, d, t)
      BY <3>1 DEF InOutage
    <3>4. /\ InOutage(Confirm(s, t), d, t)
          /\ Confirm(s, t).signal_visible <=> t - d >= OutageConfirmation
      BY <3>1, <3>3, ConfirmAlerts
    <3> QED BY <2>1, <3>1, <3>2, <3>4 DEF Follows
  <2> QED BY <2>2, <2>3
<1>3. CASE report = "up"
  <2>1. Observed(s, report, t) = RecoverFrom(s, t) /\ d2 = NoTime
    BY <1>3 DEF Observed
  <2> QED BY <1>1, <2>1, RecoveryRests DEF Follows
<1>4. CASE report = "missing"
  <2>1. Observed(s, report, t) = Fresh /\ d2 = NoTime
    BY <1>4 DEF Observed
  <2> QED BY <2>1, FreshRests DEF Follows
<1> QED BY <1>2, <1>3, <1>4 DEF Reports

\* A new alert is of an outage that began after the earlier alerts were due.
LEMMA AlertsStep ==
    ASSUME NEW A \in SUBSET Nat, NEW d \in Times, NEW u \in Nat,
           AlertsFit(A, d, u), d # NoTime => d <= u,
           NEW t \in Nat, u < t, NEW down \in BOOLEAN,
           NEW d2, d2 = IF ~down THEN NoTime ELSE IF d = NoTime THEN t ELSE d,
           NEW B \in SUBSET Nat,
           \A b \in B : b \in A \/ (b = d2 /\ d2 + OutageConfirmation <= t)
    PROVE  AlertsFit(B, d2, t)
<1> USE TrackerAssumption
<1>1. d # NoTime => d \in Nat
  BY DEF Times
<1>2. d2 # NoTime => /\ d2 \in Nat
                     /\ \A a \in A : a = d2 \/ a + OutageConfirmation < d2
  BY <1>1 DEF AlertsFit
<1>3. \A b \in B : b + OutageConfirmation <= t
  BY <1>2 DEF AlertsFit
<1>4. d2 # NoTime => \A b \in B : b = d2 \/ b + OutageConfirmation < d2
  BY <1>2
<1>5. ASSUME NEW a \in B, NEW b \in B, a < b
      PROVE  a + OutageConfirmation < b
  <2>1. CASE a \in A /\ b \in A
    BY <2>1, <1>5 DEF AlertsFit
  <2>2. CASE b \notin A
    <3>1. b = d2 /\ d2 \in Nat /\ a # d2
      BY <2>2, <1>5
    <3> QED BY <3>1, <1>4
  <2>3. CASE a \notin A
    <3>1. a = d2 /\ d2 \in Nat /\ b # d2
      BY <2>3, <1>5
    <3>2. b + OutageConfirmation < d2
      BY <3>1, <1>4
    <3>3. b + OutageConfirmation < a /\ a \in Nat /\ b \in Nat
      BY <3>1, <3>2
    <3>4. ~(a < b)
      BY ONLY <3>3, TrackerAssumption
    <3> QED BY <3>4, <1>5
  <2> QED BY <2>1, <2>2, <2>3
<1> QED BY <1>3, <1>4, <1>5 DEF AlertsFit

LEMMA PollStep ==
    ASSUME TrackerInv, NEW t \in Nat, now < t,
           NEW reports \in [Endpoints -> Reports], Poll(t, reports)
    PROVE  TrackerInv'
<1> USE TrackerAssumption
<1>1. /\ now' = t /\ reachable' = TRUE
      /\ states' = [e \in Endpoints |-> Observed(states[e], reports[e], t)]
      /\ visible' = {e \in Endpoints : states'[e].signal_visible}
      /\ downSince' = Since(downSince, reports, t)
      /\ alerts' = [e \in Endpoints |->
                       alerts[e] \cup {n \in {states'[e].notification_id} :
                                          states'[e].signal_visible}]
  BY DEF Poll
<1>3. downSince' \in [Endpoints -> Times]
  BY <1>1 DEF Since, TrackerInv, TrackerTypeOK, Times
<1>4. ASSUME NEW e \in Endpoints
      PROVE  /\ Follows(states'[e], downSince'[e], t)
             /\ downSince'[e] # NoTime =>
                   (states'[e].signal_visible
                       <=> t - downSince'[e] >= OutageConfirmation)
  <2>1. states'[e] = Observed(states[e], reports[e], t)
    BY <1>1
  <2>2. downSince'[e] = IF reports[e] # "down" THEN NoTime
                        ELSE IF downSince[e] = NoTime THEN t ELSE downSince[e]
    BY <1>1 DEF Since
  <2>3. /\ downSince[e] \in Times /\ now \in Nat
        /\ Follows(states[e], downSince[e], now)
        /\ reports[e] \in Reports
    BY DEF TrackerInv, TrackerTypeOK
  <2> QED BY <2>1, <2>2, <2>3, ObservedFollows
<1>5. \A e \in Endpoints : states'[e] \in EndpointStates
  BY <1>4 DEF Follows, Resting, InOutage
<1>6. states' \in [Endpoints -> EndpointStates]
  BY <1>1, <1>5
<1>7. ASSUME NEW e \in Endpoints, states'[e].signal_visible
      PROVE  /\ downSince'[e] \in Nat
             /\ states'[e].notification_id = downSince'[e]
             /\ downSince'[e] + OutageConfirmation <= t
  <2>1. downSince'[e] # NoTime
    BY <1>4, <1>7 DEF Follows, Resting
  <2>2. InOutage(states'[e], downSince'[e], t) /\ downSince'[e] \in Nat
    BY <1>3, <1>4, <2>1 DEF Follows, Times
  <2> QED BY <2>2, <1>7 DEF InOutage
<1>8. \A e \in Endpoints : \A b \in alerts'[e] :
          b \in alerts[e] \/ (b = downSince'[e] /\ b \in Nat
                                 /\ downSince'[e] + OutageConfirmation <= t)
  BY <1>1, <1>7
<1>9. alerts' \in [Endpoints -> SUBSET Nat]
  <2>1. \A e \in Endpoints : alerts'[e] \in SUBSET Nat
    BY <1>8 DEF TrackerInv, TrackerTypeOK
  <2> QED BY <1>1, <2>1
<1>10. ASSUME NEW e \in Endpoints
       PROVE  AlertsFit(alerts'[e], downSince'[e], t)
  <2> DEFINE down == reports[e] = "down"
  <2>1. downSince'[e] = IF ~down THEN NoTime
                        ELSE IF downSince[e] = NoTime THEN t ELSE downSince[e]
    BY <1>1 DEF Since
  <2>2. /\ downSince[e] \in Times /\ now \in Nat
        /\ alerts[e] \in SUBSET Nat /\ alerts'[e] \in SUBSET Nat
        /\ AlertsFit(alerts[e], downSince[e], now)
        /\ downSince[e] # NoTime => downSince[e] <= now
    BY <1>9 DEF TrackerInv, TrackerTypeOK, Follows
  <2>3. \A b \in alerts'[e] :
            \/ b \in alerts[e]
            \/ b = downSince'[e] /\ downSince'[e] + OutageConfirmation <= t
    BY <1>8
  <2>4. down \in BOOLEAN
    OBVIOUS
  <2> HIDE DEF down
  <2> QED BY <2>1, <2>2, <2>3, <2>4, AlertsStep
<1>11. TrackerTypeOK'
  BY <1>1, <1>3, <1>6, <1>9 DEF TrackerTypeOK
<1>12. \A e \in Endpoints : e \in visible' <=> states'[e].signal_visible
  BY <1>1
<1> QED BY <1>1, <1>4, <1>10, <1>11, <1>12 DEF TrackerInv

LEMMA PollUnreachableStep ==
    ASSUME TrackerInv, NEW t \in Nat, now < t, PollUnreachable(t)
    PROVE  TrackerInv'
<1> USE TrackerAssumption
<1>1. /\ now' = t /\ reachable' = FALSE /\ visible' = {}
      /\ UNCHANGED <<states, downSince, alerts>>
  BY DEF PollUnreachable, trackerHistory
<1>2. now \in Nat
  BY DEF TrackerInv, TrackerTypeOK
<1>3. ASSUME NEW e \in Endpoints, Follows(states[e], downSince[e], now)
      PROVE  Follows(states[e], downSince[e], t)
  <2>1. downSince[e] \in Times
    BY DEF TrackerInv, TrackerTypeOK
  <2> QED BY <1>2, <1>3, <2>1 DEF Follows, InOutage, Times
<1>4. ASSUME NEW e \in Endpoints, AlertsFit(alerts[e], downSince[e], now)
      PROVE  AlertsFit(alerts[e], downSince[e], t)
  <2>1. alerts[e] \in SUBSET Nat
    BY DEF TrackerInv, TrackerTypeOK
  <2>2. \A a \in alerts[e] : a + OutageConfirmation <= t
    BY <1>2, <1>4, <2>1 DEF AlertsFit
  <2> QED BY <1>4, <2>2 DEF AlertsFit
<1>5. TrackerTypeOK'
  BY <1>1 DEF TrackerInv, TrackerTypeOK
<1> QED BY <1>1, <1>3, <1>4, <1>5 DEF TrackerInv

LEMMA TrackerInvStep == TrackerInv /\ [TrackerNext]_trackerVars => TrackerInv'
<1> SUFFICES ASSUME TrackerInv, [TrackerNext]_trackerVars PROVE TrackerInv'
  OBVIOUS
<1>1. CASE TrackerNext
  <2>1. PICK gap \in 1..MaxGap :
            \/ PollUnreachable(now + gap)
            \/ \E reports \in [Endpoints -> Reports] : Poll(now + gap, reports)
    BY <1>1 DEF TrackerNext
  <2>2. now + gap \in Nat /\ now < now + gap
    BY TrackerAssumption DEF TrackerInv, TrackerTypeOK
  <2> QED BY <2>1, <2>2, PollStep, PollUnreachableStep
<1>2. CASE UNCHANGED trackerVars
  BY <1>2 DEF trackerVars, trackerHistory, TrackerInv, TrackerTypeOK
<1> QED BY <1>1, <1>2

-----------------------------------------------------------------------------
(* Theorems about the tracker alone                                        *)

\* Every variable of the tracker keeps its type.
THEOREM TrackerTypeCorrect == TrackerSpec => []TrackerTypeOK
<1>1. TrackerInv => TrackerTypeOK
  BY DEF TrackerInv
<1> QED BY <1>1, TrackerInvInit, TrackerInvStep, PTL DEF TrackerSpec

\* For any confirmation periods and any flapping, the Signal of an endpoint is
\* shown exactly while its current outage is confirmed (pulse.py observe).
THEOREM ShownCorrect == TrackerSpec => []ShownIffConfirmed
<1>1. ASSUME TrackerInv PROVE ShownIffConfirmed
  <2>1. \A e \in Endpoints : downSince[e] = NoTime => ~states[e].signal_visible
    BY <1>1 DEF TrackerInv, Follows, Resting
  <2>2. visible \subseteq Endpoints
    BY <1>1 DEF TrackerInv, TrackerTypeOK
  <2> QED BY <1>1, <2>1, <2>2 DEF TrackerInv, ShownIffConfirmed
<1> QED BY <1>1, TrackerInvInit, TrackerInvStep, PTL DEF TrackerSpec

\* The id of a shown Signal is the one of its current outage
\* (pulse.py notification_ids).
THEOREM IdCorrect == TrackerSpec => []IdNamesOutage
<1>1. ASSUME TrackerInv PROVE IdNamesOutage
  <2>1. ASSUME NEW e \in visible
        PROVE  states[e].notification_id = downSince[e]
    <3>1. e \in Endpoints /\ states[e].signal_visible
      BY <1>1 DEF TrackerInv, TrackerTypeOK
    <3>2. Follows(states[e], downSince[e], now)
      BY <1>1, <3>1 DEF TrackerInv
    <3> QED BY <3>1, <3>2 DEF Follows, Resting, InOutage
  <2> QED BY <2>1 DEF IdNamesOutage
<1> QED BY <1>1, TrackerInvInit, TrackerInvStep, PTL DEF TrackerSpec

\* Alerts of one endpoint are further apart than the confirmation period
\* (pulse.py observe).
THEOREM AlertsApartCorrect == TrackerSpec => []AlertsApart
<1>1. TrackerInv => AlertsApart
  BY DEF TrackerInv, AlertsFit, AlertsApart
<1> QED BY <1>1, TrackerInvInit, TrackerInvStep, PTL DEF TrackerSpec

-----------------------------------------------------------------------------
(* The tracker that forgets, and the outages it named                      *)

\* The state of an endpoint that is down since d: a restart forgot the outage,
\* or it began, for the running process, at one of the reports since d.
FollowsLate(s, d, t) ==
    IF d = NoTime THEN Resting(s)
    ELSE /\ d <= t
         /\ \/ s = Fresh
            \/ s.outage_started_at \in d..t /\ InOutage(s, s.outage_started_at, t)

\* Occurrence o, at time t in the given life, of an endpoint with state s that
\* is down since d: no later than the outages still to come.
OccurrenceFits(o, s, d, t, life) ==
    /\ o.since <= o.occurrence
    /\ o.occurrence + OutageConfirmation <= t
    /\ o.life <= life
    /\ d # NoTime =>
          IF o.since = d THEN o.life = life => s.outage_started_at = o.occurrence
          ELSE o.occurrence < d

\* An occurrence belongs to one outage, an outage has one occurrence in a life.
Apart(o, p) ==
    /\ (o.signal = p.signal /\ o.occurrence = p.occurrence) => o.since = p.since
    /\ (SameOutage(o, p) /\ o.life = p.life) => o.occurrence = p.occurrence

Named(e, n) == \E o \in named : o.signal = e /\ o.occurrence = n

TrackerPart ==
    /\ AlertTypeOK
    /\ \A e \in Endpoints : FollowsLate(states[e], downSince[e], now)
    /\ \A o \in named :
          OccurrenceFits(o, states[o.signal], downSince[o.signal], now, crashes)
    /\ \A o, p \in named : Apart(o, p)

OutboxPart ==
    /\ RequestHasHead
    /\ \A e \in Endpoints :
          signals[e].status = "active" => Named(e, signals[e].occurrence)
    /\ \A i \in Known : Named(i.signal, i.occurrence)

AlertInv == TrackerPart /\ OutboxPart

\* What one report makes of the state of an endpoint.
LEMMA ObservedLate ==
    ASSUME NEW s, NEW d \in Times, NEW u \in Nat, FollowsLate(s, d, u),
           NEW t \in Nat, u < t, NEW report \in Reports,
           NEW d2, d2 = IF report # "down" THEN NoTime
                        ELSE IF d = NoTime THEN t ELSE d
    PROVE  /\ FollowsLate(Observed(s, report, t), d2, t)
           /\ (d2 # NoTime /\ s.outage_started_at # NoTime) =>
                 Observed(s, report, t).outage_started_at = s.outage_started_at
           /\ d2 = NoTime \/ d2 = t \/ d2 = d
<1> USE TrackerAssumption
<1>1. s \in EndpointStates
  BY FreshRests DEF FollowsLate, Resting, InOutage
<1>2. CASE report = "down"
  <2>1. Observed(s, report, t) = Confirm(OutageFrom(s, t), t)
    BY <1>2 DEF Observed
  <2>2. d2 # NoTime /\ d2 \in Nat /\ d2 <= t
    BY <1>2 DEF FollowsLate, Times
  <2>3. CASE Resting(s)
    <3>1. InOutage(OutageFrom(s, t), t, t)
      BY <2>3, OutageStarts
    <3>2. InOutage(Confirm(OutageFrom(s, t), t), t, t)
      BY <3>1, ConfirmAlerts
    <3>3. Confirm(OutageFrom(s, t), t).outage_started_at = t
      BY <3>2 DEF InOutage
    <3>4. s.outage_started_at = NoTime
      BY <2>3 DEF Resting
    <3>5. t \in d2..t
      BY <2>2
    <3> QED BY <1>2, <2>1, <2>2, <3>2, <3>3, <3>4, <3>5 DEF FollowsLate
  <2>4. CASE ~Resting(s)
    <3> DEFINE v == s.outage_started_at
    <3>1. d # NoTime /\ d \in Nat /\ d2 = d /\ v \in d..u /\ InOutage(s, v, u)
      BY <1>2, <2>4, FreshRests DEF FollowsLate, Times
    <3>2. v \in Nat /\ v \in d..t
      BY <3>1
    <3>3. OutageFrom(s, t) = s
      BY <3>1, <3>2, OutageGoesOn
    <3>4. InOutage(s, v, t)
      BY <3>1, <3>2 DEF InOutage
    <3> HIDE DEF v
    <3>5. InOutage(Confirm(s, t), v, t)
      BY <3>2, <3>4, ConfirmAlerts
    <3>6. Confirm(s, t).outage_started_at = v
      BY <3>5 DEF InOutage
    <3> QED BY <2>1, <2>2, <3>1, <3>2, <3>3, <3>5, <3>6 DEF FollowsLate, v
  <2> QED BY <2>3, <2>4
<1>3. CASE report = "up"
  <2>1. Observed(s, report, t) = RecoverFrom(s, t) /\ d2 = NoTime
    BY <1>3 DEF Observed
  <2> QED BY <1>1, <2>1, RecoveryRests DEF FollowsLate
<1>4. CASE report = "missing"
  <2>1. Observed(s, report, t) = Fresh /\ d2 = NoTime
    BY <1>4 DEF Observed
  <2> QED BY <2>1, FreshRests DEF FollowsLate
<1> QED BY <1>2, <1>3, <1>4 DEF Reports

\* The occurrences of the past fit the state the report made.
LEMMA OccurrenceStillFits ==
    ASSUME NEW o \in Occurrences, NEW s, NEW s2, NEW life \in Nat,
           NEW d \in Times, NEW d2, NEW u \in Nat, NEW t \in Nat, u < t,
           OccurrenceFits(o, s, d, u, life),
           d2 = NoTime \/ d2 = t \/ d2 = d,
           (d2 # NoTime /\ s.outage_started_at # NoTime)
               => s2.outage_started_at = s.outage_started_at
    PROVE  OccurrenceFits(o, s2, d2, t, life)
<1> USE TrackerAssumption
<1>1. /\ o.since \in Nat /\ o.occurrence \in Nat
      /\ o.since <= u /\ o.occurrence <= u /\ o.occurrence + OutageConfirmation <= t
      /\ o.since <= o.occurrence /\ o.life <= life
  BY DEF OccurrenceFits, Occurrences
<1>2. CASE d2 = NoTime
  BY <1>1, <1>2 DEF OccurrenceFits
<1>3. CASE d2 = t /\ d2 # d
  <2>1. o.since # d2 /\ o.occurrence < d2
    BY <1>1, <1>3
  <2> QED BY <1>1, <2>1 DEF OccurrenceFits
<1>4. CASE d2 = d /\ d2 # NoTime
  <2>1. (o.since = d /\ o.life = life) => s2.outage_started_at = o.occurrence
    BY <1>1, <1>4 DEF OccurrenceFits
  <2> QED BY <1>1, <1>4, <2>1 DEF OccurrenceFits
<1> QED BY <1>2, <1>3, <1>4

\* An outage shown at time t is a confirmed one, and its occurrence fits.
LEMMA ShownConfirmed ==
    ASSUME NEW s, NEW d \in Times, NEW t \in Nat, FollowsLate(s, d, t),
           s.signal_visible
    PROVE  /\ d \in Nat /\ s.notification_id \in Nat
           /\ s.outage_started_at = s.notification_id
           /\ d <= s.notification_id
           /\ s.notification_id + OutageConfirmation <= t
<1> USE TrackerAssumption
<1>1. d # NoTime
  BY DEF FollowsLate, Resting
<1>2. ~Resting(s)
  BY DEF Resting
<1>3. d \in Nat /\ InOutage(s, s.outage_started_at, t)
      /\ s.outage_started_at \in d..t
  BY <1>1, <1>2, FreshRests DEF FollowsLate, Times
<1> QED BY <1>3 DEF InOutage

\* The occurrence it is named by fits.
LEMMA ShownFits ==
    ASSUME NEW s, NEW d \in Times, NEW t \in Nat, FollowsLate(s, d, t),
           s.signal_visible, NEW e \in Endpoints, NEW life \in Nat,
           NEW o, o = [signal |-> e, occurrence |-> s.notification_id,
                       since |-> d, life |-> life]
    PROVE  /\ o \in Occurrences
           /\ OccurrenceFits(o, s, d, t, life)
<1> QED BY ShownConfirmed, TrackerAssumption DEF Occurrences, OccurrenceFits

\* Two occurrences that fit one endpoint, one of them of the running outage.
LEMMA RunningApart ==
    ASSUME NEW o \in Occurrences, NEW p \in Occurrences, NEW s, NEW t \in Nat,
           NEW life \in Nat,
           p.life = life, p.since # NoTime, s.outage_started_at = p.occurrence,
           OccurrenceFits(p, s, p.since, t, life),
           OccurrenceFits(o, s, p.since, t, life)
    PROVE  Apart(o, p) /\ Apart(p, o)
<1>1. o.since # p.since => o.occurrence # p.occurrence
  BY DEF OccurrenceFits, Occurrences
<1>2. (o.since = p.since /\ o.life = p.life) => o.occurrence = p.occurrence
  BY DEF OccurrenceFits
<1> QED BY <1>1, <1>2 DEF Apart, SameOutage

-----------------------------------------------------------------------------
(* The steps of the tracker                                                *)

\* At the start nothing is down, named or queued.
LEMMA AlertInvInit == AlertInit => AlertInv
<1> SUFFICES ASSUME AlertInit PROVE AlertInv
  OBVIOUS
<1>1. TypeOK /\ TrackerTypeOK
  BY InitTypeOK, TrackerInvInit DEF AlertInit, TrackerInv
<1>2. named = {} /\ RequestHasHead
  BY DEF AlertInit, Init, RequestHasHead
<1>3. \A e \in Endpoints : FollowsLate(states[e], downSince[e], now)
  BY FreshRests DEF AlertInit, TrackerInit, FollowsLate
<1>4. \A e \in Endpoints : signals[e].status # "active"
  BY OutageAssumption DEF AlertInit, Init
<1>5. Known = {}
  <2>1. mem.outbox = <<>> /\ disk = mem
    BY DEF AlertInit, Init
  <2>2. Range(mem.outbox) = {} /\ Range(disk.outbox) = {}
    BY <2>1 DEF Range
  <2> QED BY <2>2 DEF AlertInit, Init, Known, Answered
<1> QED BY <1>1, <1>2, <1>3, <1>4, <1>5
        DEF AlertInv, TrackerPart, OutboxPart, AlertTypeOK, Occurrences

\* The tracker's step of a refresh keeps everything said of the endpoints.
LEMMA PollLate ==
    ASSUME TrackerPart, NEW t \in Nat, now < t,
           NEW reports \in [Endpoints -> Reports], Poll(t, reports)
    PROVE  /\ TrackerTypeOK'
           /\ \A e \in Endpoints : FollowsLate(states'[e], downSince'[e], t)
           /\ \A o \in named : OccurrenceFits(o, states'[o.signal],
                                              downSince'[o.signal], t, crashes)
           /\ \A e \in visible' : states'[e].signal_visible
           /\ now' = t
<1> USE TrackerAssumption DEF TrackerPart, AlertTypeOK
<1>1. /\ now' = t /\ reachable' = TRUE
      /\ states' = [e \in Endpoints |-> Observed(states[e], reports[e], t)]
      /\ visible' = {e \in Endpoints : states'[e].signal_visible}
      /\ downSince' = Since(downSince, reports, t)
      /\ alerts' = [e \in Endpoints |->
                       alerts[e] \cup {n \in {states'[e].notification_id} :
                                          states'[e].signal_visible}]
  BY DEF Poll
<1>2. downSince' \in [Endpoints -> Times]
  BY <1>1 DEF Since, TrackerTypeOK, Times
<1>3. ASSUME NEW e \in Endpoints
      PROVE  /\ FollowsLate(states'[e], downSince'[e], t)
             /\ (downSince'[e] # NoTime /\ states[e].outage_started_at # NoTime)
                    => states'[e].outage_started_at = states[e].outage_started_at
             /\ downSince'[e] = NoTime \/ downSince'[e] = t
                    \/ downSince'[e] = downSince[e]
  <2>1. states'[e] = Observed(states[e], reports[e], t)
    BY <1>1
  <2>2. downSince'[e] = IF reports[e] # "down" THEN NoTime
                        ELSE IF downSince[e] = NoTime THEN t ELSE downSince[e]
    BY <1>1 DEF Since
  <2>3. /\ downSince[e] \in Times /\ now \in Nat
        /\ FollowsLate(states[e], downSince[e], now)
        /\ reports[e] \in Reports
    BY DEF TrackerTypeOK
  <2> QED BY <2>1, <2>2, <2>3, ObservedLate
<1>4. states' \in [Endpoints -> EndpointStates]
  <2>1. \A e \in Endpoints : states'[e] \in EndpointStates
    BY <1>3, FreshRests DEF FollowsLate, Resting, InOutage
  <2> QED BY <1>1, <2>1
<1>5. ASSUME NEW e \in Endpoints, states'[e].signal_visible
      PROVE  states'[e].notification_id \in Nat
  <2>1. downSince'[e] \in Times
    BY <1>2
  <2> QED BY <1>3, <1>5, <2>1, ShownConfirmed
<1>6. alerts' \in [Endpoints -> SUBSET Nat]
  <2>1. \A e \in Endpoints : alerts'[e] \in SUBSET Nat
    BY <1>1, <1>5 DEF TrackerTypeOK
  <2> QED BY <1>1, <2>1
<1>7. ASSUME NEW o \in named
      PROVE  OccurrenceFits(o, states'[o.signal], downSince'[o.signal], t, crashes)
  <2>1. o \in Occurrences /\ o.signal \in Endpoints
    BY DEF Occurrences
  <2> DEFINE before == states[o.signal]
             after  == states'[o.signal]
             d      == downSince[o.signal]
             d2     == downSince'[o.signal]
  <2>2. /\ OccurrenceFits(o, before, d, now, crashes)
        /\ d \in Times /\ now \in Nat /\ crashes \in Nat
    BY <2>1 DEF TrackerTypeOK, TypeOK
  <2>3. /\ (d2 # NoTime /\ before.outage_started_at # NoTime)
                => after.outage_started_at = before.outage_started_at
        /\ d2 = NoTime \/ d2 = t \/ d2 = d
    BY <1>3, <2>1
  <2> HIDE DEF before, after, d, d2
  <2>4. OccurrenceFits(o, after, d2, t, crashes)
    BY <2>1, <2>2, <2>3, OccurrenceStillFits
  <2> QED BY <2>4 DEF after, d2
<1> QED BY <1>1, <1>2, <1>3, <1>4, <1>6, <1>7 DEF TrackerTypeOK

\* A failed snapshot shows nothing and leaves the states as they are.
LEMMA UnreachableLate ==
    ASSUME TrackerPart, NEW t \in Nat, now < t, PollUnreachable(t)
    PROVE  /\ TrackerTypeOK'
           /\ \A e \in Endpoints : FollowsLate(states'[e], downSince'[e], t)
           /\ \A o \in named : OccurrenceFits(o, states'[o.signal],
                                              downSince'[o.signal], t, crashes)
           /\ \A e \in visible' : states'[e].signal_visible
           /\ now' = t
<1> USE TrackerAssumption DEF TrackerPart, AlertTypeOK
<1>1. /\ now' = t /\ reachable' = FALSE /\ visible' = {}
      /\ UNCHANGED <<states, downSince, alerts>>
  BY DEF PollUnreachable, trackerHistory
<1>2. now \in Nat /\ crashes \in Nat
  BY DEF TrackerTypeOK, TypeOK
<1>3. ASSUME NEW e \in Endpoints
      PROVE  FollowsLate(states[e], downSince[e], t)
  <2>1. FollowsLate(states[e], downSince[e], now) /\ downSince[e] \in Times
    BY DEF TrackerTypeOK
  <2>2. ASSUME NEW v \in downSince[e]..now, downSince[e] \in Nat,
               InOutage(states[e], v, now)
        PROVE  InOutage(states[e], v, t) /\ v \in downSince[e]..t
    BY <1>2, <2>2 DEF InOutage
  <2> QED BY <1>2, <2>1, <2>2 DEF FollowsLate, Times
<1>4. ASSUME NEW o \in named
      PROVE  OccurrenceFits(o, states[o.signal], downSince[o.signal], t, crashes)
  <2>1. o \in Occurrences /\ o.signal \in Endpoints
    BY DEF Occurrences
  <2>2. /\ OccurrenceFits(o, states[o.signal], downSince[o.signal], now, crashes)
        /\ downSince[o.signal] \in Times
    BY <2>1 DEF TrackerTypeOK
  <2> QED BY <1>2, <2>1, <2>2, OccurrenceStillFits
<1> QED BY <1>1, <1>3, <1>4 DEF TrackerTypeOK

\* What a refresh shows is named after the running outage of the endpoint.
LEMMA RefreshTracker == ASSUME TrackerPart, Refresh PROVE TrackerPart'
<1> USE DEF TrackerPart, AlertTypeOK
<1> DEFINE shown(e) == [signal |-> e, occurrence |-> states'[e].notification_id,
                        since |-> downSince'[e], life |-> crashes]
<1>1. PICK gap \in 1..MaxGap :
          \/ PollUnreachable(now + gap)
          \/ \E reports \in [Endpoints -> Reports] : Poll(now + gap, reports)
  BY DEF Refresh, TrackerNext
<1>2. now + gap \in Nat /\ now < now + gap
  BY TrackerAssumption DEF TrackerTypeOK
<1>3. /\ TrackerTypeOK'
      /\ \A e \in Endpoints : FollowsLate(states'[e], downSince'[e], now')
      /\ \A o \in named : OccurrenceFits(o, states'[o.signal],
                                         downSince'[o.signal], now', crashes)
      /\ \A e \in visible' : states'[e].signal_visible
  BY <1>1, <1>2, PollLate, UnreachableLate
<1>4. /\ named' = named \cup {shown(e) : e \in visible'}
      /\ signals' = HomeSignals
      /\ UNCHANGED <<mem, disk, pc, todo, accepted, rejected, changes, crashes>>
  BY DEF Refresh, agentVars
<1>5. crashes \in Nat /\ now' \in Nat /\ visible' \subseteq Endpoints
  BY <1>3 DEF TypeOK, TrackerTypeOK
<1>6. ASSUME NEW e \in visible'
      PROVE  /\ shown(e) \in Occurrences
             /\ OccurrenceFits(shown(e), states'[e], downSince'[e], now', crashes)
             /\ states'[e].outage_started_at = shown(e).occurrence
             /\ shown(e).since = downSince'[e] /\ shown(e).since # NoTime
             /\ shown(e).life = crashes /\ shown(e).signal = e
  <2>1. e \in Endpoints /\ downSince'[e] \in Times
    BY <1>3, <1>5 DEF TrackerTypeOK
  <2> QED BY <1>3, <1>5, <2>1, ShownFits, ShownConfirmed, TrackerAssumption
<1>7. signals' \in [Signals -> [status     : {"clear", "active", "hidden"},
                                occurrence : Nat,
                                version    : Nat]]
  <2>1. ASSUME NEW e \in Endpoints
        PROVE  HomeSignals[e] \in [status     : {"clear", "active", "hidden"},
                                   occurrence : Nat,
                                   version    : Nat]
    <3>1. signals[e] \in [status     : {"clear", "active", "hidden"},
                          occurrence : Nat,
                          version    : Nat]
      BY OutageAssumption DEF TypeOK
    <3>2. e \in visible' => states'[e].notification_id \in Nat
      BY <1>6 DEF Occurrences
    <3> QED BY <3>1, <3>2 DEF HomeSignals
  <2>2. HomeSignals = [e \in Endpoints |-> HomeSignals[e]]
    BY DEF HomeSignals
  <2> HIDE DEF TrackerPart
  <2> QED BY <1>4, <2>1, <2>2, OutageAssumption
<1>8. TypeOK'
  BY <1>4, <1>7 DEF TypeOK
<1>9. \A o \in named' :
          OccurrenceFits(o, states'[o.signal], downSince'[o.signal], now', crashes')
  <2>1. ASSUME NEW o \in named'
        PROVE  OccurrenceFits(o, states'[o.signal], downSince'[o.signal],
                              now', crashes)
    <3>1. CASE o \in named
      BY <1>3, <3>1
    <3>2. CASE \E e \in visible' : o = shown(e)
      <4>1. PICK e \in visible' : o = shown(e)
        BY <3>2
      <4> HIDE DEF shown
      <4> QED BY <1>6, <4>1
    <3> QED BY <1>4, <3>1, <3>2
  <2> QED BY <1>4, <2>1
<1> HIDE DEF shown
<1>10. ASSUME NEW e \in visible', NEW o \in named'
       PROVE  Apart(o, shown(e)) /\ Apart(shown(e), o)
  <2>1. o \in Occurrences
    BY <1>4, <1>6
  <2>2. CASE o.signal = e
    <3>1. OccurrenceFits(o, states'[e], downSince'[e], now', crashes)
      BY <1>4, <1>9, <2>2
    <3> QED BY <1>5, <1>6, <2>1, <3>1, RunningApart
  <2>3. CASE o.signal # e
    BY <1>6, <2>3 DEF Apart, SameOutage
  <2> QED BY <2>2, <2>3
<1>11. \A o, p \in named' : Apart(o, p)
  BY <1>4, <1>10
<1>12. named' \subseteq Occurrences
  BY <1>4, <1>6
<1> QED BY <1>3, <1>4, <1>8, <1>9, <1>11, <1>12

\* What the home payload shows is named, and nothing that was named is lost.
LEMMA RefreshOutbox == ASSUME TrackerPart, OutboxPart, Refresh PROVE OutboxPart'
<1>1. /\ signals' = HomeSignals
      /\ named' = named \cup
            {[signal |-> e, occurrence |-> states'[e].notification_id,
              since |-> downSince'[e], life |-> crashes] : e \in visible'}
      /\ UNCHANGED <<mem, disk, pc, todo, accepted, rejected>>
  BY DEF Refresh, agentVars
<1>2. visible' \subseteq Endpoints
  BY RefreshTracker DEF TrackerPart, AlertTypeOK, TrackerTypeOK
<1>3. ASSUME NEW e \in Endpoints, signals'[e].status = "active"
      PROVE  Named(e, signals[e].occurrence)'
  <2>1. signals[e] \in [status     : {"clear", "active", "hidden"},
                        occurrence : Nat,
                        version    : Nat]
    BY OutageAssumption DEF TrackerPart, AlertTypeOK, TypeOK
  <2>2. signals'[e] = [signals[e] EXCEPT
            !.status = IF e \in visible' THEN "active" ELSE "clear",
            !.occurrence =
                IF e \in visible' THEN states'[e].notification_id ELSE @]
    BY <1>1 DEF HomeSignals
  <2>3. e \in visible' /\ signals'[e].occurrence = states'[e].notification_id
    BY <1>3, <2>1, <2>2
  <2> DEFINE o == [signal |-> e, occurrence |-> states'[e].notification_id,
                   since |-> downSince'[e], life |-> crashes]
  <2>4. o \in named' /\ o.signal = e /\ o.occurrence = signals'[e].occurrence
    BY <1>1, <2>3
  <2> QED BY <2>4 DEF Named
<1>4. Known' = Known
  BY <1>1 DEF Known, Answered
<1>5. \A i \in Known : Named(i.signal, i.occurrence)'
  BY <1>1 DEF OutboxPart, Named
<1> QED BY <1>1, <1>3, <1>4, <1>5 DEF OutboxPart, RequestHasHead

-----------------------------------------------------------------------------
(* The steps of the outbox                                                 *)

\* What a step adds to the items is an event of a shown signal.
AddsShown ==
    /\ \A i \in Known' : i \in Known \/ \E s \in Active : i = EventOf(s)
    /\ UNCHANGED signals

LEMMA ObserveAdds ==
    ASSUME TypeOK, Observe
    PROVE  AddsShown
<1>1. CASE ObserveBegin
  <2>1. mem'.outbox = mem.outbox
    BY <1>1 DEF ObserveBegin, TypeOK, States
  <2>2. /\ UNCHANGED <<disk, accepted, rejected, signals>>
        /\ todo' = {EventOf(s) : s \in Unannounced}
    BY <1>1 DEF ObserveBegin, worldVars
  <2>3. \A i \in todo' : \E s \in Active : i = EventOf(s)
    BY <2>2 DEF Unannounced
  <2> QED BY <2>1, <2>2, <2>3 DEF AddsShown, Known, Answered
<1>2. CASE \E e \in todo : QueueSignal(e)
  <2>1. PICK e \in todo : QueueSignal(e)
    BY <1>2
  <2>2. /\ mem' = [mem EXCEPT !.delivered[e.signal] = e.version,
                              !.outbox = Append(@, e)]
        /\ disk' \in {disk, mem'} /\ todo' \subseteq todo
        /\ UNCHANGED <<signals, accepted, rejected>>
    BY <2>1 DEF QueueSignal, Saved, SaveFailed, worldVars
  <2>3. /\ e \in Items
        /\ mem.outbox \in Seq(Items)
        /\ mem'.outbox = Append(mem.outbox, e)
    BY <2>2 DEF TypeOK, Items, States
  <2>4. \A i \in Range(mem'.outbox) : i \in Range(mem.outbox) \/ i = e
    BY <2>3, RangeOfAppend
  <2> QED BY <2>2, <2>4 DEF AddsShown, Known, Answered
<1>3. CASE ObserveEnd
  BY <1>3 DEF ObserveEnd, Saved, SaveFailed, worldVars, AddsShown, Known, Answered
<1> QED BY <1>1, <1>2, <1>3 DEF Observe

LEMMA AnswerAdds ==
    ASSUME TypeOK, RequestHasHead, Accepted \/ Rejected
    PROVE  AddsShown
<1>1. /\ mem.outbox # <<>> /\ PopHead
      /\ Answered' = Answered \cup {Head(mem.outbox)}
      /\ UNCHANGED <<signals, todo>>
  BY DEF Accepted, Rejected, RequestHasHead, Answered, worldVars
<1>2. mem' = [mem EXCEPT !.outbox = Tail(@)] /\ disk' \in {disk, mem'}
  BY <1>1 DEF PopHead, Saved, SaveFailed
<1>3. mem'.outbox = Tail(mem.outbox) /\ mem.outbox \in Seq(Items)
  BY <1>2 DEF TypeOK, States
<1>4. /\ Head(mem.outbox) \in Range(mem.outbox)
      /\ \A i \in Range(mem'.outbox) : i \in Range(mem.outbox)
  BY <1>1, <1>3, RangeOfTail
<1> QED BY <1>1, <1>2, <1>4 DEF AddsShown, Known

LEMMA OutboxAdds ==
    ASSUME TypeOK, RequestHasHead, OutboxSteps
    PROVE  AddsShown
<1>1. CASE AdoptClaim
  <2>1. /\ mem' = [mem EXCEPT !.enrolled = TRUE]
        /\ disk' \in {disk, mem'}
        /\ UNCHANGED <<signals, todo, accepted, rejected>>
    BY <1>1 DEF AdoptClaim, Saved, SaveFailed, worldVars
  <2>2. mem'.outbox = mem.outbox
    BY <2>1 DEF TypeOK, States
  <2> QED BY <2>1, <2>2 DEF AddsShown, Known, Answered
<1>2. CASE Observe
  BY <1>2, ObserveAdds
<1>3. CASE FlushDone \/ Send \/ Postponed
  BY <1>3 DEF FlushDone, Send, Postponed, worldVars, AddsShown, Known, Answered
<1>4. CASE Accepted \/ Rejected
  BY <1>4, AnswerAdds
<1> QED BY <1>1, <1>2, <1>3, <1>4 DEF OutboxSteps

LEMMA OutboxStepsStep == ASSUME AlertInv, OutboxSteps PROVE AlertInv'
<1> USE DEF AlertInv
<1>1. UNCHANGED <<now, states, visible, reachable, downSince, alerts, named, crashes>>
  BY DEF OutboxSteps, trackerVars, trackerHistory, AdoptClaim, Observe, ObserveBegin,
         QueueSignal, ObserveEnd, FlushDone, Send, Accepted, Rejected, Postponed,
         worldVars
<1>2. [Next]_vars
  BY DEF OutboxSteps, Next
<1>3. TypeOK' /\ RequestHasHead'
  BY <1>2, NextTypeOK DEF TrackerPart, AlertTypeOK, OutboxPart
<1>4. TrackerPart'
  BY <1>1, <1>3 DEF TrackerPart, AlertTypeOK, TrackerTypeOK
<1>5. AddsShown
  BY OutboxAdds DEF TrackerPart, AlertTypeOK, OutboxPart
<1>6. ASSUME NEW i \in Known' PROVE Named(i.signal, i.occurrence)
  <2>1. CASE i \in Known
    BY <2>1 DEF OutboxPart
  <2>2. CASE \E s \in Active : i = EventOf(s)
    <3>1. PICK s \in Active : i = EventOf(s)
      BY <2>2
    <3>2. s \in Endpoints /\ signals[s].status = "active" /\ s \in EpisodeSignals
      BY OutageAssumption DEF Active
    <3>3. i.signal = s /\ i.occurrence = signals[s].occurrence
      BY <3>1, <3>2 DEF EventOf
    <3> QED BY <3>2, <3>3 DEF OutboxPart
  <2> QED BY <1>5, <2>1, <2>2 DEF AddsShown
<1>7. OutboxPart'
  BY <1>1, <1>3, <1>5, <1>6 DEF OutboxPart, AddsShown, Named
<1> QED BY <1>4, <1>7

\* A restart forgets the running outages and begins a life of its own.
LEMMA RestartStep == ASSUME AlertInv, Restart PROVE AlertInv'
<1> USE DEF AlertInv
<1>1. /\ crashes' = crashes + 1 /\ mem' = disk /\ pc' = "idle" /\ todo' = {}
      /\ UNCHANGED <<disk, accepted, rejected>>
      /\ signals' = [s \in Signals |-> [signals[s] EXCEPT !.status = "clear",
                                                          !.version = 0]]
      /\ states' = [e \in Endpoints |-> Fresh]
      /\ visible' = {} /\ reachable' = FALSE
      /\ UNCHANGED <<now, downSince, alerts, named>>
  BY DEF Restart, Crash, trackerHistory
<1>2. [Next]_vars
  BY DEF Restart, Next
<1>3. TypeOK' /\ RequestHasHead'
  BY <1>2, NextTypeOK DEF TrackerPart, AlertTypeOK, OutboxPart
<1>4. TrackerTypeOK'
  BY <1>1, FreshRests DEF TrackerPart, AlertTypeOK, TrackerTypeOK, Resting
<1>5. ASSUME NEW e \in Endpoints
      PROVE  FollowsLate(Fresh, downSince[e], now)
  BY FreshRests DEF TrackerPart, FollowsLate
<1>6. ASSUME NEW o \in named
      PROVE  OccurrenceFits(o, Fresh, downSince[o.signal], now, crashes + 1)
  <2>1. /\ OccurrenceFits(o, states[o.signal], downSince[o.signal], now, crashes)
        /\ o.life \in Nat /\ crashes \in Nat
    BY DEF TrackerPart, AlertTypeOK, TypeOK, Occurrences
  <2> QED BY <2>1 DEF OccurrenceFits
<1>7. TrackerPart'
  <2>1. \A e \in Endpoints : states'[e] = Fresh
    BY <1>1
  <2>2. \A o \in named : o.signal \in Endpoints
    BY DEF TrackerPart, AlertTypeOK, Occurrences
  <2>3. \A e \in Endpoints : FollowsLate(states'[e], downSince'[e], now')
    BY <1>1, <1>5, <2>1
  <2>4. \A o \in named' : OccurrenceFits(o, states'[o.signal], downSince'[o.signal],
                                         now', crashes')
    BY <1>1, <1>6, <2>1, <2>2
  <2>5. named' \subseteq Occurrences /\ \A o, p \in named' : Apart(o, p)
    BY <1>1 DEF TrackerPart, AlertTypeOK
  <2> QED BY <1>3, <1>4, <2>3, <2>4, <2>5 DEF TrackerPart, AlertTypeOK
<1>8. \A e \in Endpoints : signals'[e].status # "active"
  BY <1>1, OutageAssumption DEF TrackerPart, AlertTypeOK, TypeOK
<1>9. Known' \subseteq Known
  BY <1>1 DEF Known, Answered
<1>10. OutboxPart'
  BY <1>1, <1>3, <1>8, <1>9 DEF OutboxPart, Named
<1> QED BY <1>7, <1>10

LEMMA AlertInvStep == AlertInv /\ [AlertNext]_alertVars => AlertInv'
<1> SUFFICES ASSUME AlertInv, [AlertNext]_alertVars PROVE AlertInv'
  OBVIOUS
<1>1. CASE Refresh
  BY <1>1, RefreshTracker, RefreshOutbox DEF AlertInv
<1>2. CASE Restart
  BY <1>2, RestartStep
<1>3. CASE OutboxSteps
  BY <1>3, OutboxStepsStep
<1>4. CASE UNCHANGED alertVars
  BY <1>4 DEF alertVars, vars, trackerVars, trackerHistory, AlertInv, TrackerPart,
     AlertTypeOK, TypeOK, TrackerTypeOK, OutboxPart, RequestHasHead, Named, Known,
     Answered
<1> QED BY <1>1, <1>2, <1>3, <1>4 DEF AlertNext

-----------------------------------------------------------------------------
(* Theorems about the tracker that feeds the outbox                        *)

\* Every variable of the composition keeps its type.
THEOREM AlertTypeCorrect == AlertSpec => []AlertTypeOK
<1>1. AlertInv => AlertTypeOK
  BY DEF AlertInv, TrackerPart
<1> QED BY <1>1, AlertInvInit, AlertInvStep, PTL DEF AlertSpec

\* Every event that is queued or answered is of an outage the endpoint had and
\* that was confirmed, and no id stands for two outages
\* (pulse.py observe, relay.py observe).
THEOREM OutagesNamed == AlertSpec => []EventsNameOutages
<1>1. ASSUME AlertInv PROVE EventsNameOutages
  <2>1. \A o, p \in named :
            (o.signal = p.signal /\ o.occurrence = p.occurrence) => o.since = p.since
    BY <1>1 DEF AlertInv, TrackerPart, Apart
  <2>2. ASSUME NEW i \in AllEvents
        PROVE  \E o \in named : /\ o.signal = i.signal
                                /\ o.occurrence = i.occurrence
                                /\ o.since + OutageConfirmation <= now
    <3>1. PICK o \in named : o.signal = i.signal /\ o.occurrence = i.occurrence
      BY <1>1 DEF AlertInv, OutboxPart, AllEvents, Known, Named
    <3>2. /\ OccurrenceFits(o, states[o.signal], downSince[o.signal], now, crashes)
          /\ o \in Occurrences /\ now \in Nat
      BY <1>1 DEF AlertInv, TrackerPart, AlertTypeOK, TrackerTypeOK
    <3>3. o.since + OutageConfirmation <= now
      BY <3>2, TrackerAssumption DEF OccurrenceFits, Occurrences
    <3> QED BY <3>1, <3>3
  <2> QED BY <2>1, <2>2 DEF EventsNameOutages
<1> QED BY <1>1, AlertInvInit, AlertInvStep, PTL DEF AlertSpec

\* In one life of the Agent an outage is pushed under one id
\* (pulse.py observe, relay.py observe).
THEOREM OneEventCorrect == AlertSpec => []OneEventPerLife
<1>1. AlertInv => OneEventPerLife
  BY DEF AlertInv, TrackerPart, Apart, OneEventPerLife
<1> QED BY <1>1, AlertInvInit, AlertInvStep, PTL DEF AlertSpec
=============================================================================
