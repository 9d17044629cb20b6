-------------------------- MODULE AgentParts_proofs --------------------------
(***************************************************************************)
(* Parts of the Agent that share no state: the activity moments, the call  *)
(* history, the last-active times, the JTAPI bridge and the sessions with  *)
(* Asterisk keep what the runs check of them, for any office and any PBX,  *)
(* any number of calls, lines, phones, threads and processes, and any      *)
(* times.                                                                  *)
(***************************************************************************)
EXTENDS ActivityMoments, CallHistory, LastActive, JtapiBridge, AmiSession,
        FiniteSetTheorems, WellFoundedInduction, TLAPS

-----------------------------------------------------------------------------
(* The activity moments                                                    *)

\* Where a busy period of a queue is noted: in its baseline, or, if it began with
\* the last snapshot and there was no earlier one, in that snapshot.
NotedSince(q) ==
    IF ~HasMoment THEN Nothing
    ELSE IF busyQueues[q] # Nothing THEN busyQueues[q]
    ELSE IF Waiting(moment, q) = 2 THEN moment.abandoned
    ELSE Nothing

\* What is noted is what the snapshots said, and a queue without callers has no
\* baseline.
BaselinesTrue ==
    \A q \in office.queues :
        /\ pressed[q] = NotedSince(q)
        /\ ~HasMoment \/ Waiting(moment, q) = 0 => busyQueues[q] = Nothing

\* Everything the events and the baselines are compared with.
MomentsInv ==
    /\ MomentsTypeOK
    /\ RecoveriesHold
    /\ BaselinesTrue

LEMMA MomentsInvInit == MomentsInit => MomentsInv
  BY MomentsAssumption
  DEF MomentsInit, MomentsInv, MomentsTypeOK, RecoveriesHold, Durations, Limit,
      BaselinesTrue, NotedSince, HasMoment

\* What one observe makes of the phones stays among the phones of the office.
LEMMA PhonesOfOffice ==
    ASSUME MomentsTypeOK, NEW s \in Snapshots
    PROVE  /\ Confirmed(s) \subseteq Down(s) /\ Down(s) \subseteq office.phones
           /\ NewlyRecovered(s) \subseteq office.phones
           /\ StillOut(s) \subseteq office.phones
<1>1. Confirmed(s) \subseteq Down(s) /\ Down(s) \subseteq office.phones
  BY DEF Confirmed, Down
<1>2. NewlyRecovered(s) \subseteq office.phones
  BY <1>1 DEF NewlyRecovered, Recovered, Recovering, Listed, MomentsTypeOK
<1>3. StillOut(s) \subseteq office.phones
  BY <1>1 DEF StillOut, MomentsTypeOK
<1> QED BY <1>1, <1>2, <1>3

\* The times stay within the longer of the two confirmations.
LEMMA TimedType ==
    ASSUME MomentsTypeOK, NEW s \in Snapshots
    PROVE  Timed(s) \in [office.phones -> [outage : Durations, recovery : Durations]]
<1>1. 0 \in Durations /\ Nothing \in Durations
  BY MomentsAssumption DEF Durations, Limit
<1>2. ASSUME NEW p \in office.phones
      PROVE  OutageOf(s, p) \in Durations /\ RecoveryOf(s, p) \in Durations
             /\ elapsed[p].recovery \in Durations
  <2>1. elapsed[p] \in [outage : Durations, recovery : Durations]
    BY DEF MomentsTypeOK
  <2> QED BY <1>1, <2>1 DEF OutageOf, RecoveryOf, OrElse
<1> QED BY <1>1, <1>2 DEF Timed

\* What is compared with the last healthy snapshot stays what it was.
LEMMA BaselineType ==
    ASSUME MomentsTypeOK, HasMoment, NEW s \in Snapshots, NEW q \in office.queues
    PROVE  Baseline(s, q) = Nothing \/ Baseline(s, q) \subseteq office.records
<1>1. moment.abandoned \subseteq office.records /\ s.abandoned \subseteq office.records
  BY DEF MomentsTypeOK, HasMoment, Snapshots, SnapshotsOf
<1>2. busyQueues[q] = Nothing \/ busyQueues[q] \subseteq office.records
  BY DEF MomentsTypeOK
<1> QED BY <1>1, <1>2 DEF Baseline

\* An observe shows events of the office's phones, queues and trunks only.
LEMMA NewEventsType ==
    ASSUME MomentsTypeOK, NEW s \in Snapshots
    PROVE  NewEvents(s) \subseteq Events
<1>1. PhoneEvents(s) \subseteq Events
  <2>1. NewlyRecovered(s) \in SUBSET office.phones /\ (StillOut(s) = {}) \in BOOLEAN
    BY PhonesOfOffice
  <2>2. [kind |-> "recovered", phones |-> NewlyRecovered(s), all |-> StillOut(s) = {}]
          \in [kind : {"recovered"}, phones : SUBSET office.phones, all : BOOLEAN]
    BY <2>1, Zenon
  <2>3. PhoneEvents(s) \subseteq
          {[kind |-> "recovered", phones |-> NewlyRecovered(s), all |-> StillOut(s) = {}]}
    BY Zenon DEF PhoneEvents
  <2> QED BY <2>2, <2>3 DEF Events
<1>2. QueueEvents(s) \subseteq Events
  BY DEF QueueEvents, Cleared, Events
<1>3. ASSUME HasMoment PROVE TrunkEvents(s) \subseteq Events
  <2>1. TrunksActive(s) \subseteq office.trunks
    BY DEF TrunksActive
  <2> QED BY <2>1 DEF TrunkEvents, Events
<1>4. VoicemailEvents(s) \subseteq Events
  BY DEF VoicemailEvents, Events
<1> QED BY <1>1, <1>2, <1>3, <1>4 DEF NewEvents

\* Only an observe that announces it makes a phone event, and it names exactly
\* the phones that stop being out.
LEMMA NewRecoveries ==
    ASSUME NEW s \in Snapshots, NEW e \in NewEvents(s), e.kind = "recovered"
    PROVE  e.phones = NewlyRecovered(s) /\ (e.all <=> StillOut(s) = {})
<1>1. e \notin QueueEvents(s) /\ e \notin TrunkEvents(s) /\ e \notin VoicemailEvents(s)
  BY DEF QueueEvents, TrunkEvents, VoicemailEvents
<1>2. e \in PhoneEvents(s)
  BY <1>1 DEF NewEvents
<1>3. e = [kind |-> "recovered", phones |-> NewlyRecovered(s), all |-> StillOut(s) = {}]
  BY <1>2, Zenon DEF PhoneEvents
<1>4. e.phones = NewlyRecovered(s) /\ e.all = (StillOut(s) = {})
  BY <1>3, Zenon
<1> QED BY <1>4, Zenon

\* A queue has none, one, or two callers in a snapshot.
LEMMA WaitingType ==
    ASSUME NEW s \in Snapshots, NEW q \in office.queues
    PROVE  Waiting(s, q) \in 0..2
BY MomentsAssumption DEF Waiting, Snapshots, SnapshotsOf

\* The baseline with which a snapshot is compared is what was noted, or the snapshot
\* itself if a busy period begins.
LEMMA BaselineNoted ==
    ASSUME MomentsTypeOK, BaselinesTrue, HasMoment,
           NEW s \in Snapshots, NEW q \in office.queues
    PROVE  Baseline(s, q) = IF pressed[q] = Nothing /\ Waiting(s, q) = 2
                            THEN s.abandoned ELSE pressed[q]
<1>1. moment.abandoned # Nothing
  BY MomentsAssumption DEF MomentsTypeOK, HasMoment, Snapshots, SnapshotsOf
<1> QED BY <1>1 DEF BaselinesTrue, NotedSince, Baseline

LEMMA ObserveKeepsBaselines ==
    ASSUME MomentsTypeOK, BaselinesTrue, NEW s \in Snapshots, Observe(s)
    PROVE  BaselinesTrue'
<1>1. moment' = s /\ office' = office /\ s # Nothing
  BY MomentsAssumption DEF Observe, MomentsTypeOK, Snapshots
<1>2. HasMoment'
  BY <1>1 DEF HasMoment
<1> SUFFICES ASSUME NEW q \in office.queues
             PROVE  /\ pressed'[q] = NotedSince(q)'
                    /\ Waiting(s, q) = 0 => busyQueues'[q] = Nothing
  BY <1>1, <1>2 DEF BaselinesTrue
<1>3. NotedSince(q)' = IF busyQueues'[q] # Nothing THEN busyQueues'[q]
                       ELSE IF Waiting(s, q) = 2 THEN s.abandoned
                       ELSE Nothing
  BY <1>1, <1>2 DEF NotedSince, Waiting
<1>4. pressed'[q] = IF Waiting(s, q) = 0 THEN Nothing
                    ELSE IF pressed[q] = Nothing /\ Waiting(s, q) = 2 THEN s.abandoned
                    ELSE pressed[q]
  BY DEF Observe, PressedSince
<1>5. CASE ~HasMoment
  BY <1>3, <1>4, <1>5 DEF Observe, BaselinesTrue, NotedSince
<1>6. CASE HasMoment
  <2>1. Waiting(moment, q) \in 0..2 /\ Waiting(s, q) \in 0..2
    BY <1>6, WaitingType DEF MomentsTypeOK, HasMoment
  <2>2. busyQueues'[q] = IF Waiting(moment, q) > 0 /\ Waiting(s, q) = 0 THEN Nothing
                         ELSE Baseline(s, q)
    BY <1>6 DEF Observe, Busy, Cleared
  <2>3. CASE Waiting(s, q) = 0
    <3>1. Waiting(moment, q) = 0 => Baseline(s, q) = Nothing
      BY <1>6, <2>3 DEF BaselinesTrue, Baseline
    <3> QED BY <1>3, <1>4, <2>1, <2>2, <2>3, <3>1
  <2>4. CASE Waiting(s, q) # 0
    <3>1. busyQueues'[q] = IF pressed[q] = Nothing /\ Waiting(s, q) = 2
                           THEN s.abandoned ELSE pressed[q]
      BY <1>6, <2>2, <2>4, BaselineNoted
    <3> QED BY <1>3, <1>4, <2>4, <3>1
  <2> QED BY <2>3, <2>4
<1> QED BY <1>5, <1>6

LEMMA ObserveKeepsMoments ==
    ASSUME MomentsInv, NEW s \in Snapshots, Observe(s)
    PROVE  MomentsInv'
<1>1. MomentsTypeOK /\ RecoveriesHold /\ BaselinesTrue /\ office' = office
  BY DEF MomentsInv, Observe
<1>2. MomentsTypeOK'
  <2>1. (office \in Offices)' /\ outstanding' \subseteq office.phones
        /\ (elapsed \in [office.phones -> [outage : Durations, recovery : Durations]])'
    BY <1>1, PhonesOfOffice, TimedType DEF Observe, MomentsTypeOK, Durations, Limit
  <2>2. reported' \subseteq office.phones
    BY <1>1, PhonesOfOffice DEF Observe, MomentsTypeOK
  <2>3. ASSUME NEW q \in office.queues
        PROVE  /\ busyQueues'[q] = Nothing \/ busyQueues'[q] \subseteq office.records
               /\ pressed'[q] = Nothing \/ pressed'[q] \subseteq office.records
    <3>1. ASSUME HasMoment
          PROVE  busyQueues'[q] = Nothing \/ busyQueues'[q] \subseteq office.records
      BY <1>1, <3>1, BaselineType DEF Observe, Busy
    <3>2. ASSUME ~HasMoment
          PROVE  busyQueues'[q] = Nothing \/ busyQueues'[q] \subseteq office.records
      BY <1>1, <3>2 DEF Observe, MomentsTypeOK
    <3>3. s.abandoned \subseteq office.records
      BY DEF Snapshots, SnapshotsOf
    <3>4. pressed'[q] = Nothing \/ pressed'[q] \subseteq office.records
      BY <1>1, <3>3 DEF Observe, PressedSince, MomentsTypeOK
    <3> QED BY <3>1, <3>2, <3>4
  <2>4. awaitingCall' \subseteq office.trunks
    <3>1. CASE HasMoment
      BY <1>1, <3>1 DEF Observe, BackUp, TrunksDown, MomentsTypeOK
    <3>2. CASE ~HasMoment
      BY <1>1, <3>2 DEF Observe, MomentsTypeOK
    <3> QED BY <3>1, <3>2
  <2>5. (moment = Nothing \/ moment \in Snapshots)'
    BY <1>1 DEF Observe, Snapshots, SnapshotsOf
  <2>6. activity' \subseteq Events
    BY <1>1, NewEventsType DEF Observe, Kept, MomentsTypeOK
  <2>7. Events' = Events
    BY <1>1 DEF Events
  <2> QED BY <1>1, <2>1, <2>2, <2>3, <2>4, <2>5, <2>6, <2>7 DEF MomentsTypeOK
<1>3. ASSUME NEW e \in activity', e.kind = "recovered"
      PROVE  e.phones \cap outstanding' = {} /\ (e.all => outstanding' = {})
  <2>1. /\ e \in activity \cup NewEvents(s) /\ StillCurrent(e, s)
        /\ outstanding' = StillOut(s)
    BY DEF Observe, Kept
  <2>2. CASE e \in NewEvents(s)
    BY <1>3, <2>1, <2>2, NewRecoveries DEF StillOut
  <2>3. CASE e \in activity
    <3>1. e.phones \cap outstanding = {} /\ (e.all => outstanding = {})
      BY <1>1, <1>3, <2>3 DEF RecoveriesHold
    <3>2. IF e.all THEN Down(s) = {} ELSE e.phones \cap Down(s) = {}
      BY <1>3, <2>1 DEF StillCurrent
    <3>3. Confirmed(s) \subseteq Down(s)
      BY DEF Confirmed
    <3> QED BY <2>1, <3>1, <3>2, <3>3 DEF StillOut
  <2> QED BY <2>1, <2>2, <2>3
<1>4. BaselinesTrue'
  BY <1>1, ObserveKeepsBaselines
<1> QED BY <1>2, <1>3, <1>4 DEF MomentsInv, RecoveriesHold

LEMMA PassesKeepsMoments ==
    ASSUME MomentsInv, Passes
    PROVE  MomentsInv'
<1>1. ASSUME NEW d \in Durations PROVE Longer(d) \in Durations
  BY MomentsAssumption DEF Longer, Durations, Limit
<1>2. ASSUME NEW p \in office.phones
      PROVE  elapsed[p].outage \in Durations /\ elapsed[p].recovery \in Durations
  BY DEF MomentsInv, MomentsTypeOK
<1>3. elapsed' \in [office.phones -> [outage : Durations, recovery : Durations]]
  BY <1>1, <1>2 DEF Passes
<1>4. MomentsTypeOK'
  BY <1>3 DEF Passes, MomentsInv, MomentsTypeOK, Snapshots, SnapshotsOf, Events,
              Durations, Limit
<1>5. RecoveriesHold' /\ BaselinesTrue'
  BY DEF Passes, MomentsInv, RecoveriesHold, BaselinesTrue, NotedSince, HasMoment, Waiting
<1> QED BY <1>4, <1>5 DEF MomentsInv

LEMMA ExpireKeepsMoments ==
    ASSUME MomentsInv, Expire
    PROVE  MomentsInv'
<1>1. activity' \subseteq activity /\ reported' \subseteq reported
  BY DEF Expire
<1>2. MomentsTypeOK'
  BY <1>1 DEF Expire, MomentsInv, MomentsTypeOK, Snapshots, SnapshotsOf, Events,
              Durations, Limit
<1>3. RecoveriesHold' /\ BaselinesTrue'
  BY <1>1 DEF Expire, MomentsInv, RecoveriesHold, BaselinesTrue, NotedSince, HasMoment,
              Waiting
<1> QED BY <1>2, <1>3 DEF MomentsInv

LEMMA MomentsInvStep == MomentsInv /\ [MomentsNext]_momentVars => MomentsInv'
<1> SUFFICES ASSUME MomentsInv, [MomentsNext]_momentVars PROVE MomentsInv'
  OBVIOUS
<1>1. CASE ObservePBX
  BY <1>1, ObserveKeepsMoments DEF ObservePBX
<1>2. CASE Passes
  BY <1>2, PassesKeepsMoments
<1>3. CASE Expire
  BY <1>3, ExpireKeepsMoments
<1>4. CASE UNCHANGED momentVars
  BY <1>4 DEF momentVars, MomentsInv, MomentsTypeOK, RecoveriesHold, BaselinesTrue,
              NotedSince, HasMoment, Waiting, Snapshots, SnapshotsOf, Events,
              Durations, Limit
<1> QED BY <1>1, <1>2, <1>3, <1>4 DEF MomentsNext

\* The tracker keeps its types whatever the snapshots leave out.
THEOREM MomentsTypeCorrect == MomentsSpec => []MomentsTypeOK
<1>1. MomentsInv => MomentsTypeOK
  BY DEF MomentsInv
<1> QED BY <1>1, MomentsInvInit, MomentsInvStep, PTL DEF MomentsSpec

\* No recovery is shown beside an unfinished outage of one of its phones, for any
\* office, any confirmation times and any snapshots (pulse.py observe).
THEOREM RecoveriesCorrect == MomentsSpec => []RecoveriesHold
<1>1. MomentsInv => RecoveriesHold
  BY DEF MomentsInv
<1> QED BY <1>1, MomentsInvInit, MomentsInvStep, PTL DEF MomentsSpec

\* The praise of the queues among the events is the one the snapshot earns, and an
\* earned one stays.
LEMMA QueuePraise ==
    ASSUME MomentsInv, NEW s \in Snapshots, Observe(s), NEW q \in office.queues,
           NEW praise, praise = [kind |-> "quiet", queue |-> q],
           NEW earned,
           earned <=> /\ HasMoment
                      /\ Waiting(moment, q) > 0 /\ Waiting(s, q) = 0
                      /\ pressed[q] = s.abandoned
    PROVE  /\ praise \in activity' \ activity => earned
           /\ earned => praise \in activity'
<1>1. StillCurrent(praise, s) /\ praise.kind = "quiet" /\ praise.queue = q
  BY DEF StillCurrent
<1>2. activity' = {e \in activity \cup NewEvents(s) : StillCurrent(e, s)}
  BY DEF Observe, Kept
<1>3. praise \notin PhoneEvents(s) /\ praise \notin TrunkEvents(s)
      /\ praise \notin VoicemailEvents(s)
  <2>1. praise \notin PhoneEvents(s)
    <3>1. PhoneEvents(s) \subseteq
            {[kind |-> "recovered", phones |-> NewlyRecovered(s), all |-> StillOut(s) = {}]}
      BY Zenon DEF PhoneEvents
    <3>2. ASSUME NEW e \in PhoneEvents(s) PROVE e.kind = "recovered"
      <4>1. e = [kind |-> "recovered", phones |-> NewlyRecovered(s),
                 all |-> StillOut(s) = {}]
        BY <3>1, Zenon
      <4> QED BY <4>1, Zenon
    <3> QED BY <1>1, <3>2
  <2> QED BY <1>1, <2>1 DEF TrunkEvents, VoicemailEvents
<1>4. HasMoment => (praise \in NewEvents(s) <=> praise \in QueueEvents(s))
  BY <1>3 DEF NewEvents
<1>5. HasMoment => (praise \in QueueEvents(s)
                        <=> q \in Cleared(s) /\ Baseline(s, q) = s.abandoned)
  BY <1>1 DEF QueueEvents
<1>6. HasMoment /\ Waiting(s, q) = 0 => Baseline(s, q) = pressed[q]
  BY BaselineNoted DEF MomentsInv
<1>7. HasMoment => (praise \in NewEvents(s) <=> earned)
  BY <1>4, <1>5, <1>6 DEF Cleared
<1>8. ~HasMoment => praise \notin NewEvents(s)
  BY DEF NewEvents
<1> QED BY <1>1, <1>2, <1>7, <1>8

\* A queue is praised just for a busy period that ended with the abandoned calls
\* with which it began, for any office and any snapshots (pulse.py
\* _record_transitions).
THEOREM PraiseCorrect == MomentsSpec => PraiseEarned
<1> DEFINE Praise(q) == [kind |-> "quiet", queue |-> q]
           Earned(q) == /\ HasMoment
                        /\ Waiting(moment, q) > 0 /\ Waiting(moment', q) = 0
                        /\ pressed[q] = moment'.abandoned
<1>1. ASSUME MomentsInv, NEW s \in Snapshots, Observe(s), NEW q \in office.queues
      PROVE  /\ Praise(q) \in activity' \ activity => Earned(q)
             /\ Earned(q) => Praise(q) \in activity'
  <2>1. moment' = s
    BY <1>1 DEF Observe
  <2>2. Earned(q) <=> /\ HasMoment
                      /\ Waiting(moment, q) > 0 /\ Waiting(s, q) = 0
                      /\ pressed[q] = s.abandoned
    BY <2>1
  <2> QED BY <1>1, <2>2, QueuePraise
<1>2. ASSUME Passes \/ Expire, NEW q \in office.queues
      PROVE  /\ Praise(q) \in activity' \ activity => Earned(q)
             /\ Earned(q) => Praise(q) \in activity'
  BY <1>2 DEF Passes, Expire
<1>3. MomentsInv /\ [MomentsNext]_momentVars =>
        [\A q \in office.queues :
            LET praise == [kind |-> "quiet", queue |-> q]
                earned == /\ HasMoment
                          /\ Waiting(moment, q) > 0 /\ Waiting(moment', q) = 0
                          /\ pressed[q] = moment'.abandoned
            IN  /\ praise \in activity' \ activity => earned
                /\ earned => praise \in activity']_momentVars
  BY <1>1, <1>2 DEF MomentsNext, ObservePBX
<1> QED BY <1>3, MomentsInvInit, MomentsInvStep, PTL DEF MomentsSpec, PraiseEarned

-----------------------------------------------------------------------------
(* The call history                                                        *)

\* Calls are numbered in the order of their starts, and time only goes forward.
StartsInOrder ==
    /\ Len(started) <= MaxCalls
    /\ \A a, b \in DOMAIN started : a <= b => started[a] <= started[b]
    /\ \A a \in DOMAIN started : started[a] <= halfDay

\* A row is of a call that began, and no call has two.
LoggedOnce ==
    /\ \A i \in DOMAIN cdr : cdr[i].call \in DOMAIN started
    /\ \A i, j \in DOMAIN cdr : cdr[i].call = cdr[j].call => i = j

\* The earlier calls that were still in progress when the call of row i ended.
Overtaken(i) == {c \in 1..(cdr[i].call - 1) : \A j \in 1..i : cdr[j].call # c}

\* The other lines at most.
OvertakesFew ==
    /\ Cardinality(InProgress) <= Lines
    /\ \A i \in DOMAIN cdr : Cardinality(Overtaken(i)) < Lines

\* What a read of the first n rows gives.
EndOf(n) == {cdr[i] : i \in {j \in 1..n : j > n - TailRows}}

ReadOf(n) ==
    {r \in EndOf(n) : Cardinality({s \in EndOf(n) : s.call > r.call}) < HistoryLimit}

CallHistoryInv ==
    /\ HistoryTypeOK
    /\ StartsInOrder
    /\ LoggedOnce
    /\ OvertakesFew
    /\ history = ReadOf(readTo)
LEMMA LeastOf ==
    ASSUME NEW S \in SUBSET Nat, S # {}
    PROVE  \E m \in S : \A k \in S : m <= k
<1>1. PICK m \in S : \A k \in S : ~(<<k, m>> \in OpToRel(<, Nat))
  BY WFMin, NatLessThanWellFounded
<1>2. \A k \in S : k \in Nat
  OBVIOUS
<1>3. \A k \in S : ~(k < m)
  BY <1>1, <1>2 DEF OpToRel
<1> QED BY <1>2, <1>3

LEMMA GreatestOf ==
    ASSUME NEW N \in Nat, NEW S \in SUBSET (0..N), S # {}
    PROVE  \E m \in S : \A k \in S : k <= m
<1> DEFINE T == {N - k : k \in S}
<1>0. \A k \in S : k \in 0..N
  OBVIOUS
<1>1. T \in SUBSET Nat /\ T # {}
  BY <1>0
<1>2. PICK t \in T : \A k \in T : t <= k
  BY <1>1, LeastOf
<1>3. PICK m \in S : t = N - m
  BY <1>2
<1>4. \A k \in S : N - m <= N - k
  BY <1>2, <1>3
<1> QED BY <1>0, <1>3, <1>4

LEMMA SubsetIsSmaller ==
    ASSUME NEW S, NEW T, IsFiniteSet(T), S \subseteq T
    PROVE  /\ IsFiniteSet(S) /\ Cardinality(S) \in Nat /\ Cardinality(T) \in Nat
           /\ Cardinality(S) <= Cardinality(T)
BY FS_Subset, FS_CardinalityType

LEMMA InjectionBound ==
    ASSUME NEW S, NEW T, IsFiniteSet(T), NEW f \in [S -> T],
           \A x, y \in S : f[x] = f[y] => x = y
    PROVE  Cardinality(S) <= Cardinality(T)
<1>1. f \in Injection(S, T)
  BY DEF Injection, IsInjective
<1> QED BY <1>1, FS_Injection

LEMMA PlacesFinite ==
    ASSUME NEW n \in Nat
    PROVE  /\ IsFiniteSet(1..n)
           /\ \A m \in Nat : n > m => Cardinality((n - m + 1)..n) = m
<1>1. IsFiniteSet(1..n)
  BY FS_Interval
<1>2. ASSUME NEW m \in Nat, n > m PROVE Cardinality((n - m + 1)..n) = m
  <2>1. PICK k \in Nat : k = n - m + 1
    BY <1>2
  <2>2. Cardinality(k..n) = IF k > n THEN 0 ELSE n - k + 1
    BY FS_Interval
  <2> QED BY <1>2, <2>1, <2>2
<1> QED BY <1>1, <1>2

LEMMA HistoryConstants ==
    /\ HistoryLimit \in Nat \ {0} /\ Lines \in Nat \ {0} /\ TailRows \in Nat
    /\ HistoryLimit + Lines <= TailRows + 1 /\ MaxCalls \in Nat /\ LastHalf \in Nat
BY HistoryAssumption

LEMMA InProgressFinite ==
    ASSUME HistoryTypeOK
    PROVE  IsFiniteSet(InProgress) /\ Cardinality(InProgress) \in Nat
<1>1. IsFiniteSet(1..Len(started)) /\ Len(started) \in Nat
  BY FS_Interval DEF HistoryTypeOK
<1>2. InProgress \subseteq 1..Len(started)
  BY DEF InProgress, HistoryTypeOK
<1> QED BY <1>1, <1>2, SubsetIsSmaller

LEMMA CallHistoryInvInit == HistoryInit => CallHistoryInv
<1> SUFFICES ASSUME HistoryInit PROVE CallHistoryInv
  OBVIOUS
<1>1. HistoryTypeOK
  BY HistoryConstants DEF HistoryInit, HistoryTypeOK
<1>2. StartsInOrder /\ LoggedOnce
  BY HistoryConstants DEF HistoryInit, StartsInOrder, LoggedOnce
<1>3. OvertakesFew
  <2>1. InProgress = {}
    BY DEF HistoryInit, InProgress
  <2> QED BY <2>1, FS_EmptySet, HistoryConstants DEF HistoryInit, OvertakesFew
<1>4. history = ReadOf(readTo)
  BY DEF HistoryInit, ReadOf, EndOf
<1> QED BY <1>1, <1>2, <1>3, <1>4 DEF CallHistoryInv

-----------------------------------------------------------------------------
(* Each step keeps the invariant                                           *)

LEMMA CallBeginsKeepsInv ==
    ASSUME CallHistoryInv, CallBegins
    PROVE  CallHistoryInv'
<1> USE HistoryConstants
<1>1. /\ HistoryTypeOK /\ StartsInOrder /\ LoggedOnce /\ OvertakesFew
      /\ history = ReadOf(readTo)
  BY DEF CallHistoryInv
<1>2. /\ started' = Append(started, halfDay) /\ Len(started) < MaxCalls
      /\ Len(started) \in Nat /\ DOMAIN started = 1..Len(started)
      /\ Len(started') = Len(started) + 1 /\ DOMAIN started' = 1..(Len(started) + 1)
      /\ UNCHANGED <<halfDay, cdr, history, readTo>>
  BY <1>1 DEF CallBegins, HistoryTypeOK
<1>3. HistoryTypeOK'
  BY <1>1, <1>2 DEF HistoryTypeOK, Rows
<1>4. StartsInOrder'
  <2>1. \A a \in 1..Len(started) : started'[a] = started[a] /\ started[a] \in Nat
    BY <1>1, <1>2 DEF HistoryTypeOK
  <2>2. started'[Len(started) + 1] = halfDay /\ halfDay \in Nat
    BY <1>1, <1>2 DEF HistoryTypeOK
  <2> QED BY <1>1, <1>2, <2>1, <2>2 DEF StartsInOrder
<1>5. LoggedOnce'
  BY <1>1, <1>2 DEF LoggedOnce
<1>6. OvertakesFew'
  <2>1. InProgress' \subseteq InProgress \cup {Len(started) + 1}
    BY <1>2 DEF InProgress, Logged
  <2>2. Cardinality(InProgress \cup {Len(started) + 1}) <= Cardinality(InProgress) + 1
        /\ IsFiniteSet(InProgress \cup {Len(started) + 1})
    BY <1>1, InProgressFinite, FS_AddElement
  <2>3. Cardinality(InProgress') <= Cardinality(InProgress) + 1
        /\ Cardinality(InProgress) < Lines
        /\ Cardinality(InProgress') \in Nat
    BY <1>1, <2>1, <2>2, SubsetIsSmaller, InProgressFinite DEF CallBegins
  <2>4. \A i \in DOMAIN cdr : Overtaken(i)' = Overtaken(i)
    BY <1>2 DEF Overtaken
  <2> QED BY <1>1, <1>2, <2>3, <2>4, InProgressFinite DEF OvertakesFew
<1>7. (history = ReadOf(readTo))'
  BY <1>1, <1>2 DEF ReadOf, EndOf
<1> QED BY <1>3, <1>4, <1>5, <1>6, <1>7 DEF CallHistoryInv

LEMMA CallEndsKeepsInv ==
    ASSUME CallHistoryInv, CallEnds
    PROVE  CallHistoryInv'
<1> USE HistoryConstants
<1>1. /\ HistoryTypeOK /\ StartsInOrder /\ LoggedOnce /\ OvertakesFew
      /\ history = ReadOf(readTo)
  BY DEF CallHistoryInv
<1>2. PICK c \in InProgress, missed \in BOOLEAN :
            cdr' = Append(cdr, [call |-> c, missed |-> missed])
  BY DEF CallEnds
<1>3. /\ UNCHANGED <<halfDay, started, history, readTo>>
      /\ Len(started) \in Nat /\ DOMAIN started = 1..Len(started)
  BY <1>1 DEF CallEnds, HistoryTypeOK
<1>4. c \in 1..Len(started) /\ c \in 1..MaxCalls
      /\ \A i \in DOMAIN cdr : cdr[i].call # c
  BY <1>1, <1>3 DEF InProgress, Logged, StartsInOrder
<1>5. /\ Len(cdr) \in Nat /\ DOMAIN cdr = 1..Len(cdr) /\ DOMAIN cdr' = 1..(Len(cdr) + 1)
      /\ \A i \in 1..Len(cdr) : cdr'[i] = cdr[i]
      /\ cdr'[Len(cdr) + 1].call = c /\ Len(cdr') = Len(cdr) + 1
  BY <1>1, <1>2 DEF HistoryTypeOK
<1>6. HistoryTypeOK'
  <2>1. [call |-> c, missed |-> missed] \in Rows
    BY <1>4 DEF Rows
  <2>2. cdr' \in Seq(Rows)
    BY <1>1, <1>2, <2>1 DEF HistoryTypeOK
  <2>3. readTo' \in 0..Len(cdr')
    BY <1>1, <1>3, <1>5 DEF HistoryTypeOK
  <2> QED BY <1>1, <1>3, <2>2, <2>3 DEF HistoryTypeOK, Rows
<1>7. StartsInOrder'
  BY <1>1, <1>3 DEF StartsInOrder
<1>8. LoggedOnce'
  BY <1>1, <1>3, <1>4, <1>5 DEF LoggedOnce
<1>9. OvertakesFew'
  <2>1. InProgress' \subseteq InProgress
    BY <1>3, <1>5 DEF InProgress, Logged
  <2>2. Cardinality(InProgress') <= Cardinality(InProgress)
        /\ Cardinality(InProgress') \in Nat /\ Cardinality(InProgress) \in Nat
    BY <1>1, <2>1, SubsetIsSmaller, InProgressFinite
  <2>3. \A i \in 1..Len(cdr) : Overtaken(i)' = Overtaken(i)
    BY <1>5 DEF Overtaken
  <2>4. PICK n : n = Len(cdr) + 1
    OBVIOUS
  <2>5. Cardinality(Overtaken(n)') < Lines
    <3>1. Overtaken(n)' \subseteq InProgress \ {c}
      <4>1. SUFFICES ASSUME NEW x \in 1..(c - 1), \A j \in 1..n : cdr'[j].call # x
                     PROVE  x \in InProgress \ {c}
        BY <1>5, <2>4 DEF Overtaken
      <4>2. x \in DOMAIN started /\ x # c
        BY <1>3, <1>4
      <4>3. \A j \in 1..Len(cdr) : cdr[j].call # x
        BY <1>5, <2>4, <4>1
      <4> QED BY <1>5, <4>2, <4>3 DEF InProgress, Logged
    <3>2. Cardinality(InProgress \ {c}) = Cardinality(InProgress) - 1
          /\ IsFiniteSet(InProgress \ {c})
      BY <1>1, <1>2, InProgressFinite, FS_RemoveElement
    <3>3. Cardinality(Overtaken(n)') <= Cardinality(InProgress \ {c})
          /\ Cardinality(Overtaken(n)') \in Nat
      BY <3>1, <3>2, SubsetIsSmaller
    <3> QED BY <1>1, <2>2, <3>2, <3>3 DEF OvertakesFew
  <2>6. ASSUME NEW i \in DOMAIN cdr' PROVE Cardinality(Overtaken(i)') < Lines
    <3>1. CASE i \in 1..Len(cdr)
      BY <1>1, <1>5, <2>3, <3>1 DEF OvertakesFew
    <3>2. CASE i = n
      BY <2>5, <3>2
    <3> QED BY <1>5, <2>4, <2>6, <3>1, <3>2
  <2> QED BY <1>1, <2>2, <2>6 DEF OvertakesFew
<1>10. (history = ReadOf(readTo))'
  <2>1. EndOf(readTo)' = EndOf(readTo)
    BY <1>1, <1>3, <1>5 DEF EndOf, HistoryTypeOK
  <2> QED BY <1>1, <1>3, <2>1 DEF ReadOf
<1> QED BY <1>6, <1>7, <1>8, <1>9, <1>10 DEF CallHistoryInv

\* The other steps leave the calls and the file as they are.
LEMMA CallsAsTheyWere ==
    ASSUME UNCHANGED <<started, cdr>>
    PROVE  /\ InProgress' = InProgress
           /\ \A i : Overtaken(i)' = Overtaken(i)
           /\ \A n : ReadOf(n)' = ReadOf(n)
  BY DEF InProgress, Logged, Overtaken, ReadOf, EndOf

LEMMA CallHistoryInvStep == CallHistoryInv /\ [HistoryNext]_historyVars => CallHistoryInv'
<1> SUFFICES ASSUME CallHistoryInv, [HistoryNext]_historyVars PROVE CallHistoryInv'
  OBVIOUS
<1> USE HistoryConstants
<1>1. /\ HistoryTypeOK /\ StartsInOrder /\ LoggedOnce /\ OvertakesFew
      /\ history = ReadOf(readTo)
  BY DEF CallHistoryInv
<1>2. ASSUME UNCHANGED <<started, cdr>> PROVE LoggedOnce' /\ OvertakesFew'
  BY <1>1, <1>2, CallsAsTheyWere DEF LoggedOnce, OvertakesFew
<1>3. CASE CallBegins
  BY <1>3, CallBeginsKeepsInv
<1>4. CASE CallEnds
  BY <1>4, CallEndsKeepsInv
<1>5. CASE HalfDayPasses
  <2>1. HistoryTypeOK'
    BY <1>1, <1>5 DEF HalfDayPasses, HistoryTypeOK, Rows
  <2>2. StartsInOrder'
    <3>1. halfDay' = halfDay + 1 /\ started' = started
          /\ \A a \in DOMAIN started : started[a] \in Nat /\ halfDay \in Nat
      BY <1>1, <1>5 DEF HalfDayPasses, HistoryTypeOK
    <3> QED BY <1>1, <3>1 DEF StartsInOrder
  <2>3. (history = ReadOf(readTo))'
    BY <1>1, <1>5 DEF HalfDayPasses, ReadOf, EndOf
  <2> QED BY <1>2, <1>5, <2>1, <2>2, <2>3 DEF HalfDayPasses, CallHistoryInv
<1>6. CASE ReadHistory
  <2>1. history' = ReadOf(Len(cdr)) /\ readTo' = Len(cdr) /\ Len(cdr) \in Nat
        /\ UNCHANGED <<halfDay, started, cdr>>
    <3>1. FileEnd = EndOf(Len(cdr)) /\ Len(cdr) \in Nat
      BY <1>1 DEF FileEnd, EndOf, HistoryTypeOK
    <3>2. RecentCalls = ReadOf(Len(cdr))
      BY <3>1 DEF RecentCalls, ReadOf
    <3> QED BY <1>6, <3>1, <3>2 DEF ReadHistory
  <2>2. HistoryTypeOK'
    <3>1. ReadOf(Len(cdr)) \subseteq Rows
      BY <1>1, <2>1 DEF HistoryTypeOK, ReadOf, EndOf
    <3> QED BY <1>1, <2>1, <3>1 DEF HistoryTypeOK, Rows
  <2>3. StartsInOrder' /\ (history = ReadOf(readTo))'
    BY <1>1, <2>1, CallsAsTheyWere DEF StartsInOrder
  <2> QED BY <1>2, <2>1, <2>2, <2>3 DEF CallHistoryInv
<1>7. CASE ReadNothing
  <2>1. history' = {} /\ readTo' = 0 /\ UNCHANGED <<halfDay, started, cdr>>
    BY <1>7 DEF ReadNothing
  <2>2. HistoryTypeOK'
    BY <1>1, <2>1 DEF HistoryTypeOK, Rows
  <2>3. StartsInOrder'
    BY <1>1, <2>1 DEF StartsInOrder
  <2>4. (history = ReadOf(readTo))'
    BY <2>1 DEF ReadOf, EndOf
  <2> QED BY <1>2, <2>1, <2>2, <2>3, <2>4 DEF CallHistoryInv
<1>8. CASE UNCHANGED historyVars
  <2>1. UNCHANGED <<halfDay, started, cdr, history, readTo>>
    BY <1>8 DEF historyVars
  <2>2. HistoryTypeOK' /\ StartsInOrder'
    BY <1>1, <2>1 DEF HistoryTypeOK, Rows, StartsInOrder
  <2>3. (history = ReadOf(readTo))'
    BY <1>1, <2>1 DEF ReadOf, EndOf
  <2> QED BY <1>2, <2>1, <2>2, <2>3 DEF CallHistoryInv
<1> QED BY <1>3, <1>4, <1>5, <1>6, <1>7, <1>8 DEF HistoryNext

-----------------------------------------------------------------------------
(* What a read keeps                                                       *)

\* The rows of the end of the file are as many as their places.
LEMMA EndOfFile ==
    ASSUME CallHistoryInv
    PROVE  /\ EndOf(readTo) \subseteq Rows /\ IsFiniteSet(EndOf(readTo))
           /\ Cardinality(EndOf(readTo)) \in Nat
           /\ readTo > TailRows => Cardinality(EndOf(readTo)) >= TailRows
<1> USE HistoryConstants
<1> DEFINE places == {j \in 1..readTo : j > readTo - TailRows}
           row == [j \in places |-> cdr[j]]
<1>1. HistoryTypeOK /\ LoggedOnce
  BY DEF CallHistoryInv
<1>2. readTo \in Nat /\ places \subseteq DOMAIN cdr
      /\ EndOf(readTo) = {cdr[j] : j \in places}
  BY <1>1 DEF HistoryTypeOK, EndOf
<1>3. IsFiniteSet(1..readTo) /\ IsFiniteSet(places)
  <2>1. IsFiniteSet(1..readTo) /\ places \subseteq 1..readTo
    BY <1>2, PlacesFinite
  <2> HIDE DEF places
  <2> QED BY <2>1, SubsetIsSmaller
<1>4. row \in Surjection(places, EndOf(readTo))
  BY <1>2 DEF Surjection
<1>5. \A j, k \in places : row[j] = row[k] => j = k
  BY <1>1, <1>2 DEF LoggedOnce
<1>6. row \in Injection(places, EndOf(readTo))
  BY <1>2, <1>5 DEF Injection, IsInjective
<1>7. IsFiniteSet(EndOf(readTo)) /\ Cardinality(EndOf(readTo)) = Cardinality(places)
  <2> HIDE DEF row, places
  <2> QED BY <1>3, <1>4, <1>6, FS_Surjection
<1>8. ASSUME readTo > TailRows PROVE Cardinality(places) = TailRows
  <2>1. places = (readTo - TailRows + 1)..readTo
    BY <1>2, <1>8
  <2> HIDE DEF places
  <2> QED BY <1>2, <1>8, <2>1, PlacesFinite
<1>9. EndOf(readTo) \subseteq Rows
  BY <1>1, <1>2 DEF HistoryTypeOK
<1>10. Cardinality(EndOf(readTo)) \in Nat
  BY <1>7, FS_CardinalityType
<1> HIDE DEF places
<1> QED BY <1>7, <1>8, <1>9, <1>10

\* A history that is not full has the whole file.
LEMMA ShortHistoryIsWhole ==
    ASSUME CallHistoryInv, Cardinality(history) < HistoryLimit
    PROVE  history = {cdr[i] : i \in 1..readTo}
<1> USE HistoryConstants
<1> DEFINE F == EndOf(readTo)
           later(x) == {s \in F : s.call > x}
<1>1. /\ HistoryTypeOK /\ history = ReadOf(readTo) /\ history \subseteq F
      /\ F \subseteq Rows /\ IsFiniteSet(F) /\ Cardinality(F) \in Nat
  BY EndOfFile DEF CallHistoryInv, ReadOf
<1>2. history = F
  <2>1. SUFFICES ASSUME F \ history # {} PROVE FALSE
    BY <1>1
  <2> DEFINE missing == {r.call : r \in F \ history}
  <2>2. missing \subseteq 0..MaxCalls /\ missing # {}
    BY <1>1, <2>1 DEF Rows
  <2>3. PICK m \in missing : \A k \in missing : k <= m
    BY <2>2, GreatestOf
  <2>4. PICK r \in F \ history : r.call = m
    BY <2>3
  <2>5. later(m) \subseteq history
    <3>1. SUFFICES ASSUME NEW s \in F, s.call > m, s \notin history PROVE FALSE
      OBVIOUS
    <3>2. s.call \in missing /\ s.call \in Nat /\ m \in Nat
      BY <1>1, <2>2, <3>1 DEF Rows
    <3> QED BY <2>3, <3>1, <3>2
  <2>6. ~(Cardinality(later(m)) < HistoryLimit)
    BY <1>1, <2>4 DEF ReadOf
  <2>7. IsFiniteSet(history)
    BY <1>1, SubsetIsSmaller
  <2>8. Cardinality(later(m)) <= Cardinality(history)
        /\ Cardinality(later(m)) \in Nat /\ Cardinality(history) \in Nat
    BY <2>5, <2>7, SubsetIsSmaller
  <2> QED BY <2>6, <2>8
<1>3. readTo <= TailRows /\ readTo \in Nat
  BY <1>1, <1>2, EndOfFile DEF HistoryTypeOK
<1>4. F = {cdr[i] : i \in 1..readTo}
  BY <1>3 DEF EndOf
<1> QED BY <1>2, <1>4

\* A call that started after one of the history is in it: between its row and the
\* end of the file there are the calls it overtook on the other lines, and the
\* calls that started later, of which the history has room for all.
LEMMA LaterCallsAreKept ==
    ASSUME CallHistoryInv, NEW o \in history, NEW i \in 1..readTo,
           cdr[i].call > o.call
    PROVE  cdr[i] \in history
<1> USE HistoryConstants
<1> DEFINE F == EndOf(readTo)
           places == {j \in 1..readTo : j > readTo - TailRows}
           before == {j \in places : cdr[j].call < cdr[i].call}
           after == {j \in places : cdr[j].call > cdr[i].call}
           later == {s \in F : s.call > o.call}
           laterStill == {s \in F : s.call > cdr[i].call}
<1>1. /\ HistoryTypeOK /\ LoggedOnce /\ OvertakesFew /\ history = ReadOf(readTo)
      /\ readTo \in Nat /\ 1..readTo \subseteq DOMAIN cdr
      /\ \A j \in DOMAIN cdr : cdr[j].call \in Nat \ {0}
  <2>1. HistoryTypeOK /\ LoggedOnce /\ OvertakesFew /\ history = ReadOf(readTo)
    BY DEF CallHistoryInv
  <2>2. readTo \in Nat /\ 1..readTo \subseteq DOMAIN cdr
    BY <2>1 DEF HistoryTypeOK
  <2>3. \A j \in DOMAIN cdr : cdr[j] \in Rows
    BY <2>1 DEF HistoryTypeOK
  <2> QED BY <2>1, <2>2, <2>3 DEF Rows
<1>2. o \in F /\ Cardinality(later) < HistoryLimit /\ o.call \in Nat
      /\ F = {cdr[j] : j \in places} /\ IsFiniteSet(F) /\ IsFiniteSet(later)
      /\ Cardinality(later) \in Nat /\ \A s \in F : s.call \in Nat
  BY <1>1, EndOfFile, SubsetIsSmaller DEF ReadOf, EndOf, Rows
<1>3. cdr[i] \in F
  <2>1. SUFFICES ASSUME cdr[i] \notin F PROVE FALSE
    OBVIOUS
  <2>2. i <= readTo - TailRows /\ readTo > TailRows
    BY <1>1, <1>2, <2>1
  <2>3. places = before \cup after /\ IsFiniteSet(places)
        /\ IsFiniteSet(before) /\ IsFiniteSet(after)
        /\ Cardinality(before) \in Nat /\ Cardinality(after) \in Nat
        /\ Cardinality(before \cap after) \in Nat
    <3>1. IsFiniteSet(1..readTo)
      BY <1>1, PlacesFinite
    <3>2. \A j \in places : cdr[j].call # cdr[i].call
      BY <1>1, <2>2 DEF LoggedOnce
    <3>3. places \subseteq before \cup after
      BY <1>1, <3>2
    <3>4. before \subseteq places /\ after \subseteq places /\ places \subseteq 1..readTo
      OBVIOUS
    <3> HIDE DEF places, before, after
    <3>5. IsFiniteSet(places)
      BY <3>1, <3>4, SubsetIsSmaller
    <3>6. /\ IsFiniteSet(before) /\ Cardinality(before) \in Nat
          /\ IsFiniteSet(after) /\ Cardinality(after) \in Nat
      BY <3>4, <3>5, SubsetIsSmaller
    <3>7. Cardinality(before \cap after) \in Nat
      BY <3>6, FS_Intersection, FS_CardinalityType
    <3> QED BY <3>3, <3>4, <3>5, <3>6, <3>7
  <2>4. Cardinality(before) < Lines
    <3> DEFINE f == [j \in before |-> cdr[j].call]
    <3>1. ASSUME NEW j \in before PROVE cdr[j].call \in Overtaken(i)
      BY <1>1, <2>2 DEF Overtaken, LoggedOnce
    <3>2. f \in [before -> Overtaken(i)] /\ \A j, k \in before : f[j] = f[k] => j = k
      BY <1>1, <3>1 DEF LoggedOnce
    <3>3. IsFiniteSet(Overtaken(i)) /\ Cardinality(Overtaken(i)) \in Nat
      <4>1. PICK n \in Nat : n = cdr[i].call - 1
        BY <1>1
      <4>2. Overtaken(i) \subseteq 1..n
        BY <4>1 DEF Overtaken
      <4> QED BY <4>2, PlacesFinite, SubsetIsSmaller
    <3> HIDE DEF f, before
    <3>4. Cardinality(before) <= Cardinality(Overtaken(i))
      BY <3>2, <3>3, InjectionBound
    <3> QED BY <1>1, <2>3, <3>3, <3>4 DEF OvertakesFew
  <2>5. Cardinality(after) < HistoryLimit
    <3> DEFINE f == [j \in after |-> cdr[j]]
    <3>1. ASSUME NEW j \in after PROVE cdr[j] \in later
      BY <1>1, <1>2
    <3>2. f \in [after -> later] /\ \A j, k \in after : f[j] = f[k] => j = k
      BY <1>1, <3>1 DEF LoggedOnce
    <3> HIDE DEF f, after, later
    <3>3. Cardinality(after) <= Cardinality(later)
      BY <1>2, <3>2, InjectionBound
    <3> QED BY <1>2, <2>3, <3>3
  <2>6. Cardinality(places) = TailRows
    <3>1. places = (readTo - TailRows + 1)..readTo
      BY <1>1, <2>2
    <3> HIDE DEF places
    <3> QED BY <1>1, <2>2, <3>1, PlacesFinite
  <2>7. Cardinality(places) <= Cardinality(before) + Cardinality(after)
    <3> HIDE DEF places, before, after
    <3>1. Cardinality(before \cup after) =
             Cardinality(before) + Cardinality(after) - Cardinality(before \cap after)
      BY <2>3, FS_Union
    <3> QED BY <2>3, <3>1
  <2> QED BY <2>3, <2>4, <2>5, <2>6, <2>7
<1>4. laterStill \subseteq later /\ Cardinality(laterStill) \in Nat
      /\ Cardinality(laterStill) <= Cardinality(later)
  <2>1. laterStill \subseteq later
    BY <1>1, <1>2
  <2> QED BY <1>2, <2>1, SubsetIsSmaller
<1> QED BY <1>1, <1>2, <1>3, <1>4 DEF ReadOf

-----------------------------------------------------------------------------
(* The days                                                                *)

LEMMA HalvesInOrder == \A a, b \in Nat : a <= b => a \div 2 <= b \div 2
  OBVIOUS

\* A praised day had calls in the history, and no missed one.
LEMMA PraisedIsClean == ASSUME NEW d \in Praised PROVE Clean(d)
<1>1. CASE d \in Streak
  <2>1. d \in 0..LastCounted /\ \A e \in d..LastCounted : Clean(e)
    BY <1>1 DEF Streak
  <2>2. d \in d..LastCounted
    BY <2>1
  <2> QED BY <2>1, <2>2
<1>2. CASE d = Today /\ Clean(Today)
  BY <1>2
<1> QED BY <1>1, <1>2 DEF Praised

LEMMA PraisedDaysAreTrue == CallHistoryInv => CleanDaysTrue
<1> SUFFICES ASSUME CallHistoryInv, NEW d \in Praised \ CutDays
             PROVE  LET read == {r \in {cdr[i] : i \in 1..readTo} : DayOf(r) = d}
                    IN  read # {} /\ \A r \in read : ~r.missed
  BY DEF CleanDaysTrue
<1> USE HistoryConstants
<1>1. /\ HistoryTypeOK /\ StartsInOrder /\ LoggedOnce /\ history = ReadOf(readTo)
      /\ history \subseteq {cdr[i] : i \in 1..readTo} /\ 1..readTo \subseteq DOMAIN cdr
  <2>1. HistoryTypeOK /\ StartsInOrder /\ LoggedOnce /\ history = ReadOf(readTo)
    BY DEF CallHistoryInv
  <2>2. history \subseteq {cdr[i] : i \in 1..readTo}
    BY <2>1 DEF ReadOf, EndOf
  <2>3. 1..readTo \subseteq DOMAIN cdr
    BY <2>1 DEF HistoryTypeOK
  <2> QED BY <2>1, <2>2, <2>3
<1>2. \A r \in {cdr[i] : i \in 1..readTo} : r.call \in DOMAIN started /\ r.call \in Nat
                                           /\ started[r.call] \in Nat
  BY <1>1 DEF LoggedOnce, HistoryTypeOK
<1>3. PICK q \in history : DayOf(q) = d
  BY PraisedIsClean DEF Clean, CallsOf
<1>4. ASSUME NEW r \in {cdr[i] : i \in 1..readTo}, DayOf(r) = d
      PROVE  r \in history
  <2>1. CASE Cardinality(history) < HistoryLimit
    BY <2>1, ShortHistoryIsWhole
  <2>2. CASE ~(Cardinality(history) < HistoryLimit)
    <3> DEFINE calls == {h.call : h \in history}
    <3>1. calls \in SUBSET Nat /\ calls # {}
      BY <1>1, <1>2, <1>3
    <3>2. PICK least \in calls : \A c \in calls : least <= c
      <4> HIDE DEF calls
      <4> QED BY <3>1, LeastOf
    <3>3. PICK o \in history : \A h \in history : o.call <= h.call
      BY <3>2
    <3>4. DayOf(o) # d
      BY <2>2, <3>3 DEF CutDays
    <3>5. started[o.call] <= started[q.call]
      BY <1>1, <1>2, <3>3 DEF StartsInOrder
    <3>6. DayOf(o) <= d /\ DayOf(o) \in Int /\ d \in Int
      BY <1>1, <1>2, <1>3, <3>5, HalvesInOrder DEF DayOf
    <3>7. r.call > o.call
      <4>1. SUFFICES ASSUME r.call <= o.call PROVE FALSE
        BY <1>1, <1>2
      <4>2. started[r.call] <= started[o.call]
        BY <1>1, <1>2, <4>1 DEF StartsInOrder
      <4>3. d <= DayOf(o)
        BY <1>1, <1>2, <1>4, <4>2, HalvesInOrder DEF DayOf
      <4> QED BY <3>4, <3>6, <4>3
    <3> QED BY <1>4, <3>7, LaterCallsAreKept
  <2> QED BY <2>1, <2>2
<1>5. \A r \in history : DayOf(r) = d => ~r.missed
  BY PraisedIsClean DEF Clean, CallsOf
<1> QED BY <1>1, <1>3, <1>4, <1>5

\* The history keeps its types.
THEOREM HistoryTypeCorrect == HistorySpec => []HistoryTypeOK
<1>1. CallHistoryInv => HistoryTypeOK
  BY DEF CallHistoryInv
<1> QED BY <1>1, CallHistoryInvInit, CallHistoryInvStep, PTL DEF HistorySpec

\* For any number of lines, of calls and of days, and any limits with
\* HistoryLimit + Lines <= TailRows + 1, a praised day had a call and no missed
\* one, but for the day at which the history is cut off (history.py
\* read_recent_cdr_calls, engine.py _operational_moments).
THEOREM CleanDaysCorrect == HistorySpec => []CleanDaysTrue
<1> QED BY PraisedDaysAreTrue, CallHistoryInvInit, CallHistoryInvStep, PTL DEF HistorySpec

-----------------------------------------------------------------------------
(* The last-active times                                                   *)

\* A phone seen available in this life has its value in memory; one seen to go
\* offline has it in the file, and in memory if this life could read the file.
LastActiveInv ==
    /\ LastActiveTypeOK
    /\ LastActiveSurvives
    /\ \A p \in Extensions : wasAvailable[p] = "yes" => lastActive[p] = truth[p]

LEMMA LastActiveInvInit == LastActiveInit => LastActiveInv
<1> SUFFICES ASSUME LastActiveInit PROVE LastActiveInv
  OBVIOUS
<1>1. /\ clock = 0 /\ lastActive = NoValues /\ file = NoValues /\ truth = NoValues
      /\ wasAvailable = [p \in Extensions |-> "unseen"] /\ offline = {}
  BY DEF LastActiveInit
<1>2. NoValues \in Values /\ 0 \in 0..MaxClock
  BY LastActiveAssumption DEF NoValues, Values
<1>3. unloaded \in BOOLEAN
  BY Zenon DEF LastActiveInit
<1>4. LastActiveTypeOK
  BY <1>1, <1>2, <1>3 DEF LastActiveTypeOK
<1> QED BY <1>1, <1>4 DEF LastActiveInv, LastActiveSurvives

\* A snapshot changes memory and truth alike, for the phones that are up.
LEMMA ObserveKeepsInv ==
    ASSUME LastActiveInv, NEW up \in SUBSET Extensions, NEW down \in SUBSET Extensions,
           up \cap down = {}, ObservePhones(up, down)
    PROVE  LastActiveInv'
<1> USE LastActiveAssumption
<1> DEFINE gone == {p \in down : wasAvailable[p] = "yes"}
<1>1. clock \in 0..MaxClock /\ clock < MaxClock /\ clock' = clock + 1
  BY DEF LastActiveInv, LastActiveTypeOK, ObservePhones
<1>2. clock' \in 0..MaxClock
  BY <1>1
<1>3. /\ lastActive \in Values /\ file \in Values /\ truth \in Values
      /\ wasAvailable \in [Extensions -> {"unseen", "yes", "no"}]
      /\ offline \subseteq Extensions
  BY DEF LastActiveInv, LastActiveTypeOK
<1>4. /\ lastActive' = [p \in Extensions |-> IF p \in up THEN clock' ELSE lastActive[p]]
      /\ truth' = [p \in Extensions |-> IF p \in up THEN clock' ELSE truth[p]]
      /\ wasAvailable' = [p \in Extensions |-> IF p \in up THEN "yes"
                                           ELSE IF p \in down THEN "no"
                                           ELSE wasAvailable[p]]
      /\ \/ /\ file' = lastActive' /\ unloaded' = FALSE
            /\ offline' = gone \cup (IF unloaded THEN {} ELSE offline \ up)
         \/ file' = file /\ unloaded' = unloaded /\ offline' = offline \ up
  BY DEF ObservePhones, Updated, SaveAll
<1>5. LastActiveTypeOK'
  <2>1. lastActive' \in Values /\ truth' \in Values
    BY <1>2, <1>3, <1>4 DEF Values
  <2>2. wasAvailable' \in [Extensions -> {"unseen", "yes", "no"}]
    BY <1>3, <1>4
  <2>3. file' \in Values /\ offline' \subseteq Extensions
    BY <1>3, <1>4, <2>1
  <2>4. unloaded' \in BOOLEAN
    BY <1>4, Zenon DEF LastActiveInv, LastActiveTypeOK
  <2> QED BY <1>2, <2>1, <2>2, <2>3, <2>4 DEF LastActiveTypeOK
<1>6. ASSUME NEW p \in Extensions, wasAvailable'[p] = "yes"
      PROVE  lastActive'[p] = truth'[p]
  BY <1>4, <1>6 DEF LastActiveInv
<1>7. ASSUME NEW p \in offline'
      PROVE  file'[p] = truth'[p] /\ (unloaded' \/ lastActive'[p] = truth'[p])
  <2>1. ASSUME p \in offline \ up
        PROVE  /\ truth'[p] = truth[p] /\ file[p] = truth[p]
               /\ unloaded \/ lastActive'[p] = truth[p]
    BY <1>3, <1>4, <2>1 DEF LastActiveInv, LastActiveSurvives
  <2>2. ASSUME p \in gone PROVE lastActive'[p] = truth'[p]
    BY <1>4, <2>2 DEF LastActiveInv
  <2>3. CASE file' = file /\ unloaded' = unloaded /\ offline' = offline \ up
    BY <1>7, <2>1, <2>3
  <2>4. CASE /\ file' = lastActive' /\ unloaded' = FALSE
             /\ offline' = gone \cup (IF unloaded THEN {} ELSE offline \ up)
    <3>1. p \in gone \/ (~unloaded /\ p \in offline \ up)
      BY <1>7, <2>4
    <3>2. lastActive'[p] = truth'[p]
      BY <2>1, <2>2, <3>1
    <3> QED BY <2>4, <3>2
  <2> QED BY <1>4, <2>3, <2>4
<1> QED BY <1>5, <1>6, <1>7 DEF LastActiveInv, LastActiveSurvives

LEMMA LastActiveInvStep ==
    LastActiveInv /\ [LastActiveNext]_lastActiveVars => LastActiveInv'
<1> SUFFICES ASSUME LastActiveInv, [LastActiveNext]_lastActiveVars
             PROVE  LastActiveInv'
  OBVIOUS
<1>1. CASE RestartTracker
  <2>1. LastActiveTypeOK'
    <3>1. NoValues \in Values
      BY DEF NoValues, Values
    <3> QED BY <1>1, <3>1 DEF RestartTracker, LastActiveInv, LastActiveTypeOK
  <2>2. LastActiveSurvives'
    BY <1>1 DEF RestartTracker, LastActiveInv, LastActiveSurvives
  <2>3. \A p \in Extensions : wasAvailable'[p] # "yes"
    BY <1>1 DEF RestartTracker
  <2> QED BY <2>1, <2>2, <2>3 DEF LastActiveInv
<1>2. ASSUME NEW up \in SUBSET Extensions, NEW down \in SUBSET Extensions,
             up \cap down = {}, ObservePhones(up, down)
      PROVE  LastActiveInv'
  BY <1>2, ObserveKeepsInv
<1>3. CASE UNCHANGED lastActiveVars
  BY <1>3 DEF lastActiveVars, LastActiveInv, LastActiveTypeOK, LastActiveSurvives
<1> QED BY <1>1, <1>2, <1>3 DEF LastActiveNext

\* Whatever phones come and go, reads and writes fail and the Agent restarts, the
\* value of a phone that was seen to go offline is in the file, and in memory if
\* this life could read it
\* (presence_history.py observe, _save_locked, _load).
THEOREM LastActiveCorrect == LastActiveSpec => []LastActiveSurvives
<1>1. LastActiveInv => LastActiveSurvives
  BY DEF LastActiveInv
<1> QED BY <1>1, LastActiveInvInit, LastActiveInvStep, PTL DEF LastActiveSpec

-----------------------------------------------------------------------------
(* The JTAPI bridge                                                        *)

\* Whoever is between looking for the process and starting one holds the lock,
\* and there is no process in the meantime.
OnlyHolderStarts ==
    \A c \in Askers : starting[c] # "no" => locked = c /\ running = {}

\* What the calls say became true at most a pipe's delay before they were read.
ReadInTime == unheard <= StaleSeconds => seenCalls <= unheard + ReadDelay

BridgeInv ==
    /\ BridgeTypeOK
    /\ running \subseteq {handle}
    /\ OnlyHolderStarts
    /\ ReadInTime

LEMMA BridgeConstants ==
    /\ RestartSeconds \in Nat /\ StaleSeconds \in Nat
    /\ ReadDelay \in Nat /\ MaxMishaps \in Nat
    /\ NoBridge \notin Bridges /\ NoBridge \notin Askers /\ NoBridge \notin Nat
    /\ OldestCalls \in Nat
  BY BridgeAssumption DEF OldestCalls

LEMMA BridgeInvInit == BridgeInit => BridgeInv
<1> SUFFICES ASSUME BridgeInit
             PROVE  BridgeInv
  OBVIOUS
<1> USE BridgeConstants
<1>1. /\ pipe \in [Bridges -> 0..ReadDelay \cup {NoBridge}]
      /\ starting \in [Askers -> {"no", "found", "starts"}]
  BY DEF BridgeInit
<1>2. seenCalls \in 0..OldestCalls /\ unheard \in 0..StaleSeconds + 1
  BY DEF BridgeInit
<1>3. backoff \in 0..RestartSeconds /\ mishaps \in 0..MaxMishaps
  BY DEF BridgeInit
<1>4. BridgeTypeOK
  BY <1>1, <1>2, <1>3 DEF BridgeInit, BridgeTypeOK
<1>5. ReadInTime /\ OnlyHolderStarts
  BY DEF BridgeInit, ReadInTime, OnlyHolderStarts
<1> QED BY <1>4, <1>5 DEF BridgeInv, BridgeInit

\* A step of the thread that holds the lock, or takes it.
LEMMA AskerKeepsInv ==
    ASSUME BridgeInv, NEW c \in Askers,
           \/ FindsNone(c) \/ PushRestart(c) \/ StartFails(c)
           \/ \E b \in Bridges : StartBridge(c, b)
    PROVE  BridgeInv'
<1> USE BridgeConstants
<1>1. /\ starting \in [Askers -> {"no", "found", "starts"}]
      /\ running \subseteq {handle}
      /\ OnlyHolderStarts
  BY DEF BridgeInv, BridgeTypeOK
<1>2. CASE FindsNone(c)
  <2>1. running = {} /\ running' = {} /\ handle' = handle /\ locked' = c
    BY <1>1, <1>2 DEF FindsNone, Alive
  <2>2. \A d \in Askers : starting[d] = "no"
    BY <1>1, <1>2 DEF FindsNone, Free, OnlyHolderStarts
  <2>3. OnlyHolderStarts'
    BY <1>1, <1>2, <2>1, <2>2 DEF FindsNone, OnlyHolderStarts
  <2>4. BridgeTypeOK' /\ ReadInTime'
    BY <1>2 DEF FindsNone, BridgeInv, BridgeTypeOK, ReadInTime
  <2> QED BY <2>1, <2>3, <2>4 DEF BridgeInv
<1>3. CASE PushRestart(c)
  <2>1. OnlyHolderStarts'
    BY <1>1, <1>3 DEF PushRestart, OnlyHolderStarts
  <2>2. BridgeTypeOK' /\ ReadInTime'
    BY <1>3 DEF PushRestart, BridgeInv, BridgeTypeOK, ReadInTime
  <2> QED BY <1>1, <1>3, <2>1, <2>2 DEF BridgeInv, PushRestart
<1>4. ASSUME starting[c] = "starts", Leave(c)
      PROVE  OnlyHolderStarts'
  <2>1. \A d \in Askers : starting'[d] = "no"
    BY <1>1, <1>4 DEF Leave, OnlyHolderStarts
  <2> QED BY <2>1 DEF OnlyHolderStarts
<1>5. CASE StartFails(c)
  <2>1. BridgeTypeOK' /\ ReadInTime'
    BY <1>5 DEF StartFails, Leave, BridgeInv, BridgeTypeOK, ReadInTime
  <2> QED BY <1>1, <1>4, <1>5, <2>1 DEF BridgeInv, StartFails
<1>6. ASSUME NEW b \in Bridges, StartBridge(c, b)
      PROVE  BridgeInv'
  <2>1. running = {}
    BY <1>1, <1>6 DEF StartBridge, OnlyHolderStarts
  <2>2. running' = {b} /\ handle' = b
    BY <1>6, <2>1 DEF StartBridge
  <2>3. BridgeTypeOK' /\ ReadInTime'
    BY <1>6, <2>2 DEF StartBridge, Leave, BridgeInv, BridgeTypeOK, ReadInTime
  <2> QED BY <1>4, <1>6, <2>2, <2>3 DEF BridgeInv, StartBridge
<1> QED BY <1>2, <1>3, <1>5, <1>6

\* A step of a process, of the thread that reads it, or its death.
LEMMA ProcessKeepsInv ==
    ASSUME BridgeInv, NEW b \in Bridges,
           WritesCalls(b) \/ ReadCalls(b) \/ BridgeDies(b)
    PROVE  BridgeInv'
<1> USE BridgeConstants
<1>1. CASE WritesCalls(b)
  BY <1>1 DEF WritesCalls, BridgeInv, BridgeTypeOK, OnlyHolderStarts, ReadInTime
<1>2. CASE ReadCalls(b)
  <2>1. pipe[b] \in 0..ReadDelay
    BY <1>2 DEF ReadCalls, BridgeInv, BridgeTypeOK
  <2>2. seenCalls' = pipe[b] /\ unheard' = 0
    BY <1>2 DEF ReadCalls
  <2>3. seenCalls' \in 0..OldestCalls /\ ReadInTime'
    BY <2>1, <2>2 DEF ReadInTime, OldestCalls
  <2> QED BY <1>2, <2>2, <2>3
          DEF ReadCalls, BridgeInv, BridgeTypeOK, OnlyHolderStarts
<1>3. CASE BridgeDies(b)
  <2>1. running' \subseteq running
    BY <1>3 DEF BridgeDies
  <2>2. BridgeTypeOK' /\ ReadInTime'
    BY <1>3 DEF BridgeDies, BridgeInv, BridgeTypeOK, ReadInTime
  <2> QED BY <1>3, <2>1, <2>2 DEF BridgeDies, BridgeInv, OnlyHolderStarts
<1> QED BY <1>1, <1>2, <1>3

LEMMA TickKeepsInv ==
    ASSUME BridgeInv, BridgeTick
    PROVE  BridgeInv'
<1> USE BridgeConstants
<1>1. /\ pipe \in [Bridges -> 0..ReadDelay \cup {NoBridge}]
      /\ seenCalls \in 0..OldestCalls /\ unheard \in 0..StaleSeconds + 1
      /\ backoff \in 0..RestartSeconds
      /\ ReadInTime
  BY DEF BridgeInv, BridgeTypeOK
<1>2. /\ \A b \in Bridges : pipe[b] # ReadDelay
      /\ pipe' = [b \in Bridges |-> IF pipe[b] = NoBridge THEN NoBridge ELSE pipe[b] + 1]
      /\ seenCalls' = IF seenCalls < OldestCalls THEN seenCalls + 1 ELSE seenCalls
      /\ unheard' = IF unheard < StaleSeconds + 1 THEN unheard + 1 ELSE unheard
      /\ backoff' = IF backoff = 0 THEN 0 ELSE backoff - 1
      /\ UNCHANGED <<handle, running, locked, starting, mishaps, exited>>
  BY DEF BridgeTick, Older
<1>3. pipe' \in [Bridges -> 0..ReadDelay \cup {NoBridge}]
  <2>1. ASSUME NEW b \in Bridges
        PROVE  pipe'[b] \in 0..ReadDelay \cup {NoBridge}
    BY <1>1, <1>2
  <2> QED BY <1>2, <2>1
<1>4. /\ seenCalls' \in 0..OldestCalls /\ unheard' \in 0..StaleSeconds + 1
      /\ backoff' \in 0..RestartSeconds
  BY <1>1, <1>2
<1>5. ReadInTime'
  BY <1>1, <1>2 DEF ReadInTime
<1> QED BY <1>2, <1>3, <1>4, <1>5 DEF BridgeInv, BridgeTypeOK, OnlyHolderStarts

LEMMA CloseKeepsInv ==
    ASSUME BridgeInv, CloseBridge
    PROVE  BridgeInv'
<1> USE BridgeConstants
<1>1. running' = {} /\ handle' = NoBridge
  BY DEF CloseBridge, BridgeInv
<1>2. BridgeTypeOK' /\ ReadInTime'
  BY <1>1 DEF CloseBridge, BridgeInv, BridgeTypeOK, ReadInTime
<1>3. OnlyHolderStarts'
  BY <1>1 DEF CloseBridge, BridgeInv, OnlyHolderStarts
<1> QED BY <1>1, <1>2, <1>3 DEF BridgeInv

LEMMA BridgeInvStep == BridgeInv /\ [BridgeNext]_bridgeVars => BridgeInv'
<1> SUFFICES ASSUME BridgeInv, [BridgeNext]_bridgeVars
             PROVE  BridgeInv'
  OBVIOUS
<1>1. CASE UNCHANGED bridgeVars
  BY <1>1 DEF bridgeVars, BridgeInv, BridgeTypeOK, OnlyHolderStarts, ReadInTime
<1> QED BY <1>1, AskerKeepsInv, ProcessKeepsInv, TickKeepsInv, CloseKeepsInv
        DEF BridgeNext

\* However many threads ask for the calls, there is at most one Java process, and
\* it is the one the Agent can still terminate (jtapi.py _ensure_running, close).
THEOREM OneBridgeCorrect == BridgeSpec => []OneBridge
<1>1. BridgeInv => OneBridge
  <2> SUFFICES ASSUME BridgeInv
               PROVE  OneBridge
    OBVIOUS
  <2>1. running \subseteq {handle}
    BY DEF BridgeInv
  <2>2. IsFiniteSet({handle}) /\ Cardinality({handle}) = 1
    BY FS_Singleton
  <2>3. Cardinality(running) <= 1
    BY <2>1, <2>2, FS_Subset
  <2> QED BY <2>1, <2>3 DEF OneBridge
<1> QED BY <1>1, BridgeInvInit, BridgeInvStep, PTL DEF BridgeSpec

\* Calls are shown only while they are known to have been live at most
\* stale_seconds and a pipe's delay ago, whichever process wrote them and whenever
\* its line was read (jtapi.py channels, _read_stdout).
THEOREM CallsFreshCorrect == BridgeSpec => []CallsFresh
<1>1. BridgeInv => CallsFresh
  BY BridgeConstants
  DEF BridgeInv, BridgeTypeOK, ReadInTime, CallsFresh, CallsShown, OldestCalls
<1> QED BY <1>1, BridgeInvInit, BridgeInvStep, PTL DEF BridgeSpec

-----------------------------------------------------------------------------
(* The sessions with Asterisk                                             *)

\* The packets that any PBX sends, and what is read or on its way.
Packets ==
    {Response} \cup {Ends(a) : a \in DOMAIN EventsOf}
        \cup UNION {Range(Told(p, a)) : p \in Pbxs, a \in DOMAIN EventsOf}

flow == collected \o answer \o coming

Action(i) == AmiActions[i]
EventsOfAction(i) == EventsOf[Action(i)]
SaysTo(i) == Says(Action(i))

\* The events of action i in s are all that the PBX has to say, in order, behind
\* place k.
Whole(s, i, k) ==
    /\ k \in Nat /\ k + Len(SaysTo(i)) <= Len(s)
    /\ \A j \in 1..Len(SaysTo(i)) : s[k + j] = SaysTo(i)[j]
    /\ \A n \in DOMAIN s :
          s[n].event \in EventsOfAction(i) => n > k /\ n <= k + Len(SaysTo(i))

\* Only the first m actions are answered in s, with what the PBX has to say, and no
\* caller is listed twice.
OnlyTold(s, m) ==
    /\ \A n \in DOMAIN s, i \in 1..LastAction :
          /\ s[n].event \in EventsOfAction(i) => i <= m /\ s[n] \in Range(SaysTo(i))
          /\ s[n] = Ends(Action(i)) => i <= m
    /\ \A x : Cardinality(Places(s, "QueueEntry", x))
                <= Cardinality(Places(Says("QueueStatus"), "QueueEntry", x))

\* The answers that were read in time are whole, within the first c packets.
InTimeWhole(s, c, finished, givenUp) ==
    \A i \in 1..finished :
        Action(i) \notin givenUp =>
            \E k \in 0..Len(s) : Whole(s, i, k) /\ k + Len(SaysTo(i)) <= c

\* When the end of the answer arrives, the whole of it came before.
EndComesLast(s, i) ==
    \A n \in DOMAIN s :
        s[n] = Ends(Action(i)) => n = Len(s) /\ Whole(s, i, n - 1 - Len(SaysTo(i)))

SessionInv ==
    /\ pbx \in Pbxs /\ asked \in 0..LastAction /\ broken \in BOOLEAN
    /\ coming \in Seq(Packets) /\ answer \in Seq(Packets) /\ collected \in Seq(Packets)
    /\ \A e \in Range(answer) \cup Range(collected) : e # Response
    /\ late \subseteq DOMAIN EventsOf
    /\ asked = 0 =>
          coming = <<>> /\ answer = <<>> /\ collected = <<>> /\ broken = FALSE
    /\ asked > 0 =>
          /\ Action(1) \notin late
          /\ OnlyTold(flow, asked)
          /\ InTimeWhole(flow, Len(collected), asked - 1, late)
          /\ EndComesLast(flow, asked)
    /\ seen = Unreachable \/ DOMAIN seen = DOMAIN Unreachable
    /\ SnapshotTold

LEMMA ActionsAre ==
    /\ LastAction = 5 /\ AmiActions \in Seq(DOMAIN EventsOf)
    /\ Action(1) = "CoreShowChannels" /\ Action(2) = "PJSIPShowEndpoints"
    /\ Action(3) = "PJSIPShowContacts" /\ Action(4) = "QueueStatus"
    /\ Action(5) = "SIPpeers"
    /\ DOMAIN EventsOf = {Action(1), Action(2), Action(3), Action(4), Action(5)}
<1>1. DOMAIN EventsOf = {"CoreShowChannels", "PJSIPShowEndpoints", "PJSIPShowContacts",
                         "QueueStatus", "SIPpeers"}
  BY DEF EventsOf
<1> QED BY <1>1 DEF LastAction, Action, AmiActions

LEMMA EventsAre ==
    /\ EventsOfAction(1) = {"CoreShowChannel"}
    /\ EventsOfAction(2) = {"EndpointList"}
    /\ EventsOfAction(3) = {"ContactList"}
    /\ EventsOfAction(4) = {"QueueParams", "QueueMember", "QueueEntry"}
    /\ EventsOfAction(5) = {"PeerEntry"}
    /\ EventsOfAction(4) = EventsOf["QueueStatus"]
  BY ActionsAre DEF EventsOf, EventsOfAction

LEMMA EventsApart ==
    /\ \A i \in 1..5 : Action(i) \in DOMAIN EventsOf
    /\ \A i, j \in 1..5 : \A e : e \in EventsOfAction(i) /\ e \in EventsOfAction(j) => i = j
    /\ \A i \in 1..5 : "" \notin EventsOfAction(i) /\ "Complete" \notin EventsOfAction(i)
    /\ \A i, j \in 1..5 : Action(i) = Action(j) => i = j
<1>1. \A i \in 1..5 : i = 1 \/ i = 2 \/ i = 3 \/ i = 4 \/ i = 5
  OBVIOUS
<1>2. \A i \in 1..5 : Action(i) \in DOMAIN EventsOf
  BY <1>1, ActionsAre
<1>3. \A i, j \in 1..5 : Action(i) = Action(j) => i = j
  BY <1>1, ActionsAre
<1>4. \A i \in 1..5 : "" \notin EventsOfAction(i) /\ "Complete" \notin EventsOfAction(i)
  <2>1. \A e \in {"CoreShowChannel", "EndpointList", "ContactList", "QueueParams",
                  "QueueMember", "QueueEntry", "PeerEntry"} : e # "" /\ e # "Complete"
    OBVIOUS
  <2>2. ASSUME NEW i \in 1..5 PROVE "" \notin EventsOfAction(i) /\ "Complete" \notin EventsOfAction(i)
    <3>1. EventsOfAction(i) \subseteq {"CoreShowChannel", "EndpointList", "ContactList",
             "QueueParams", "QueueMember", "QueueEntry", "PeerEntry"}
      BY <1>1, EventsAre
    <3> QED BY <2>1, <3>1
  <2> QED BY <2>2
<1>5. ASSUME NEW i \in 1..5, NEW j \in 1..5, NEW e \in EventsOfAction(i) \cap EventsOfAction(j)
      PROVE  i = j
  BY <1>1, <1>5, EventsAre
<1> QED BY <1>2, <1>3, <1>4, <1>5

LEMMA EndsAre ==
    /\ \A a : Ends(a).event = "Complete" /\ Ends(a).about = a
    /\ \A a, b : Ends(a) = Ends(b) => a = b
    /\ Response.event = ""
  BY DEF Ends, Response

LEMMA SaysAre ==
    ASSUME pbx \in Pbxs, NEW i \in 1..5
    PROVE  /\ SaysTo(i) \in Seq(Range(SaysTo(i))) /\ SaysTo(i) \in Seq(Packets)
           /\ Len(SaysTo(i)) \in Nat /\ DOMAIN SaysTo(i) = 1..Len(SaysTo(i))
           /\ \A n \in 1..Len(SaysTo(i)) : /\ SaysTo(i)[n].event \in EventsOfAction(i)
                                          /\ SaysTo(i)[n] \in Range(SaysTo(i))
           /\ \A e \in Range(SaysTo(i)) :
                 e \in Packets /\ \E n \in 1..Len(SaysTo(i)) : e = SaysTo(i)[n]
<1>1. Action(i) \in DOMAIN EventsOf
  BY EventsApart
<1>2. PICK s : s = SaysTo(i)
  OBVIOUS
<1>3. s = Told(pbx, Action(i))
  BY <1>2 DEF SaysTo, Says
<1>4. s \in Seq(Range(s)) /\ \A e \in Range(s) : e.event \in EventsOfAction(i)
  BY <1>1, <1>3, PbxAssumption DEF EventsOfAction
<1>5. Len(s) \in Nat /\ DOMAIN s = 1..Len(s)
  BY <1>4
<1>6. \A n \in 1..Len(s) : s[n] \in Range(s)
  BY <1>5 DEF Range
<1>7. \A e \in Range(s) : \E n \in 1..Len(s) : e = s[n]
  BY <1>5 DEF Range
<1>8. Range(s) \subseteq Packets
  BY <1>1, <1>3 DEF Packets
<1>9. s \in Seq(Packets)
  BY <1>4, <1>8
<1> QED BY <1>2, <1>4, <1>5, <1>6, <1>7, <1>8, <1>9

LEMMA PacketsAre ==
    /\ Response \in Packets /\ \A i \in 1..5 : Ends(Action(i)) \in Packets
<1>1. ASSUME NEW i \in 1..5 PROVE Ends(Action(i)) \in Packets
  <2>1. Ends(Action(i)) \in {Ends(a) : a \in DOMAIN EventsOf}
    BY EventsApart
  <2> QED BY <2>1 DEF Packets
<1>2. Response \in Packets
  BY DEF Packets
<1> QED BY <1>1, <1>2

LEMMA AnswerIs ==
    ASSUME pbx \in Pbxs, NEW i \in 1..5
    PROVE  LET s == Answer(Action(i))
               L == Len(SaysTo(i))
           IN  /\ s \in Seq(Packets) /\ s[1] = Response
               /\ \/ L = 0 /\ Len(s) = 1
                  \/ Len(s) = L + 2 /\ s[L + 2] = Ends(Action(i))
               /\ \A j \in 1..L : s[1 + j] = SaysTo(i)[j]
<1> DEFINE w == SaysTo(i)
           a == Action(i)
<1>1. w \in Seq(Packets) /\ Len(w) \in Nat /\ Response \in Packets /\ Ends(a) \in Packets
  BY SaysAre, PacketsAre
<1>2. CASE pbx[a] = Unsupported
  <2>1. w = <<>> /\ Answer(a) = <<Response>> \o <<>>
    BY <1>2 DEF SaysTo, Says, Told, Answer
  <2> QED BY <1>1, <2>1
<1>3. CASE pbx[a] # Unsupported
  <2>1. w = pbx[a] /\ Answer(a) = <<Response>> \o (w \o <<Ends(a)>>)
    BY <1>3 DEF SaysTo, Says, Told, Answer
  <2> HIDE DEF w, a
  <2>2. w \o <<Ends(a)>> \in Seq(Packets) /\ Len(w \o <<Ends(a)>>) = Len(w) + 1
        /\ (w \o <<Ends(a)>>)[Len(w) + 1] = Ends(a)
        /\ \A j \in 1..Len(w) : (w \o <<Ends(a)>>)[j] = w[j]
    BY <1>1
  <2>3. PICK v : v = w \o <<Ends(a)>>
    OBVIOUS
  <2>4. /\ Answer(a) \in Seq(Packets) /\ Len(Answer(a)) = Len(v) + 1
        /\ Answer(a)[1] = Response /\ \A j \in 1..Len(v) : Answer(a)[1 + j] = v[j]
    BY <1>1, <2>1, <2>2, <2>3
  <2>5. Answer(a)[Len(w) + 2] = Ends(a)
    <3>1. Len(w) + 1 \in 1..Len(v) /\ 1 + (Len(w) + 1) = Len(w) + 2
      BY <1>1, <2>2, <2>3
    <3> QED BY <2>2, <2>3, <2>4, <3>1
  <2>6. \A j \in 1..Len(w) : Answer(a)[1 + j] = w[j]
    BY <1>1, <2>2, <2>3, <2>4
  <2> QED BY <1>1, <2>2, <2>3, <2>4, <2>5, <2>6 DEF w, a
<1> QED BY <1>2, <1>3

-----------------------------------------------------------------------------
(* What is lost and what is added                                          *)

LEMMA PlacesAre ==
    ASSUME NEW R, NEW s \in Seq(R), NEW name, NEW x
    PROVE  /\ Places(s, name, x) \subseteq 1..Len(s) /\ IsFiniteSet(Places(s, name, x))
           /\ Cardinality(Places(s, name, x)) \in Nat
<1>1. Len(s) \in Nat /\ Places(s, name, x) \subseteq 1..Len(s)
  BY DEF Places
<1>2. IsFiniteSet(1..Len(s))
  BY <1>1, FS_Interval
<1> QED BY <1>1, <1>2, SubsetIsSmaller

\* In t the y packets of s behind place x are missing.
IsCut(t, s, x, y) ==
    /\ x \in Nat /\ y \in Nat /\ x + y <= Len(s) /\ Len(t) = Len(s) - y
    /\ \A n \in 1..Len(t) : t[n] = s[IF n <= x THEN n ELSE n + y]

LEMMA CutKeeps ==
    ASSUME pbx \in Pbxs, NEW s \in Seq(Packets), NEW t \in Seq(Packets),
           NEW x, NEW y, IsCut(t, s, x, y),
           NEW m \in Nat, OnlyTold(s, m)
    PROVE  OnlyTold(t, m)
<1>1. /\ x \in Nat /\ y \in Nat /\ x + y <= Len(s) /\ Len(t) = Len(s) - y
      /\ Len(s) \in Nat /\ Len(t) \in Nat
      /\ DOMAIN s = 1..Len(s) /\ DOMAIN t = 1..Len(t)
      /\ \A n \in 1..Len(t) : t[n] = s[IF n <= x THEN n ELSE n + y]
  BY DEF IsCut
<1> DEFINE g == [n \in 1..Len(t) |-> IF n <= x THEN n ELSE n + y]
<1>2. \A n \in 1..Len(t) : g[n] \in 1..Len(s) /\ t[n] = s[g[n]]
  BY <1>1
<1>3. \A n, o \in 1..Len(t) : g[n] = g[o] => n = o
  BY <1>1
<1> HIDE DEF g
<1>4. ASSUME NEW n \in DOMAIN t, NEW i \in 1..LastAction
      PROVE  /\ t[n].event \in EventsOfAction(i) => i <= m /\ t[n] \in Range(SaysTo(i))
             /\ t[n] = Ends(Action(i)) => i <= m
  BY <1>1, <1>2 DEF OnlyTold
<1>5. ASSUME NEW z
      PROVE  Cardinality(Places(t, "QueueEntry", z))
                <= Cardinality(Places(Says("QueueStatus"), "QueueEntry", z))
  <2> DEFINE P == Places(t, "QueueEntry", z)
             Q == Places(s, "QueueEntry", z)
             f == [n \in P |-> g[n]]
  <2>1. IsFiniteSet(Q) /\ Cardinality(Q) \in Nat /\ P \subseteq 1..Len(t)
        /\ Cardinality(P) \in Nat
    BY PlacesAre
  <2>2. \A n \in P : g[n] \in Q
    BY <1>1, <1>2 DEF Places
  <2>3. f \in [P -> Q] /\ \A n, o \in P : f[n] = f[o] => n = o
    <3> HIDE DEF P, Q
    <3> QED BY <1>3, <2>1, <2>2
  <2>4. Cardinality(P) <= Cardinality(Q)
    <3> HIDE DEF P, Q, f
    <3> QED BY <2>1, <2>3, InjectionBound
  <2>5. Cardinality(Q) <= Cardinality(Places(Says("QueueStatus"), "QueueEntry", z))
    BY DEF OnlyTold
  <2>6. Cardinality(Places(Says("QueueStatus"), "QueueEntry", z)) \in Nat
    <3>1. 4 \in 1..5 /\ Says("QueueStatus") = SaysTo(4)
      BY ActionsAre DEF SaysTo
    <3> QED BY <3>1, SaysAre, PlacesAre
  <2> HIDE DEF P, Q
  <2>7. Cardinality(P) <= Cardinality(Places(Says("QueueStatus"), "QueueEntry", z))
    BY <2>1, <2>4, <2>5, <2>6
  <2> QED BY <2>7 DEF P
<1> QED BY <1>4, <1>5 DEF OnlyTold

LEMMA CutKeepsWhole ==
    ASSUME pbx \in Pbxs, NEW s \in Seq(Packets), NEW t \in Seq(Packets),
           NEW x, NEW y, IsCut(t, s, x, y),
           NEW i \in 1..5, NEW k, Whole(s, i, k), k + Len(SaysTo(i)) <= x
    PROVE  Whole(t, i, k)
<1>1. /\ x \in Nat /\ y \in Nat /\ x + y <= Len(s) /\ Len(t) = Len(s) - y
      /\ Len(s) \in Nat /\ Len(t) \in Nat
      /\ DOMAIN s = 1..Len(s) /\ DOMAIN t = 1..Len(t)
      /\ \A n \in 1..Len(t) : t[n] = s[IF n <= x THEN n ELSE n + y]
  BY DEF IsCut
<1> DEFINE L == Len(SaysTo(i))
<1>2. /\ L \in Nat /\ k \in Nat /\ k + L <= x
      /\ \A j \in 1..L : s[k + j] = SaysTo(i)[j]
      /\ \A n \in DOMAIN s : s[n].event \in EventsOfAction(i) => n > k /\ n <= k + L
  BY SaysAre DEF Whole
<1> HIDE DEF L
<1>3. ASSUME NEW j \in 1..L PROVE t[k + j] = SaysTo(i)[j]
  <2>1. k + j \in 1..Len(t) /\ k + j <= x
    BY <1>1, <1>2
  <2> QED BY <1>1, <1>2, <2>1
<1>4. ASSUME NEW n \in DOMAIN t, t[n].event \in EventsOfAction(i)
      PROVE  n > k /\ n <= k + L
  <2>1. CASE n <= x
    <3>1. n \in DOMAIN s /\ t[n] = s[n]
      BY <1>1, <2>1
    <3> QED BY <1>2, <1>4, <3>1
  <2>2. CASE ~(n <= x)
    <3>1. n + y \in DOMAIN s /\ t[n] = s[n + y] /\ n + y > x
      BY <1>1, <2>2
    <3>2. n + y <= k + L
      BY <1>2, <1>4, <3>1
    <3> QED BY <1>1, <1>2, <3>1, <3>2
  <2> QED BY <2>1, <2>2
<1>5. k + L <= Len(t)
  BY <1>1, <1>2
<1> QED BY <1>2, <1>3, <1>4, <1>5 DEF Whole, L

LEMMA CutKeepsInTime ==
    ASSUME pbx \in Pbxs, NEW s \in Seq(Packets), NEW t \in Seq(Packets),
           NEW x, NEW y, IsCut(t, s, x, y), NEW c \in Nat, c <= x,
           NEW f \in 0..5, NEW late0, InTimeWhole(s, c, f, late0)
    PROVE  InTimeWhole(t, c, f, late0)
<1>1. ASSUME NEW i \in 1..f, Action(i) \notin late0
      PROVE  \E k \in 0..Len(t) : Whole(t, i, k) /\ k + Len(SaysTo(i)) <= c
  <2>1. PICK k \in 0..Len(s) : Whole(s, i, k) /\ k + Len(SaysTo(i)) <= c
    BY <1>1 DEF InTimeWhole
  <2>2. i \in 1..5 /\ x \in Nat
    <3>1. i \in 1..5
      OBVIOUS
    <3> QED BY <3>1 DEF IsCut
  <2>3. Len(SaysTo(i)) \in Nat
    BY <2>2, SaysAre
  <2>4. Whole(t, i, k)
    BY <2>1, <2>2, <2>3, CutKeepsWhole
  <2>5. k \in 0..Len(t)
    BY <2>3, <2>4 DEF Whole
  <2> QED BY <2>1, <2>4, <2>5
<1> QED BY <1>1 DEF InTimeWhole

LEMMA LossKeepsEnd ==
    ASSUME pbx \in Pbxs, NEW s \in Seq(Packets), NEW t \in Seq(Packets),
           NEW x, NEW y, IsCut(t, s, x, y), x + y = Len(s),
           NEW i \in 1..5, EndComesLast(s, i)
    PROVE  EndComesLast(t, i)
<1>1. /\ x \in Nat /\ y \in Nat /\ Len(t) = x
      /\ Len(s) \in Nat /\ Len(t) \in Nat
      /\ DOMAIN s = 1..Len(s) /\ DOMAIN t = 1..Len(t)
      /\ \A n \in 1..Len(t) : t[n] = s[n]
  <2>1. /\ x \in Nat /\ y \in Nat /\ Len(t) = Len(s) - y
        /\ \A n \in 1..Len(t) : t[n] = s[IF n <= x THEN n ELSE n + y]
    BY DEF IsCut
  <2>2. Len(s) \in Nat /\ Len(t) \in Nat /\ DOMAIN s = 1..Len(s) /\ DOMAIN t = 1..Len(t)
    OBVIOUS
  <2>3. Len(t) = x
    BY <2>1, <2>2
  <2> QED BY <2>1, <2>2, <2>3
<1>2. SUFFICES ASSUME NEW n \in DOMAIN t, t[n] = Ends(Action(i))
               PROVE  n = Len(t) /\ Whole(t, i, n - 1 - Len(SaysTo(i)))
  BY DEF EndComesLast
<1>3. n \in DOMAIN s /\ s[n] = Ends(Action(i))
  BY <1>1, <1>2
<1>4. n = Len(s) /\ Whole(s, i, n - 1 - Len(SaysTo(i)))
  BY <1>3 DEF EndComesLast
<1>5. Len(t) = Len(s) /\ n = Len(t)
  BY <1>1, <1>2, <1>4
<1>6. t = s
  BY <1>1, <1>5
<1> QED BY <1>4, <1>5, <1>6

\* Response is not part of what the PBX says.
LEMMA ResponseKeepsEnd ==
    ASSUME pbx \in Pbxs, NEW s \in Seq(Packets), NEW t \in Seq(Packets),
           NEW x, IsCut(t, s, x, 1), s[x + 1] = Response,
           NEW i \in 1..5, EndComesLast(s, i)
    PROVE  EndComesLast(t, i)
<1>1. /\ x \in Nat /\ x + 1 <= Len(s) /\ Len(t) = Len(s) - 1
      /\ Len(s) \in Nat /\ Len(t) \in Nat
      /\ DOMAIN s = 1..Len(s) /\ DOMAIN t = 1..Len(t)
      /\ \A n \in 1..Len(t) : t[n] = s[IF n <= x THEN n ELSE n + 1]
  BY DEF IsCut
<1>2. SUFFICES ASSUME NEW n \in DOMAIN t, t[n] = Ends(Action(i))
               PROVE  n = Len(t) /\ Whole(t, i, n - 1 - Len(SaysTo(i)))
  BY DEF EndComesLast
<1>3. PICK o \in DOMAIN s : o = (IF n <= x THEN n ELSE n + 1) /\ s[o] = Ends(Action(i))
  BY <1>1, <1>2
<1> DEFINE L == Len(SaysTo(i))
<1>4. o = Len(s) /\ Whole(s, i, o - 1 - L)
  BY <1>3 DEF EndComesLast
<1>5. PICK k : k = o - 1 - L
  OBVIOUS
<1>6. /\ L \in Nat /\ k \in Nat /\ k + L = Len(s) - 1
      /\ \A j \in 1..L : s[k + j] = SaysTo(i)[j] /\ SaysTo(i)[j].event \in EventsOfAction(i)
      /\ \A p \in DOMAIN s : s[p].event \in EventsOfAction(i) => p > k /\ p <= k + L
  <2>1. Whole(s, i, k)
    BY <1>4, <1>5
  <2>2. L \in Nat /\ \A j \in 1..L : SaysTo(i)[j].event \in EventsOfAction(i)
    BY SaysAre
  <2>3. k + L = Len(s) - 1
    BY <1>1, <1>4, <1>5, <2>2
  <2> QED BY <2>1, <2>2, <2>3 DEF Whole
<1> HIDE DEF L
<1>7. x + 1 # Len(s)
  <2>1. Response # Ends(Action(i))
    <3>1. "Complete" # ""
      OBVIOUS
    <3> QED BY <3>1, EndsAre
  <2> QED BY <1>3, <1>4, <2>1
<1>8. o = n + 1 /\ n = Len(t)
  BY <1>1, <1>3, <1>4, <1>7
<1>9. x + 1 <= k
  <2>1. SUFFICES ASSUME x + 1 > k PROVE FALSE
    BY <1>1, <1>6
  <2>2. PICK j \in 1..L : x + 1 = k + j
    <3>1. x + 1 - k \in 1..L /\ x + 1 = k + (x + 1 - k)
      BY <1>1, <1>6, <1>7, <2>1
    <3> QED BY <3>1
  <2>3. Response.event \in EventsOfAction(i)
    BY <1>6, <2>2
  <2> QED BY <2>3, EndsAre, EventsApart
<1>10. PICK h \in Nat : h = k - 1 /\ h = n - 1 - L
  BY <1>1, <1>6, <1>8, <1>9
<1>11. ASSUME NEW j \in 1..L PROVE t[h + j] = SaysTo(i)[j]
  <2>1. h + j \in 1..Len(t) /\ ~(h + j <= x) /\ (h + j) + 1 = k + j
    BY <1>1, <1>6, <1>9, <1>10
  <2> QED BY <1>1, <1>6, <2>1
<1>12. ASSUME NEW p \in DOMAIN t, t[p].event \in EventsOfAction(i)
       PROVE  p > h /\ p <= h + L
  <2>1. CASE p <= x
    <3>1. p \in DOMAIN s /\ t[p] = s[p]
      BY <1>1, <2>1
    <3>2. p > k
      BY <1>6, <1>12, <3>1
    <3> QED BY <1>1, <1>6, <1>9, <2>1, <3>2
  <2>2. CASE ~(p <= x)
    <3>1. p + 1 \in DOMAIN s /\ t[p] = s[p + 1]
      BY <1>1, <2>2
    <3>2. p + 1 > k /\ p + 1 <= k + L
      BY <1>6, <1>12, <3>1
    <3> QED BY <1>1, <1>6, <1>10, <3>2
  <2> QED BY <2>1, <2>2
<1>13. h + L <= Len(t)
  BY <1>1, <1>6, <1>8, <1>10
<1>14. Whole(t, i, h)
  BY <1>10, <1>11, <1>12, <1>13 DEF Whole, L
<1> QED BY <1>8, <1>10, <1>14 DEF L

\* Packets that belong to the answer to action i.
OfAnswer(v, i) ==
    \A n \in DOMAIN v :
        v[n] \in Range(SaysTo(i)) \cup {Response, Ends(Action(i))}

LEMMA OfAnswerIs ==
    ASSUME pbx \in Pbxs, NEW i \in 1..5, NEW v, OfAnswer(v, i), NEW n \in DOMAIN v
    PROVE  /\ \A j \in 1..5 : v[n].event \in EventsOfAction(j) => j = i /\ v[n] \in Range(SaysTo(i))
           /\ \A j \in 1..5 : v[n] = Ends(Action(j)) => j = i
<1>1. v[n] \in Range(SaysTo(i)) \/ v[n] = Response \/ v[n] = Ends(Action(i))
  BY DEF OfAnswer
<1>2. CASE v[n] \in Range(SaysTo(i))
  <2>1. v[n].event \in EventsOfAction(i)
    BY <1>2, SaysAre
  <2>2. \A j \in 1..5 : v[n] # Ends(Action(j))
    BY <2>1, EndsAre, EventsApart
  <2> QED BY <1>2, <2>1, <2>2, EventsApart
<1>3. CASE v[n] = Response
  <2>1. v[n].event = "" /\ "" # "Complete"
    BY <1>3, EndsAre
  <2> QED BY <2>1, EndsAre, EventsApart
<1>4. CASE v[n] = Ends(Action(i))
  BY <1>4, EndsAre, EventsApart
<1> QED BY <1>1, <1>2, <1>3, <1>4

LEMMA JoinIs ==
    ASSUME NEW s \in Seq(Packets), NEW v \in Seq(Packets)
    PROVE  LET t == s \o v
           IN  /\ t \in Seq(Packets) /\ Len(t) = Len(s) + Len(v)
               /\ Len(s) \in Nat /\ Len(v) \in Nat
               /\ DOMAIN s = 1..Len(s) /\ DOMAIN v = 1..Len(v) /\ DOMAIN t = 1..Len(t)
               /\ \A n \in 1..Len(s) : t[n] = s[n]
               /\ \A n \in 1..Len(v) : t[Len(s) + n] = v[n]
               /\ \A n \in 1..Len(t) : n > Len(s) => n - Len(s) \in 1..Len(v) /\ t[n] = v[n - Len(s)]
  OBVIOUS

LEMMA AddKeeps ==
    ASSUME pbx \in Pbxs, NEW s \in Seq(Packets), NEW v \in Seq(Packets),
           NEW i \in 1..5, OnlyTold(s, i - 1),
           OfAnswer(v, i), NEW j \in Nat, Whole(v, i, j)
    PROVE  /\ OnlyTold(s \o v, i)
           /\ Whole(s \o v, i, Len(s) + j)
           /\ \A n \in DOMAIN s : s[n] # Ends(Action(i))
<1> DEFINE t == s \o v
           L == Len(SaysTo(i))
<1>1. /\ t \in Seq(Packets) /\ Len(t) = Len(s) + Len(v)
      /\ Len(s) \in Nat /\ Len(v) \in Nat
      /\ DOMAIN s = 1..Len(s) /\ DOMAIN v = 1..Len(v) /\ DOMAIN t = 1..Len(t)
      /\ \A n \in 1..Len(s) : t[n] = s[n]
      /\ \A n \in 1..Len(v) : t[Len(s) + n] = v[n]
      /\ \A n \in 1..Len(t) : n > Len(s) => n - Len(s) \in 1..Len(v) /\ t[n] = v[n - Len(s)]
  BY JoinIs
<1> HIDE DEF t
<1>2. /\ L \in Nat /\ j + L <= Len(v)
      /\ \A o \in 1..L : v[j + o] = SaysTo(i)[o]
      /\ \A n \in DOMAIN v : v[n].event \in EventsOfAction(i) => n > j /\ n <= j + L
  BY SaysAre DEF Whole
<1> HIDE DEF L
<1>3. LastAction = 5
  BY ActionsAre
<1>4. ASSUME NEW n \in DOMAIN s
      PROVE  /\ \A a \in 1..5 : s[n].event \in EventsOfAction(a) => a <= i - 1 /\ s[n] \in Range(SaysTo(a))
             /\ \A a \in 1..5 : s[n] = Ends(Action(a)) => a <= i - 1
  BY <1>3 DEF OnlyTold
<1>5. \A n \in DOMAIN s : s[n] # Ends(Action(i))
  BY <1>4
<1>6. ASSUME NEW n \in DOMAIN t, NEW a \in 1..5
      PROVE  /\ t[n].event \in EventsOfAction(a) => a <= i /\ t[n] \in Range(SaysTo(a))
             /\ t[n] = Ends(Action(a)) => a <= i
  <2>1. CASE n <= Len(s)
    <3>1. n \in DOMAIN s /\ t[n] = s[n]
      BY <1>1, <2>1
    <3> QED BY <1>4, <3>1
  <2>2. CASE n > Len(s)
    <3>1. PICK o \in DOMAIN v : t[n] = v[o]
      BY <1>1, <2>2
    <3> QED BY <3>1, OfAnswerIs
  <2> QED BY <1>1, <2>1, <2>2
<1>7. ASSUME NEW n \in DOMAIN t, t[n].event \in EventsOfAction(i)
      PROVE  /\ n > Len(s) + j /\ n <= Len(s) + j + L
             /\ n - (Len(s) + j) \in 1..L /\ t[n] = SaysTo(i)[n - (Len(s) + j)]
  <2>1. n > Len(s)
    <3>1. SUFFICES ASSUME n <= Len(s) PROVE FALSE
      BY <1>1
    <3>2. n \in DOMAIN s /\ t[n] = s[n]
      BY <1>1, <3>1
    <3>3. i <= i - 1
      BY <1>4, <1>7, <3>2
    <3> QED BY <3>3
  <2>2. PICK p : p = n - Len(s)
    OBVIOUS
  <2>3. p \in DOMAIN v /\ t[n] = v[p] /\ n = Len(s) + p
    BY <1>1, <2>1, <2>2
  <2>4. p > j /\ p <= j + L
    BY <1>2, <1>7, <2>3
  <2>5. PICK o \in 1..L : p = j + o
    <3>1. p - j \in 1..L /\ p = j + (p - j)
      BY <1>1, <1>2, <2>3, <2>4
    <3> QED BY <3>1
  <2>6. n - (Len(s) + j) = o /\ n > Len(s) + j /\ n <= Len(s) + j + L
    BY <1>1, <1>2, <2>3, <2>5
  <2>7. t[n] = SaysTo(i)[o]
    BY <1>2, <2>3, <2>5
  <2> QED BY <2>6, <2>7
<1>8. Whole(t, i, Len(s) + j)
  <2>1. ASSUME NEW o \in 1..L PROVE t[(Len(s) + j) + o] = SaysTo(i)[o]
    <3>1. j + o \in 1..Len(v) /\ (Len(s) + j) + o = Len(s) + (j + o)
      BY <1>1, <1>2
    <3> QED BY <1>1, <1>2, <3>1
  <2>2. Len(s) + j \in Nat /\ (Len(s) + j) + L <= Len(t)
    BY <1>1, <1>2
  <2> QED BY <1>7, <2>1, <2>2 DEF Whole, L
<1>9. ASSUME NEW z
      PROVE  Cardinality(Places(t, "QueueEntry", z))
                <= Cardinality(Places(Says("QueueStatus"), "QueueEntry", z))
  <2> DEFINE P == Places(t, "QueueEntry", z)
             Q == Places(s, "QueueEntry", z)
             W == Places(Says("QueueStatus"), "QueueEntry", z)
  <2>1. Says("QueueStatus") = SaysTo(4) /\ 4 \in 1..5 /\ "QueueEntry" \in EventsOfAction(4)
    BY ActionsAre, EventsAre DEF SaysTo
  <2>2. /\ IsFiniteSet(P) /\ Cardinality(P) \in Nat /\ P \subseteq 1..Len(t)
        /\ IsFiniteSet(Q) /\ Cardinality(Q) \in Nat
    BY <1>1, PlacesAre
  <2>3. IsFiniteSet(W) /\ Cardinality(W) \in Nat
    BY <2>1, SaysAre, PlacesAre
  <2>4. Cardinality(Q) <= Cardinality(W)
    BY DEF OnlyTold
  <2>5. CASE i = 4
    <3> DEFINE f == [n \in P |-> n - (Len(s) + j)]
    <3>1. ASSUME NEW n \in P PROVE n - (Len(s) + j) \in W /\ n \in Int
      <4>1. n \in DOMAIN t /\ t[n].event \in EventsOfAction(i) /\ t[n].event = "QueueEntry"
            /\ t[n].about = z
        BY <2>1, <2>5 DEF Places
      <4>2. PICK o \in 1..L : o = n - (Len(s) + j) /\ t[n] = SaysTo(i)[o]
        BY <1>7, <4>1
      <4>3. o \in DOMAIN SaysTo(4)
        BY <2>5, <4>2, SaysAre DEF L
      <4> QED BY <1>1, <2>1, <2>5, <4>1, <4>2, <4>3 DEF Places
    <3>2. f \in [P -> W]
      BY <3>1
    <3>3. \A n, o \in P : f[n] = f[o] => n = o
      <4>1. PICK h \in Nat : h = Len(s) + j
        BY <1>1
      <4>2. f = [n \in P |-> n - h] /\ \A n \in P : n \in Int
        BY <3>1, <4>1
      <4> HIDE DEF f, P
      <4> QED BY <4>2
    <3>4. Cardinality(P) <= Cardinality(W)
      <4> HIDE DEF P, W, f
      <4> QED BY <2>3, <3>2, <3>3, InjectionBound
    <3> QED BY <3>4
  <2>6. CASE i # 4
    <3>1. P \subseteq Q
      <4>1. ASSUME NEW n \in P PROVE n \in Q
        <5>1. n \in DOMAIN t /\ t[n].event = "QueueEntry" /\ t[n].about = z
          BY DEF Places
        <5>2. n <= Len(s)
          <6>1. SUFFICES ASSUME n > Len(s) PROVE FALSE
            BY <1>1, <5>1
          <6>2. PICK o \in DOMAIN v : t[n] = v[o]
            BY <1>1, <5>1, <6>1
          <6>3. 4 = i
            BY <2>1, <5>1, <6>2, OfAnswerIs
          <6> QED BY <2>6, <6>3
        <5>3. n \in DOMAIN s /\ t[n] = s[n]
          BY <1>1, <5>1, <5>2
        <5> QED BY <5>1, <5>3 DEF Places
      <4> QED BY <4>1
    <3>2. Cardinality(P) <= Cardinality(Q)
      <4> HIDE DEF P, Q
      <4> QED BY <2>2, <3>1, SubsetIsSmaller
    <3>3. Cardinality(P) <= Cardinality(W)
      <4> HIDE DEF P, Q, W
      <4> QED BY <2>2, <2>3, <2>4, <3>2
    <3> QED BY <3>3
  <2> QED BY <2>5, <2>6
<1>10. OnlyTold(t, i)
  BY <1>3, <1>6, <1>9 DEF OnlyTold
<1> QED BY <1>5, <1>8, <1>10 DEF t

LEMMA AddKeepsInTime ==
    ASSUME pbx \in Pbxs, NEW s \in Seq(Packets), NEW v \in Seq(Packets),
           NEW i \in 1..5, OfAnswer(v, i),
           NEW c \in Nat, NEW f \in 0..5, f < i, NEW late0, InTimeWhole(s, c, f, late0)
    PROVE  InTimeWhole(s \o v, c, f, late0)
<1> DEFINE t == s \o v
<1>1. /\ Len(t) = Len(s) + Len(v) /\ Len(s) \in Nat /\ Len(v) \in Nat
      /\ DOMAIN s = 1..Len(s) /\ DOMAIN v = 1..Len(v) /\ DOMAIN t = 1..Len(t)
      /\ \A n \in 1..Len(s) : t[n] = s[n]
      /\ \A n \in 1..Len(t) : n > Len(s) => n - Len(s) \in 1..Len(v) /\ t[n] = v[n - Len(s)]
  BY JoinIs
<1> HIDE DEF t
<1>2. ASSUME NEW a \in 1..f, Action(a) \notin late0
      PROVE  \E k \in 0..Len(t) : Whole(t, a, k) /\ k + Len(SaysTo(a)) <= c
  <2>1. PICK k \in 0..Len(s) : Whole(s, a, k) /\ k + Len(SaysTo(a)) <= c
    BY <1>2 DEF InTimeWhole
  <2>2. a \in 1..5 /\ a # i
    OBVIOUS
  <2> DEFINE L == Len(SaysTo(a))
  <2>3. /\ L \in Nat /\ k \in Nat /\ k + L <= Len(s)
        /\ \A j \in 1..L : s[k + j] = SaysTo(a)[j]
        /\ \A n \in DOMAIN s : s[n].event \in EventsOfAction(a) => n > k /\ n <= k + L
    BY <2>1, <2>2, SaysAre DEF Whole
  <2> HIDE DEF L
  <2>4. ASSUME NEW j \in 1..L PROVE t[k + j] = SaysTo(a)[j]
    <3>1. k + j \in 1..Len(s)
      BY <1>1, <2>3
    <3> QED BY <1>1, <2>3, <3>1
  <2>5. ASSUME NEW n \in DOMAIN t, t[n].event \in EventsOfAction(a)
        PROVE  n > k /\ n <= k + L
    <3>1. CASE n <= Len(s)
      <4>1. n \in DOMAIN s /\ t[n] = s[n]
        BY <1>1, <3>1
      <4> QED BY <2>3, <2>5, <4>1
    <3>2. CASE n > Len(s)
      <4>1. PICK o \in DOMAIN v : t[n] = v[o]
        BY <1>1, <3>2
      <4>2. a = i
        BY <2>2, <2>5, <4>1, OfAnswerIs
      <4> QED BY <2>2, <4>2
    <3> QED BY <1>1, <3>1, <3>2
  <2>6. k + L <= Len(t) /\ k \in 0..Len(t)
    BY <1>1, <2>3
  <2>7. Whole(t, a, k)
    BY <2>3, <2>4, <2>5, <2>6 DEF Whole, L
  <2> QED BY <2>1, <2>6, <2>7
<1> QED BY <1>2 DEF InTimeWhole, t

\* An action that is sent is answered behind everything else.
LEMMA AnswerComesLast ==
    ASSUME pbx \in Pbxs, NEW s \in Seq(Packets), NEW i \in 1..5, OnlyTold(s, i - 1)
    PROVE  LET t == s \o Answer(Action(i))
           IN  /\ t \in Seq(Packets) /\ OnlyTold(t, i) /\ EndComesLast(t, i)
               /\ Answer(Action(i)) \in Seq(Packets) /\ OfAnswer(Answer(Action(i)), i)
<1> DEFINE v == Answer(Action(i))
           L == Len(SaysTo(i))
           t == s \o v
<1>1. /\ v \in Seq(Packets) /\ v[1] = Response
      /\ \/ L = 0 /\ Len(v) = 1
         \/ Len(v) = L + 2 /\ v[L + 2] = Ends(Action(i))
      /\ \A j \in 1..L : v[1 + j] = SaysTo(i)[j]
  BY AnswerIs
<1>2. /\ L \in Nat /\ Len(v) \in Nat /\ DOMAIN v = 1..Len(v)
      /\ \A n \in 1..L : SaysTo(i)[n].event \in EventsOfAction(i) /\ SaysTo(i)[n] \in Range(SaysTo(i))
      /\ 1 + L <= Len(v) /\ Len(v) <= L + 2
      /\ Len(v) = L + 2 => v[L + 2] = Ends(Action(i))
  <2>1. L \in Nat /\ \A n \in 1..L : /\ SaysTo(i)[n].event \in EventsOfAction(i)
                                  /\ SaysTo(i)[n] \in Range(SaysTo(i))
    BY SaysAre
  <2> HIDE DEF v, L
  <2>2. Len(v) \in Nat /\ DOMAIN v = 1..Len(v)
    BY <1>1
  <2>3. CASE L = 0 /\ Len(v) = 1
    BY <2>1, <2>2, <2>3
  <2>4. CASE Len(v) = L + 2 /\ v[L + 2] = Ends(Action(i))
    BY <2>1, <2>2, <2>4
  <2> QED BY <1>1, <2>3, <2>4
<1> HIDE DEF v, L
<1>n. L \in Nat /\ Len(v) \in Nat /\ 1 + L <= Len(v) /\ Len(v) <= L + 2
  BY <1>2
<1>d. \A n \in DOMAIN v : n \in 1..Len(v)
  BY <1>2
<1>3. ASSUME NEW n \in DOMAIN v
      PROVE  \/ n = 1 /\ v[n] = Response
             \/ n - 1 \in 1..L /\ v[n] = SaysTo(i)[n - 1]
             \/ n = L + 2 /\ n = Len(v) /\ v[n] = Ends(Action(i))
  <2> n \in 1..Len(v)
    BY <1>d
  <2>1. CASE n = 1
    BY <1>1, <2>1
  <2>2. CASE n # 1 /\ n <= L + 1
    <3>1. PICK j \in 1..L : n = 1 + j /\ j = n - 1
      <4>1. n - 1 \in 1..L /\ n = 1 + (n - 1)
        BY <1>n, <2>2
      <4> QED BY <4>1
    <3> QED BY <1>1, <3>1
  <2>3. CASE n # 1 /\ ~(n <= L + 1)
    <3>1. n = L + 2 /\ n = Len(v)
      BY <1>n, <2>3
    <3> QED BY <1>2, <3>1
  <2> QED BY <2>1, <2>2, <2>3
<1>4. OfAnswer(v, i)
  BY <1>2, <1>3 DEF OfAnswer
<1>5. /\ Response.event \notin EventsOfAction(i) /\ Ends(Action(i)).event \notin EventsOfAction(i)
      /\ Response # Ends(Action(i))
      /\ \A n \in 1..L : SaysTo(i)[n] # Ends(Action(i))
  <2>1. "Complete" # ""
    OBVIOUS
  <2> QED BY <1>2, <2>1, EndsAre, EventsApart
<1>6. Whole(v, i, 1)
  <2>2. ASSUME NEW n \in DOMAIN v, v[n].event \in EventsOfAction(i)
        PROVE  n > 1 /\ n <= 1 + L
    <3>1. n - 1 \in 1..L
      BY <1>3, <1>5, <2>2
    <3>2. n \in 1..Len(v)
      BY <1>d
    <3> QED BY <1>n, <3>1, <3>2
  <2> QED BY <1>1, <1>2, <2>2 DEF Whole, L
<1>7. OnlyTold(t, i) /\ Whole(t, i, Len(s) + 1) /\ \A n \in DOMAIN s : s[n] # Ends(Action(i))
  BY <1>1, <1>4, <1>6, AddKeeps
<1>8. /\ t \in Seq(Packets) /\ Len(t) = Len(s) + Len(v) /\ Len(s) \in Nat
      /\ DOMAIN s = 1..Len(s) /\ DOMAIN t = 1..Len(t)
      /\ \A n \in 1..Len(s) : t[n] = s[n]
      /\ \A n \in 1..Len(t) : n > Len(s) => n - Len(s) \in 1..Len(v) /\ t[n] = v[n - Len(s)]
  BY <1>1, JoinIs
<1> HIDE DEF t
<1>9. ASSUME NEW n \in DOMAIN t, t[n] = Ends(Action(i))
      PROVE  n = Len(t) /\ Whole(t, i, n - 1 - L)
  <2>1. n > Len(s)
    <3>1. SUFFICES ASSUME n <= Len(s) PROVE FALSE
      BY <1>8
    <3>2. n \in DOMAIN s /\ t[n] = s[n]
      BY <1>8, <3>1
    <3> QED BY <1>7, <1>9, <3>2
  <2>2. PICK o \in DOMAIN v : o = n - Len(s) /\ v[o] = Ends(Action(i))
    BY <1>2, <1>8, <1>9, <2>1
  <2>3. o = L + 2 /\ o = Len(v)
    BY <1>3, <1>5, <2>2
  <2>4. n = Len(t) /\ n - 1 - L = Len(s) + 1
    <3>1. Len(s) \in Nat /\ Len(t) = Len(s) + Len(v) /\ n \in 1..Len(t)
      BY <1>8
    <3> HIDE DEF L
    <3> QED BY <1>n, <2>2, <2>3, <3>1
  <2> QED BY <1>7, <2>4
<1>10. EndComesLast(t, i)
  BY <1>9 DEF EndComesLast, L
<1> QED BY <1>1, <1>4, <1>7, <1>8, <1>10 DEF v, t

\* What is known of the packets behind an action that is finished: s are the packets
\* of the finished actions, c of them, and those on their way.
FinishedAt(s, c, i, givenUp) ==
    /\ s \in Seq(Packets) /\ c \in Nat
    /\ OnlyTold(s, i) /\ InTimeWhole(s, c, i, givenUp)

LEMMA NextIsSent ==
    ASSUME pbx \in Pbxs, NEW i \in 1..4, NEW s, NEW c, NEW late0,
           FinishedAt(s, c, i, late0)
    PROVE  /\ OnlyTold(s, i + 1) /\ EndComesLast(s, i + 1)
           /\ LET t == s \o Answer(Action(i + 1))
              IN  /\ t \in Seq(Packets) /\ OnlyTold(t, i + 1) /\ EndComesLast(t, i + 1)
                  /\ InTimeWhole(t, c, i, late0)
<1>1. /\ s \in Seq(Packets) /\ c \in Nat /\ OnlyTold(s, i) /\ InTimeWhole(s, c, i, late0)
      /\ i + 1 \in 1..5 /\ i = (i + 1) - 1 /\ LastAction = 5
  BY ActionsAre DEF FinishedAt
<1>2. OnlyTold(s, i + 1)
  <2>1. \A n \in DOMAIN s, a \in 1..LastAction :
          /\ s[n].event \in EventsOfAction(a) => a <= i + 1 /\ s[n] \in Range(SaysTo(a))
          /\ s[n] = Ends(Action(a)) => a <= i + 1
    <3>1. ASSUME NEW n \in DOMAIN s, NEW a \in 1..5
          PROVE  /\ s[n].event \in EventsOfAction(a) => a <= i + 1 /\ s[n] \in Range(SaysTo(a))
                 /\ s[n] = Ends(Action(a)) => a <= i + 1
      <4>1. /\ s[n].event \in EventsOfAction(a) => a <= i /\ s[n] \in Range(SaysTo(a))
            /\ s[n] = Ends(Action(a)) => a <= i
        BY <1>1 DEF OnlyTold
      <4>2. a <= i => a <= i + 1
        OBVIOUS
      <4> QED BY <4>1, <4>2
    <3> QED BY <1>1, <3>1
  <2> QED BY <1>1, <2>1 DEF OnlyTold
<1>3. EndComesLast(s, i + 1)
  <2>1. ASSUME NEW n \in DOMAIN s, s[n] = Ends(Action(i + 1)) PROVE FALSE
    <3>1. i + 1 <= i
      BY <1>1, <2>1 DEF OnlyTold
    <3> QED BY <3>1
  <2> QED BY <2>1 DEF EndComesLast
<1>4. OnlyTold(s, (i + 1) - 1)
  BY <1>1
<1>5. PICK a \in 1..5 : a = i + 1 /\ i < a /\ i \in 0..5
  BY <1>1
<1>6. LET t == s \o Answer(Action(a))
      IN  /\ t \in Seq(Packets) /\ OnlyTold(t, a) /\ EndComesLast(t, a)
          /\ Answer(Action(a)) \in Seq(Packets) /\ OfAnswer(Answer(Action(a)), a)
  BY <1>1, <1>4, <1>5, AnswerComesLast
<1>7. InTimeWhole(s \o Answer(Action(a)), c, i, late0)
  BY <1>1, <1>5, <1>6, AddKeepsInTime
<1> QED BY <1>2, <1>3, <1>5, <1>6, <1>7

\* Everything the PBX says is the answers to all actions, one behind the other.
LEMMA SaysAdd ==
    ASSUME pbx \in Pbxs, NEW i \in 1..5, NEW s,
           FinishedAt(s, Len(s), i - 1, {})
    PROVE  FinishedAt(s \o SaysTo(i), Len(s \o SaysTo(i)), i, {})
<1> DEFINE v == SaysTo(i)
           t == s \o v
<1>1. /\ s \in Seq(Packets) /\ Len(s) \in Nat /\ OnlyTold(s, i - 1)
      /\ InTimeWhole(s, Len(s), i - 1, {})
  BY DEF FinishedAt
<1>2. /\ v \in Seq(Packets) /\ Len(v) \in Nat /\ DOMAIN v = 1..Len(v)
      /\ \A n \in 1..Len(v) : v[n].event \in EventsOfAction(i) /\ v[n] \in Range(v)
  BY SaysAre
<1>3. Whole(v, i, 0) /\ OfAnswer(v, i) /\ 0 \in Nat
  <2>1. OfAnswer(v, i)
    BY <1>2 DEF OfAnswer
  <2>2. 0 \in Nat /\ 0 + Len(v) <= Len(v) /\ \A j \in 1..Len(v) : v[0 + j] = v[j]
    BY <1>2
  <2>3. \A n \in DOMAIN v : n > 0 /\ n <= 0 + Len(v)
    BY <1>2
  <2> QED BY <2>1, <2>2, <2>3 DEF Whole
<1> HIDE DEF v
<1>4. OnlyTold(t, i) /\ Whole(t, i, Len(s) + 0)
  BY <1>1, <1>2, <1>3, AddKeeps
<1>5. /\ t \in Seq(Packets) /\ Len(t) = Len(s) + Len(v) /\ Len(t) \in Nat
  BY <1>1, <1>2, JoinIs
<1>6. InTimeWhole(t, Len(s), i - 1, {})
  <2>1. i - 1 \in 0..5 /\ i - 1 < i
    OBVIOUS
  <2> QED BY <1>1, <1>2, <1>3, <2>1, AddKeepsInTime
<1> HIDE DEF t
<1>7. ASSUME NEW a \in 1..i
      PROVE  \E k \in 0..Len(t) : Whole(t, a, k) /\ k + Len(SaysTo(a)) <= Len(t)
  <2>1. CASE a = i
    <3>1. Len(s) \in 0..Len(t) /\ Len(s) + 0 = Len(s) /\ Len(s) + Len(v) <= Len(t)
      BY <1>1, <1>2, <1>5
    <3> QED BY <1>4, <2>1, <3>1 DEF v
  <2>2. CASE a # i
    <3>1. a \in 1..(i - 1) /\ a \in 1..5
      BY <2>2
    <3>2. PICK k \in 0..Len(t) : Whole(t, a, k) /\ k + Len(SaysTo(a)) <= Len(s)
      BY <1>6, <3>1 DEF InTimeWhole
    <3>3. Len(SaysTo(a)) \in Nat
      BY <3>1, SaysAre
    <3>4. k + Len(SaysTo(a)) <= Len(t)
      BY <1>1, <1>2, <1>5, <3>2, <3>3
    <3> QED BY <3>2, <3>4
  <2> QED BY <2>1, <2>2
<1>8. InTimeWhole(t, Len(t), i, {})
  BY <1>7 DEF InTimeWhole
<1> QED BY <1>4, <1>5, <1>8 DEF FinishedAt, t, v

LEMMA EverythingIs ==
    ASSUME pbx \in Pbxs
    PROVE  FinishedAt(Everything, Len(Everything), 5, {})
<1>1. FinishedAt(<<>>, Len(<<>>), 0, {})
  <2>1. InTimeWhole(<<>>, 0, 0, {})
    BY DEF InTimeWhole
  <2>2. OnlyTold(<<>>, 0)
    <3>1. \A x : Places(<<>>, "QueueEntry", x) = {}
      BY DEF Places
    <3>2. Cardinality({}) = 0
      BY FS_EmptySet
    <3>3. \A x : Cardinality(Places(Says("QueueStatus"), "QueueEntry", x)) \in Nat
      <4>1. 4 \in 1..5 /\ Says("QueueStatus") = SaysTo(4)
        BY ActionsAre DEF SaysTo
      <4> QED BY <4>1, SaysAre, PlacesAre
    <3>4. \A x : Cardinality(Places(<<>>, "QueueEntry", x))
                    <= Cardinality(Places(Says("QueueStatus"), "QueueEntry", x))
      <4>1. ASSUME NEW x
            PROVE  Cardinality(Places(<<>>, "QueueEntry", x))
                    <= Cardinality(Places(Says("QueueStatus"), "QueueEntry", x))
        <5>1. PICK c \in Nat : c = Cardinality(Places(Says("QueueStatus"), "QueueEntry", x))
          BY <3>3
        <5>2. Cardinality(Places(<<>>, "QueueEntry", x)) = 0
          BY <3>1, <3>2
        <5> QED BY <5>1, <5>2
      <4> QED BY <4>1
    <3> QED BY <3>4 DEF OnlyTold
  <2> QED BY <2>1, <2>2 DEF FinishedAt
<1>2. FinishedAt(<<>> \o SaysTo(1), Len(<<>> \o SaysTo(1)), 1, {})
  <2>1. 1 \in 1..5 /\ 1 - 1 = 0
    OBVIOUS
  <2> QED BY <1>1, <2>1, SaysAdd
<1>3. <<>> \o SaysTo(1) = SaysTo(1)
  <2>1. 1 \in 1..5
    OBVIOUS
  <2> QED BY <2>1, SaysAre
<1>4. FinishedAt(SaysTo(1), Len(SaysTo(1)), 1, {})
  BY <1>2, <1>3
<1> DEFINE s2 == SaysTo(1) \o SaysTo(2)
           s3 == s2 \o SaysTo(3)
           s4 == s3 \o SaysTo(4)
           s5 == s4 \o SaysTo(5)
<1>5. FinishedAt(s2, Len(s2), 2, {})
  <2>1. 2 \in 1..5 /\ 2 - 1 = 1
    OBVIOUS
  <2> QED BY <1>4, <2>1, SaysAdd
<1> HIDE DEF s2
<1>6. FinishedAt(s3, Len(s3), 3, {})
  <2>1. 3 \in 1..5 /\ 3 - 1 = 2
    OBVIOUS
  <2> QED BY <1>5, <2>1, SaysAdd
<1> HIDE DEF s3
<1>7. FinishedAt(s4, Len(s4), 4, {})
  <2>1. 4 \in 1..5 /\ 4 - 1 = 3
    OBVIOUS
  <2> QED BY <1>6, <2>1, SaysAdd
<1> HIDE DEF s4
<1>8. FinishedAt(s5, Len(s5), 5, {})
  <2>1. 5 \in 1..5 /\ 5 - 1 = 4
    OBVIOUS
  <2> QED BY <1>7, <2>1, SaysAdd
<1>9. s5 = Everything
  BY ActionsAre DEF Everything, SaysTo, s2, s3, s4
<1> QED BY <1>8, <1>9

-----------------------------------------------------------------------------
(* What an answer that is whole says                                       *)

\* The places of a whole answer are those of what the PBX says, moved.
LEMMA PlacesMoved ==
    ASSUME pbx \in Pbxs, NEW s \in Seq(Packets), NEW i \in 1..5, NEW k, Whole(s, i, k),
           NEW name \in EventsOfAction(i), NEW x
    PROVE  /\ k \in Nat
           /\ \A n \in Places(s, name, x) :
                 n - k \in Places(SaysTo(i), name, x) /\ s[n] = SaysTo(i)[n - k]
           /\ \A n \in Places(SaysTo(i), name, x) :
                 k + n \in Places(s, name, x) /\ s[k + n] = SaysTo(i)[n]
<1> DEFINE w == SaysTo(i)
<1>1. /\ k \in Nat /\ Len(w) \in Nat /\ DOMAIN w = 1..Len(w) /\ k + Len(w) <= Len(s)
      /\ Len(s) \in Nat /\ DOMAIN s = 1..Len(s)
      /\ \A j \in 1..Len(w) : s[k + j] = w[j]
      /\ \A n \in DOMAIN s : s[n].event \in EventsOfAction(i) => n > k /\ n <= k + Len(w)
  <2>1. Len(w) \in Nat /\ DOMAIN w = 1..Len(w) /\ Len(s) \in Nat /\ DOMAIN s = 1..Len(s)
    BY SaysAre
  <2> QED BY <2>1 DEF Whole
<1> HIDE DEF w
<1>2. ASSUME NEW n \in Places(s, name, x)
      PROVE  n - k \in Places(w, name, x) /\ s[n] = w[n - k]
  <2>1. n \in 1..Len(s) /\ s[n].event = name /\ s[n].about = x
    BY <1>1 DEF Places
  <2>2. n > k /\ n <= k + Len(w)
    BY <1>1, <2>1
  <2>3. PICK j \in 1..Len(w) : j = n - k /\ n = k + j
    <3>1. n - k \in 1..Len(w) /\ n = k + (n - k)
      BY <1>1, <2>1, <2>2
    <3> QED BY <3>1
  <2>4. s[n] = w[j]
    BY <1>1, <2>3
  <2>5. j \in Places(w, name, x)
    BY <1>1, <2>1, <2>4 DEF Places
  <2> QED BY <2>3, <2>4, <2>5
<1>3. ASSUME NEW n \in Places(w, name, x)
      PROVE  k + n \in Places(s, name, x) /\ s[k + n] = w[n]
  <2>1. n \in 1..Len(w) /\ w[n].event = name /\ w[n].about = x
    BY <1>1 DEF Places
  <2>2. k + n \in DOMAIN s /\ s[k + n] = w[n]
    BY <1>1, <2>1
  <2> QED BY <2>1, <2>2 DEF Places
<1> QED BY <1>1, <1>2, <1>3 DEF w

LEMMA SubjectsWhole ==
    ASSUME pbx \in Pbxs, NEW s \in Seq(Packets), NEW i \in 1..5, NEW k, Whole(s, i, k),
           NEW names \in SUBSET EventsOfAction(i)
    PROVE  Subjects(s, names) = Subjects(SaysTo(i), names)
<1> DEFINE w == SaysTo(i)
<1>1. DOMAIN w = 1..Len(w) /\ DOMAIN s = 1..Len(s)
  BY SaysAre
<1> HIDE DEF w
<1>2. ASSUME NEW n \in DOMAIN s, s[n].event \in names
      PROVE  \E m \in DOMAIN w : w[m].event \in names /\ w[m].about = s[n].about
  <2>1. n \in Places(s, s[n].event, s[n].about)
    BY DEF Places
  <2>2. n - k \in Places(w, s[n].event, s[n].about) /\ s[n] = w[n - k]
    BY <1>2, <2>1, PlacesMoved DEF w
  <2> QED BY <1>2, <2>2 DEF Places
<1>3. ASSUME NEW n \in DOMAIN w, w[n].event \in names
      PROVE  \E m \in DOMAIN s : s[m].event \in names /\ s[m].about = w[n].about
  <2>1. n \in Places(w, w[n].event, w[n].about)
    BY DEF Places
  <2>2. k + n \in Places(s, w[n].event, w[n].about) /\ s[k + n] = w[n]
    BY <1>3, <2>1, PlacesMoved DEF w
  <2> QED BY <1>3, <2>2 DEF Places
<1> QED BY <1>2, <1>3 DEF Subjects, w

LEMMA RangeWhole ==
    ASSUME pbx \in Pbxs, NEW s \in Seq(Packets), NEW i \in 1..5, NEW k, Whole(s, i, k)
    PROVE  Range(SaysTo(i)) \subseteq Range(s)
<1>1. SUFFICES ASSUME NEW e \in Range(SaysTo(i)) PROVE e \in Range(s)
  OBVIOUS
<1>2. PICK n \in 1..Len(SaysTo(i)) : e = SaysTo(i)[n]
  BY SaysAre
<1>3. n \in Places(SaysTo(i), e.event, e.about) /\ e.event \in EventsOfAction(i)
  BY <1>2, SaysAre DEF Places
<1>4. k + n \in Places(s, e.event, e.about) /\ s[k + n] = e
  BY <1>2, <1>3, PlacesMoved
<1> QED BY <1>4 DEF Places, Range

LEMMA FirstOfIs ==
    ASSUME NEW R, NEW s \in Seq(R), NEW name, NEW x, Places(s, name, x) # {}
    PROVE  LET P == Places(s, name, x)
           IN  /\ FirstOf(P) \in P /\ \A m \in P : FirstOf(P) <= m
               /\ LastOf(P) \in P /\ \A m \in P : m <= LastOf(P)
               /\ \A m \in P : m \in Nat
<1> DEFINE P == Places(s, name, x)
<1>1. P \in SUBSET (0..Len(s)) /\ Len(s) \in Nat /\ P \in SUBSET Nat
  BY PlacesAre
<1> HIDE DEF P
<1>2. P # {}
  BY DEF P
<1>3. \E n \in P : \A m \in P : n <= m
  BY <1>1, <1>2, LeastOf
<1>4. \E n \in P : \A m \in P : m <= n
  BY <1>1, <1>2, GreatestOf
<1>5. FirstOf(P) \in P /\ \A m \in P : FirstOf(P) <= m
  BY <1>3 DEF FirstOf
<1>6. LastOf(P) \in P /\ \A m \in P : m <= LastOf(P)
  BY <1>4 DEF LastOf
<1> QED BY <1>1, <1>5, <1>6 DEF P

LEMMA FirstAndLastMoved ==
    ASSUME pbx \in Pbxs, NEW s \in Seq(Packets), NEW i \in 1..5, NEW k, Whole(s, i, k),
           NEW name \in EventsOfAction(i), NEW x
    PROVE  LET P == Places(s, name, x)
               Q == Places(SaysTo(i), name, x)
           IN  /\ P = {} <=> Q = {}
               /\ {s[n].says : n \in P} = {SaysTo(i)[n].says : n \in Q}
               /\ P # {} => /\ s[FirstOf(P)] = SaysTo(i)[FirstOf(Q)]
                            /\ s[LastOf(P)] = SaysTo(i)[LastOf(Q)]
               /\ Cardinality(P) = Cardinality(Q)
<1> DEFINE w == SaysTo(i)
           P == Places(s, name, x)
           Q == Places(w, name, x)
<1>1. /\ k \in Nat
      /\ \A n \in P : n - k \in Q /\ s[n] = w[n - k]
      /\ \A n \in Q : k + n \in P /\ s[k + n] = w[n]
  <2>1. k \in Nat
    BY DEF Whole
  <2>2. ASSUME NEW n \in Places(s, name, x)
        PROVE  n - k \in Places(SaysTo(i), name, x) /\ s[n] = SaysTo(i)[n - k]
    BY PlacesMoved
  <2>3. ASSUME NEW n \in Places(SaysTo(i), name, x)
        PROVE  k + n \in Places(s, name, x) /\ s[k + n] = SaysTo(i)[n]
    BY PlacesMoved
  <2> QED BY <2>1, <2>2, <2>3
<1>2. /\ P \subseteq 1..Len(s) /\ IsFiniteSet(P) /\ Cardinality(P) \in Nat
      /\ Q \subseteq 1..Len(w) /\ IsFiniteSet(Q) /\ Cardinality(Q) \in Nat
      /\ Len(s) \in Nat /\ Len(w) \in Nat
  BY SaysAre, PlacesAre
<1>3. P # {} => /\ FirstOf(P) \in P /\ \A m \in P : FirstOf(P) <= m
                /\ LastOf(P) \in P /\ \A m \in P : m <= LastOf(P)
  BY FirstOfIs
<1>4. Q # {} => /\ FirstOf(Q) \in Q /\ \A m \in Q : FirstOf(Q) <= m
                /\ LastOf(Q) \in Q /\ \A m \in Q : m <= LastOf(Q)
  BY SaysAre, FirstOfIs
<1> HIDE DEF w, P, Q
<1>5. (\A n \in P : n \in Nat) /\ (\A n \in Q : n \in Nat)
  BY <1>2
<1>6. P = {} <=> Q = {}
  BY <1>1
<1>7. {s[n].says : n \in P} = {w[n].says : n \in Q}
  BY <1>1
<1>8. ASSUME P # {} PROVE s[FirstOf(P)] = w[FirstOf(Q)] /\ s[LastOf(P)] = w[LastOf(Q)]
  <2>1. PICK a \in P : a = FirstOf(P) /\ \A m \in P : a <= m
    BY <1>3, <1>8
  <2>2. PICK b \in Q : b = FirstOf(Q) /\ \A m \in Q : b <= m
    BY <1>4, <1>6, <1>8
  <2>3. PICK c \in P : c = LastOf(P) /\ \A m \in P : m <= c
    BY <1>3, <1>8
  <2>4. PICK d \in Q : d = LastOf(Q) /\ \A m \in Q : m <= d
    BY <1>4, <1>6, <1>8
  <2>5. k + b = a
    <3>1. a <= k + b /\ b <= a - k /\ a \in Nat /\ b \in Nat
      BY <1>1, <1>5, <2>1, <2>2
    <3> QED BY <1>1, <3>1
  <2>6. k + d = c
    <3>1. k + d <= c /\ c - k <= d /\ c \in Nat /\ d \in Nat
      BY <1>1, <1>5, <2>3, <2>4
    <3> QED BY <1>1, <3>1
  <2> QED BY <1>1, <2>1, <2>2, <2>3, <2>4, <2>5, <2>6
<1>9. Cardinality(P) <= Cardinality(Q)
  <2> DEFINE f == [n \in P |-> n - k]
  <2>1. f \in [P -> Q]
    BY <1>1
  <2>2. \A n, o \in P : f[n] = f[o] => n = o
    BY <1>1, <1>5
  <2> HIDE DEF f
  <2> QED BY <1>2, <2>1, <2>2, InjectionBound
<1>10. Cardinality(Q) <= Cardinality(P)
  <2> DEFINE f == [n \in Q |-> k + n]
  <2>1. f \in [Q -> P]
    BY <1>1
  <2>2. \A n, o \in Q : f[n] = f[o] => n = o
    BY <1>1, <1>5
  <2> HIDE DEF f
  <2> QED BY <1>2, <2>1, <2>2, InjectionBound
<1>11. Cardinality(P) = Cardinality(Q)
  BY <1>2, <1>9, <1>10
<1> QED BY <1>6, <1>7, <1>8, <1>11 DEF w, P, Q

LEMMA ContactStateWhole ==
    ASSUME pbx \in Pbxs, NEW s \in Seq(Packets), NEW k, Whole(s, 3, k), NEW x
    PROVE  ContactState(s, x) = ContactState(SaysTo(3), x)
<1> DEFINE P == Places(s, "ContactList", x)
           Q == Places(SaysTo(3), "ContactList", x)
<1>1. 3 \in 1..5 /\ "ContactList" \in EventsOfAction(3)
  BY EventsAre
<1>2. /\ P = {} <=> Q = {}
      /\ {s[n].says : n \in P} = {SaysTo(3)[n].says : n \in Q}
      /\ P # {} => s[FirstOf(P)] = SaysTo(3)[FirstOf(Q)]
  BY <1>1, FirstAndLastMoved
<1> HIDE DEF P, Q
<1>3. CASE P = {}
  BY <1>2, <1>3 DEF ContactState, P, Q
<1>4. CASE P # {}
  <2>1. s[FirstOf(P)].says = SaysTo(3)[FirstOf(Q)].says
    BY <1>2, <1>4
  <2>2. PICK h, g : h = {s[n].says : n \in P} /\ g = s[FirstOf(P)].says
    OBVIOUS
  <2>3. ContactState(s, x) =
          IF "up" \in h THEN "up" ELSE IF "down" \in h THEN "down" ELSE g
    BY <1>4, <2>2 DEF ContactState, P
  <2>4. ContactState(SaysTo(3), x) =
          IF "up" \in h THEN "up" ELSE IF "down" \in h THEN "down" ELSE g
    BY <1>2, <1>4, <2>1, <2>2 DEF ContactState, Q
  <2> QED BY <2>3, <2>4
<1> QED BY <1>3, <1>4

LEMMA CallersWhole ==
    ASSUME pbx \in Pbxs, NEW s \in Seq(Packets), NEW k, Whole(s, 4, k), NEW x
    PROVE  Callers(s, x) = Callers(SaysTo(4), x)
<1> DEFINE P(name) == Places(s, name, x)
           Q(name) == Places(SaysTo(4), name, x)
<1>1. 4 \in 1..5 /\ "QueueEntry" \in EventsOfAction(4) /\ "QueueParams" \in EventsOfAction(4)
  BY EventsAre
<1>2. /\ P("QueueEntry") = {} <=> Q("QueueEntry") = {}
      /\ Cardinality(P("QueueEntry")) = Cardinality(Q("QueueEntry"))
  BY <1>1, FirstAndLastMoved
<1>3. /\ P("QueueParams") = {} <=> Q("QueueParams") = {}
      /\ P("QueueParams") # {} =>
            s[LastOf(P("QueueParams"))] = SaysTo(4)[LastOf(Q("QueueParams"))]
  BY <1>1, FirstAndLastMoved
<1> HIDE DEF P, Q
<1>4. Callers(s, x) =
        IF P("QueueEntry") # {} THEN Cardinality(P("QueueEntry"))
        ELSE IF P("QueueParams") # {} THEN s[LastOf(P("QueueParams"))].says
        ELSE 0
  BY DEF Callers, P
<1>5. Callers(SaysTo(4), x) =
        IF Q("QueueEntry") # {} THEN Cardinality(Q("QueueEntry"))
        ELSE IF Q("QueueParams") # {} THEN SaysTo(4)[LastOf(Q("QueueParams"))].says
        ELSE 0
  BY DEF Callers, Q
<1> QED BY <1>2, <1>3, <1>4, <1>5

\* What is in a sequence where only told things are.
LEMMA ToldIs ==
    ASSUME pbx \in Pbxs, NEW s \in Seq(Packets), NEW m, OnlyTold(s, m), NEW i \in 1..5
    PROVE  /\ \A e \in Range(s) : e.event \in EventsOfAction(i) => e \in Range(SaysTo(i))
           /\ \A names \in SUBSET EventsOfAction(i) :
                 Subjects(s, names) \subseteq Subjects(SaysTo(i), names)
<1>1. \A n \in DOMAIN s : s[n].event \in EventsOfAction(i) => s[n] \in Range(SaysTo(i))
  BY ActionsAre DEF OnlyTold
<1>2. \A e \in Range(s) : e.event \in EventsOfAction(i) => e \in Range(SaysTo(i))
  BY <1>1 DEF Range
<1>3. ASSUME NEW names \in SUBSET EventsOfAction(i), NEW n \in DOMAIN s, s[n].event \in names
      PROVE  s[n].about \in Subjects(SaysTo(i), names)
  <2>1. PICK j \in DOMAIN SaysTo(i) : s[n] = SaysTo(i)[j]
    BY <1>1, <1>3, SaysAre
  <2> QED BY <1>3, <2>1 DEF Subjects
<1>4. ASSUME NEW names \in SUBSET EventsOfAction(i)
      PROVE  Subjects(s, names) \subseteq Subjects(SaysTo(i), names)
  <2>1. ASSUME NEW x \in Subjects(s, names) PROVE x \in Subjects(SaysTo(i), names)
    <3>1. PICK n \in DOMAIN s : s[n].event \in names /\ x = s[n].about
      BY DEF Subjects
    <3> QED BY <1>3, <3>1
  <2> QED BY <2>1
<1> QED BY <1>2, <1>4

\* No more callers are counted than the PBX has.
LEMMA CallersTold ==
    ASSUME pbx \in Pbxs, NEW s \in Seq(Packets), NEW m, OnlyTold(s, m), NEW x
    PROVE  Callers(s, x) <= Callers(SaysTo(4), x)
<1> DEFINE w == SaysTo(4)
           E == Places(s, "QueueEntry", x)
           P == Places(s, "QueueParams", x)
           F == Places(w, "QueueEntry", x)
           R == Places(w, "QueueParams", x)
<1>1. /\ 4 \in 1..5 /\ "QueueEntry" \in EventsOfAction(4) /\ "QueueParams" \in EventsOfAction(4)
      /\ w = Says("QueueStatus") /\ w = Told(pbx, "QueueStatus")
  BY EventsAre, ActionsAre DEF SaysTo, Says
<1>2. /\ w \in Seq(Packets) /\ DOMAIN w = 1..Len(w)
      /\ \A n \in DOMAIN w : w[n] \in Range(w)
      /\ \A e \in Range(w) : \E n \in DOMAIN w : e = w[n]
  BY <1>1, SaysAre
<1>3. \A e \in Range(w) : e.event = "QueueParams" => e.says \in Nat /\ e.says <= Callers(w, e.about)
  BY <1>1, PbxAssumption
<1>4. \A e \in Range(s) : e.event \in EventsOfAction(4) => e \in Range(w)
  BY <1>1, ToldIs
<1> HIDE DEF w
<1>5. /\ IsFiniteSet(E) /\ Cardinality(E) \in Nat /\ IsFiniteSet(F) /\ Cardinality(F) \in Nat
      /\ Cardinality(E) <= Cardinality(F)
  <2>1. Cardinality(E) <= Cardinality(F)
    BY <1>1 DEF OnlyTold
  <2> QED BY <1>2, <2>1, PlacesAre
<1>6. CASE E # {}
  <2>1. F # {}
    <3>1. PICK n \in E : TRUE
      BY <1>6
    <3>2. s[n] \in Range(s) /\ s[n].event = "QueueEntry" /\ s[n].about = x
      BY DEF Places, Range
    <3>3. PICK o \in DOMAIN w : s[n] = w[o]
      BY <1>1, <1>2, <1>4, <3>2
    <3> QED BY <3>2, <3>3 DEF Places
  <2>2. Callers(s, x) = Cardinality(E) /\ Callers(w, x) = Cardinality(F)
    BY <1>6, <2>1 DEF Callers
  <2> QED BY <1>5, <2>2 DEF w
<1>7. CASE E = {} /\ P # {}
  <2>1. PICK n \in P : n = LastOf(P)
    BY <1>7, FirstOfIs
  <2>2. s[n] \in Range(s) /\ s[n].event = "QueueParams" /\ s[n].about = x
    BY DEF Places, Range
  <2>3. s[n] \in Range(w)
    BY <1>1, <1>4, <2>2
  <2>4. s[n].says <= Callers(w, x)
    BY <1>3, <2>2, <2>3
  <2>5. Callers(s, x) = s[n].says
    BY <1>7, <2>1 DEF Callers
  <2> QED BY <2>4, <2>5 DEF w
<1>8. CASE E = {} /\ P = {}
  <2>1. Callers(s, x) = 0
    BY <1>8 DEF Callers
  <2>2. Callers(w, x) \in Nat
    <3>1. CASE F # {}
      BY <1>5, <3>1 DEF Callers
    <3>2. CASE F = {} /\ R # {}
      <4>1. PICK n \in R : n = LastOf(R)
        BY <1>2, <3>2, FirstOfIs
      <4>2. w[n] \in Range(w) /\ w[n].event = "QueueParams"
        BY <1>2 DEF Places
      <4>3. Callers(w, x) = w[n].says
        BY <3>2, <4>1 DEF Callers
      <4> QED BY <1>3, <4>2, <4>3
    <3>3. CASE F = {} /\ R = {}
      BY <3>3 DEF Callers
    <3> QED BY <3>1, <3>2, <3>3
  <2> QED BY <2>1, <2>2 DEF w
<1> QED BY <1>6, <1>7, <1>8

\* What SnapshotTold says of a snapshot for which the actions givenUp were given up.
TrueToPbx(shown, givenUp) ==
    LET told == Interpreted(Everything) IN
    /\ shown.calls = told.calls
    /\ {"PJSIPShowEndpoints", "SIPpeers", "PJSIPShowContacts"} \cap givenUp = {}
           => shown.phones = told.phones
    /\ "PJSIPShowEndpoints" \notin givenUp
           => \A p \in Subjects(Says("PJSIPShowEndpoints"), {"EndpointList"}) :
                  \E s \in shown.phones : s[1] = p
    /\ "PJSIPShowContacts" \notin givenUp
           => \A p \in Range(Says("PJSIPShowContacts")) :
                  p.says = "up" => <<p.about, "down">> \notin shown.phones
    /\ "QueueStatus" \notin givenUp => shown.queues = told.queues
    /\ {s[1] : s \in shown.phones} \subseteq {s[1] : s \in told.phones}
    /\ \A s \in shown.queues :
           \E t \in told.queues : s[1] = t[1] /\ s[2] <= t[2]

\* What is told of phones.
PhonePackets(s) == {q \in Range(s) : q.event \in {"EndpointList", "PeerEntry"}}

LEMMA WholeOf ==
    ASSUME pbx \in Pbxs, NEW s, NEW c, NEW late0, FinishedAt(s, c, 5, late0),
           NEW i \in 1..5, Action(i) \notin late0
    PROVE  \E k : Whole(s, i, k)
  BY DEF FinishedAt, InTimeWhole

LEMMA PhonesTold ==
    ASSUME pbx \in Pbxs, NEW s, NEW c, NEW late0, FinishedAt(s, c, 5, late0)
    PROVE  /\ PhonePackets(s) \subseteq Range(SaysTo(2)) \cup Range(SaysTo(5))
           /\ Action(2) \notin late0 => Range(SaysTo(2)) \subseteq PhonePackets(s)
           /\ Action(5) \notin late0 => Range(SaysTo(5)) \subseteq PhonePackets(s)
           /\ \A q \in PhonePackets(s) : q.event # "PeerEntry" => q \in Range(SaysTo(2))
<1>1. s \in Seq(Packets) /\ OnlyTold(s, 5) /\ 2 \in 1..5 /\ 5 \in 1..5
  BY DEF FinishedAt
<1>2. /\ \A q \in PhonePackets(s) : q.event = "EndpointList" => q \in Range(SaysTo(2))
      /\ \A q \in PhonePackets(s) : q.event = "PeerEntry" => q \in Range(SaysTo(5))
      /\ \A q \in PhonePackets(s) : q.event = "EndpointList" \/ q.event = "PeerEntry"
  BY <1>1, EventsAre, ToldIs DEF PhonePackets
<1>3. ASSUME NEW i \in {2, 5}, Action(i) \notin late0
      PROVE  Range(SaysTo(i)) \subseteq PhonePackets(s)
  <2>1. i \in 1..5
    OBVIOUS
  <2>2. PICK k : Whole(s, i, k)
    BY <1>3, <2>1, WholeOf
  <2>3. Range(SaysTo(i)) \subseteq Range(s)
    BY <1>1, <2>1, <2>2, RangeWhole
  <2>4. \A e \in Range(SaysTo(i)) : e.event \in EventsOfAction(i)
    BY <2>1, SaysAre
  <2>5. EventsOfAction(i) \subseteq {"EndpointList", "PeerEntry"}
    BY EventsAre
  <2> QED BY <2>3, <2>4, <2>5 DEF PhonePackets
<1> QED BY <1>2, <1>3

LEMMA SnapshotIs ==
    ASSUME pbx \in Pbxs, NEW s, NEW late0, FinishedAt(s, Len(s), 5, late0),
           Action(1) \notin late0
    PROVE  TrueToPbx(Interpreted(s), late0)
<1> DEFINE all == Everything
<1>1. /\ s \in Seq(Packets) /\ OnlyTold(s, 5) /\ 1 \in 1..5 /\ 2 \in 1..5 /\ 3 \in 1..5
      /\ 4 \in 1..5 /\ 5 \in 1..5
  BY DEF FinishedAt
<1>2. FinishedAt(all, Len(all), 5, {})
  BY EverythingIs
<1>3. all \in Seq(Packets) /\ OnlyTold(all, 5)
  BY <1>2 DEF FinishedAt
<1> HIDE DEF all
<1>4. \A i \in 1..5 : \E k : Whole(all, i, k)
  BY <1>2, WholeOf
<1>5. /\ Says("PJSIPShowEndpoints") = SaysTo(2) /\ Says("PJSIPShowContacts") = SaysTo(3)
      /\ Says("SIPpeers") = SaysTo(5) /\ Says("QueueStatus") = SaysTo(4)
  BY ActionsAre DEF SaysTo
<1>6. \A i \in 1..5 : \A names \in SUBSET EventsOfAction(i) :
         /\ Subjects(all, names) = Subjects(SaysTo(i), names)
         /\ Action(i) \notin late0 => Subjects(s, names) = Subjects(all, names)
         /\ Subjects(s, names) \subseteq Subjects(all, names)
  <2>1. ASSUME NEW i \in 1..5, NEW names \in SUBSET EventsOfAction(i)
        PROVE  /\ Subjects(all, names) = Subjects(SaysTo(i), names)
               /\ Action(i) \notin late0 => Subjects(s, names) = Subjects(all, names)
               /\ Subjects(s, names) \subseteq Subjects(all, names)
    <3>1. Subjects(all, names) = Subjects(SaysTo(i), names)
      BY <1>3, <1>4, SubjectsWhole
    <3>2. ASSUME Action(i) \notin late0 PROVE Subjects(s, names) = Subjects(SaysTo(i), names)
      <4>1. PICK k : Whole(s, i, k)
        BY <3>2, WholeOf
      <4> QED BY <1>1, <4>1, SubjectsWhole
    <3>3. Subjects(s, names) \subseteq Subjects(SaysTo(i), names)
      BY <1>1, ToldIs
    <3> QED BY <3>1, <3>2, <3>3
  <2> QED BY <2>1
<1>7. \A x : /\ Action(3) \notin late0 => ContactState(s, x) = ContactState(SaysTo(3), x)
             /\ ContactState(all, x) = ContactState(SaysTo(3), x)
  <2>1. ASSUME NEW x, Action(3) \notin late0
        PROVE  ContactState(s, x) = ContactState(SaysTo(3), x)
    <3>1. PICK k : Whole(s, 3, k)
      BY <1>1, <2>1, WholeOf
    <3> QED BY <1>1, <3>1, ContactStateWhole
  <2>2. ASSUME NEW x PROVE ContactState(all, x) = ContactState(SaysTo(3), x)
    <3>1. PICK k : Whole(all, 3, k)
      BY <1>1, <1>4
    <3> QED BY <1>3, <3>1, ContactStateWhole
  <2> QED BY <2>1, <2>2
<1>8. /\ PhonePackets(s) \subseteq PhonePackets(all)
      /\ {Action(2), Action(5)} \cap late0 = {} => PhonePackets(s) = PhonePackets(all)
  <2>1. PhonePackets(all) = Range(SaysTo(2)) \cup Range(SaysTo(5))
    BY <1>2, PhonesTold
  <2> QED BY <2>1, PhonesTold
<1>9. \A e : Phones(e) = {<<p.about, PhoneState(e, p)>> : p \in PhonePackets(e)}
  BY DEF Phones, PhonePackets
<1>10. Interpreted(s).calls = Interpreted(all).calls
  <2>1. {"CoreShowChannel"} \in SUBSET EventsOfAction(1)
    BY EventsAre
  <2> QED BY <1>1, <1>6, <2>1 DEF Interpreted
<1>11. ASSUME {"PJSIPShowEndpoints", "SIPpeers", "PJSIPShowContacts"} \cap late0 = {}
       PROVE  Interpreted(s).phones = Interpreted(all).phones
  <2>1. Action(2) \notin late0 /\ Action(3) \notin late0 /\ Action(5) \notin late0
    BY <1>11, ActionsAre
  <2>2. PhonePackets(s) = PhonePackets(all)
    BY <1>8, <2>1
  <2>3. \A p : PhoneState(s, p) = PhoneState(all, p)
    BY <1>7, <2>1 DEF PhoneState
  <2>4. Phones(s) = Phones(all)
    <3>1. {<<p.about, PhoneState(s, p)>> : p \in PhonePackets(s)}
            = {<<p.about, PhoneState(all, p)>> : p \in PhonePackets(all)}
      BY <2>2, <2>3
    <3>2. Phones(s) = {<<p.about, PhoneState(s, p)>> : p \in PhonePackets(s)}
      BY <1>9
    <3>3. Phones(all) = {<<p.about, PhoneState(all, p)>> : p \in PhonePackets(all)}
      BY <1>9
    <3> QED BY <3>1, <3>2, <3>3
  <2> QED BY <2>4 DEF Interpreted
<1>12. ASSUME "PJSIPShowEndpoints" \notin late0,
              NEW p \in Subjects(Says("PJSIPShowEndpoints"), {"EndpointList"})
       PROVE  \E t \in Interpreted(s).phones : t[1] = p
  <2>1. Action(2) \notin late0
    BY <1>12, ActionsAre
  <2>2. PICK n \in DOMAIN SaysTo(2) : p = SaysTo(2)[n].about
    BY <1>5 DEF Subjects
  <2>3. SaysTo(2)[n] \in Range(SaysTo(2))
    BY <1>1, SaysAre
  <2>4. PICK q \in PhonePackets(s) : q.about = p
    BY <2>1, <2>2, <2>3, PhonesTold
  <2>5. <<q.about, PhoneState(s, q)>> \in Phones(s)
    BY <1>9
  <2>6. Interpreted(s).phones = Phones(s)
    BY DEF Interpreted
  <2> QED BY <2>4, <2>5, <2>6
<1>13. ASSUME "PJSIPShowContacts" \notin late0,
              NEW p \in Range(Says("PJSIPShowContacts")), p.says = "up",
              <<p.about, "down">> \in Interpreted(s).phones
       PROVE  FALSE
  <2>1. Action(3) \notin late0
    BY <1>13, ActionsAre
  <2>2. Interpreted(s).phones = Phones(s)
    BY DEF Interpreted
  <2>3. PICK q \in PhonePackets(s) : p.about = q.about /\ PhoneState(s, q) = "down"
    BY <1>9, <1>13, <2>2
  <2>4. q \notin Range(SaysTo(5))
    <3>1. SaysTo(5) = Told(pbx, "SIPpeers") /\ Says("PJSIPShowContacts") = Told(pbx, "PJSIPShowContacts")
      BY <1>5 DEF Says
    <3> QED BY <1>13, <2>3, <3>1, PbxAssumption
  <2>5. q.event # "PeerEntry"
    <3>1. q \in Range(SaysTo(2))
      BY <2>4, PhonesTold
    <3>2. q.event \in EventsOfAction(2)
      BY <1>1, <3>1, SaysAre
    <3> QED BY <3>2, EventsAre
  <2>6. ContactState(SaysTo(3), q.about) = "up"
    <3>1. PICK n \in DOMAIN SaysTo(3) : p = SaysTo(3)[n] /\ p.event = "ContactList"
      <4>1. p \in Range(SaysTo(3))
        BY <1>5
      <4>2. PICK n \in 1..Len(SaysTo(3)) : p = SaysTo(3)[n]
        BY <1>1, <4>1, SaysAre
      <4>3. p.event \in EventsOfAction(3) /\ n \in DOMAIN SaysTo(3)
        BY <1>1, <4>2, SaysAre
      <4> QED BY <4>2, <4>3, EventsAre
    <3>2. n \in Places(SaysTo(3), "ContactList", q.about)
      BY <2>3, <3>1 DEF Places
    <3>3. "up" \in {SaysTo(3)[m].says : m \in Places(SaysTo(3), "ContactList", q.about)}
      BY <1>13, <3>1, <3>2
    <3> QED BY <3>2, <3>3 DEF ContactState
  <2>7. ContactState(s, q.about) = "up"
    BY <1>7, <2>1, <2>6
  <2>8. PhoneState(s, q) = "up"
    <3>1. "up" # ""
      OBVIOUS
    <3> QED BY <2>5, <2>7, <3>1 DEF PhoneState
  <2> QED BY <2>3, <2>8
<1>14. \A i \in {4} : EventsOf["QueueStatus"] \in SUBSET EventsOfAction(i)
  BY EventsAre
<1>15. \A x : Callers(all, x) = Callers(SaysTo(4), x)
  <2>1. PICK k : Whole(all, 4, k)
    BY <1>1, <1>4
  <2> QED BY <1>3, <2>1, CallersWhole
<1>16. \A e : /\ Interpreted(e).queues = Queues(e)
              /\ Queues(e) = {<<q, Callers(e, q)>> : q \in Subjects(e, EventsOf["QueueStatus"])}
  BY DEF Interpreted, Queues
<1>17. ASSUME "QueueStatus" \notin late0
       PROVE  Interpreted(s).queues = Interpreted(all).queues
  <2>1. Action(4) \notin late0
    BY <1>17, ActionsAre
  <2>2. Subjects(s, EventsOf["QueueStatus"]) = Subjects(all, EventsOf["QueueStatus"])
    BY <1>1, <1>6, <1>14, <2>1
  <2>3. PICK k : Whole(s, 4, k)
    BY <1>1, <2>1, WholeOf
  <2>4. \A x : Callers(s, x) = Callers(all, x)
    BY <1>1, <1>15, <2>3, CallersWhole
  <2>5. {<<q, Callers(s, q)>> : q \in Subjects(s, EventsOf["QueueStatus"])}
          = {<<q, Callers(all, q)>> : q \in Subjects(all, EventsOf["QueueStatus"])}
    BY <2>2, <2>4
  <2>6. Queues(s) = Queues(all)
    BY <2>5 DEF Queues
  <2> QED BY <1>16, <2>6
<1>18. {t[1] : t \in Interpreted(s).phones} \subseteq {t[1] : t \in Interpreted(all).phones}
  <2>1. \A e : Interpreted(e).phones = Phones(e)
    BY DEF Interpreted
  <2>2. ASSUME NEW t \in Phones(s) PROVE \E u \in Phones(all) : t[1] = u[1]
    <3>1. PICK p \in PhonePackets(s) : t = <<p.about, PhoneState(s, p)>>
      BY <1>9
    <3>2. <<p.about, PhoneState(all, p)>> \in Phones(all)
      BY <1>8, <1>9
    <3> QED BY <3>1, <3>2
  <2> QED BY <2>1, <2>2
<1>19. ASSUME NEW t \in Interpreted(s).queues
       PROVE  \E u \in Interpreted(all).queues : t[1] = u[1] /\ t[2] <= u[2]
  <2>1. PICK q \in Subjects(s, EventsOf["QueueStatus"]) : t = <<q, Callers(s, q)>>
    BY <1>16
  <2>2. q \in Subjects(all, EventsOf["QueueStatus"])
    BY <1>1, <1>6, <1>14, <2>1
  <2>3. <<q, Callers(all, q)>> \in Interpreted(all).queues
    BY <1>16, <2>2
  <2>4. Callers(s, q) <= Callers(all, q)
    BY <1>1, <1>15, CallersTold
  <2> QED BY <2>1, <2>3, <2>4
<1> QED BY <1>10, <1>11, <1>12, <1>13, <1>17, <1>18, <1>19 DEF TrueToPbx, all

-----------------------------------------------------------------------------
(* The steps of a session                                                  *)

\* The packets of c, a and b, one behind the other.
LEMMA ThreeAre ==
    ASSUME NEW c \in Seq(Packets), NEW a \in Seq(Packets), NEW b \in Seq(Packets)
    PROVE  LET t == c \o a \o b
           IN  /\ t \in Seq(Packets) /\ Len(t) = Len(c) + Len(a) + Len(b)
               /\ Len(c) \in Nat /\ Len(a) \in Nat /\ Len(b) \in Nat
               /\ DOMAIN t = 1..Len(t)
               /\ \A n \in 1..Len(c) : t[n] = c[n]
               /\ \A n \in 1..Len(a) : t[Len(c) + n] = a[n]
               /\ \A n \in 1..Len(b) : t[Len(c) + Len(a) + n] = b[n]
<1> DEFINE d == c \o a
<1>1. /\ d \in Seq(Packets) /\ Len(d) = Len(c) + Len(a)
      /\ Len(c) \in Nat /\ Len(a) \in Nat /\ Len(b) \in Nat
      /\ \A n \in 1..Len(c) : d[n] = c[n]
      /\ \A n \in 1..Len(a) : d[Len(c) + n] = a[n]
  BY JoinIs
<1> HIDE DEF d
<1> DEFINE t == d \o b
<1>2. /\ t \in Seq(Packets) /\ Len(t) = Len(d) + Len(b) /\ DOMAIN t = 1..Len(t)
      /\ \A n \in 1..Len(d) : t[n] = d[n]
      /\ \A n \in 1..Len(b) : t[Len(d) + n] = b[n]
  BY <1>1, JoinIs
<1> HIDE DEF t
<1>3. \A n \in 1..Len(c) : t[n] = c[n]
  <2>1. ASSUME NEW n \in 1..Len(c) PROVE n \in 1..Len(d)
    BY <1>1
  <2> QED BY <1>1, <1>2, <2>1
<1>4. \A n \in 1..Len(a) : t[Len(c) + n] = a[n]
  <2>1. ASSUME NEW n \in 1..Len(a) PROVE Len(c) + n \in 1..Len(d)
    BY <1>1
  <2> QED BY <1>1, <1>2, <2>1
<1>5. Len(t) = Len(c) + Len(a) + Len(b) /\ \A n \in 1..Len(b) : t[Len(c) + Len(a) + n] = b[n]
  BY <1>1, <1>2
<1> QED BY <1>1, <1>2, <1>3, <1>4, <1>5 DEF t, d

\* The session is over.
LEMMA ReturnKeeps ==
    ASSUME pbx \in Pbxs, late' \subseteq DOMAIN EventsOf, SnapshotTold',
           NEW s, NEW shown \in {Interpreted(s), Unreachable}, Return(shown)
    PROVE  SessionInv'
<1>1. /\ seen' = shown /\ asked' = 0 /\ coming' = <<>> /\ broken' = FALSE
      /\ answer' = <<>> /\ collected' = <<>> /\ pbx' = pbx
  BY DEF Return
<1>2. seen' = Unreachable \/ DOMAIN seen' = DOMAIN Unreachable
  BY <1>1 DEF Interpreted, Unreachable
<1>3. <<>> \in Seq(Packets) /\ Range(<<>>) = {}
  BY DEF Range
<1>4. coming' \in Seq(Packets) /\ answer' \in Seq(Packets) /\ collected' \in Seq(Packets)
  BY <1>1, <1>3
<1>5. Range(answer') = {} /\ Range(collected') = {}
  BY <1>1, <1>3
<1>6. asked' = 0 /\ asked' \in 0..LastAction
  BY <1>1, ActionsAre
<1>7. broken' \in BOOLEAN
  BY <1>1
<1> QED BY <1>1, <1>2, <1>4, <1>5, <1>6, <1>7 DEF SessionInv, Packets

\* The session after an action, with s the packets of the finished actions and those
\* on their way, c of them of the finished actions.
LEMMA ProceedKeeps ==
    ASSUME SessionInv, asked > 0, NEW events \in Seq(Packets), NEW rest \in Seq(Packets),
           Proceed(events, rest), late' \subseteq DOMAIN EventsOf, Action(1) \notin late',
           \A e \in Range(events) : e # Response,
           FinishedAt(collected \o events \o rest, Len(collected \o events), asked, late')
    PROVE  SessionInv'
<1> DEFINE c == collected \o events
           s == c \o rest
<1>1. /\ pbx \in Pbxs /\ asked \in 1..5 /\ LastAction = 5 /\ collected \in Seq(Packets)
      /\ \A e \in Range(collected) : e # Response
  BY ActionsAre DEF SessionInv
<1>2. /\ c \in Seq(Packets) /\ Len(c) \in Nat /\ s \in Seq(Packets)
      /\ \A e \in Range(c) : e # Response
  <2>1. /\ c \in Seq(Packets) /\ s \in Seq(Packets)
        /\ DOMAIN c = 1..Len(c) /\ Len(collected) \in Nat
        /\ \A n \in 1..Len(collected) : c[n] = collected[n]
        /\ \A n \in 1..Len(c) : n > Len(collected) =>
              n - Len(collected) \in 1..Len(events) /\ c[n] = events[n - Len(collected)]
    BY <1>1, JoinIs
  <2> HIDE DEF c
  <2>2. DOMAIN collected = 1..Len(collected) /\ DOMAIN events = 1..Len(events)
    BY <1>1
  <2>3. ASSUME NEW n \in 1..Len(c) PROVE c[n] \in Range(collected) \cup Range(events)
    <3>1. CASE n <= Len(collected)
      BY <2>1, <2>2, <3>1 DEF Range
    <3>2. CASE n > Len(collected)
      BY <2>1, <2>2, <3>2 DEF Range
    <3> QED BY <2>1, <3>1, <3>2
  <2>4. \A e \in Range(c) : e # Response
    BY <1>1, <2>1, <2>3 DEF Range
  <2> QED BY <2>1, <2>4
<1>3. FinishedAt(s, Len(c), asked, late')
  OBVIOUS
<1>4. pbx' = pbx
  BY DEF Proceed, Return
<1> HIDE DEF c, s
<1>5. CASE asked < LastAction /\ asked' = asked + 1
  <2>1. /\ coming' = IF broken THEN rest ELSE rest \o Answer(AmiActions[asked + 1])
        /\ collected' = c /\ answer' = <<>> /\ broken' = broken /\ seen' = seen
    BY <1>1, <1>5 DEF Proceed, Return, c
  <2>2. PICK i \in 1..4 : i = asked
    BY <1>1, <1>5
  <2>3. PICK v : v = Answer(Action(i + 1))
    OBVIOUS
  <2>4. /\ OnlyTold(s, i + 1) /\ EndComesLast(s, i + 1)
        /\ s \o v \in Seq(Packets) /\ OnlyTold(s \o v, i + 1) /\ EndComesLast(s \o v, i + 1)
        /\ InTimeWhole(s \o v, Len(c), i, late')
    BY <1>1, <1>3, <2>2, <2>3, NextIsSent
  <2>5. v \in Seq(Packets)
    <3>1. i + 1 \in 1..5
      OBVIOUS
    <3> QED BY <1>1, <2>3, <3>1, AnswerIs
  <2>6. coming' \in Seq(Packets)
    BY <2>1, <2>2, <2>3, <2>5 DEF Action
  <2>7. PICK f : /\ f = collected' \o answer' \o coming'
                 /\ OnlyTold(f, i + 1) /\ EndComesLast(f, i + 1)
                 /\ InTimeWhole(f, Len(c), i, late')
    <3>1. c \o <<>> = c
      BY <1>2
    <3>2. CASE broken
      <4>1. collected' \o answer' \o coming' = s
        BY <2>1, <3>1, <3>2 DEF s
      <4>2. InTimeWhole(s, Len(c), i, late')
        BY <1>3, <2>2 DEF FinishedAt
      <4> QED BY <2>4, <4>1, <4>2
    <3>3. CASE ~broken
      <4>1. collected' \o answer' \o coming' = c \o (rest \o v)
        BY <2>1, <2>2, <2>3, <3>1, <3>3 DEF Action
      <4>2. c \o (rest \o v) = s \o v
        BY <1>2, <2>5 DEF s
      <4> QED BY <2>4, <4>1, <4>2
    <3> QED BY <3>2, <3>3
  <2>8. flow' = f /\ asked' = i + 1 /\ asked' - 1 = i /\ asked' \in 0..LastAction
    BY <1>1, <1>5, <2>2, <2>7 DEF flow
  <2>9. OnlyTold(flow, asked)' /\ EndComesLast(flow, asked)'
    BY <1>4, <2>7, <2>8 DEF OnlyTold, EndComesLast, Whole, SaysTo, Says, EventsOfAction, Action
  <2>10. InTimeWhole(flow, Len(collected), asked - 1, late)'
    <3>1. \A a, k : Whole(flow, a, k)' <=> Whole(f, a, k)
      BY <1>4, <2>8 DEF Whole, SaysTo, Says, EventsOfAction, Action
    <3>2. \A a : SaysTo(a)' = SaysTo(a) /\ Action(a)' = Action(a)
      BY <1>4 DEF SaysTo, Says, Action
    <3>3. \A a \in 1..i : Action(a) \notin late' =>
             \E k \in 0..Len(f) : Whole(f, a, k) /\ k + Len(SaysTo(a)) <= Len(c)
      BY <2>7 DEF InTimeWhole
    <3>4. \A a \in 1..(asked' - 1) : Action(a)' \notin late' =>
             \E k \in 0..Len(flow') :
                 Whole(flow, a, k)' /\ k + Len(SaysTo(a)') <= Len(collected')
      BY <2>1, <2>8, <3>1, <3>2, <3>3
    <3> QED BY <3>4 DEF InTimeWhole
  <2>11. Range(answer') = {}
    BY <2>1 DEF Range
  <2>12. SnapshotTold'
    BY <1>1, <1>5 DEF SnapshotTold
  <2>13. /\ asked' # 0 /\ answer' \in Seq(Packets) /\ collected' \in Seq(Packets)
         /\ broken' \in BOOLEAN /\ (seen' = Unreachable \/ DOMAIN seen' = DOMAIN Unreachable)
    BY <1>1, <1>2, <1>5, <2>1 DEF SessionInv
  <2> QED BY <1>1, <1>2, <1>4, <2>1, <2>6, <2>8, <2>9, <2>10, <2>11, <2>12, <2>13
          DEF SessionInv, Packets, Action
<1>6. CASE asked = LastAction /\ \E shown \in {Interpreted(c), Unreachable} : Return(shown)
  <2>1. PICK shown \in {Interpreted(c), Unreachable} : Return(shown)
    BY <1>6
  <2>2. /\ seen' = shown /\ asked' = 0 /\ coming' = <<>> /\ broken' = FALSE
        /\ answer' = <<>> /\ collected' = <<>>
    BY <2>1 DEF Return
  <2>3. shown.reachable => shown = Interpreted(c)
    BY <2>1 DEF Unreachable
  <2>4. TrueToPbx(Interpreted(c), late')
    <3>1. IsCut(c, s, Len(c), Len(rest))
      <4>1. /\ Len(s) = Len(c) + Len(rest) /\ Len(rest) \in Nat
            /\ \A n \in 1..Len(c) : s[n] = c[n]
        BY <1>2, JoinIs DEF s
      <4> QED BY <1>2, <4>1 DEF IsCut
    <3>2. OnlyTold(c, 5) /\ InTimeWhole(c, Len(c), 5, late')
      <4>1. OnlyTold(s, 5) /\ InTimeWhole(s, Len(c), 5, late')
        BY <1>1, <1>3, <1>6 DEF FinishedAt
      <4>2. Len(c) <= Len(c) /\ 5 \in 0..5 /\ 5 \in Nat
        BY <1>2
      <4> QED BY <1>1, <1>2, <3>1, <4>1, <4>2, CutKeeps, CutKeepsInTime
    <3>3. FinishedAt(c, Len(c), 5, late')
      BY <1>2, <3>2 DEF FinishedAt
    <3> QED BY <1>1, <3>3, SnapshotIs
  <2>5. SnapshotTold'
    <3>1. TrueToPbx(seen, late)' <=> TrueToPbx(seen', late')
      BY <1>4 DEF TrueToPbx, Everything, Says
    <3>2. seen'.reachable => TrueToPbx(seen', late')
      BY <2>2, <2>3, <2>4
    <3>3. seen'.reachable => TrueToPbx(seen, late)'
      BY <3>1, <3>2
    <3> QED BY <3>3 DEF SnapshotTold, TrueToPbx
  <2> QED BY <1>1, <2>1, <2>5, ReturnKeeps
<1> QED BY <1>5, <1>6 DEF Proceed, c

\* The session while an action is read: f are the packets afterwards.
LEMMA StillRead ==
    ASSUME SessionInv, asked > 0, UNCHANGED <<pbx, asked, collected, late, seen>>,
           coming' \in Seq(Packets), answer' \in Seq(Packets), broken' \in BOOLEAN,
           \A e \in Range(answer') : e # Response,
           NEW f, f = collected \o answer' \o coming',
           OnlyTold(f, asked), EndComesLast(f, asked),
           InTimeWhole(f, Len(collected), asked - 1, late)
    PROVE  SessionInv'
<1>1. flow' = f
  BY DEF flow
<1>2. OnlyTold(flow, asked)' /\ EndComesLast(flow, asked)'
  BY <1>1 DEF OnlyTold, EndComesLast, Whole, SaysTo, Says, EventsOfAction, Action
<1>3. InTimeWhole(flow, Len(collected), asked - 1, late)'
  <2>1. \A a, k : Whole(flow, a, k)' <=> Whole(f, a, k)
    BY <1>1 DEF Whole, SaysTo, Says, EventsOfAction, Action
  <2>2. \A a : SaysTo(a)' = SaysTo(a) /\ Action(a)' = Action(a)
    BY DEF SaysTo, Says, Action
  <2>3. \A a \in 1..(asked - 1) : Action(a) \notin late =>
           \E k \in 0..Len(f) : Whole(f, a, k) /\ k + Len(SaysTo(a)) <= Len(collected)
    BY DEF InTimeWhole
  <2>4. \A a \in 1..(asked' - 1) : Action(a)' \notin late' =>
           \E k \in 0..Len(flow') :
               Whole(flow, a, k)' /\ k + Len(SaysTo(a)') <= Len(collected')
    BY <1>1, <2>1, <2>2, <2>3
  <2> QED BY <2>4 DEF InTimeWhole
<1>4. SnapshotTold'
  <2>1. asked' # 0
    BY DEF SessionInv
  <2> QED BY <2>1 DEF SnapshotTold
<1>5. /\ pbx' \in Pbxs /\ asked' \in 0..LastAction /\ asked' > 0 /\ asked' # 0
      /\ collected' \in Seq(Packets) /\ late' \subseteq DOMAIN EventsOf
      /\ Action(1)' \notin late'
      /\ \A e \in Range(answer') \cup Range(collected') : e # Response
      /\ (seen' = Unreachable \/ DOMAIN seen' = DOMAIN Unreachable)
  BY DEF SessionInv, Action
<1> QED BY <1>2, <1>3, <1>4, <1>5 DEF SessionInv, Packets

LEMMA ReadingIs ==
    ASSUME SessionInv, asked > 0
    PROVE  /\ pbx \in Pbxs /\ asked \in 1..5 /\ asked \in Nat /\ asked - 1 \in 0..5
           /\ collected \in Seq(Packets) /\ answer \in Seq(Packets) /\ coming \in Seq(Packets)
           /\ \A e \in Range(answer) : e # Response
           /\ late \subseteq DOMAIN EventsOf /\ Action(1) \notin late
           /\ OnlyTold(flow, asked) /\ EndComesLast(flow, asked)
           /\ InTimeWhole(flow, Len(collected), asked - 1, late)
           /\ flow \in Seq(Packets) /\ Len(flow) = Len(collected) + Len(answer) + Len(coming)
           /\ Len(collected) \in Nat /\ Len(answer) \in Nat /\ Len(coming) \in Nat
           /\ Len(flow) \in Nat /\ DOMAIN flow = 1..Len(flow)
           /\ \A n \in 1..Len(collected) : flow[n] = collected[n]
           /\ \A n \in 1..Len(answer) : flow[Len(collected) + n] = answer[n]
           /\ \A n \in 1..Len(coming) : flow[Len(collected) + Len(answer) + n] = coming[n]
<1>1. /\ pbx \in Pbxs /\ asked \in 1..5 /\ asked \in Nat /\ asked - 1 \in 0..5
      /\ collected \in Seq(Packets) /\ answer \in Seq(Packets) /\ coming \in Seq(Packets)
      /\ \A e \in Range(answer) : e # Response
      /\ late \subseteq DOMAIN EventsOf /\ Action(1) \notin late
      /\ OnlyTold(flow, asked) /\ EndComesLast(flow, asked)
      /\ InTimeWhole(flow, Len(collected), asked - 1, late)
  BY ActionsAre DEF SessionInv
<1>2. /\ flow \in Seq(Packets) /\ Len(flow) = Len(collected) + Len(answer) + Len(coming)
      /\ Len(collected) \in Nat /\ Len(answer) \in Nat /\ Len(coming) \in Nat
      /\ DOMAIN flow = 1..Len(flow)
      /\ \A n \in 1..Len(collected) : flow[n] = collected[n]
      /\ \A n \in 1..Len(answer) : flow[Len(collected) + n] = answer[n]
      /\ \A n \in 1..Len(coming) : flow[Len(collected) + Len(answer) + n] = coming[n]
  BY <1>1, ThreeAre DEF flow
<1>3. Len(flow) \in Nat
  BY <1>2
<1> QED BY <1>1, <1>2, <1>3

LEMMA HeadIs ==
    ASSUME NEW b \in Seq(Packets), b # <<>>
    PROVE  /\ Len(b) \in Nat /\ Len(b) > 0 /\ Head(b) = b[1] /\ Head(b) \in Packets
           /\ Tail(b) \in Seq(Packets) /\ Len(Tail(b)) = Len(b) - 1
           /\ \A n \in 1..Len(Tail(b)) : Tail(b)[n] = b[n + 1]
  OBVIOUS

\* The head of coming is missing.
LEMMA HeadIsCut ==
    ASSUME SessionInv, asked > 0, coming # <<>>
    PROVE  LET t == collected \o answer \o Tail(coming)
           IN  t \in Seq(Packets) /\ IsCut(t, flow, Len(collected) + Len(answer), 1)
<1>1. /\ Len(coming) > 0 /\ Tail(coming) \in Seq(Packets)
      /\ Len(Tail(coming)) = Len(coming) - 1
      /\ \A n \in 1..Len(Tail(coming)) : Tail(coming)[n] = coming[n + 1]
  BY ReadingIs, HeadIs
<1>2. PICK b \in Seq(Packets) : b = Tail(coming)
  BY <1>1
<1>3. PICK x \in Nat : x = Len(collected) + Len(answer)
  BY ReadingIs
<1> DEFINE t == collected \o answer \o b
<1>4. /\ t \in Seq(Packets) /\ Len(t) = Len(collected) + Len(answer) + Len(b)
      /\ Len(b) \in Nat
      /\ \A n \in 1..Len(collected) : t[n] = collected[n]
      /\ \A n \in 1..Len(answer) : t[Len(collected) + n] = answer[n]
      /\ \A n \in 1..Len(b) : t[Len(collected) + Len(answer) + n] = b[n]
  BY ReadingIs, ThreeAre
<1> HIDE DEF t
<1>5. /\ Len(collected) \in Nat /\ Len(answer) \in Nat /\ Len(coming) \in Nat
      /\ Len(b) = Len(coming) - 1 /\ Len(flow) = x + Len(coming) /\ Len(t) = x + Len(b)
  BY ReadingIs, <1>1, <1>2, <1>3, <1>4
<1>6. ASSUME NEW n \in 1..Len(t) PROVE t[n] = flow[IF n <= x THEN n ELSE n + 1]
  <2>1. CASE n <= Len(collected)
    <3>1. n \in 1..Len(collected) /\ n <= x
      BY <1>3, <1>5, <2>1
    <3> QED BY ReadingIs, <1>4, <3>1
  <2>2. CASE n > Len(collected) /\ n <= x
    <3>1. PICK m \in 1..Len(answer) : n = Len(collected) + m
      <4>1. n - Len(collected) \in 1..Len(answer) /\ n = Len(collected) + (n - Len(collected))
        BY <1>3, <1>5, <2>2
      <4> QED BY <4>1
    <3> QED BY ReadingIs, <1>4, <2>2, <3>1
  <2>3. CASE n > x
    <3>1. PICK m \in 1..Len(b) : n = x + m
      <4>1. n - x \in 1..Len(b) /\ n = x + (n - x)
        BY <1>5, <2>3
      <4> QED BY <4>1
    <3>2. t[n] = coming[m + 1]
      BY <1>1, <1>2, <1>3, <1>4, <3>1
    <3>3. m + 1 \in 1..Len(coming) /\ n + 1 = x + (m + 1)
      BY <1>5, <3>1
    <3>4. flow[n + 1] = coming[m + 1]
      BY ReadingIs, <1>3, <3>3
    <3> QED BY <2>3, <3>2, <3>4
  <2> QED BY <1>3, <1>5, <2>1, <2>2, <2>3
<1>7. x + 1 <= Len(flow) /\ Len(t) = Len(flow) - 1
  BY <1>1, <1>5
<1> QED BY <1>2, <1>3, <1>4, <1>6, <1>7 DEF IsCut, t

LEMMA ReadEndKeeps ==
    ASSUME SessionInv, ReadEnd
    PROVE  SessionInv'
<1>1. asked > 0 /\ coming # <<>> /\ Head(coming) = Ends(Action(asked))
      /\ Proceed(answer, Tail(coming)) /\ late' = late
  BY DEF ReadEnd, Action
<1> DEFINE t == collected \o answer \o Tail(coming)
           L == Len(SaysTo(asked))
<1>2. PICK x \in Nat : x = Len(collected) + Len(answer)
  BY <1>1, ReadingIs
<1>3. t \in Seq(Packets) /\ IsCut(t, flow, x, 1)
  BY <1>1, <1>2, HeadIsCut
<1>4. x + 1 \in DOMAIN flow /\ flow[x + 1] = Ends(Action(asked))
  <2>1. Len(coming) > 0 /\ Head(coming) = coming[1]
    BY <1>1, ReadingIs, HeadIs
  <2>2. x + 1 \in 1..Len(flow) /\ 1 \in 1..Len(coming)
    BY <1>1, <1>2, <2>1, ReadingIs
  <2> QED BY <1>1, <1>2, <2>1, <2>2, ReadingIs
<1>5. Whole(flow, asked, (x + 1) - 1 - L)
  BY <1>1, <1>4, ReadingIs DEF EndComesLast
<1>6. L \in Nat
  BY <1>1, ReadingIs, SaysAre
<1>7. PICK k : k = (x + 1) - 1 - L /\ k + L = x /\ Whole(flow, asked, k)
  BY <1>5, <1>6
<1>8. Whole(t, asked, k)
  <2>1. k + L <= x
    BY <1>7
  <2> QED BY <1>1, <1>3, <1>7, <2>1, ReadingIs, CutKeepsWhole
<1>9. OnlyTold(t, asked)
  BY <1>1, <1>3, ReadingIs, CutKeeps
<1>10. InTimeWhole(t, Len(collected), asked - 1, late)
  <2>1. Len(collected) <= x
    BY <1>1, <1>2, ReadingIs
  <2> QED BY <1>1, <1>3, <2>1, ReadingIs, CutKeepsInTime
<1>11. Len(collected \o answer) = x
  BY <1>1, <1>2, ReadingIs
<1> HIDE DEF t
<1>12. InTimeWhole(t, x, asked, late)
  <2>1. ASSUME NEW i \in 1..asked, Action(i) \notin late
        PROVE  \E o \in 0..Len(t) : Whole(t, i, o) /\ o + Len(SaysTo(i)) <= x
    <3>1. CASE i = asked
      <4>1. k \in 0..Len(t)
        <5>1. k \in Nat /\ k + L <= Len(t) /\ Len(t) \in Nat
          BY <1>3, <1>8 DEF Whole
        <5> QED BY <1>6, <5>1
      <4>2. k + L <= x
        BY <1>7
      <4> QED BY <1>8, <3>1, <4>1, <4>2
    <3>2. CASE i # asked
      <4>1. i \in 1..(asked - 1) /\ i \in 1..5
        BY <1>1, <3>2, ReadingIs
      <4>2. PICK o \in 0..Len(t) : Whole(t, i, o) /\ o + Len(SaysTo(i)) <= Len(collected)
        BY <1>10, <2>1, <4>1 DEF InTimeWhole
      <4>3. Len(SaysTo(i)) \in Nat
        BY <1>1, <4>1, ReadingIs, SaysAre
      <4>4. o + Len(SaysTo(i)) <= x
        BY <1>1, <1>2, <4>2, <4>3, ReadingIs
      <4> QED BY <4>2, <4>4
    <3> QED BY <3>1, <3>2
  <2> QED BY <2>1 DEF InTimeWhole
<1>13. FinishedAt(collected \o answer \o Tail(coming), Len(collected \o answer), asked, late')
  BY <1>1, <1>3, <1>9, <1>11, <1>12 DEF FinishedAt, t
<1>14. Tail(coming) \in Seq(Packets)
  BY <1>1, ReadingIs, HeadIs
<1> QED BY <1>1, <1>13, <1>14, ReadingIs, ProceedKeeps

LEMMA ReadPacketKeeps ==
    ASSUME SessionInv, ReadPacket
    PROVE  SessionInv'
<1>1. /\ asked > 0 /\ coming # <<>> /\ coming' = Tail(coming)
      /\ answer' = IF Head(coming).event = "" THEN answer ELSE Append(answer, Head(coming))
      /\ UNCHANGED <<pbx, asked, broken, collected, late, seen>>
  BY DEF ReadPacket
<1>2. /\ Len(coming) > 0 /\ Head(coming) = coming[1] /\ Head(coming) \in Packets
      /\ Tail(coming) \in Seq(Packets)
  BY <1>1, ReadingIs, HeadIs
<1>3. broken' \in BOOLEAN /\ coming' \in Seq(Packets)
  BY <1>1, <1>2 DEF SessionInv
<1>n. /\ Len(collected) \in Nat /\ Len(answer) \in Nat /\ Len(coming) \in Nat
      /\ 1 \in 1..Len(coming)
  <2>1. asked > 0 /\ Len(coming) > 0
    BY <1>1, <1>2
  <2> QED BY <2>1, ReadingIs
<1>4. CASE Head(coming).event = ""
  <2> DEFINE t == collected \o answer \o Tail(coming)
             x == Len(collected) + Len(answer)
  <2>1. t \in Seq(Packets) /\ IsCut(t, flow, x, 1)
    BY <1>1, HeadIsCut
  <2>2. Head(coming) = Response
    <3>1. "Complete" # ""
      OBVIOUS
    <3>2. \A a : Ends(a).event # ""
      BY <3>1, EndsAre
    <3>3. \A p \in Pbxs, a \in DOMAIN EventsOf : \A e \in Range(Told(p, a)) : e.event # ""
      <4>1. \A i \in 1..5 : "" \notin EventsOf[Action(i)]
        BY EventsApart DEF EventsOfAction
      <4>2. \A a \in DOMAIN EventsOf : \E i \in 1..5 : a = Action(i)
        BY ActionsAre
      <4>3. \A a \in DOMAIN EventsOf : "" \notin EventsOf[a]
        BY <4>1, <4>2
      <4> QED BY <4>3, PbxAssumption
    <3>4. PICK e \in Packets : e = Head(coming) /\ e.event = ""
      BY <1>2, <1>4
    <3>5. \/ e = Response
          \/ \E a \in DOMAIN EventsOf : e = Ends(a)
          \/ \E p \in Pbxs, a \in DOMAIN EventsOf : e \in Range(Told(p, a))
      BY DEF Packets
    <3> QED BY <3>2, <3>3, <3>4, <3>5
  <2>3. flow[x + 1] = Response
    <3>1. asked > 0 /\ coming[1] = Response
      BY <1>1, <1>2, <2>2
    <3> QED BY <1>n, <3>1, ReadingIs
  <2>4. Len(collected) <= x
    BY <1>n
  <2> HIDE DEF t, x
  <2>5. OnlyTold(t, asked)
    BY <1>1, <2>1, ReadingIs, CutKeeps
  <2>6. EndComesLast(t, asked)
    BY <1>1, <2>1, <2>3, ReadingIs, ResponseKeepsEnd
  <2>7. InTimeWhole(t, Len(collected), asked - 1, late)
    BY <1>1, <2>1, <2>4, ReadingIs, CutKeepsInTime
  <2>8. answer' = answer /\ t = collected \o answer' \o coming'
    BY <1>1, <1>4 DEF t
  <2> QED BY <1>1, <1>3, <2>5, <2>6, <2>7, <2>8, ReadingIs, StillRead
<1>5. CASE Head(coming).event # ""
  <2>1. answer' = Append(answer, Head(coming))
    BY <1>1, <1>5
  <2>2. answer' \in Seq(Packets) /\ \A e \in Range(answer') : e # Response
    <3>1. PICK a, h : a = answer /\ h = Head(coming) /\ a \in Seq(Packets) /\ h \in Packets
      BY <1>1, <1>2, ReadingIs
    <3>2. /\ Append(a, h) \in Seq(Packets) /\ DOMAIN Append(a, h) = 1..(Len(a) + 1)
          /\ Len(a) \in Nat /\ DOMAIN a = 1..Len(a)
          /\ \A n \in 1..Len(a) : Append(a, h)[n] = a[n]
          /\ Append(a, h)[Len(a) + 1] = h
      BY <3>1
    <3>3. h # Response
      BY <1>5, <3>1, EndsAre
    <3>4. \A n \in 1..Len(a) : a[n] # Response
      BY <1>1, <3>1, <3>2, ReadingIs DEF Range
    <3>5. \A n \in 1..(Len(a) + 1) : Append(a, h)[n] # Response
      <4>1. ASSUME NEW n \in 1..(Len(a) + 1) PROVE n \in 1..Len(a) \/ n = Len(a) + 1
        BY <3>2
      <4> QED BY <3>2, <3>3, <3>4, <4>1
    <3> QED BY <2>1, <3>1, <3>2, <3>5 DEF Range
  <2>3. flow = collected \o answer' \o coming'
    <3>1. PICK a, b, c : /\ a = answer /\ b = coming /\ c = collected
                         /\ a \in Seq(Packets) /\ b \in Seq(Packets) /\ c \in Seq(Packets)
                         /\ b # <<>>
      BY <1>1, ReadingIs
    <3>2. b = <<Head(b)>> \o Tail(b)
      BY <3>1
    <3>3. c \o Append(a, Head(b)) = (c \o a) \o <<Head(b)>>
      BY <3>1, HeadIs
    <3>4. PICK d, h, e : /\ d = c \o a /\ h = <<Head(b)>> /\ e = Tail(b)
                         /\ d \in Seq(Packets) /\ h \in Seq(Packets) /\ e \in Seq(Packets)
      <4>1. Head(b) \in Packets /\ Tail(b) \in Seq(Packets)
        BY <3>1, HeadIs
      <4>2. <<Head(b)>> \in Seq(Packets)
        BY <4>1
      <4>3. c \o a \in Seq(Packets)
        BY <3>1
      <4> QED BY <4>1, <4>2, <4>3
    <3>5. (d \o h) \o e = d \o (h \o e)
      BY <3>4
    <3> QED BY <1>1, <2>1, <3>1, <3>2, <3>3, <3>4, <3>5 DEF flow
  <2> QED BY <1>1, <1>3, <2>2, <2>3, ReadingIs, StillRead
<1> QED BY <1>4, <1>5

LEMMA ClosesKeeps ==
    ASSUME SessionInv, Closes
    PROVE  SessionInv'
<1>1. /\ asked > 0 /\ broken' = TRUE
      /\ UNCHANGED <<pbx, asked, answer, collected, late, seen>>
  BY DEF Closes
<1>2. PICK n \in 0..Len(coming) : coming' = SubSeq(coming, 1, n)
  BY DEF Closes
<1>3. PICK b \in Seq(Packets) : /\ b = coming' /\ Len(b) = n
                                /\ \A m \in 1..n : b[m] = coming[m]
  <2>1. PICK d : d = coming /\ d \in Seq(Packets) /\ n \in 0..Len(d)
    BY <1>1, ReadingIs
  <2>2. /\ SubSeq(d, 1, n) \in Seq(Packets) /\ Len(SubSeq(d, 1, n)) = n
        /\ \A m \in 1..n : SubSeq(d, 1, n)[m] = d[m]
    BY <2>1
  <2> QED BY <1>2, <2>1, <2>2
<1>n. /\ Len(collected) \in Nat /\ Len(answer) \in Nat /\ Len(coming) \in Nat
      /\ Len(flow) = Len(collected) + Len(answer) + Len(coming)
      /\ collected \in Seq(Packets) /\ answer \in Seq(Packets)
  <2>1. asked > 0
    BY <1>1
  <2> QED BY <2>1, ReadingIs
<1>4. PICK x \in Nat : x = Len(collected) + Len(answer) + n
  BY <1>n
<1>5. PICK y \in Nat : y = Len(coming) - n
  <2>1. Len(coming) - n \in Nat
    BY <1>n
  <2> QED BY <2>1
<1> DEFINE t == collected \o answer \o b
<1>6. /\ t \in Seq(Packets) /\ Len(t) = Len(collected) + Len(answer) + Len(b)
      /\ \A m \in 1..Len(collected) : t[m] = collected[m]
      /\ \A m \in 1..Len(answer) : t[Len(collected) + m] = answer[m]
      /\ \A m \in 1..Len(b) : t[Len(collected) + Len(answer) + m] = b[m]
  BY <1>n, ThreeAre
<1>7. t = collected \o answer' \o coming'
  BY <1>1, <1>3
<1> HIDE DEF t
<1>8. /\ Len(collected) \in Nat /\ Len(answer) \in Nat /\ Len(coming) \in Nat
      /\ Len(flow) = Len(collected) + Len(answer) + Len(coming) /\ Len(t) = x
      /\ x + y = Len(flow) /\ Len(t) = Len(flow) - y /\ Len(collected) <= x
  <2>1. Len(t) = Len(collected) + Len(answer) + n
    BY <1>3, <1>6
  <2> QED BY <1>n, <1>4, <1>5, <2>1
<1>9. ASSUME NEW m \in 1..Len(t) PROVE t[m] = flow[m]
  <2>1. CASE m \in 1..Len(collected)
    BY <1>1, <1>6, <2>1, ReadingIs
  <2>2. CASE m > Len(collected) /\ m <= Len(collected) + Len(answer)
    <3>1. PICK o \in 1..Len(answer) : m = Len(collected) + o
      <4>1. m - Len(collected) \in 1..Len(answer) /\ m = Len(collected) + (m - Len(collected))
        BY <1>8, <2>2
      <4> QED BY <4>1
    <3> QED BY <1>1, <1>6, <3>1, ReadingIs
  <2>3. CASE m > Len(collected) + Len(answer)
    <3>1. PICK o \in 1..n : m = Len(collected) + Len(answer) + o
      <4>1. /\ m - (Len(collected) + Len(answer)) \in 1..n
            /\ m = Len(collected) + Len(answer) + (m - (Len(collected) + Len(answer)))
        BY <1>4, <1>8, <2>3
      <4> QED BY <4>1
    <3>2. o \in 1..Len(coming) /\ o \in 1..Len(b)
      BY <1>3, <1>8
    <3> QED BY <1>1, <1>3, <1>6, <3>1, <3>2, ReadingIs
  <2> QED BY <1>8, <2>1, <2>2, <2>3
<1>10. IsCut(t, flow, x, y)
  <2>1. \A m \in 1..Len(t) : m <= x
    BY <1>8
  <2>2. \A m \in 1..Len(t) : t[m] = flow[IF m <= x THEN m ELSE m + y]
    BY <1>9, <2>1
  <2> QED BY <1>8, <2>2 DEF IsCut
<1>11. OnlyTold(t, asked)
  BY <1>1, <1>6, <1>10, ReadingIs, CutKeeps
<1>12. EndComesLast(t, asked)
  BY <1>1, <1>6, <1>8, <1>10, ReadingIs, LossKeepsEnd
<1>13. InTimeWhole(t, Len(collected), asked - 1, late)
  BY <1>1, <1>6, <1>8, <1>10, ReadingIs, CutKeepsInTime
<1>14. coming' \in Seq(Packets) /\ broken' \in BOOLEAN /\ answer' \in Seq(Packets)
       /\ \A e \in Range(answer') : e # Response
  BY <1>1, <1>3, ReadingIs
<1> QED BY <1>1, <1>7, <1>11, <1>12, <1>13, <1>14, StillRead

LEMMA GiveUpKeeps ==
    ASSUME SessionInv, GiveUp
    PROVE  SessionInv'
<1>1. asked > 0 /\ late' = late \cup {Action(asked)}
  BY DEF GiveUp, Action
<1>2. PICK rest \in {coming, SubSeq(coming, 2, Len(coming))} :
         IF MayFail THEN Proceed(<<>>, rest) ELSE Return(Unreachable)
  BY DEF GiveUp
<1>3. late' \subseteq DOMAIN EventsOf
  BY <1>1, ReadingIs, EventsApart
<1>4. CASE ~MayFail
  <2>1. Return(Unreachable)
    BY <1>2, <1>4
  <2>2. Unreachable.reachable = FALSE
    BY DEF Unreachable
  <2>3. SnapshotTold'
    BY <2>1, <2>2 DEF SnapshotTold, Return
  <2>4. pbx \in Pbxs
    BY DEF SessionInv
  <2> QED BY <1>3, <2>1, <2>3, <2>4, ReturnKeeps
<1>5. CASE MayFail
  <2>1. asked > 1 /\ Proceed(<<>>, rest)
    BY <1>2, <1>5 DEF MayFail
  <2>2. PICK h \in {0, 1} : /\ rest \in Seq(Packets) /\ h <= Len(coming)
                            /\ Len(rest) = Len(coming) - h
                            /\ \A m \in 1..Len(rest) : rest[m] = coming[m + h]
    <3>1. PICK d : d = coming /\ d \in Seq(Packets) /\ Len(d) \in Nat
      BY <1>1, ReadingIs
    <3>2. CASE rest = coming
      <4>1. /\ d \in Seq(Packets) /\ 0 <= Len(d) /\ Len(d) = Len(d) - 0
            /\ \A m \in 1..Len(d) : d[m] = d[m + 0]
        BY <3>1
      <4> QED BY <3>1, <3>2, <4>1
    <3>3. CASE rest = SubSeq(coming, 2, Len(coming)) /\ Len(coming) > 0
      <4>1. /\ SubSeq(d, 2, Len(d)) \in Seq(Packets) /\ Len(SubSeq(d, 2, Len(d))) = Len(d) - 1
            /\ \A m \in 1..(Len(d) - 1) : SubSeq(d, 2, Len(d))[m] = d[m + 1]
        <5>1. PICK l \in Nat : l = Len(d) /\ l > 0
          BY <3>1, <3>3
        <5>2. SubSeq(d, 2, l) \in Seq(Packets)
          BY <3>1, <5>1
        <5>3. Len(SubSeq(d, 2, l)) = l - 1
          BY <3>1, <5>1
        <5>4. \A m \in 1..(l - 1) : SubSeq(d, 2, l)[m] = d[m + 1]
          BY <3>1, <5>1
        <5> QED BY <5>1, <5>2, <5>3, <5>4
      <4>2. 1 <= Len(d)
        BY <3>1, <3>3
      <4> QED BY <3>1, <3>3, <4>1, <4>2
    <3>4. CASE rest = SubSeq(coming, 2, Len(coming)) /\ Len(coming) = 0
      <4>1. d = <<>>
        BY <3>1, <3>4
      <4>2. rest = <<>> /\ coming = <<>>
        BY <3>1, <3>4, <4>1
      <4>3. <<>> \in Seq(Packets) /\ Len(<<>>) = 0 /\ Len(<<>>) = Len(<<>>) - 0
            /\ \A m \in 1..Len(<<>>) : <<>>[m] = <<>>[m + 0]
        OBVIOUS
      <4> QED BY <4>2, <4>3
    <3> QED BY <1>1, <3>2, <3>3, <3>4, ReadingIs
  <2>3. PICK x \in Nat : x = Len(collected)
    BY <1>1, ReadingIs
  <2>4. PICK y \in Nat : y = Len(answer) + h
    BY <1>1, ReadingIs
  <2> DEFINE t == collected \o rest
  <2>5. /\ t \in Seq(Packets) /\ Len(t) = Len(collected) + Len(rest) /\ Len(rest) \in Nat
        /\ \A m \in 1..Len(collected) : t[m] = collected[m]
        /\ \A m \in 1..Len(t) : m > Len(collected) =>
              m - Len(collected) \in 1..Len(rest) /\ t[m] = rest[m - Len(collected)]
    BY <1>1, <2>2, ReadingIs, JoinIs
  <2> HIDE DEF t
  <2>6. /\ x + y <= Len(flow) /\ Len(t) = Len(flow) - y
        /\ Len(flow) = x + Len(answer) + Len(coming) /\ Len(coming) \in Nat /\ Len(answer) \in Nat
    BY <1>1, <2>2, <2>3, <2>4, <2>5, ReadingIs
  <2>7. ASSUME NEW m \in 1..Len(t) PROVE t[m] = flow[IF m <= x THEN m ELSE m + y]
    <3>1. CASE m <= x
      <4>1. m \in 1..Len(collected)
        BY <2>3, <3>1
      <4> QED BY <1>1, <2>5, <3>1, <4>1, ReadingIs
    <3>2. CASE ~(m <= x)
      <4>1. PICK o \in 1..Len(rest) : o = m - x /\ m = x + o /\ t[m] = rest[o]
        <5>1. m > Len(collected) /\ m = x + (m - x)
          BY <2>3, <3>2
        <5> QED BY <2>3, <2>5, <5>1
      <4>2. t[m] = coming[o + h] /\ o + h \in 1..Len(coming)
        <5>1. o + h \in 1..Len(coming)
          <6>1. h \in Nat /\ Len(rest) = Len(coming) - h
            BY <2>2
          <6> QED BY <2>6, <6>1
        <5> QED BY <2>2, <4>1, <5>1
      <4>3. m + y = Len(collected) + Len(answer) + (o + h)
        BY <2>3, <2>4, <2>6, <4>1
      <4> QED BY <1>1, <3>2, <4>2, <4>3, ReadingIs
    <3> QED BY <3>1, <3>2
  <2>8. IsCut(t, flow, x, y)
    BY <2>6, <2>7 DEF IsCut
  <2>9. OnlyTold(t, asked)
    BY <1>1, <2>5, <2>8, ReadingIs, CutKeeps
  <2>10. InTimeWhole(t, Len(collected), asked - 1, late)
    <3>1. Len(collected) <= x
      BY <2>3
    <3> QED BY <1>1, <2>3, <2>5, <2>8, <3>1, ReadingIs, CutKeepsInTime
  <2>11. InTimeWhole(t, Len(collected), asked, late')
    <3>1. ASSUME NEW i \in 1..asked, Action(i) \notin late'
          PROVE  \E o \in 0..Len(t) : Whole(t, i, o) /\ o + Len(SaysTo(i)) <= Len(collected)
      <4>1. i # asked /\ Action(i) \notin late
        BY <1>1, <3>1
      <4>2. i \in 1..(asked - 1)
        BY <1>1, <4>1, ReadingIs
      <4> QED BY <2>10, <4>1, <4>2 DEF InTimeWhole
    <3> QED BY <3>1 DEF InTimeWhole
  <2>12. collected \o <<>> = collected
    <3>1. PICK d \in Seq(Packets) : d = collected
      BY <1>1, ReadingIs
    <3>2. d \o <<>> = d
      BY <3>1
    <3> QED BY <3>1, <3>2
  <2>13. FinishedAt(collected \o <<>> \o rest, Len(collected \o <<>>), asked, late')
    BY <2>3, <2>5, <2>9, <2>11, <2>12 DEF FinishedAt, t
  <2>14. Action(1) \notin late'
    <3>1. 1 \in 1..5 /\ asked \in 1..5 /\ asked # 1
      BY <1>1, <2>1, ReadingIs
    <3> QED BY <1>1, <3>1, ReadingIs, EventsApart
  <2>15. <<>> \in Seq(Packets) /\ \A e \in Range(<<>>) : e # Response
    BY DEF Range
  <2> QED BY <1>1, <1>3, <2>1, <2>2, <2>13, <2>14, <2>15, ProceedKeeps
<1> QED BY <1>4, <1>5

LEMMA SessionStarts == SessionInit => SessionInv
<1>1. SUFFICES ASSUME SessionInit PROVE SessionInv
  OBVIOUS
<1>2. <<>> \in Seq(Packets) /\ Range(<<>>) = {}
  BY DEF Range
<1>3. SnapshotTold
  BY <1>1 DEF SessionInit, SnapshotTold, Unreachable
<1>4. 0 \in 0..LastAction
  BY ActionsAre
<1>5. coming \in Seq(Packets) /\ answer \in Seq(Packets) /\ collected \in Seq(Packets)
      /\ Range(answer) \cup Range(collected) = {}
  BY <1>1, <1>2 DEF SessionInit
<1>6. /\ pbx \in Pbxs /\ asked = 0 /\ asked \in 0..LastAction /\ ~(asked > 0)
      /\ coming = <<>> /\ answer = <<>> /\ collected = <<>> /\ broken = FALSE
      /\ late \subseteq DOMAIN EventsOf /\ seen = Unreachable
  BY <1>1, <1>4 DEF SessionInit
<1>7. broken \in BOOLEAN
  BY <1>6
<1> QED BY <1>3, <1>5, <1>6, <1>7 DEF SessionInv

LEMMA LogInKeeps ==
    ASSUME SessionInv, LogIn
    PROVE  SessionInv'
<1>1. /\ asked = 0 /\ asked' = 1 /\ coming' = Answer(Action(1)) /\ late' = {}
      /\ UNCHANGED <<pbx, broken, answer, collected, seen>>
  BY DEF LogIn, Action
<1>2. /\ pbx \in Pbxs /\ answer = <<>> /\ collected = <<>> /\ broken = FALSE
      /\ (seen = Unreachable \/ DOMAIN seen = DOMAIN Unreachable)
  BY <1>1 DEF SessionInv
<1>3. PICK v : v = Answer(Action(1))
  OBVIOUS
<1>4. OnlyTold(<<>>, 1 - 1)
  <2>1. \A x : Places(<<>>, "QueueEntry", x) = {}
    BY DEF Places
  <2>2. Cardinality({}) = 0
    BY FS_EmptySet
  <2>3. \A x : Cardinality(Places(Says("QueueStatus"), "QueueEntry", x)) \in Nat
    <3>1. 4 \in 1..5 /\ Says("QueueStatus") = SaysTo(4)
      BY ActionsAre DEF SaysTo
    <3> QED BY <1>2, <3>1, SaysAre, PlacesAre
  <2>4. ASSUME NEW x
        PROVE  Cardinality(Places(<<>>, "QueueEntry", x))
                <= Cardinality(Places(Says("QueueStatus"), "QueueEntry", x))
    <3>1. PICK c \in Nat : c = Cardinality(Places(Says("QueueStatus"), "QueueEntry", x))
      BY <2>3
    <3>2. Cardinality(Places(<<>>, "QueueEntry", x)) = 0
      BY <2>1, <2>2
    <3> QED BY <3>1, <3>2
  <2> QED BY <2>4 DEF OnlyTold
<1>5. v \in Seq(Packets) /\ OnlyTold(v, 1) /\ EndComesLast(v, 1)
  <2>1. <<>> \in Seq(Packets) /\ 1 \in 1..5
    OBVIOUS
  <2>2. /\ v \in Seq(Packets) /\ OnlyTold(<<>> \o v, 1) /\ EndComesLast(<<>> \o v, 1)
    BY <1>2, <1>3, <1>4, <2>1, AnswerComesLast
  <2>3. <<>> \o v = v
    BY <2>2
  <2> QED BY <2>2, <2>3
<1>6. flow' = v
  <2>1. <<>> \o <<>> \o v = v
    BY <1>5
  <2> QED BY <1>1, <1>2, <1>3, <2>1 DEF flow
<1>7. OnlyTold(flow, asked)' /\ EndComesLast(flow, asked)'
  BY <1>1, <1>5, <1>6 DEF OnlyTold, EndComesLast, Whole, SaysTo, Says, EventsOfAction, Action
<1>8. InTimeWhole(flow, Len(collected), asked - 1, late)'
  <2>1. 1..(asked' - 1) = {}
    BY <1>1
  <2> QED BY <2>1 DEF InTimeWhole
<1>9. SnapshotTold' /\ asked' # 0 /\ asked' \in 0..LastAction /\ Action(1)' \notin late'
  BY <1>1, ActionsAre DEF SnapshotTold
<1>10. <<>> \in Seq(Packets) /\ Range(<<>>) = {}
  BY DEF Range
<1>11. /\ coming' \in Seq(Packets) /\ answer' \in Seq(Packets) /\ collected' \in Seq(Packets)
       /\ Range(answer') \cup Range(collected') = {}
  BY <1>1, <1>2, <1>3, <1>5, <1>10
<1>12. pbx' \in Pbxs /\ late' \subseteq DOMAIN EventsOf
       /\ (seen' = Unreachable \/ DOMAIN seen' = DOMAIN Unreachable)
  BY <1>1, <1>2
<1>13. broken' \in BOOLEAN
  BY <1>1, <1>2
<1> QED BY <1>7, <1>8, <1>9, <1>11, <1>12, <1>13 DEF SessionInv, Packets

LEMMA LogInFailsKeeps ==
    ASSUME SessionInv, LogInFails
    PROVE  SessionInv'
<1>1. Return(Unreachable) /\ late' = {} /\ pbx \in Pbxs
  BY DEF LogInFails, SessionInv
<1>2. SnapshotTold'
  BY <1>1 DEF Return, SnapshotTold, Unreachable
<1>3. late' \subseteq DOMAIN EventsOf
  BY <1>1
<1> QED BY <1>1, <1>2, <1>3, ReturnKeeps

LEMMA SessionKeeps == SessionInv /\ [SessionNext]_sessionVars => SessionInv'
<1>1. SUFFICES ASSUME SessionInv, [SessionNext]_sessionVars PROVE SessionInv'
  OBVIOUS
<1>2. CASE LogIn
  BY <1>1, <1>2, LogInKeeps
<1>3. CASE LogInFails
  BY <1>1, <1>3, LogInFailsKeeps
<1>4. CASE ReadEnd
  BY <1>1, <1>4, ReadEndKeeps
<1>5. CASE ReadPacket
  BY <1>1, <1>5, ReadPacketKeeps
<1>6. CASE GiveUp
  BY <1>1, <1>6, GiveUpKeeps
<1>7. CASE Closes
  BY <1>1, <1>7, ClosesKeeps
<1>8. CASE UNCHANGED sessionVars
  <2>1. UNCHANGED <<pbx, asked, coming, broken, answer, collected, late, seen>>
    BY <1>8 DEF sessionVars
  <2>2. flow' = flow
    BY <2>1 DEF flow
  <2>3. SnapshotTold'
    BY <1>1, <2>1 DEF SessionInv, SnapshotTold, TrueToPbx, Everything, Says
  <2>4. CASE asked = 0
    <3>1. /\ asked' = 0 /\ coming' = <<>> /\ answer' = <<>> /\ collected' = <<>>
          /\ broken' = FALSE
      BY <1>1, <2>1, <2>4 DEF SessionInv
    <3> QED BY <1>1, <2>1, <2>3, <3>1 DEF SessionInv, Packets
  <2>5. CASE asked # 0
    <3>1. asked > 0
      BY <1>1, <2>5, ActionsAre DEF SessionInv
    <3>2. /\ OnlyTold(flow, asked) /\ EndComesLast(flow, asked)
          /\ InTimeWhole(flow, Len(collected), asked - 1, late)
          /\ coming \in Seq(Packets) /\ answer \in Seq(Packets) /\ broken \in BOOLEAN
          /\ \A e \in Range(answer) : e # Response
      BY <1>1, <3>1 DEF SessionInv
    <3>3. flow = collected \o answer' \o coming'
      BY <2>1 DEF flow
    <3>4. coming' \in Seq(Packets) /\ answer' \in Seq(Packets) /\ broken' \in BOOLEAN
          /\ \A e \in Range(answer') : e # Response
      BY <2>1, <3>2
    <3> QED BY <1>1, <2>1, <3>1, <3>2, <3>3, <3>4, StillRead
  <2> QED BY <2>4, <2>5
<1> QED BY <1>1, <1>2, <1>3, <1>4, <1>5, <1>6, <1>7, <1>8 DEF SessionNext

LEMMA SessionInvHolds == SessionSpec => []SessionInv
  BY SessionStarts, SessionKeeps, PTL DEF SessionSpec

\* Every event that a session keeps is one its PBX sent.
LEMMA SessionTyped == SessionInv => SessionTypeOK
<1>1. SUFFICES ASSUME SessionInv PROVE SessionTypeOK
  OBVIOUS
<1>2. /\ pbx \in Pbxs /\ asked \in 0..LastAction /\ broken \in BOOLEAN
      /\ late \subseteq DOMAIN EventsOf
      /\ (seen = Unreachable \/ DOMAIN seen = DOMAIN Unreachable)
  BY <1>1 DEF SessionInv
<1>3. ASSUME NEW e \in Range(answer) \cup Range(collected)
      PROVE  e \in Range(Everything) \cup {Ends(a) : a \in DOMAIN EventsOf}
  <2>1. asked > 0
    <3>1. CASE asked = 0
      BY <1>1, <1>3, <3>1 DEF SessionInv, Range
    <3> QED BY <1>2, <3>1, ActionsAre
  <2>2. PICK n \in DOMAIN flow : e = flow[n]
    <3>1. CASE e \in Range(collected)
      <4>1. PICK m \in 1..Len(collected) : e = collected[m]
        BY <1>1, <2>1, <3>1, ReadingIs DEF Range
      <4>2. m \in DOMAIN flow /\ flow[m] = e
        BY <1>1, <2>1, <4>1, ReadingIs
      <4> QED BY <4>2
    <3>2. CASE e \in Range(answer)
      <4>1. PICK m \in 1..Len(answer) : e = answer[m]
        BY <1>1, <2>1, <3>2, ReadingIs DEF Range
      <4>2. Len(collected) + m \in DOMAIN flow /\ flow[Len(collected) + m] = e
        BY <1>1, <2>1, <4>1, ReadingIs
      <4> QED BY <4>2
    <3> QED BY <1>3, <3>1, <3>2
  <2>3. e # Response /\ e \in Packets
    <3>1. e # Response
      BY <1>1, <1>3 DEF SessionInv
    <3>2. flow \in Seq(Packets)
      BY <1>1, <2>1, ReadingIs
    <3> QED BY <2>2, <3>1, <3>2
  <2>4. CASE \E p \in Pbxs, a \in DOMAIN EventsOf : e \in Range(Told(p, a))
    <3>1. PICK a \in DOMAIN EventsOf : e.event \in EventsOf[a]
      BY <2>4, PbxAssumption
    <3>2. PICK i \in 1..5 : a = Action(i)
      BY ActionsAre
    <3>3. e \in Range(SaysTo(i))
      <4>1. OnlyTold(flow, asked) /\ LastAction = 5
        BY <1>1, <2>1, ReadingIs, ActionsAre
      <4>2. flow[n].event \in EventsOfAction(i)
        BY <2>2, <3>1, <3>2 DEF EventsOfAction
      <4> QED BY <2>2, <4>1, <4>2 DEF OnlyTold
    <3>4. e \in Range(Everything)
      <4>1. FinishedAt(Everything, Len(Everything), 5, {})
        BY <1>2, EverythingIs
      <4>2. PICK k : Whole(Everything, i, k)
        BY <1>2, <4>1, WholeOf
      <4>3. Everything \in Seq(Packets)
        BY <4>1 DEF FinishedAt
      <4> QED BY <1>2, <3>3, <4>2, <4>3, RangeWhole
    <3> QED BY <3>4
  <2>5. CASE \E a \in DOMAIN EventsOf : e = Ends(a)
    BY <2>5
  <2> QED BY <2>3, <2>4, <2>5 DEF Packets
<1> QED BY <1>2, <1>3 DEF SessionTypeOK

\* A session with a PBX keeps only what that PBX sent, and the end markers of its
\* own actions: SessionTypeOK for every PBX.
THEOREM SessionTypeCorrect == SessionSpec => []SessionTypeOK
  BY SessionInvHolds, SessionTyped, PTL

\* A snapshot of a PBX that was reached is true to it: the calls are whole, each list
\* whose actions were answered in time is the PBX's own, and nothing is made up,
\* whatever came late, was cut in two or was lost with the connection.
THEOREM SnapshotCorrect == SessionSpec => []SnapshotTold
<1>1. SessionInv => SnapshotTold
  BY DEF SessionInv
<1> QED BY <1>1, SessionInvHolds, PTL

=============================================================================
