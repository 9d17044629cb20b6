------------------------- MODULE EventDelivery_proofs -------------------------
(***************************************************************************)
(* Proofs about EventDelivery, for any number of relay instances, any      *)
(* signals and any bounds.                                                 *)
(***************************************************************************)
EXTENDS EventDelivery, AgentOutbox_proofs

-----------------------------------------------------------------------------
(* The inductive invariant of the relay                                    *)

\* An instance that serves an event holds the only document of it, nothing of
\* it has been sent yet, and nothing is ever sent twice for one document.
Coordinated ==
    /\ \A i \in Instances : step[i] = "free" <=> serving[i] = NoId
    /\ \A i \in Instances : serving[i] # NoId =>
          serving[i] \in records /\ pushes[serving[i]] = 0
    /\ \A i, j \in Instances :
          serving[i] # NoId /\ serving[i] = serving[j] => i = j
    /\ \A id \in EventIds : pushes[id] <= 1
    /\ \A id \in EventIds : id \notin records => pushes[id] = 0

RelayInv == RelayTypeOK /\ Coordinated

LEMMA RelayInvInit == RelayInit => RelayInv
BY RelayAssumption DEF RelayInit, RelayInv, RelayTypeOK, Coordinated, Answers

\* What the handlers write keeps its type.
LEMMA RelayTypeStep ==
    ASSUME RelayInv, RelayNext
    PROVE  RelayTypeOK'
<1> USE RelayAssumption DEF RelayInv, RelayTypeOK, Answers
<1>1. CASE \E r \in net : Lose(r)
  BY <1>1 DEF Lose
<1>2. CASE \E r \in net : \E i \in Instances : Receive(i, r)
  <2>1. PICK r \in net, i \in Instances : Receive(i, r)
    BY <1>2
  <2>2. r.id \in EventIds /\ r.live \in BOOLEAN
    OBVIOUS
  <2>3. CASE RefuseOrFail(i, r)
    BY <2>3 DEF RefuseOrFail, AnswerTo
  <2>4. CASE RateLimited(i, r)
    BY <2>4 DEF RateLimited, AnswerTo
  <2>5. CASE DuplicateOrFail(i, r)
    BY <2>5 DEF DuplicateOrFail, Counted, AnswerTo
  <2>6. CASE CreateRecord(i, r)
    BY <2>2, <2>6 DEF CreateRecord, Counted
  <2> QED BY <2>1, <2>3, <2>4, <2>5, <2>6 DEF Receive
<1>3. CASE \E i \in Instances : Multicast(i)
  <2>1. PICK i \in Instances : Multicast(i)
    BY <1>3
  <2>2. CASE ListingFails(i)
    BY <2>2 DEF ListingFails, Finish, AnswerTo
  <2>3. CASE NobodyToTell(i)
    BY <2>3 DEF NobodyToTell, Finish, AnswerTo
  <2>4. CASE Push(i)
    <3>1. pushes' \in [EventIds -> Nat]
      <4>1. serving[i] # NoId /\ serving[i] \in EventIds
        BY <2>4 DEF Push, Coordinated
      <4>2. pushes[serving[i]] + 1 \in Nat
        BY <4>1
      <4> QED BY <2>4, <4>1, <4>2 DEF Push
    <3> QED BY <2>4, <3>1 DEF Push, Finish, AnswerTo
  <2>5. CASE PushUnreached(i)
    BY <2>5 DEF PushUnreached, Finish, AnswerTo
  <2>6. CASE PushRaises(i)
    BY <2>6 DEF PushRaises
  <2> QED BY <2>1, <2>2, <2>3, <2>4, <2>5, <2>6 DEF Multicast
<1>4. CASE \E i \in Instances : Undo(i)
  BY <1>4 DEF Undo, Finish, AnswerTo
<1>5. CASE \E i \in Instances : WindowSlides(i)
  <2>1. PICK i \in Instances : WindowSlides(i)
    BY <1>5
  <2>2. windows[i] - 1 \in 0..Limit
    BY <2>1 DEF WindowSlides
  <2> QED BY <2>1, <2>2 DEF WindowSlides
<1>6. CASE \E i \in Instances : Die(i)
  BY <1>6 DEF Die
<1>7. CASE \E id \in EventIds : Purge(id)
  BY <1>7 DEF Purge
<1> QED BY <1>1, <1>2, <1>3, <1>4, <1>5, <1>6, <1>7 DEF RelayNext

\* Nothing Coordinated speaks of changes.
LEMMA CoordinatedQuiet ==
    ASSUME Coordinated, UNCHANGED <<records, step, serving, pushes>>
    PROVE  Coordinated'
BY DEF Coordinated

\* event_ref.create: only one instance starts to serve an event.
LEMMA CoordinatedCreate ==
    ASSUME RelayInv, NEW i \in Instances, NEW r \in net, CreateRecord(i, r)
    PROVE  Coordinated'
<1> USE RelayAssumption DEF RelayInv, RelayTypeOK
<1>1. /\ r.id \in EventIds /\ r.id \notin records /\ r.id # NoId
      /\ step[i] = "free" /\ serving[i] = NoId
      /\ records' = records \cup {r.id} /\ UNCHANGED pushes
      /\ step' = [step EXCEPT ![i] = "created"]
      /\ serving' = [serving EXCEPT ![i] = r.id]
  BY DEF CreateRecord, Counted, Coordinated
<1>2. \A j \in Instances : serving[j] # r.id
  BY <1>1 DEF Coordinated
<1>3. \A j \in Instances :
          /\ serving'[j] = IF j = i THEN r.id ELSE serving[j]
          /\ step'[j] = IF j = i THEN "created" ELSE step[j]
  BY <1>1
<1>4. \A j, k \in Instances : serving'[j] # NoId /\ serving'[j] = serving'[k] => j = k
  BY <1>2, <1>3 DEF Coordinated
<1>5. \A j \in Instances : serving'[j] # NoId =>
          serving'[j] \in records' /\ pushes'[serving'[j]] = 0
  BY <1>1, <1>3 DEF Coordinated
<1>6. \A j \in Instances : step'[j] = "free" <=> serving'[j] = NoId
  BY <1>1, <1>3 DEF Coordinated
<1>7. \A id \in EventIds : pushes'[id] <= 1 /\ (id \notin records' => pushes'[id] = 0)
  BY <1>1 DEF Coordinated
<1> QED BY <1>4, <1>5, <1>6, <1>7 DEF Coordinated

\* An instance stops serving, for whatever reason: it may have sent its event
\* once, or withdrawn the document of an event it has not sent.
LEMMA CoordinatedStop ==
    ASSUME RelayInv, NEW i \in Instances,
           step' = [step EXCEPT ![i] = "free"],
           serving' = [serving EXCEPT ![i] = NoId],
           \/ UNCHANGED <<records, pushes>>
           \/ /\ serving[i] # NoId
              /\ UNCHANGED records
              /\ pushes' = [pushes EXCEPT ![serving[i]] = @ + 1]
           \/ /\ serving[i] # NoId
              /\ records' = records \ {serving[i]}
              /\ UNCHANGED pushes
    PROVE  Coordinated'
<1> USE RelayAssumption DEF RelayInv, RelayTypeOK
<1>1. \A j \in Instances :
          /\ serving'[j] = IF j = i THEN NoId ELSE serving[j]
          /\ step'[j] = IF j = i THEN "free" ELSE step[j]
  OBVIOUS
<1>2. \A j, k \in Instances : serving'[j] # NoId /\ serving'[j] = serving'[k] => j = k
  BY <1>1 DEF Coordinated
<1>3. \A j \in Instances : step'[j] = "free" <=> serving'[j] = NoId
  BY <1>1 DEF Coordinated
<1>4. \A j \in Instances : serving'[j] # NoId =>
          serving'[j] # serving[i] /\ serving[j] = serving'[j]
  BY <1>1 DEF Coordinated
<1>5. serving[i] # NoId => serving[i] \in EventIds /\ pushes[serving[i]] = 0
  BY DEF Coordinated
<1>6. ASSUME NEW id \in EventIds
      PROVE  /\ pushes'[id] = pushes[id] \/ (id = serving[i] /\ pushes'[id] = 1)
             /\ pushes'[id] # pushes[id] => id \in records'
  BY <1>5 DEF Coordinated
<1>7. \A j \in Instances : serving'[j] # NoId =>
          serving'[j] \in records' /\ pushes'[serving'[j]] = 0
  BY <1>4, <1>6 DEF Coordinated
<1>8. \A id \in EventIds : pushes'[id] <= 1
  BY <1>6 DEF Coordinated
<1>9. \A id \in EventIds : id \notin records' => pushes'[id] = 0
  BY <1>5, <1>6 DEF Coordinated
<1> QED BY <1>2, <1>3, <1>7, <1>8, <1>9 DEF Coordinated

LEMMA CoordinatedStep ==
    ASSUME RelayInv, RelayNext
    PROVE  Coordinated'
<1> USE DEF RelayInv
<1>1. CASE \E r \in net : Lose(r)
  BY <1>1, CoordinatedQuiet DEF Lose
<1>2. CASE \E r \in net : \E i \in Instances : Receive(i, r)
  BY <1>2, CoordinatedQuiet, CoordinatedCreate
  DEF Receive, RefuseOrFail, RateLimited, DuplicateOrFail
<1>3. CASE \E i \in Instances : Multicast(i)
  <2>1. PICK i \in Instances : Multicast(i)
    BY <1>3
  <2>2. step[i] = "created" /\ serving[i] # NoId
    BY <2>1 DEF Multicast, ListingFails, NobodyToTell, Push, PushUnreached,
                PushRaises, Coordinated
  <2>3. CASE PushRaises(i)
    <3>1. UNCHANGED <<records, serving, pushes>> /\ step' = [step EXCEPT ![i] = "undo"]
      BY <2>3 DEF PushRaises
    <3>2. \A j \in Instances : step'[j] = "free" <=> step[j] = "free"
      BY <2>2, <3>1 DEF RelayTypeOK
    <3> QED BY <3>1, <3>2 DEF Coordinated
  <2>4. CASE ListingFails(i) \/ NobodyToTell(i) \/ Push(i) \/ PushUnreached(i)
    BY <2>2, <2>4, CoordinatedStop
    DEF ListingFails, NobodyToTell, Push, PushUnreached, Finish
  <2> QED BY <2>1, <2>3, <2>4 DEF Multicast
<1>4. CASE \E i \in Instances : Undo(i)
  <2>1. PICK i \in Instances : Undo(i)
    BY <1>4
  <2>2. serving[i] # NoId
    BY <2>1 DEF Undo, Coordinated
  <2> QED BY <2>1, <2>2, CoordinatedStop DEF Undo, Finish
<1>5. CASE \E i \in Instances : WindowSlides(i)
  BY <1>5, CoordinatedQuiet DEF WindowSlides
<1>6. CASE \E i \in Instances : Die(i)
  BY <1>6, CoordinatedStop DEF Die
<1>7. CASE \E id \in EventIds : Purge(id)
  BY <1>7 DEF Purge, Coordinated, RelayTypeOK
<1> QED BY <1>1, <1>2, <1>3, <1>4, <1>5, <1>6, <1>7 DEF RelayNext

-----------------------------------------------------------------------------
(* The composition                                                         *)

DeliveryInv == OutboxInv /\ RelayInv

\* The composition takes steps of the Agent's outbox only.
LEMMA DeliveryIsOutbox == [DeliveryNext]_allVars => [Next]_vars
BY DEF DeliveryNext, allVars, vars, Agent, AgentAlone, AgentSends, AgentAccepted,
       AgentRejected, AgentPostpones, AgentCrashes, RelaySteps, Next

\* The id of every event that is sent is in range.
LEMMA HeadId ==
    ASSUME OutboxInv, mem.outbox # <<>>
    PROVE  EventId(Head(mem.outbox)) \in EventIds
<1> DEFINE e == Head(mem.outbox)
<1>1. mem.outbox \in Seq(Items)
  BY DEF OutboxInv, TypeOK, States
<1>2. e \in Items /\ e \in Range(mem.outbox)
  BY <1>1, RangeOfTail
<1>3. e \in Events
  BY <1>2, DeliveryAssumption DEF Items, Registrations
<1>4. UpTo(e, changes) /\ changes <= MaxChanges /\ changes \in Nat
  BY <1>2 DEF OutboxInv, Numbered, Known, TypeOK
<1>5. e.occurrence \in 0..MaxChanges
  BY <1>3, <1>4, OutboxAssumption DEF UpTo, Events
<1> QED BY <1>3, <1>5, DeliveryAssumption DEF EventId, Ids, Events

\* What the client of a request does changes the messages only.
LEMMA ClientStep ==
    ASSUME OutboxInv, RelayInv, Agent
    PROVE  RelayInv'
<1> USE DEF RelayInv, RelayTypeOK, Answers
<1>1. CASE AgentAlone
  BY <1>1 DEF AgentAlone, relayVars, Coordinated
<1>2. CASE AgentSends
  <2>1. EventId(Head(mem.outbox)) \in EventIds
    BY <1>2, HeadId DEF AgentSends, Send
  <2> DEFINE r == [id |-> EventId(Head(mem.outbox)), live |-> TRUE]
  <2>2. /\ net' = net \cup {r} /\ reply' = "none"
        /\ UNCHANGED <<records, step, serving, live, windows, pushes, outcome,
                       purges>>
    BY <1>2 DEF AgentSends, Request
  <2>3. r \in [id : EventIds, live : BOOLEAN]
    BY <2>1
  <2> HIDE DEF r
  <2> QED BY <2>2, <2>3, CoordinatedQuiet
<1>3. CASE AgentAccepted \/ AgentRejected
  BY <1>3, CoordinatedQuiet DEF AgentAccepted, AgentRejected, TakeReply
<1>4. CASE AgentPostpones \/ AgentCrashes
  <2>1. Abandon
    BY <1>4 DEF AgentPostpones, AgentCrashes
  <2>2. net' \subseteq [id : EventIds, live : BOOLEAN]
    <3>1. ASSUME NEW r \in net
          PROVE  [r EXCEPT !.live = FALSE] \in [id : EventIds, live : BOOLEAN]
      OBVIOUS
    <3>2. net' = {[r EXCEPT !.live = FALSE] : r \in net}
      BY <2>1 DEF Abandon
    <3> QED BY <3>1, <3>2, Zenon
  <2> QED BY <2>1, <2>2, CoordinatedQuiet DEF Abandon
<1> QED BY <1>1, <1>2, <1>3, <1>4 DEF Agent

LEMMA DeliveryInvInit == DeliveryInit => DeliveryInv
BY InvInit, RelayInvInit DEF DeliveryInit, DeliveryInv

LEMMA DeliveryInvStep ==
    DeliveryInv /\ [DeliveryNext]_allVars => DeliveryInv'
<1> SUFFICES ASSUME DeliveryInv, [DeliveryNext]_allVars PROVE DeliveryInv'
  OBVIOUS
<1> USE DEF DeliveryInv
<1>1. OutboxInv'
  BY DeliveryIsOutbox, InvStep
<1>2. CASE Agent
  BY <1>1, <1>2, ClientStep
<1>3. CASE RelaySteps
  BY <1>1, <1>3, RelayTypeStep, CoordinatedStep DEF RelaySteps, RelayInv
<1>4. CASE UNCHANGED allVars
  BY <1>1, <1>4 DEF allVars, RelayInv, RelayTypeOK, Coordinated
<1> QED BY <1>2, <1>3, <1>4 DEF DeliveryNext

\* Every variable of the Agent, the network and the relay keeps its type.
THEOREM DeliveryTypeCorrect == DeliverySpec => []DeliveryTypeOK
<1>1. DeliveryInv => DeliveryTypeOK
  BY DEF DeliveryInv, OutboxInv, RelayInv, DeliveryTypeOK
<1> QED BY <1>1, DeliveryInvInit, DeliveryInvStep, PTL DEF DeliverySpec

\* One event is multicast at most once while its document lives (app.py
\* publish_event), by any number of instances, whoever crashes or retries.
THEOREM AtMostOncePerDocument == DeliverySpec => []AtMostOnePush
<1>1. DeliveryInv => AtMostOnePush
  BY DeliveryAssumption
  DEF DeliveryInv, RelayInv, Coordinated, AtMostOnePush
<1> QED BY <1>1, DeliveryInvInit, DeliveryInvStep, PTL DEF DeliverySpec

\* No two instances serve one event, and its document exists while one does
\* (app.py publish_event, event_ref.create).
THEOREM OneServerOnly == DeliverySpec => []OneServer
<1>1. DeliveryInv => OneServer
  BY DEF DeliveryInv, RelayInv, Coordinated, OneServer
<1> QED BY <1>1, DeliveryInvInit, DeliveryInvStep, PTL DEF DeliverySpec

-----------------------------------------------------------------------------
(* The composition implements PushPromise                                  *)

\* Whatever travels from a signal to the multicast was raised.
RaisedInv ==
    /\ \A s \in Signals : signals[s].status # "clear" => signals[s].occurrence > 0
    /\ \A e \in Known : EventId(e) \in RaisedIds
    /\ \A r \in net : r.id \in RaisedIds
    /\ \A i \in Instances : serving[i] # NoId => serving[i] \in RaisedIds

\* No step takes an occurrence back, and one step raises at most one.
OneMoreRaised ==
    \/ RaisedIds' = RaisedIds
    \/ \E id \in EventIds : id \notin RaisedIds /\ RaisedIds' = RaisedIds \cup {id}

LEMMA RaisedUnchanged ==
    ASSUME \A s \in Signals : signals'[s].occurrence = signals[s].occurrence
    PROVE  RaisedIds' = RaisedIds
BY DEF RaisedIds, Ids

LEMMA RaiseOne ==
    ASSUME TypeOK, Numbered, NEW s \in Signals, Raise(s)
    PROVE  OneMoreRaised
<1>1. /\ changes < MaxChanges
      /\ signals[s].occurrence \in Nat /\ signals[s].occurrence <= changes
      /\ changes \in Nat /\ MaxChanges \in Nat
  BY OutboxAssumption DEF Raise, Change, TypeOK, Numbered
<1> DEFINE n == signals[s].occurrence
           id == <<s, IF s \in EpisodeSignals THEN n + 1 ELSE 0>>
<1>2. /\ signals'[s].occurrence = n + 1
      /\ \A x \in Signals : x # s =>
            signals'[x].occurrence = signals[x].occurrence
  BY DEF Raise, Change, TypeOK
<1>3. n + 1 \in 1..MaxChanges /\ 0 \in 0..MaxChanges /\ n \in Nat
  BY <1>1
<1>4. id \in EventIds
  BY <1>3, DeliveryAssumption DEF Ids
<1>5. ASSUME NEW x \in Ids
      PROVE  x \in RaisedIds' <=> x \in RaisedIds \/ x = id
  <2>1. PICK y \in Signals, m \in 0..MaxChanges : x = <<y, m>>
    BY DEF Ids
  <2>2. /\ x \in RaisedIds <=>
              IF y \in EpisodeSignals THEN m \in 1..signals[y].occurrence
              ELSE m = 0 /\ signals[y].occurrence > 0
        /\ x \in RaisedIds' <=>
              IF y \in EpisodeSignals THEN m \in 1..signals'[y].occurrence
              ELSE m = 0 /\ signals'[y].occurrence > 0
    BY <2>1 DEF RaisedIds
  <2>3. CASE y # s
    BY <1>2, <2>1, <2>2, <2>3
  <2>4. CASE y = s /\ s \in EpisodeSignals
    BY <1>2, <1>3, <2>1, <2>2, <2>4
  <2>5. CASE y = s /\ s \notin EpisodeSignals
    <3>1. x \in RaisedIds' <=> m = 0
      BY <1>2, <1>3, <2>2, <2>5
    <3>2. x = id <=> m = 0
      BY <2>1, <2>5
    <3>3. x \in RaisedIds => m = 0
      BY <2>2, <2>5
    <3> QED BY <3>1, <3>2, <3>3
  <2> QED BY <2>3, <2>4, <2>5
<1>6. RaisedIds \subseteq Ids /\ RaisedIds' \subseteq Ids
  BY DEF RaisedIds, Ids
<1>7. RaisedIds' = RaisedIds \cup {id}
  BY <1>4, <1>5, <1>6, DeliveryAssumption
<1> HIDE DEF id
<1>8. CASE id \in RaisedIds
  BY <1>7, <1>8 DEF OneMoreRaised
<1>9. CASE id \notin RaisedIds
  BY <1>4, <1>7, <1>9 DEF OneMoreRaised
<1> QED BY <1>8, <1>9

LEMMA RaisedStep ==
    ASSUME OutboxInv, [Next]_vars
    PROVE  OneMoreRaised
<1> USE DEF OutboxInv
<1>1. CASE \E s \in Signals : Raise(s)
  BY <1>1, RaiseOne
<1>2. CASE \E s \in Signals : Clear(s) \/ Reword(s) \/ Hide(s) \/ Reveal(s)
  <2>1. PICK s \in Signals : Clear(s) \/ Reword(s) \/ Hide(s) \/ Reveal(s)
    BY <1>2
  <2>2. \A x \in Signals : signals'[x].occurrence = signals[x].occurrence
    BY <2>1 DEF Clear, Reword, Hide, Reveal, Change, TypeOK
  <2> QED BY <2>2, RaisedUnchanged DEF OneMoreRaised
<1>3. CASE Crash
  <2>1. signals' = [s \in Signals |-> [signals[s] EXCEPT !.status = "clear",
                                                         !.version = 0]]
    BY <1>3 DEF Crash
  <2>2. \A s \in Signals : signals'[s].occurrence = signals[s].occurrence
    BY <2>1 DEF TypeOK
  <2> QED BY <2>2, RaisedUnchanged DEF OneMoreRaised
<1>4. CASE UNCHANGED signals
  BY <1>4, RaisedUnchanged DEF OneMoreRaised
<1> QED
  BY <1>1, <1>2, <1>3, <1>4
  DEF Next, World, Observe, AdoptClaim, ObserveBegin, QueueSignal, ObserveEnd,
      RegisterDevice, EnrollmentChecked, FlushDone, Send, Accepted, Rejected,
      Postponed, worldVars, vars

\* A signal that is not clear has been raised.
LEMMA SignalsRaisedStep ==
    ASSUME OutboxInv, RaisedInv, [Next]_vars
    PROVE  \A s \in Signals :
              signals'[s].status # "clear" => signals'[s].occurrence > 0
<1> USE DEF OutboxInv
<1>1. CASE World
  <2>1. PICK s \in Signals :
            Raise(s) \/ Clear(s) \/ Reword(s) \/ Hide(s) \/ Reveal(s)
    BY <1>1 DEF World
  <2>2. signals[s].occurrence \in Nat
    BY DEF TypeOK
  <2>3. /\ signals'[s].status # "clear" => signals'[s].occurrence > 0
        /\ \A x \in Signals : x # s => signals'[x] = signals[x]
    BY <2>1, <2>2
    DEF Raise, Clear, Reword, Hide, Reveal, Change, TypeOK, RaisedInv
  <2> QED BY <2>3 DEF RaisedInv
<1>2. CASE Crash
  <2>1. signals' = [s \in Signals |-> [signals[s] EXCEPT !.status = "clear",
                                                         !.version = 0]]
    BY <1>2 DEF Crash
  <2>2. \A s \in Signals : signals'[s].status = "clear"
    BY <2>1 DEF TypeOK
  <2> QED BY <2>2
<1>3. CASE UNCHANGED signals
  BY <1>3 DEF RaisedInv
<1> QED
  BY <1>1, <1>2, <1>3
  DEF Next, Observe, AdoptClaim, ObserveBegin, QueueSignal, ObserveEnd,
      RegisterDevice, EnrollmentChecked, FlushDone, Send, Accepted, Rejected,
      Postponed, worldVars, vars

\* The event of an active signal names an occurrence that was raised.
LEMMA ActiveIsRaised ==
    ASSUME OutboxInv, RaisedInv, NEW s \in Active
    PROVE  EventId(EventOf(s)) \in RaisedIds
<1>1. /\ s \in Signals
      /\ signals[s].occurrence \in Nat /\ signals[s].occurrence > 0
      /\ signals[s].occurrence <= changes
      /\ changes \in Nat /\ changes <= MaxChanges /\ MaxChanges \in Nat
  BY OutboxAssumption DEF Active, OutboxInv, TypeOK, Numbered, RaisedInv
<1>2. EventId(EventOf(s)) =
          <<s, IF s \in EpisodeSignals THEN signals[s].occurrence ELSE 0>>
  BY DEF EventId, EventOf
<1> QED BY <1>1, <1>2 DEF RaisedIds, Ids

LEMMA RaisedInvInit == DeliveryInit => RaisedInv
<1> SUFFICES ASSUME DeliveryInit PROVE RaisedInv
  OBVIOUS
<1>1. Known = {}
  BY DEF DeliveryInit, Init, Known, Answered, Range
<1> QED BY <1>1 DEF DeliveryInit, Init, RelayInit, RaisedInv

\* The Agent sends only what is queued.
LEMMA AgentCarriesRaised ==
    ASSUME DeliveryInv, RaisedInv, Agent
    PROVE  /\ \A r \in net' : r.id \in RaisedIds
           /\ \A i \in Instances : serving'[i] # NoId => serving'[i] \in RaisedIds
<1> USE DEF DeliveryInv, RelayInv, RelayTypeOK
<1>1. serving' = serving
  BY DEF Agent, AgentAlone, relayVars, AgentSends, Request, AgentAccepted,
         AgentRejected, TakeReply, AgentPostpones, AgentCrashes, Abandon
<1>2. CASE AgentSends
  <2>1. /\ mem.outbox # <<>> /\ mem.outbox \in Seq(Items)
        /\ net' = net \cup {[id |-> EventId(Head(mem.outbox)), live |-> TRUE]}
    BY <1>2 DEF AgentSends, Send, Request, OutboxInv, TypeOK, States
  <2>2. Head(mem.outbox) \in Known
    BY <2>1, RangeOfTail DEF Known
  <2>3. EventId(Head(mem.outbox)) \in RaisedIds
    BY <2>2 DEF RaisedInv
  <2> QED BY <1>1, <2>1, <2>3 DEF RaisedInv
<1>3. CASE AgentPostpones \/ AgentCrashes
  <2>1. net' = {[r EXCEPT !.live = FALSE] : r \in net}
    BY <1>3 DEF AgentPostpones, AgentCrashes, Abandon
  <2>2. ASSUME NEW r \in net
        PROVE  [r EXCEPT !.live = FALSE].id \in RaisedIds
    BY DEF RaisedInv
  <2>3. \A r \in net' : r.id \in RaisedIds
    BY <2>1, <2>2, Zenon
  <2> QED BY <1>1, <2>3 DEF RaisedInv
<1>4. CASE AgentAlone \/ AgentAccepted \/ AgentRejected
  BY <1>1, <1>4
  DEF AgentAlone, relayVars, AgentAccepted, AgentRejected, TakeReply, RaisedInv
<1> QED BY <1>2, <1>3, <1>4 DEF Agent

\* An instance serves only what was sent.
LEMMA RelayCarriesRaised ==
    ASSUME DeliveryInv, RaisedInv, RelayNext
    PROVE  /\ \A r \in net' : r.id \in RaisedIds
           /\ \A i \in Instances : serving'[i] # NoId => serving'[i] \in RaisedIds
<1> USE DEF DeliveryInv, RelayInv, RelayTypeOK
<1>1. CASE \E r \in net : \E i \in Instances : CreateRecord(i, r)
  BY <1>1 DEF CreateRecord, Counted, RaisedInv
<1>2. CASE net' \subseteq net /\ UNCHANGED serving
  BY <1>2 DEF RaisedInv
<1>3. CASE UNCHANGED net /\ \E i \in Instances : serving' = [serving EXCEPT ![i] = NoId]
  BY <1>3 DEF RaisedInv
<1>4. \/ \E r \in net : \E i \in Instances : CreateRecord(i, r)
      \/ net' \subseteq net /\ UNCHANGED serving
      \/ UNCHANGED net /\ \E i \in Instances : serving' = [serving EXCEPT ![i] = NoId]
  BY DEF RelayNext, Lose, Receive, RefuseOrFail, RateLimited, DuplicateOrFail,
         Counted, Multicast, ListingFails, NobodyToTell, Push, PushUnreached,
         PushRaises, Undo, Finish, WindowSlides, Die, Purge
<1> QED BY <1>1, <1>2, <1>3, <1>4

\* Whoever acts, only raised occurrences go on their way.
LEMMA RaisedInvStep ==
    ASSUME DeliveryInv, RaisedInv, [DeliveryNext]_allVars
    PROVE  RaisedInv'
<1> USE DEF DeliveryInv
<1>1. [Next]_vars
  BY DeliveryIsOutbox
<1>2. OneMoreRaised
  BY <1>1, RaisedStep
<1>3. RaisedIds \subseteq RaisedIds'
  BY <1>2 DEF OneMoreRaised
<1>4. \A s \in Signals :
          signals'[s].status # "clear" => signals'[s].occurrence > 0
  BY <1>1, SignalsRaisedStep
<1>5. ASSUME NEW e \in Known' PROVE EventId(e) \in RaisedIds'
  <2>1. StepNumbers
    BY <1>1, NextNumbers DEF OutboxInv
  <2>2. e \in Known \/ NewItem(e)
    BY <2>1 DEF StepNumbers, Known
  <2>3. CASE e \in Known
    BY <1>3, <2>3 DEF RaisedInv
  <2>4. CASE NewItem(e)
    BY <1>3, <2>4, ActiveIsRaised, DeliveryAssumption DEF NewItem
  <2> QED BY <2>2, <2>3, <2>4
<1>6. /\ \A r \in net' : r.id \in RaisedIds
      /\ \A i \in Instances : serving'[i] # NoId => serving'[i] \in RaisedIds
  <2>1. CASE Agent
    BY <2>1, AgentCarriesRaised
  <2>2. CASE RelaySteps
    BY <2>2, RelayCarriesRaised DEF RelaySteps
  <2>3. CASE UNCHANGED allVars
    BY <2>3 DEF allVars, RaisedInv
  <2> QED BY <2>1, <2>2, <2>3 DEF DeliveryNext
<1> QED BY <1>3, <1>4, <1>5, <1>6 DEF RaisedInv

\* The pushes of one step: none, or the first one of a raised occurrence.
LEMMA PushesStep ==
    ASSUME DeliveryInv, RaisedInv, [DeliveryNext]_allVars, MaxPurges = 0
    PROVE  \/ UNCHANGED pushes
           \/ /\ RaisedIds' = RaisedIds
              /\ \E id \in RaisedIds :
                    pushes[id] = 0 /\ pushes' = [pushes EXCEPT ![id] = 1]
<1> USE DEF DeliveryInv, RelayInv, RelayTypeOK
<1>1. CASE \E i \in Instances : Push(i) /\ UNCHANGED vars
  <2>1. PICK i \in Instances : Push(i) /\ UNCHANGED vars
    BY <1>1
  <2>2. serving[i] \in RaisedIds /\ pushes[serving[i]] = 0
    BY <2>1 DEF Push, Coordinated, RaisedInv
  <2>3. pushes' = [pushes EXCEPT ![serving[i]] = 1]
    BY <2>1, <2>2 DEF Push
  <2>4. RaisedIds' = RaisedIds
    BY <2>1, RaisedUnchanged DEF vars
  <2> QED BY <2>2, <2>3, <2>4
<1>2. CASE \E id \in EventIds : Purge(id)
  BY <1>2 DEF Purge
<1>3. \/ UNCHANGED pushes
      \/ \E i \in Instances : Push(i) /\ UNCHANGED vars
      \/ \E id \in EventIds : Purge(id)
  BY DEF DeliveryNext, allVars, Agent, AgentAlone, relayVars, AgentSends, Request,
         AgentAccepted, AgentRejected, TakeReply, AgentPostpones, AgentCrashes,
         Abandon, RelaySteps, RelayNext, Lose, Receive, RefuseOrFail, RateLimited,
         DuplicateOrFail, Counted, CreateRecord, Multicast, ListingFails,
         NobodyToTell, PushUnreached, PushRaises, Undo, Finish, WindowSlides, Die
<1> QED BY <1>1, <1>2, <1>3

LEMMA PromiseInit == DeliveryInit => Promise!PromiseInit
<1> SUFFICES ASSUME DeliveryInit PROVE Promise!PromiseInit
  OBVIOUS
<1>1. \A s \in Signals : signals[s].occurrence = 0
  BY DEF DeliveryInit, Init
<1>2. RaisedIds = {}
  BY <1>1 DEF RaisedIds, Ids
<1>3. pushes = [id \in EventIds |-> 0]
  BY DEF DeliveryInit, RelayInit
<1> QED BY <1>2, <1>3 DEF Promise!PromiseInit

LEMMA PromiseStep ==
    ASSUME DeliveryInv, RaisedInv, [DeliveryNext]_allVars, MaxPurges = 0
    PROVE  [Promise!PromiseNext]_(Promise!promiseVars)
<1>1. OneMoreRaised
  BY DeliveryIsOutbox, RaisedStep DEF DeliveryInv
<1>2. CASE UNCHANGED pushes
  BY <1>1, <1>2
  DEF OneMoreRaised, Promise!PromiseNext, Promise!RaiseEvent, Promise!promiseVars
<1>3. CASE /\ RaisedIds' = RaisedIds
           /\ \E id \in RaisedIds :
                 pushes[id] = 0 /\ pushes' = [pushes EXCEPT ![id] = 1]
  <2>1. RaisedIds \subseteq EventIds
    BY DeliveryAssumption DEF RaisedIds
  <2> QED BY <1>3, <2>1 DEF Promise!PromiseNext, Promise!Tell
<1> QED BY <1>2, <1>3, PushesStep

\* The outbox, the network and the relay implement PushPromise while event
\* documents are kept, for any number of instances, signals, crashes and faults
\* (relay.py, app.py publish_event).
THEOREM PromiseIsKept == ASSUME MaxPurges = 0 PROVE DeliverySpec => PromiseKept
<1>1. DeliveryInit => DeliveryInv /\ RaisedInv /\ Promise!PromiseInit
  BY DeliveryInvInit, RaisedInvInit, PromiseInit
<1>2. DeliveryInv /\ RaisedInv /\ [DeliveryNext]_allVars =>
          /\ DeliveryInv' /\ RaisedInv'
          /\ [Promise!PromiseNext]_(Promise!promiseVars)
  BY DeliveryInvStep, RaisedInvStep, PromiseStep
<1> QED BY <1>1, <1>2, PTL DEF DeliverySpec, PromiseKept, Promise!PromiseSpec

-----------------------------------------------------------------------------
(* What is accepted was told                                               *)

\* One relay instance is deployed.
OneInstance == \E i : Instances = {i}

Told(id) == id \in EventIds /\ outcome[id] \in {"reached", "nobody"}

\* An event document is of an event that was told, or is being told.
RecordsTold == \A id \in records : Told(id) \/ \E i \in Instances : serving[i] = id

LiveRequests == {r \in net : r.live}
LiveInstances == {i \in Instances : live[i]}

\* The Agent waits for one request, which is on its way, served or answered; every
\* other one was given up.
OneAwaited ==
    /\ \A r \in LiveRequests : pc = "request" /\ r.id = EventId(Head(mem.outbox))
    /\ \A i \in LiveInstances :
          pc = "request" /\ serving[i] = EventId(Head(mem.outbox)) /\ LiveRequests = {}
    /\ reply # "none" =>
          pc = "request" /\ LiveRequests = {} /\ LiveInstances = {}

\* An answer that takes an event out of the outbox is for one that was told.
OkMeansTold ==
    /\ reply = "ok" => Told(EventId(Head(mem.outbox)))
    /\ \A e \in accepted : Told(EventId(e))

ToldInv == RecordsTold /\ OneAwaited /\ OkMeansTold

LEMMA ToldInvInit == DeliveryInit => ToldInv
BY DEF DeliveryInit, Init, RelayInit, ToldInv, RecordsTold, OneAwaited, OkMeansTold,
       LiveRequests, LiveInstances

\* The Agent waits for nobody once it has an answer or has given up.
LEMMA AgentKeepsTold ==
    ASSUME DeliveryInv, ToldInv, Agent
    PROVE  ToldInv'
<1> USE DEF ToldInv, OneAwaited, OkMeansTold, LiveRequests, LiveInstances
<1>1. UNCHANGED <<records, serving, outcome>>
  BY DEF Agent, AgentAlone, relayVars, AgentSends, Request, AgentAccepted,
         AgentRejected, TakeReply, AgentPostpones, AgentCrashes, Abandon
<1>2. RecordsTold'
  BY <1>1 DEF RecordsTold, Told
<1>3. \A id : Told(id)' = Told(id)
  BY <1>1 DEF Told
<1>4. CASE AgentAlone
  <2>1. UNCHANGED <<net, live, reply, accepted>>
    BY <1>4 DEF AgentAlone, relayVars, World, Raise, Clear, Reword, Hide, Reveal,
                Change, agentVars, AdoptClaim, Observe, ObserveBegin, QueueSignal,
                ObserveEnd, FlushDone
  <2>2. pc = "request" => UNCHANGED <<pc, mem>>
    BY <1>4 DEF AgentAlone, World, Raise, Clear, Reword, Hide, Reveal, Change,
                agentVars, AdoptClaim, Observe, ObserveBegin, QueueSignal,
                ObserveEnd, FlushDone
  <2> QED BY <1>1, <1>2, <1>3, <2>1, <2>2
<1>5. CASE AgentSends
  <2>1. /\ pc = "flush" /\ pc' = "request" /\ UNCHANGED <<mem, accepted, live>>
        /\ reply' = "none"
        /\ net' = net \cup {[id |-> EventId(Head(mem.outbox)), live |-> TRUE]}
    BY <1>5 DEF AgentSends, Send, Request
  <2>2. LiveRequests = {} /\ LiveInstances = {}
    BY <2>1
  <2>3. \A r \in net' : r.live => r.id = EventId(Head(mem.outbox))
    BY <2>1, <2>2
  <2> QED BY <1>2, <1>3, <2>1, <2>2, <2>3
<1>6. CASE AgentAccepted \/ AgentRejected
  <2>1. /\ reply # "none" /\ reply' = "none" /\ UNCHANGED <<net, live>>
    BY <1>6 DEF AgentAccepted, AgentRejected, TakeReply
  <2>2. \A e \in accepted' : Told(EventId(e))
    BY <1>6 DEF AgentAccepted, AgentRejected, TakeReply, Accepted, Rejected
  <2> QED BY <1>2, <1>3, <2>1, <2>2
<1>7. CASE AgentPostpones \/ AgentCrashes
  <2>1. /\ net' = {[r EXCEPT !.live = FALSE] : r \in net}
        /\ reply' = "none" /\ live' = [i \in Instances |-> FALSE]
    BY <1>7 DEF AgentPostpones, AgentCrashes, Abandon
  <2>2. accepted' = accepted
    BY <1>7 DEF AgentPostpones, AgentCrashes, Postponed, Crash
  <2>3. ASSUME NEW r \in net PROVE ~[r EXCEPT !.live = FALSE].live
    BY DEF DeliveryInv, RelayInv, RelayTypeOK
  <2>4. \A r \in net' : ~r.live
    BY <2>1, <2>3, Zenon
  <2> QED BY <1>2, <1>3, <2>1, <2>2, <2>4
<1> QED BY <1>4, <1>5, <1>6, <1>7 DEF Agent

\* Only one request is awaited.
LEMMA LiveRequestIsOne ==
    ASSUME DeliveryInv, ToldInv, NEW r \in net, r.live
    PROVE  /\ pc = "request" /\ r.id = EventId(Head(mem.outbox))
           /\ \A s \in net \ {r} : ~s.live
           /\ LiveInstances = {} /\ reply = "none"
<1>1. pc = "request" /\ \A s \in LiveRequests : s.id = EventId(Head(mem.outbox))
  BY DEF ToldInv, OneAwaited, LiveRequests
<1>2. net \subseteq [id : EventIds, live : BOOLEAN]
  BY DEF DeliveryInv, RelayInv, RelayTypeOK
<1>3. \A s \in LiveRequests : s = r
  BY <1>1, <1>2 DEF LiveRequests
<1> QED BY <1>1, <1>3 DEF ToldInv, OneAwaited, LiveRequests, LiveInstances

\* A request that is taken from the network by the one instance.
LEMMA ReceiveKeepsTold ==
    ASSUME DeliveryInv, ToldInv, NEW i, Instances = {i}, NEW r \in net, Receive(i, r),
           UNCHANGED vars
    PROVE  ToldInv'
<1>1. /\ UNCHANGED <<pc, mem, accepted, outcome>> /\ \A id : Told(id)' = Told(id)
  BY DEF vars, Receive, RefuseOrFail, RateLimited, DuplicateOrFail, CreateRecord,
         Counted, Told
<1>2. net' = net \ {r} /\ step[i] = "free"
  BY DEF Receive, RefuseOrFail, RateLimited, DuplicateOrFail, CreateRecord, Counted
<1>3. /\ serving[i] = NoId /\ records \subseteq EventIds /\ NoId \notin EventIds
      /\ serving \in [Instances -> EventIds \cup {NoId}] /\ live \in [Instances -> BOOLEAN]
      /\ r.id \in EventIds /\ r.live \in BOOLEAN
  BY <1>2, RelayAssumption DEF DeliveryInv, RelayInv, Coordinated, RelayTypeOK
<1>4. r.live => /\ pc = "request" /\ r.id = EventId(Head(mem.outbox))
                /\ \A s \in net' : ~s.live
                /\ LiveInstances = {} /\ reply = "none"
  BY <1>2, LiveRequestIsOne
<1>5. \A id \in records : Told(id)
  BY <1>3 DEF ToldInv, RecordsTold
<1>6. CASE CreateRecord(i, r)
  <2>1. /\ records' = records \cup {r.id} /\ UNCHANGED reply
        /\ serving' = [serving EXCEPT ![i] = r.id] /\ live' = [live EXCEPT ![i] = r.live]
    BY <1>6 DEF CreateRecord
  <2>2. RecordsTold'
    BY <1>1, <1>3, <1>5, <2>1 DEF RecordsTold
  <2>3. OneAwaited'
    <3>1. CASE r.live
      BY <1>1, <1>3, <1>4, <2>1, <3>1 DEF OneAwaited, LiveRequests, LiveInstances
    <3>2. CASE ~r.live
      <4>1. LiveInstances' \subseteq LiveInstances /\ i \notin LiveInstances'
        BY <1>3, <2>1, <3>2 DEF LiveInstances
      <4>2. LiveRequests' \subseteq LiveRequests /\ LiveInstances' = {}
        BY <1>2, <4>1 DEF LiveRequests, LiveInstances
      <4> QED BY <1>1, <2>1, <4>1, <4>2 DEF ToldInv, OneAwaited
    <3> QED BY <1>3, <3>1, <3>2
  <2>4. OkMeansTold'
    BY <1>1, <2>1 DEF ToldInv, OkMeansTold
  <2> QED BY <2>2, <2>3, <2>4 DEF ToldInv
<1>7. CASE RefuseOrFail(i, r) \/ RateLimited(i, r) \/ DuplicateOrFail(i, r)
  <2>1. UNCHANGED <<records, serving, live>>
    BY <1>7 DEF RefuseOrFail, RateLimited, DuplicateOrFail
  <2>2. \/ ~r.live /\ UNCHANGED reply
        \/ r.live /\ reply' \in {"refused", "retry"}
        \/ r.live /\ reply' = "ok" /\ r.id \in records
    BY <1>3, <1>7 DEF RefuseOrFail, RateLimited, DuplicateOrFail, AnswerTo
  <2>3. RecordsTold'
    BY <1>1, <2>1 DEF ToldInv, RecordsTold
  <2>4. OneAwaited'
    <3>1. LiveRequests' \subseteq LiveRequests /\ LiveInstances' = LiveInstances
      BY <1>2, <2>1 DEF LiveRequests, LiveInstances
    <3>2. CASE r.live
      <4>1. LiveRequests' = {} /\ LiveInstances' = {} /\ pc' = "request"
        BY <1>1, <1>4, <3>1, <3>2 DEF LiveRequests
      <4> QED BY <4>1 DEF OneAwaited
    <3>3. CASE ~r.live
      BY <1>1, <2>1, <2>2, <3>1, <3>3 DEF ToldInv, OneAwaited
    <3> QED BY <3>2, <3>3
  <2>5. OkMeansTold'
    BY <1>1, <1>4, <1>5, <2>2 DEF ToldInv, OkMeansTold
  <2> QED BY <2>3, <2>4, <2>5 DEF ToldInv
<1> QED BY <1>6, <1>7 DEF Receive

\* The instance answers a request it served, without any of the faults.
LEMMA ServeKeepsTold ==
    ASSUME DeliveryInv, ToldInv, NEW i, Instances = {i}, Faults = {},
           Multicast(i) \/ Undo(i), UNCHANGED vars
    PROVE  ToldInv'
<1>1. /\ UNCHANGED <<pc, mem, accepted, net>> /\ step[i] # "free"
  BY DEF vars, Multicast, ListingFails, NobodyToTell, Push, PushUnreached, PushRaises, Undo
<1>2. /\ serving[i] \in EventIds /\ records \subseteq EventIds /\ NoId \notin EventIds
      /\ serving \in [Instances -> EventIds \cup {NoId}] /\ live \in [Instances -> BOOLEAN]
      /\ outcome \in [EventIds -> {"open", "reached", "nobody", "unreached"}]
  BY <1>1, RelayAssumption DEF DeliveryInv, RelayInv, Coordinated, RelayTypeOK
<1>3. \A id \in records : id # serving[i] => Told(id)
  BY DEF ToldInv, RecordsTold
<1>4. live[i] => /\ pc = "request" /\ serving[i] = EventId(Head(mem.outbox))
                 /\ LiveRequests = {}
  BY DEF ToldInv, OneAwaited, LiveInstances
<1>5. CASE PushRaises(i)
  BY <1>1, <1>5 DEF PushRaises, ToldInv, RecordsTold, OneAwaited, OkMeansTold,
                    LiveRequests, LiveInstances, Told
<1>6. CASE ~PushRaises(i)
  <2>1. PICK answer \in {"ok", "retry"} :
           /\ Finish(i, answer)
           /\ \/ /\ outcome' = [outcome EXCEPT ![serving[i]] = "reached"]
                 /\ UNCHANGED records
              \/ /\ outcome' = [outcome EXCEPT ![serving[i]] = "nobody"]
                 /\ UNCHANGED records
              \/ /\ answer = "retry" /\ UNCHANGED outcome
                 /\ records' = records \ {serving[i]}
    BY <1>6 DEF Multicast, ListingFails, NobodyToTell, Push, PushUnreached, Undo
  <2>2. \A id : Told(id) => Told(id)'
    BY <1>2, <2>1 DEF Told
  <2>3. \A id : answer = "ok" /\ id = serving[i] => Told(id)'
    BY <1>2, <2>1 DEF Told
  <2>4. \A id \in records' : Told(id)'
    <3>1. CASE answer = "retry" /\ records' = records \ {serving[i]}
      BY <1>3, <2>2, <3>1
    <3>2. CASE /\ UNCHANGED records
               /\ outcome' \in {[outcome EXCEPT ![serving[i]] = "reached"],
                                [outcome EXCEPT ![serving[i]] = "nobody"]}
      BY <1>2, <1>3, <2>2, <3>2 DEF Told
    <3> QED BY <2>1, <3>1, <3>2
  <2>5. reply' = IF live[i] THEN answer ELSE reply
    BY <2>1 DEF Finish, AnswerTo
  <2>6. LiveRequests' = LiveRequests /\ LiveInstances' = {}
    BY <1>1, <1>2, <2>1 DEF Finish, LiveRequests, LiveInstances
  <2>7. RecordsTold'
    BY <2>4 DEF RecordsTold
  <2>8. OneAwaited'
    BY <1>1, <1>4, <2>5, <2>6 DEF ToldInv, OneAwaited
  <2>9. OkMeansTold'
    BY <1>1, <1>4, <2>2, <2>3, <2>5 DEF ToldInv, OkMeansTold
  <2> QED BY <2>7, <2>8, <2>9 DEF ToldInv
<1> QED BY <1>5, <1>6

LEMMA ToldInvStep ==
    ASSUME OneInstance, Faults = {}
    PROVE  DeliveryInv /\ ToldInv /\ [DeliveryNext]_allVars => ToldInv'
<1> SUFFICES ASSUME DeliveryInv, ToldInv, [DeliveryNext]_allVars PROVE ToldInv'
  OBVIOUS
<1>1. PICK i : Instances = {i}
  BY DEF OneInstance
<1>2. CASE Agent
  BY <1>2, AgentKeepsTold
<1>3. CASE \E r \in net : Receive(i, r) /\ UNCHANGED vars
  BY <1>1, <1>3, ReceiveKeepsTold
<1>4. CASE (Multicast(i) \/ Undo(i)) /\ UNCHANGED vars
  BY <1>1, <1>4, ServeKeepsTold
<1>5. CASE /\ \/ \E r \in net : Lose(r)
              \/ WindowSlides(i)
              \/ \E id \in EventIds : Purge(id)
           /\ UNCHANGED vars
  <2>1. /\ net' \subseteq net /\ records' \subseteq records
        /\ UNCHANGED <<pc, mem, accepted, outcome, serving, live, reply>>
    BY <1>5 DEF vars, Lose, WindowSlides, Purge
  <2>2. LiveRequests' \subseteq LiveRequests /\ LiveInstances' = LiveInstances
    BY <2>1 DEF LiveRequests, LiveInstances
  <2> QED BY <2>1, <2>2 DEF ToldInv, RecordsTold, OneAwaited, OkMeansTold, Told
<1>6. CASE UNCHANGED allVars
  BY <1>6 DEF allVars, ToldInv, RecordsTold, OneAwaited, OkMeansTold, Told,
              LiveRequests, LiveInstances
<1>7. ~Die(i)
  BY DEF Die
<1> QED BY <1>1, <1>2, <1>3, <1>4, <1>5, <1>6, <1>7
        DEF DeliveryNext, RelaySteps, RelayNext

\* With one instance, and no failure but an exception of the multicast, the outbox
\* lets an event go only once it was told or there was nobody to tell, through
\* crashes, timeouts, retries, late requests and purges (app.py:839-840).
THEOREM AcceptedCorrect ==
    ASSUME OneInstance, Faults = {}
    PROVE  DeliverySpec => []AcceptedMeansTold
<1>1. DeliveryInit => DeliveryInv /\ ToldInv
  BY DeliveryInvInit, ToldInvInit
<1>2. DeliveryInv /\ ToldInv /\ [DeliveryNext]_allVars => DeliveryInv' /\ ToldInv'
  BY DeliveryInvStep, ToldInvStep
<1>3. ToldInv => AcceptedMeansTold
  BY DEF ToldInv, OkMeansTold, Told, AcceptedMeansTold
<1> QED BY <1>1, <1>2, <1>3, PTL DEF DeliverySpec
=============================================================================
