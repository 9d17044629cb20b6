----------------------------- MODULE EventDelivery -----------------------------
(***************************************************************************)
(* The Agent's outbox (AgentOutbox) delivering its events to the relay's   *)
(* event endpoint (EventRelay) over a network that loses, delays and       *)
(* repeats requests.  Registrations of apps take another endpoint and are  *)
(* not part of this composition.                                           *)
(***************************************************************************)
EXTENDS AgentOutbox, EventRelay

\* The id of every event the signals can give rise to.
Ids == Signals \X (0..MaxChanges)

ASSUME DeliveryAssumption == EventIds = Ids /\ Tokens = {}

allVars == <<signals, mem, disk, pc, todo, accepted, rejected, changes, crashes,
             net, reply, records, step, serving, live, windows, pushes, outcome,
             purges>>

DeliveryInit == Init /\ RelayInit

\* Steps of the Agent that do not touch the network.
AgentAlone ==
    /\ World \/ AdoptClaim \/ Observe \/ FlushDone
    /\ UNCHANGED relayVars

AgentSends == Send /\ Request(EventId(Head(mem.outbox)))

AgentAccepted == Accepted /\ TakeReply("ok")

AgentRejected == Rejected /\ TakeReply("refused")

\* A retryable answer, or none within the timeout.
AgentPostpones == Postponed /\ Abandon

AgentCrashes == Crash /\ Abandon

Agent ==
    AgentAlone \/ AgentSends \/ AgentAccepted \/ AgentRejected
        \/ AgentPostpones \/ AgentCrashes

RelaySteps == RelayNext /\ UNCHANGED vars

DeliveryNext == Agent \/ RelaySteps

DeliverySpec == DeliveryInit /\ [][DeliveryNext]_allVars

(* The loops of the Agent run, an instance that holds a request goes on    *)
(* with it, a request that is sent again and again is received and goes    *)
(* past its failures, an hour also passes while a request is on its way,   *)
(* and an answer given again and again arrives in time.                    *)
DeliveryFairness ==
    /\ WF_allVars(AdoptClaim /\ disk'.enrolled /\ UNCHANGED relayVars)
    /\ SF_allVars(ObserveBegin /\ UNCHANGED relayVars)
    /\ SF_allVars((\E e \in todo : QueueSignal(e)) /\ pc' = "observe"
                      /\ UNCHANGED relayVars)
    /\ SF_allVars(ObserveEnd /\ pc' = "flush" /\ UNCHANGED relayVars)
    /\ WF_allVars(FlushDone /\ UNCHANGED relayVars)
    /\ WF_allVars(AgentSends)
    /\ WF_allVars(AgentPostpones)
    /\ SF_allVars((AgentAccepted \/ AgentRejected) /\ pc' = "flush")
    /\ \A i \in Instances :
          /\ SF_allVars((\E r \in net : DuplicateOrFail(i, r) /\ r.live
                            /\ reply' = "ok") /\ UNCHANGED vars)
          /\ SF_allVars((\E r \in net : CreateRecord(i, r) /\ r.live)
                            /\ UNCHANGED vars)
          /\ SF_allVars((Push(i) \/ NobodyToTell(i)) /\ UNCHANGED vars)
          /\ WF_allVars(Undo(i) /\ UNCHANGED vars)
          /\ SF_allVars(WindowSlides(i) /\ (\E r \in net : r.live)
                            /\ UNCHANGED vars)

FairDeliverySpec == DeliverySpec /\ DeliveryFairness

-----------------------------------------------------------------------------
(* Properties                                                              *)

DeliveryTypeOK == TypeOK /\ RelayTypeOK

\* However many instances serve the retries of one event, and whoever crashes,
\* at most one multicast of it reaches devices during the life of its document
\* (app.py publish_event, event_ref.create).
AtMostOnePush == \A id \in Ids : pushes[id] <= 1

\* An event that left the outbox as accepted was sent to the devices that want
\* it, or there were none, or an instance is still at it.  The comment at
\* app.py:839-840 promises that the idempotency record never turns an FCM outage
\* into a dropped event.
AcceptedMeansTold ==
    \A e \in accepted :
        \/ outcome[EventId(e)] \in {"reached", "nobody"}
        \/ \E i \in Instances : serving[i] = EventId(e)

\* While an event is being served its document exists, so that no other
\* instance starts to serve the same event (app.py publish_event).
OneServer ==
    \A i, j \in Instances :
        serving[i] # NoId =>
            /\ serving[i] \in records
            /\ serving[i] = serving[j] => i = j

\* Every event the state file holds is told to the devices in the end, or
\* refused: through timeouts, rate limits, lost answers and FCM outages.
QueuedIsTold ==
    \A id \in Ids :
        (\E e \in Range(disk.outbox) : EventId(e) = id)
            ~> \/ outcome[id] \in {"reached", "nobody"}
               \/ \E e \in rejected : EventId(e) = id

-----------------------------------------------------------------------------
(* The promise                                                             *)

RaisedIds ==
    {id \in Ids :
        LET n == signals[id[1]].occurrence IN
        IF id[1] \in EpisodeSignals THEN id[2] \in 1..n ELSE id[2] = 0 /\ n > 0}

Promise == INSTANCE PushPromise WITH raised <- RaisedIds, told <- pushes

\* The outbox, the network and the relay together implement PushPromise as long
\* as event documents are kept: whatever is lost, repeated, crashed or refused,
\* no push is made up and none is sent twice (relay.py, app.py publish_event).
PromiseKept == Promise!PromiseSpec
=============================================================================
