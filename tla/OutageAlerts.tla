----------------------------- MODULE OutageAlerts -----------------------------
(***************************************************************************)
(* The tracker of endpoint outages (EndpointTracker) feeding the Agent's   *)
(* relay outbox (AgentOutbox): _refresh_home_state_locked and              *)
(* _home_payload_from_state of src/pbxsense_agent/main.py, which put the   *)
(* shown endpoints into the signals of the home payload that the publish   *)
(* loop hands to observe.  Restarting the Agent empties the tracker; the   *)
(* outbox comes back from the state file.                                  *)
(***************************************************************************)
EXTENDS AgentOutbox, EndpointTracker

ASSUME OutageAssumption ==
    Signals = Endpoints /\ EpisodeSignals = Endpoints /\ Tokens = {}

VARIABLE
    named \* history: which outage each occurrence was shown for, and in which
          \* life of the Agent process

alertVars == <<vars, trackerVars, named>>

Occurrences == [signal : Endpoints, occurrence : Nat, since : Nat, life : Nat]

AlertTypeOK == TypeOK /\ TrackerTypeOK /\ named \subseteq Occurrences

AlertInit == Init /\ TrackerInit /\ named = {}

\* The endpoint_unavailable signals of the home payload.
HomeSignals ==
    [e \in Endpoints |->
        [signals[e] EXCEPT
            !.status = IF e \in visible' THEN "active" ELSE "clear",
            !.occurrence =
                IF e \in visible' THEN states'[e].notification_id ELSE @]]

\* One refresh of the home state by the snapshot loop.
Refresh ==
    /\ TrackerNext
    /\ signals' = HomeSignals
    /\ named' = named \cup
          {[signal |-> e, occurrence |-> states'[e].notification_id,
            since |-> downSince'[e], life |-> crashes] : e \in visible'}
    /\ UNCHANGED <<agentVars, changes, crashes>>

\* The process dies and starts again: the tracker knows nothing.
Restart ==
    /\ Crash
    /\ states' = [e \in Endpoints |-> Fresh]
    /\ visible' = {}
    /\ reachable' = FALSE
    /\ UNCHANGED <<now, trackerHistory, named>>

OutboxSteps ==
    /\ \/ AdoptClaim \/ Observe \/ FlushDone \/ Send
       \/ Accepted \/ Rejected \/ Postponed
    /\ UNCHANGED <<trackerVars, named>>

AlertNext == Refresh \/ Restart \/ OutboxSteps

AlertSpec == AlertInit /\ [][AlertNext]_alertVars

-----------------------------------------------------------------------------
(* Properties                                                              *)

\* Every event that was queued or answered.
AllEvents == Range(mem.outbox) \cup Range(disk.outbox) \cup Answered

\* Every event names an outage the endpoint really had, and an id is never
\* used for two outages, so the relay's dedupe by id cannot swallow an outage;
\* neither a failed snapshot nor a restart changes that (pulse.py observe,
\* relay.py observe).
EventsNameOutages ==
    /\ \A o, p \in named :
          (o.signal = p.signal /\ o.occurrence = p.occurrence) => o.since = p.since
    /\ \A e \in AllEvents : \E o \in named :
          /\ o.signal = e.signal
          /\ o.occurrence = e.occurrence
          /\ o.since + OutageConfirmation <= now

Pushed(o) ==
    \E e \in AllEvents : e.signal = o.signal /\ e.occurrence = o.occurrence

SameOutage(o, p) == o.signal = p.signal /\ o.since = p.since

\* While the Agent runs, an outage is pushed under one id only, however often
\* its signal is hidden by failed snapshots and shown again (pulse.py observe,
\* relay.py observe).
OneEventPerLife ==
    \A o, p \in named :
        (SameOutage(o, p) /\ o.life = p.life /\ Pushed(o) /\ Pushed(p))
            => o.occurrence = p.occurrence
=============================================================================
