------------------------------- MODULE LiveFeed -------------------------------
(***************************************************************************)
(* The live websocket of src/pbxsense_agent/main.py: a snapshot of the     *)
(* home payload first, and after that, whenever a later payload differs    *)
(* from the one before, the events home_live_events of live.py makes of    *)
(* the two.  The app folds the events into what it shows; it is not part   *)
(* of the repository.  A connection may break, and a new one starts over.  *)
(*                                                                         *)
(* "listed" stands for the signals, which have events for new, changed and *)
(* removed items; "roster" for people, trunks and queues, which have none  *)
(* for removed ones; "whole" for connection, now and calls, which are sent *)
(* whole; "rest" for mood, greeting and internetRelay, without events.     *)
(***************************************************************************)
EXTENDS Sequences, SequencesExt

CONSTANTS
    Payloads,  \* home payloads: [listed, roster, whole, rest]
    Items,     \* keys of items
    Contents,  \* what an item, or a part that is sent whole, may be
    MaxUnread, \* bound: messages the app has not read when more are sent
    Gone

ASSUME FeedAssumption ==
    /\ MaxUnread \in Nat
    /\ Gone \notin Contents
    /\ Payloads \subseteq [listed : [Items -> Contents \cup {Gone}],
                           roster : [Items -> Contents \cup {Gone}],
                           whole : Contents, rest : Contents]

VARIABLES
    payload,  \* what _home_payload returns now
    sent,     \* previous_payload of the connection, Gone without one
    unread,   \* messages on their way to the app
    shown     \* what the app shows

feedVars == <<payload, sent, unread, shown>>

Views == [listed : [Items -> Contents \cup {Gone}],
          roster : [Items -> Contents \cup {Gone}],
          whole : Contents, rest : Contents]

Messages ==
    [type : {"home_snapshot"}, data : Payloads]
        \cup [type : {"listed", "roster"}, key : Items, item : Contents]
        \cup [type : {"removed"}, key : Items]
        \cup [type : {"whole"}, data : Contents]

FeedTypeOK ==
    /\ payload \in Payloads
    /\ sent \in Payloads \cup {Gone}
    /\ unread \in Seq(Messages)
    /\ shown \in Views

FeedInit ==
    /\ payload \in Payloads
    /\ sent = Gone /\ unread = <<>> /\ shown \in Payloads

-----------------------------------------------------------------------------
(* live.py                                                                 *)

\* One message per item of a set, in any order.
Sends(messages) == SetToSeq(messages)

\* _collection_events: the items that are new or differ.
Puts(part, old, new) ==
    Sends({[type |-> part, key |-> k, item |-> new[k]] :
              k \in {i \in Items : new[i] # Gone /\ new[i] # old[i]}})

\* _removed_collection_events
Removals(old, new) ==
    Sends({[type |-> "removed", key |-> k] :
              k \in {i \in Items : new[i] = Gone /\ old[i] # Gone}})

\* Variant with a fault: signals are only added and changed.
KeptSignalEvents(old, new) ==
    (IF old.whole = new.whole THEN <<>> ELSE <<[type |-> "whole", data |-> new.whole]>>)
        \o Puts("listed", old.listed, new.listed)
        \o Puts("roster", old.roster, new.roster)

\* home_live_events
FeedEvents(old, new) ==
    (IF old.whole = new.whole THEN <<>> ELSE <<[type |-> "whole", data |-> new.whole]>>)
        \o Puts("listed", old.listed, new.listed)
        \o Removals(old.listed, new.listed)
        \o Puts("roster", old.roster, new.roster)

-----------------------------------------------------------------------------
(* main.py live                                                            *)

Snapshot(data) == [type |-> "home_snapshot", data |-> data]

Connect ==
    /\ sent = Gone
    /\ sent' = payload
    /\ unread' = <<Snapshot(payload)>>
    /\ UNCHANGED <<payload, shown>>

RememberedPayload(messages) == payload

Differs(old, new) == old # new

\* A second later: events, or the whole payload if what differs has none.
SendChanges ==
    LET messages == IF FeedEvents(sent, payload) # <<>> THEN FeedEvents(sent, payload)
                    ELSE <<Snapshot(payload)>>
    IN  /\ sent # Gone /\ Differs(sent, payload)
        /\ Len(unread) <= MaxUnread
        /\ unread' = unread \o messages
        /\ sent' = RememberedPayload(messages)
        /\ UNCHANGED <<payload, shown>>

Disconnect ==
    /\ sent # Gone
    /\ sent' = Gone /\ unread' = <<>>
    /\ UNCHANGED <<payload, shown>>

-----------------------------------------------------------------------------
(* The app, and the home state                                             *)

Folded(view, message) ==
    CASE message.type = "home_snapshot" -> message.data
      [] message.type = "listed" -> [view EXCEPT !.listed[message.key] = message.item]
      [] message.type = "roster" -> [view EXCEPT !.roster[message.key] = message.item]
      [] message.type = "removed" -> [view EXCEPT !.listed[message.key] = Gone]
      [] message.type = "whole" -> [view EXCEPT !.whole = message.data]

Read ==
    /\ unread # <<>>
    /\ shown' = Folded(shown, Head(unread))
    /\ unread' = Tail(unread)
    /\ UNCHANGED <<payload, sent>>

PayloadChanges ==
    /\ payload' \in Payloads \ {payload}
    /\ UNCHANGED <<sent, unread, shown>>

FeedNext == Connect \/ SendChanges \/ Disconnect \/ Read \/ PayloadChanges

\* The loop of the socket runs, the app reads, and it connects again.
FeedFairness == WF_feedVars(Connect) /\ WF_feedVars(SendChanges) /\ WF_feedVars(Read)

FeedSpec == FeedInit /\ [][FeedNext]_feedVars /\ FeedFairness

-----------------------------------------------------------------------------
(* Properties                                                              *)

\* When the payload stays as it is and the connection holds, the app shows that
\* payload's signals and calls in the end (main.py live).
FeedCatchesUp ==
    <>[][FALSE]_payload /\ <>[](sent # Gone)
        => <>[](shown.listed = payload.listed /\ shown.whole = payload.whole)
=============================================================================
