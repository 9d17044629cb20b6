------------------------------ MODULE AmiSession ------------------------------
(***************************************************************************)
(* AsteriskAmiClient of src/pbxsense_agent/ami.py: one snapshot is one     *)
(* connection to the Asterisk Manager Interface, on which the Agent logs   *)
(* in, sends five actions one after the other and reads packets until the  *)
(* event that ends the action's answer.  Only the first action must be     *)
(* answered.  What arrives after an action has timed out is read with the  *)
(* next one, and what the packets mean is decided at the end, by name.     *)
(* What the PBX has to report does not change while one session lasts.     *)
(***************************************************************************)
EXTENDS Integers, Sequences, FiniteSets, Functions

CONSTANTS
    Pbxs,         \* the PBXs: what each answers to each action, a sequence of
                  \*   packets [event, about, says], or Unsupported
    Unsupported   \* the action is refused by an error response, no list ends

VARIABLES
    pbx,        \* the PBX of this session
    asked,      \* how many actions were sent; 0 is: no session
    coming,     \* packets on their way to the Agent
    broken,     \* the connection is closed behind these packets
    answer,       \* events of the action now read
    collected,  \* events of the finished actions
    late,       \* the actions that were given up, for the properties
    seen        \* the last snapshot, if the PBX was reached

sessionVars == <<pbx, asked, coming, broken, answer, collected, late, seen>>

AmiActions ==
    <<"CoreShowChannels", "PJSIPShowEndpoints", "PJSIPShowContacts", "QueueStatus", "SIPpeers">>

LastAction == Len(AmiActions)

\* A response has no Event field; the event that ends a list has its own name.
Response == [event |-> "", about |-> "", says |-> ""]
Ends(a) == [event |-> "Complete", about |-> a, says |-> ""]

\* The events with which the PBX answers each action.
EventsOf ==
    [CoreShowChannels |-> {"CoreShowChannel"},
     PJSIPShowEndpoints |-> {"EndpointList"},
     PJSIPShowContacts |-> {"ContactList"},
     QueueStatus |-> {"QueueParams", "QueueMember", "QueueEntry"},
     SIPpeers |-> {"PeerEntry"}]

Told(p, a) == IF p[a] = Unsupported THEN <<>> ELSE p[a]
Says(a) == Told(pbx, a)

Answer(a) ==
    <<Response>> \o (IF pbx[a] = Unsupported THEN <<>> ELSE pbx[a] \o <<Ends(a)>>)

\* Where the events of a name about x are, and what events of some names are about.
Places(events, name, x) ==
    {n \in DOMAIN events : events[n].event = name /\ events[n].about = x}
Subjects(events, names) ==
    {events[n].about : n \in {m \in DOMAIN events : events[m].event \in names}}

FirstOf(places) == CHOOSE n \in places : \A m \in places : n <= m
LastOf(places) == CHOOSE n \in places : \A m \in places : m <= n

\* _contact_device_state: a phone with any reachable contact is reachable.
\* Contacts say "up", "down" or something neither test knows.
ContactState(events, x) ==
    LET contacts == Places(events, "ContactList", x)
        says == {events[n].says : n \in contacts} IN
    IF contacts = {} THEN ""
    ELSE IF "up" \in says THEN "up"
    ELSE IF "down" \in says THEN "down"
    ELSE events[FirstOf(contacts)].says

PhoneState(events, p) ==
    LET state == ContactState(events, p.about) IN
    IF p.event = "PeerEntry" \/ state = "" THEN p.says ELSE state

Phones(events) ==
    {<<p.about, PhoneState(events, p)>> :
        p \in {q \in Range(events) : q.event \in {"EndpointList", "PeerEntry"}}}

\* QueueParams says how many callers wait; listed callers are counted instead.
Callers(events, q) ==
    LET entries == Places(events, "QueueEntry", q)
        params == Places(events, "QueueParams", q) IN
    IF entries # {} THEN Cardinality(entries)
    ELSE IF params # {} THEN events[LastOf(params)].says
    ELSE 0

Queues(events) ==
    {<<q, Callers(events, q)>> : q \in Subjects(events, EventsOf["QueueStatus"])}

\* Each action is answered with events of its own, QueueParams says no more callers
\* than are to be reported, and a phone is an endpoint of PJSIP or a peer of chan_sip.
ASSUME PbxAssumption ==
    \A p \in Pbxs :
        /\ \A a \in DOMAIN EventsOf :
              /\ Told(p, a) \in Seq(Range(Told(p, a)))
              /\ \A e \in Range(Told(p, a)) : e.event \in EventsOf[a]
        /\ \A e \in Range(Told(p, "QueueStatus")) :
              e.event = "QueueParams" =>
                  /\ e.says \in Nat
                  /\ e.says <= Callers(Told(p, "QueueStatus"), e.about)
        /\ \A e \in Range(Told(p, "PJSIPShowContacts")) :
              \A f \in Range(Told(p, "SIPpeers")) : e.about # f.about

Unreachable == [reachable |-> FALSE, calls |-> {}, phones |-> {}, queues |-> {}]

Interpreted(events) ==
    [reachable |-> TRUE,
     calls |-> Subjects(events, {"CoreShowChannel"}),
     phones |-> Phones(events),
     queues |-> Queues(events)]

SessionInit ==
    /\ pbx \in Pbxs
    /\ asked = 0
    /\ coming = <<>>
    /\ broken = FALSE
    /\ answer = <<>>
    /\ collected = <<>>
    /\ late = {}
    /\ seen = Unreachable

\* The socket is closed and the snapshot returned.
Return(snapshot) ==
    /\ seen' = snapshot
    /\ asked' = 0
    /\ coming' = <<>>
    /\ broken' = FALSE
    /\ answer' = <<>>
    /\ collected' = <<>>
    /\ UNCHANGED pbx

\* Connect, banner, login.
LogIn ==
    /\ asked = 0
    /\ asked' = 1
    /\ coming' = Answer(AmiActions[1])
    /\ late' = {}
    /\ UNCHANGED <<pbx, broken, answer, collected, seen>>

LogInFails ==
    /\ asked = 0
    /\ Return(Unreachable)
    /\ late' = {}

\* The next action is sent, or after the last one Logoff, which a connection that
\* is closed may refuse.
Proceed(events, rest) ==
    \/ /\ asked < LastAction
       /\ asked' = asked + 1
       /\ coming' = IF broken THEN rest ELSE rest \o Answer(AmiActions[asked + 1])
       /\ collected' = collected \o events
       /\ answer' = <<>>
       /\ UNCHANGED <<pbx, broken, seen>>
    \/ /\ asked = LastAction
       /\ Return(Interpreted(collected \o events))
    \/ /\ asked = LastAction
       /\ broken
       /\ Return(Unreachable)

ReadEnd ==
    /\ asked > 0
    /\ coming # <<>>
    /\ Head(coming) = Ends(AmiActions[asked])
    /\ Proceed(answer, Tail(coming))
    /\ UNCHANGED late

\* Any other packet: an event is kept, also one that belongs to an earlier action.
ReadPacket ==
    /\ asked > 0
    /\ coming # <<>>
    /\ Head(coming) # Ends(AmiActions[asked])
    /\ answer' = IF Head(coming).event = "" THEN answer ELSE Append(answer, Head(coming))
    /\ coming' = Tail(coming)
    /\ UNCHANGED <<pbx, asked, broken, collected, late, seen>>

\* Variant with a fault: the list of calls is optional too.
EachMayFail == asked > 0

MayFail == asked > 1

\* A read times out, or fails because the connection is closed: what this action
\* brought so far is dropped, and a packet of which some bytes were read is lost.
GiveUp ==
    /\ asked > 0
    /\ \E rest \in {coming, SubSeq(coming, 2, Len(coming))} :
         IF MayFail THEN Proceed(<<>>, rest) ELSE Return(Unreachable)
    /\ late' = late \cup {AmiActions[asked]}

\* The connection closes; packets on their way arrive or are lost.
Closes ==
    /\ asked > 0
    /\ ~broken
    /\ broken' = TRUE
    /\ \E n \in 0..Len(coming) : coming' = SubSeq(coming, 1, n)
    /\ UNCHANGED <<pbx, asked, answer, collected, late, seen>>

SessionNext ==
    \/ LogIn
    \/ LogInFails
    \/ ReadEnd
    \/ ReadPacket
    \/ GiveUp
    \/ Closes

SessionSpec == SessionInit /\ [][SessionNext]_sessionVars

----------------------------------------------------------------------------

Everything == Says("CoreShowChannels") \o Says("PJSIPShowEndpoints")
                \o Says("PJSIPShowContacts") \o Says("QueueStatus") \o Says("SIPpeers")

SessionTypeOK ==
    /\ pbx \in Pbxs
    /\ asked \in 0..LastAction
    /\ Range(answer) \cup Range(collected) \subseteq
           Range(Everything) \cup {Ends(a) : a \in DOMAIN EventsOf}
    /\ broken \in BOOLEAN
    /\ late \subseteq DOMAIN EventsOf
    /\ seen = Unreachable \/ DOMAIN seen = DOMAIN Unreachable

\* A snapshot that says the PBX was reached may be taken for the whole of the calls,
\* and every list whose actions were answered in time is the PBX's own - whatever
\* arrived late, was cut in two or was lost with the connection.  A phone with a
\* contact up is reported down only when the contacts were not told in time, and
\* nothing is reported that the PBX does not have.
SnapshotTold ==
    asked = 0 /\ seen.reachable =>
        LET told == Interpreted(Everything) IN
        /\ seen.calls = told.calls
        /\ {"PJSIPShowEndpoints", "SIPpeers", "PJSIPShowContacts"} \cap late = {}
               => seen.phones = told.phones
        /\ "PJSIPShowEndpoints" \notin late
               => \A p \in Subjects(Says("PJSIPShowEndpoints"), {"EndpointList"}) :
                      \E s \in seen.phones : s[1] = p
        /\ "PJSIPShowContacts" \notin late
               => \A p \in Range(Says("PJSIPShowContacts")) :
                      p.says = "up" => <<p.about, "down">> \notin seen.phones
        /\ "QueueStatus" \notin late => seen.queues = told.queues
        /\ {s[1] : s \in seen.phones} \subseteq {s[1] : s \in told.phones}
        /\ \A s \in seen.queues :
               \E t \in told.queues : s[1] = t[1] /\ s[2] <= t[2]

==============================================================================
