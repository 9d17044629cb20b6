------------------------------- MODULE Presence -------------------------------
(***************************************************************************)
(* The presence of one Agent: the heartbeats of AgentRelay (relay.py) and  *)
(* their loop (main.py), the relay's heartbeat endpoint, the sweep the     *)
(* scheduler starts every minute, and the notices both send to the paired  *)
(* devices (push_relay/app.py).                                            *)
(*                                                                         *)
(* Handlers block on Firestore and FCM once their body is read, so an      *)
(* instance runs one handler at a time; several instances run beside one   *)
(* another.  A step of a handler is one call to a shared service.  Time    *)
(* passes in Tick, in units of five seconds in the configurations, and is  *)
(* kept as ages: how long ago the Agent document was touched, and how long *)
(* the heartbeat loop has slept or waited.                                 *)
(***************************************************************************)
EXTENDS Naturals

CONSTANTS
    Instances,      \* running instances of the relay service
    Interval,       \* PRESENCE_HEARTBEAT_INTERVAL_SECONDS
    Longest,        \* the longest a heartbeat takes: the lock and the answer
    LossAfter,      \* AGENT_LOSS_TIMEOUT_SECONDS
    FailsAfterPush  \* may a handler fail between its notice and its update?

\* Two heartbeats in a row may fail before the Agent counts as lost.
ASSUME PresenceAssumption ==
    /\ Interval \in Nat /\ Longest \in Nat /\ LossAfter \in Nat
    /\ LossAfter >= 2 * Interval + 3 * Longest
    /\ FailsAfterPush \in BOOLEAN

VARIABLES
    up,       \* the Agent process runs
    beat,     \* its heartbeat loop: where it is, and for how long
    age,      \* how long ago lastSeenAt was written, up to LossAfter + 1
    lostAt,   \* lostAt of the Agent document is set
    handler,  \* what each instance serves
    heard,    \* history: a heartbeat was answered since the Agent started
    missed,   \* history: heartbeats in a row with no success, up to two
    told      \* history: the last notice to the devices

vars == <<up, beat, age, lostAt, handler, heard, missed, told>>

(* "arrived": the Agent document is not read yet; "notice": the devices are *)
(* to be told; "update": the document is to be written; "reply": the answer *)
(* is on its way.  A handler is live while the Agent waits for its answer.  *)
Handlers ==
    [op     : {"none", "heartbeat", "sweep"},
     step   : {"free", "arrived", "notice", "update", "reply"},
     live   : BOOLEAN,
     pushed : BOOLEAN]

Free == [op |-> "none", step |-> "free", live |-> FALSE, pushed |-> FALSE]

TypeOK ==
    /\ up \in BOOLEAN
    /\ beat \in [at : {"sleeping", "sending", "sent"}, for : Nat]
    /\ age \in 0..(LossAfter + 1)
    /\ lostAt \in BOOLEAN
    /\ handler \in [Instances -> Handlers]
    /\ heard \in BOOLEAN
    /\ missed \in 0..2
    /\ told \in {"nothing", "lost", "reachable"}

\* The activation was claimed just now and the loop begins its first round.
Init ==
    /\ up = TRUE
    /\ beat = [at |-> "sleeping", for |-> Interval]
    /\ age = 0
    /\ lostAt = FALSE
    /\ handler = [i \in Instances |-> Free]
    /\ heard = FALSE
    /\ missed = 0
    /\ told = "nothing"

-----------------------------------------------------------------------------
(* Time and the Agent                                                      *)

Overdue == beat.for >= (IF beat.at = "sleeping" THEN Interval ELSE Longest)

\* Time passes; the loop wakes up, and gives up, when it is due.
Tick ==
    /\ up => ~Overdue
    /\ beat' = IF up THEN [beat EXCEPT !.for = @ + 1] ELSE beat
    /\ age' = IF age > LossAfter THEN age ELSE age + 1
    /\ UNCHANGED <<up, lostAt, handler, heard, missed, told>>

\* Nobody waits any more for what the handlers answer.
Abandoned == [i \in Instances |-> [handler[i] EXCEPT !.live = FALSE]]

\* AgentRelay.heartbeat: the interval has passed; wait for the lock and send.
Send ==
    /\ up
    /\ beat.at = "sleeping"
    /\ beat.for >= Interval
    /\ beat' = [at |-> "sending", for |-> 0]
    /\ UNCHANGED <<up, age, lostAt, handler, heard, missed, told>>

\* No connection, no answer in time or an error status: the OSError is
\* dropped and the loop sleeps again.
GiveUp ==
    /\ up
    /\ beat.at # "sleeping"
    /\ beat' = [at |-> "sleeping", for |-> 0]
    /\ handler' = Abandoned
    /\ missed' = IF missed = 2 THEN 2 ELSE missed + 1
    /\ UNCHANGED <<up, age, lostAt, heard, told>>

Stop ==
    /\ up
    /\ up' = FALSE
    /\ beat' = [at |-> "sleeping", for |-> 0]
    /\ handler' = Abandoned
    /\ heard' = FALSE
    /\ missed' = 0
    /\ UNCHANGED <<age, lostAt, told>>

\* The first heartbeat goes out at once, or a round later on a host whose
\* monotonic clock began less than an interval ago.
Start ==
    /\ ~up
    /\ up' = TRUE
    /\ \E slept \in {0, Interval} : beat' = [at |-> "sleeping", for |-> slept]
    /\ UNCHANGED <<age, lostAt, handler, heard, missed, told>>

\* Variant with a fault: a registration removes lostAt as well.
RegisterSeen ==
    /\ up
    /\ age' = 0
    /\ lostAt' = FALSE
    /\ UNCHANGED <<up, beat, handler, heard, missed, told>>

\* A registration the Agent forwards writes lastSeenAt too, and only that.
Register ==
    /\ up
    /\ age' = 0
    /\ UNCHANGED <<up, beat, lostAt, handler, heard, missed, told>>

-----------------------------------------------------------------------------
(* The handlers                                                            *)

Goes(i, h) == handler' = [handler EXCEPT ![i] = h]

\* A free instance takes the heartbeat; the Agent sends each one once.
Arrive(i) ==
    /\ up
    /\ beat.at = "sending"
    /\ handler[i] = Free
    /\ beat' = [beat EXCEPT !.at = "sent"]
    /\ Goes(i, [op |-> "heartbeat", step |-> "arrived",
                live |-> TRUE, pushed |-> FALSE])
    /\ UNCHANGED <<up, age, lostAt, heard, missed, told>>

\* Variant with a fault: every heartbeat is taken for a recovery.
AuthenticateAny(i) ==
    /\ handler[i].step = "arrived"
    /\ Goes(i, [handler[i] EXCEPT !.step = "notice"])
    /\ UNCHANGED <<up, beat, age, lostAt, heard, missed, told>>

\* Read the Agent document: was_lost.
Authenticate(i) ==
    /\ handler[i].step = "arrived"
    /\ Goes(i, [handler[i] EXCEPT !.step = IF lostAt THEN "notice" ELSE "update"])
    /\ UNCHANGED <<up, beat, age, lostAt, heard, missed, told>>

\* Variant with a fault: an Agent that is marked lost is found again.
FindAgain(i) ==
    /\ handler[i] = Free
    /\ age > LossAfter
    /\ Goes(i, [Free EXCEPT !.op = "sweep", !.step = "notice"])
    /\ UNCHANGED <<up, beat, age, lostAt, heard, missed, told>>

\* The sweep reads a document that is too old and not marked lost.
Find(i) ==
    /\ handler[i] = Free
    /\ age > LossAfter
    /\ ~lostAt
    /\ Goes(i, [Free EXCEPT !.op = "sweep", !.step = "notice"])
    /\ UNCHANGED <<up, beat, age, lostAt, heard, missed, told>>

\* _send_agent_status.
Notify(i) ==
    /\ handler[i].step = "notice"
    /\ told' = IF handler[i].op = "sweep" THEN "lost" ELSE "reachable"
    /\ Goes(i, [handler[i] EXCEPT !.step = "update", !.pushed = TRUE])
    /\ UNCHANGED <<up, beat, age, lostAt, heard, missed>>

\* Variant with a fault: the heartbeat writes lastSeenAt for a recovery only.
SeenIfLost(i) ==
    /\ handler[i].op = "heartbeat"
    /\ handler[i].step = "update"
    /\ age' = IF lostAt THEN 0 ELSE age
    /\ lostAt' = FALSE
    /\ Goes(i, [handler[i] EXCEPT !.step = "reply"])
    /\ UNCHANGED <<up, beat, heard, missed, told>>

\* Variant with a fault: the heartbeat leaves lostAt as it is.
SeenOnly(i) ==
    /\ handler[i].op = "heartbeat"
    /\ handler[i].step = "update"
    /\ age' = 0
    /\ Goes(i, [handler[i] EXCEPT !.step = "reply"])
    /\ UNCHANGED <<up, beat, lostAt, heard, missed, told>>

\* The heartbeat writes lastSeenAt and removes lostAt.
SeenAgain(i) ==
    /\ handler[i].op = "heartbeat"
    /\ handler[i].step = "update"
    /\ age' = 0
    /\ lostAt' = FALSE
    /\ Goes(i, [handler[i] EXCEPT !.step = "reply"])
    /\ UNCHANGED <<up, beat, heard, missed, told>>

\* The sweep writes lostAt.
Mark(i) ==
    /\ handler[i].op = "sweep"
    /\ handler[i].step = "update"
    /\ lostAt' = TRUE
    /\ Goes(i, Free)
    /\ UNCHANGED <<up, beat, age, heard, missed, told>>

\* The answer reaches the Agent if it still waits; it notes the time.
Reply(i) ==
    /\ handler[i].step = "reply"
    /\ Goes(i, Free)
    /\ IF handler[i].live
       THEN /\ beat' = [at |-> "sleeping", for |-> 0]
            /\ heard' = TRUE
            /\ missed' = 0
       ELSE UNCHANGED <<beat, heard, missed>>
    /\ UNCHANGED <<up, age, lostAt, told>>

\* The request is refused, Firestore or FCM fails, the answer is lost or the
\* instance is killed: the handler ends where it is.
Fail(i) ==
    /\ handler[i] # Free
    /\ (handler[i].pushed /\ handler[i].step = "update") => FailsAfterPush
    /\ Goes(i, Free)
    /\ UNCHANGED <<up, beat, age, lostAt, heard, missed, told>>

-----------------------------------------------------------------------------
Agent == Tick \/ Send \/ GiveUp \/ Stop \/ Start \/ Register

Relay(i) ==
    \/ Arrive(i) \/ Authenticate(i) \/ Find(i) \/ Notify(i)
    \/ SeenAgain(i) \/ Mark(i) \/ Reply(i) \/ Fail(i)

Next == Agent \/ (\E i \in Instances : Relay(i))

Spec == Init /\ [][Next]_vars

(* Time passes and the loop goes its rounds; the scheduler sweeps again and *)
(* again; a call that is tried again and again succeeds in the end.         *)
Fairness ==
    /\ WF_vars(Tick)
    /\ WF_vars(Send)
    /\ WF_vars(GiveUp /\ Overdue)
    /\ SF_vars(\E i \in Instances : Arrive(i))
    /\ SF_vars(\E i \in Instances : Find(i))
    /\ \A i \in Instances :
          /\ SF_vars(Authenticate(i))
          /\ SF_vars(Notify(i))
          /\ SF_vars(SeenAgain(i))
          /\ SF_vars(Mark(i))
          /\ WF_vars(Reply(i))

FairSpec == Spec /\ Fairness

-----------------------------------------------------------------------------
(* Properties                                                              *)

\* An Agent whose heartbeats get through is never taken for lost: the sweep
\* finds a running Agent only after two of its heartbeats in a row failed
\* (app.py AGENT_LOSS_TIMEOUT_SECONDS, relay.py heartbeat).
LostOnlyAfterMisses == (up /\ heard /\ age > LossAfter) => missed = 2

\* No device hears of a recovery before it heard of a loss (app.py heartbeat).
RecoveryAfterLoss == [][told = "nothing" => told' # "reachable"]_vars

\* The notices go in turn: a loss is not told twice with no recovery between,
\* nor a recovery with no loss (app.py heartbeat, sweep_agent_heartbeats).
NoticesInTurn ==
    [][\A i \in Instances :
          (~handler[i].pushed /\ handler'[i].pushed) => told' # told]_vars

\* An Agent that stays away is told to be lost (push_relay/README.md:161-165).
LossTold == ~up ~> (up \/ told = "lost")

\* Devices that were told of a loss are told when the Agent is back:
\* "then sends a recovery notification on the next heartbeat"
\* (push_relay/README.md:163-164).
RecoveryTold == (up /\ told = "lost") ~> (~up \/ told = "reachable")
=============================================================================
