--------------------------- MODULE Presence_proofs ---------------------------
(***************************************************************************)
(* Proofs about Presence, for any number of instances and any cadence that *)
(* satisfies PresenceAssumption.                                           *)
(***************************************************************************)
EXTENDS Presence, TLAPS

-----------------------------------------------------------------------------
(* Types                                                                   *)

\* What the relay does with a handler is a handler again.
LEMMA HandlerForms ==
    /\ Free \in Handlers
    /\ [op |-> "heartbeat", step |-> "arrived",
        live |-> TRUE, pushed |-> FALSE] \in Handlers
    /\ \A h \in Handlers :
          /\ [h EXCEPT !.live = FALSE] \in Handlers
          /\ \A s \in {"notice", "update", "reply"} :
                /\ [h EXCEPT !.step = s] \in Handlers
                /\ [h EXCEPT !.step = s, !.pushed = TRUE] \in Handlers
    /\ [Free EXCEPT !.op = "sweep", !.step = "notice"] \in Handlers
<1>1. FALSE \in BOOLEAN /\ TRUE \in BOOLEAN
  OBVIOUS
<1>2. Free \in Handlers
  BY <1>1, Zenon DEF Free, Handlers
<1>3. [Free EXCEPT !.op = "sweep", !.step = "notice"] \in Handlers
  BY <1>1, Zenon DEF Free, Handlers
<1>4. ASSUME NEW h \in Handlers, NEW s \in {"notice", "update", "reply"}
      PROVE  /\ [h EXCEPT !.live = FALSE] \in Handlers
             /\ [h EXCEPT !.step = s] \in Handlers
             /\ [h EXCEPT !.step = s, !.pushed = TRUE] \in Handlers
  BY <1>4 DEF Handlers
<1>5. [op |-> "heartbeat", step |-> "arrived",
       live |-> TRUE, pushed |-> FALSE] \in Handlers
  BY <1>1, Zenon DEF Handlers
<1> QED BY <1>2, <1>3, <1>4, <1>5

LEMMA HandlerStep ==
    ASSUME TypeOK, [Next]_vars
    PROVE  handler' \in [Instances -> Handlers]
<1> USE DEF TypeOK
<1>1. CASE Tick \/ Send \/ Start \/ Register \/ UNCHANGED vars
  BY <1>1 DEF Tick, Send, Start, Register, vars
<1>2. CASE GiveUp \/ Stop
  BY <1>2, HandlerForms DEF GiveUp, Stop, Abandoned
<1>3. ASSUME NEW i \in Instances, Relay(i)
      PROVE  handler' \in [Instances -> Handlers]
  <2> USE DEF Goes
  <2>1. handler[i] \in Handlers
    OBVIOUS
  <2>2. CASE Arrive(i)
    BY <2>2, HandlerForms DEF Arrive
  <2>3. CASE Authenticate(i)
    BY <2>1, <2>3, HandlerForms DEF Authenticate
  <2>4. CASE Find(i)
    BY <2>4, HandlerForms DEF Find
  <2>5. CASE Notify(i)
    BY <2>1, <2>5, HandlerForms DEF Notify
  <2>6. CASE SeenAgain(i)
    BY <2>1, <2>6, HandlerForms DEF SeenAgain
  <2>7. CASE Mark(i) \/ Reply(i) \/ Fail(i)
    BY <2>7, HandlerForms DEF Mark, Reply, Fail
  <2> QED BY <1>3, <2>2, <2>3, <2>4, <2>5, <2>6, <2>7 DEF Relay
<1> QED BY <1>1, <1>2, <1>3 DEF Next, Agent

LEMMA TypeStep ==
    ASSUME TypeOK, [Next]_vars
    PROVE  TypeOK'
<1> USE PresenceAssumption DEF TypeOK
<1>1. handler' \in [Instances -> Handlers]
  BY HandlerStep
<1>2. /\ beat' \in [at : {"sleeping", "sending", "sent"}, for : Nat]
      /\ age' \in 0..(LossAfter + 1)
      /\ missed' \in 0..2
      /\ told' \in {"nothing", "lost", "reachable"}
  <2>1. CASE Agent \/ UNCHANGED vars
    BY <2>1 DEF Agent, Tick, Send, GiveUp, Stop, Start, Register, vars
  <2>2. ASSUME NEW i \in Instances, Relay(i)
        PROVE  <1>2!:
    BY <2>2 DEF Relay, Arrive, Authenticate, Find, Notify, SeenAgain, Mark,
                Reply, Fail
  <2> QED BY <2>1, <2>2 DEF Next
<1>3. up' \in BOOLEAN /\ lostAt' \in BOOLEAN /\ heard' \in BOOLEAN
  <2>1. CASE Agent \/ UNCHANGED vars
    BY <2>1 DEF Agent, Tick, Send, GiveUp, Stop, Start, Register, vars
  <2>2. ASSUME NEW i \in Instances, Relay(i)
        PROVE  <1>3!:
    BY <2>2 DEF Relay, Arrive, Authenticate, Find, Notify, SeenAgain, Mark,
                Reply, Fail
  <2> QED BY <2>1, <2>2 DEF Next
<1> QED BY <1>1, <1>2, <1>3

LEMMA TypeInit == Init => TypeOK
<1> SUFFICES ASSUME Init PROVE TypeOK
  OBVIOUS
<1>1. handler \in [Instances -> Handlers]
  BY HandlerForms DEF Init
<1>2. beat \in [at : {"sleeping", "sending", "sent"}, for : Nat]
  BY PresenceAssumption DEF Init
<1>3. age \in 0..(LossAfter + 1) /\ missed \in 0..2
  BY PresenceAssumption DEF Init
<1>4. up \in BOOLEAN /\ lostAt \in BOOLEAN /\ heard \in BOOLEAN
  BY DEF Init
<1> QED BY <1>1, <1>2, <1>3, <1>4 DEF Init, TypeOK

\* The types hold in every state (relay.py heartbeat, app.py heartbeat and
\* sweep_agent_heartbeats).
THEOREM PresenceTypeCorrect == Spec => []TypeOK
  BY TypeInit, TypeStep, PTL DEF Spec

-----------------------------------------------------------------------------
(* The cadence: an Agent whose heartbeats get through is not lost          *)

Live(i) == handler[i].live

\* The Agent waits for one handler at most, and only after it has sent.
OneAnswer ==
    /\ \A i \in Instances : Live(i) => up /\ beat.at = "sent"
    /\ \A i, j \in Instances : Live(i) /\ Live(j) => i = j

\* A heartbeat that is answered has just been written.
AnswerIsFresh ==
    \A i \in Instances :
        Live(i) /\ handler[i].step = "reply" => age <= beat.for

\* The loop is never later than its deadline.
InTime ==
    /\ beat.for <= (IF beat.at = "sleeping" THEN Interval ELSE Longest)
    /\ heard => up

\* How long the present round has taken.
Round == (IF beat.at = "sleeping" THEN 0 ELSE Interval) + beat.for

\* The document is no older than the rounds since the last answer.
AgeBound ==
    /\ heard /\ missed = 0 => age <= Longest + Round
    /\ heard /\ missed = 1 => age <= 2 * Longest + Interval + Round

CadenceInv == TypeOK /\ OneAnswer /\ AnswerIsFresh /\ InTime /\ AgeBound

LEMMA CadenceInit == Init => CadenceInv
  BY TypeInit, PresenceAssumption
  DEF Init, CadenceInv, OneAnswer, AnswerIsFresh, InTime, AgeBound, Live, Free,
      Round

LEMMA CadenceStep == CadenceInv /\ [Next]_vars => CadenceInv'
<1> SUFFICES ASSUME CadenceInv, [Next]_vars PROVE CadenceInv'
  OBVIOUS
<1>1. TypeOK /\ TypeOK'
  BY TypeStep DEF CadenceInv
<1> USE PresenceAssumption
        DEF CadenceInv, OneAnswer, AnswerIsFresh, InTime, AgeBound, Round, Live
<1>2. CASE Tick
  BY <1>1, <1>2 DEF Tick, Overdue, TypeOK
<1>3. CASE Send
  BY <1>1, <1>3 DEF Send, TypeOK
<1>4. CASE GiveUp
  <2>1. \A i \in Instances : ~handler'[i].live
    BY <1>1, <1>4 DEF GiveUp, Abandoned, TypeOK, Handlers
  <2>2. AgeBound' /\ InTime'
    BY <1>1, <1>4 DEF GiveUp, TypeOK
  <2> QED BY <1>1, <2>1, <2>2
<1>5. CASE Stop
  <2>1. \A i \in Instances : ~handler'[i].live
    BY <1>1, <1>5 DEF Stop, Abandoned, TypeOK, Handlers
  <2>2. AgeBound' /\ InTime'
    BY <1>1, <1>5 DEF Stop, TypeOK
  <2> QED BY <1>1, <2>1, <2>2
<1>6. CASE Start
  BY <1>1, <1>6 DEF Start, TypeOK
<1>7. CASE Register
  BY <1>1, <1>7 DEF Register, TypeOK
<1>8. ASSUME NEW i \in Instances, Relay(i)
      PROVE  CadenceInv'
  <2>1. CASE Arrive(i)
    BY <1>1, <2>1 DEF Arrive, Goes, TypeOK, Free
  <2>2. CASE Authenticate(i)
    BY <1>1, <2>2 DEF Authenticate, Goes, TypeOK, Handlers
  <2>3. CASE Find(i)
    BY <1>1, <2>3 DEF Find, Goes, TypeOK, Free
  <2>4. CASE Notify(i)
    BY <1>1, <2>4 DEF Notify, Goes, TypeOK, Handlers
  <2>5. CASE SeenAgain(i)
    BY <1>1, <2>5 DEF SeenAgain, Goes, TypeOK, Handlers
  <2>6. CASE Mark(i)
    BY <1>1, <2>6 DEF Mark, Goes, TypeOK, Free
  <2>7. CASE Reply(i)
    <3>1. handler' = [handler EXCEPT ![i] = Free]
      BY <2>7 DEF Reply, Goes
    <3>2. CASE Live(i)
      <4>1. beat' = [at |-> "sleeping", for |-> 0] /\ missed' = 0 /\ heard'
        BY <2>7, <3>2 DEF Reply
      <4>2. \A j \in Instances : ~handler'[j].live
        BY <1>1, <3>1, <3>2 DEF TypeOK, Free
      <4>3. age <= Longest /\ age' = age /\ up' = up
        BY <1>1, <2>7, <3>2 DEF Reply, TypeOK
      <4> QED BY <1>1, <3>2, <4>1, <4>2, <4>3 DEF TypeOK
    <3>3. CASE ~Live(i)
      <4>1. UNCHANGED <<up, beat, age, heard, missed>>
        BY <2>7, <3>3 DEF Reply
      <4> QED BY <1>1, <3>1, <4>1 DEF TypeOK, Free
    <3> QED BY <3>2, <3>3
  <2>8. CASE Fail(i)
    BY <1>1, <2>8 DEF Fail, Goes, TypeOK, Free
  <2> QED BY <1>8, <2>1, <2>2, <2>3, <2>4, <2>5, <2>6, <2>7, <2>8 DEF Relay
<1>9. CASE UNCHANGED vars
  BY <1>1, <1>9 DEF vars
<1> QED BY <1>2, <1>3, <1>4, <1>5, <1>6, <1>7, <1>8, <1>9 DEF Next, Agent

\* A sweep finds a running Agent only after two heartbeats in a row failed
\* (app.py AGENT_LOSS_TIMEOUT_SECONDS, relay.py heartbeat).
THEOREM MissesCorrect == Spec => []LostOnlyAfterMisses
<1>1. CadenceInv => LostOnlyAfterMisses
  BY PresenceAssumption
  DEF CadenceInv, TypeOK, InTime, AgeBound, Round, LostOnlyAfterMisses
<1> QED BY CadenceInit, CadenceStep, <1>1, PTL DEF Spec

-----------------------------------------------------------------------------
(* The notices                                                             *)

\* What is told of a recovery, and what is marked lost, was told of a loss.
LossKnown ==
    /\ lostAt => told # "nothing"
    /\ \A i \in Instances :
          /\ (handler[i].op = "heartbeat" /\ handler[i].step = "notice")
                => told # "nothing"
          /\ (handler[i].op = "sweep" /\ handler[i].step = "update")
                => told # "nothing"
          /\ handler[i].step = "notice" => handler[i].op \in {"heartbeat", "sweep"}
          /\ handler[i].step = "arrived" => handler[i].op = "heartbeat"

LEMMA LossKnownStep ==
    ASSUME TypeOK, LossKnown, [Next]_vars
    PROVE  LossKnown' /\ (told = "nothing" => told' # "reachable")
<1> USE DEF TypeOK, LossKnown, Handlers, Free
<1>1. CASE Tick \/ Send \/ Start \/ Register \/ UNCHANGED vars
  BY <1>1 DEF Tick, Send, Start, Register, vars
<1>2. CASE GiveUp \/ Stop
  <2>1. \A i \in Instances : /\ handler'[i].op = handler[i].op
                             /\ handler'[i].step = handler[i].step
    BY <1>2 DEF GiveUp, Stop, Abandoned
  <2>2. lostAt' = lostAt /\ told' = told
    BY <1>2 DEF GiveUp, Stop
  <2> QED BY <2>1, <2>2
<1>3. ASSUME NEW i \in Instances, Relay(i)
      PROVE  LossKnown' /\ (told = "nothing" => told' # "reachable")
  <2> USE DEF Goes
  <2>1. CASE Arrive(i)
    BY <2>1 DEF Arrive
  <2>2. CASE Authenticate(i)
    BY <2>2 DEF Authenticate
  <2>3. CASE Find(i)
    BY <2>3 DEF Find
  <2>4. CASE Notify(i)
    BY <2>4 DEF Notify
  <2>5. CASE SeenAgain(i)
    BY <2>5 DEF SeenAgain
  <2>6. CASE Mark(i) \/ Reply(i) \/ Fail(i)
    BY <2>6 DEF Mark, Reply, Fail
  <2> QED BY <1>3, <2>1, <2>2, <2>3, <2>4, <2>5, <2>6 DEF Relay
<1> QED BY <1>1, <1>2, <1>3 DEF Next, Agent

\* No device hears of a recovery before it heard of a loss, with any number of
\* instances and any failures (app.py heartbeat).
THEOREM RecoveryCorrect == Spec => RecoveryAfterLoss
<1>1. Init => TypeOK /\ LossKnown
  BY TypeInit DEF Init, LossKnown, Free
<1>2. TypeOK /\ LossKnown /\ [Next]_vars => (TypeOK /\ LossKnown)'
  BY TypeStep, LossKnownStep
<1>3. TypeOK /\ LossKnown /\ [Next]_vars =>
        [told = "nothing" => told' # "reachable"]_vars
  BY LossKnownStep
<1> QED BY <1>1, <1>2, <1>3, PTL DEF Spec, RecoveryAfterLoss

\* With one instance the last notice and lostAt agree, but for the handler
\* that is between the two.
Agree ==
    \A i \in Instances :
        /\ handler[i].step = "notice" =>
              /\ ~handler[i].pushed
              /\ handler[i].op \in {"heartbeat", "sweep"}
              /\ handler[i].op = "heartbeat" => lostAt
              /\ handler[i].op = "sweep" => ~lostAt
        /\ handler[i].step = "arrived" =>
              handler[i].op = "heartbeat" /\ ~handler[i].pushed
        /\ handler[i].step = "update" =>
              \/ handler[i].op = "heartbeat" /\ ~handler[i].pushed /\ ~lostAt
              \/ handler[i].op = "heartbeat" /\ handler[i].pushed
                   /\ told = "reachable"
              \/ handler[i].op = "sweep" /\ handler[i].pushed /\ ~lostAt
                   /\ told = "lost"
        /\ ~(handler[i].step = "update" /\ handler[i].pushed) =>
              /\ lostAt => told = "lost"
              /\ ~lostAt => told # "lost"

LEMMA AgreeStep ==
    ASSUME \A i, j \in Instances : i = j, ~FailsAfterPush,
           TypeOK, Agree, [Next]_vars
    PROVE  /\ Agree'
           /\ \A i \in Instances :
                 (~handler[i].pushed /\ handler'[i].pushed) => told' # told
<1> USE DEF TypeOK, Agree, Handlers, Free
<1>1. CASE Tick \/ Send \/ Start \/ Register \/ UNCHANGED vars
  BY <1>1 DEF Tick, Send, Start, Register, vars
<1>2. CASE GiveUp \/ Stop
  <2>1. \A i \in Instances : /\ handler'[i].op = handler[i].op
                             /\ handler'[i].step = handler[i].step
                             /\ handler'[i].pushed = handler[i].pushed
    BY <1>2 DEF GiveUp, Stop, Abandoned
  <2>2. lostAt' = lostAt /\ told' = told
    BY <1>2 DEF GiveUp, Stop
  <2> QED BY <2>1, <2>2
<1>3. ASSUME NEW i \in Instances, Relay(i)
      PROVE  /\ Agree'
             /\ (~handler[i].pushed /\ handler'[i].pushed) => told' # told
  <2> USE DEF Goes
  <2>1. CASE Arrive(i)
    BY <2>1 DEF Arrive
  <2>2. CASE Authenticate(i)
    BY <2>2 DEF Authenticate
  <2>3. CASE Find(i)
    BY <2>3 DEF Find
  <2>4. CASE Notify(i)
    BY <2>4 DEF Notify
  <2>5. CASE SeenAgain(i)
    BY <2>5 DEF SeenAgain
  <2>6. CASE Mark(i)
    BY <2>6 DEF Mark
  <2>7. CASE Reply(i)
    BY <2>7 DEF Reply
  <2>8. CASE Fail(i)
    BY <2>8 DEF Fail
  <2> QED BY <1>3, <2>1, <2>2, <2>3, <2>4, <2>5, <2>6, <2>7, <2>8 DEF Relay
<1> QED BY <1>1, <1>2, <1>3 DEF Next, Agent

\* With one instance, and no failure between a notice and its update, the
\* notices go in turn (app.py heartbeat, sweep_agent_heartbeats).
THEOREM NoticesCorrect ==
    ASSUME \A i, j \in Instances : i = j, ~FailsAfterPush
    PROVE  Spec => NoticesInTurn
<1>1. Init => TypeOK /\ Agree
  BY TypeInit DEF Init, Agree, Free
<1>2. TypeOK /\ Agree /\ [Next]_vars => (TypeOK /\ Agree)'
  BY TypeStep, AgreeStep
<1>3. TypeOK /\ Agree /\ [Next]_vars =>
        [\A i \in Instances :
            (~handler[i].pushed /\ handler'[i].pushed) => told' # told]_vars
  BY AgreeStep
<1> QED BY <1>1, <1>2, <1>3, PTL DEF Spec, NoticesInTurn
=============================================================================
