------------------------------ MODULE PushPromise ------------------------------
(***************************************************************************)
(* What the delivery of events promises to the people who carry the apps:  *)
(* a push tells of an occurrence that was really raised, and each one is   *)
(* told at most once.                                                      *)
(***************************************************************************)
EXTENDS Naturals

CONSTANT EventIds

VARIABLES
    raised, \* occurrences raised so far
    told    \* how often each was told to the devices

promiseVars == <<raised, told>>

PromiseInit ==
    /\ raised = {}
    /\ told = [id \in EventIds |-> 0]

RaiseEvent(id) ==
    /\ id \notin raised
    /\ raised' = raised \cup {id}
    /\ UNCHANGED told

Tell(id) ==
    /\ id \in raised
    /\ told[id] = 0
    /\ told' = [told EXCEPT ![id] = 1]
    /\ UNCHANGED raised

PromiseNext == \E id \in EventIds : RaiseEvent(id) \/ Tell(id)

PromiseSpec == PromiseInit /\ [][PromiseNext]_promiseVars
=============================================================================
