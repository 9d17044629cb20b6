------------------------------ MODULE LastActive ------------------------------
(***************************************************************************)
(* EndpointLastActiveTracker of src/pbxsense_agent/presence_history.py:    *)
(* when each phone was last seen available, which the home payload shows   *)
(* for phones that are offline.  The values are saved when a phone goes    *)
(* offline, and loaded when the Agent starts; a file that cannot be read   *)
(* counts as empty, and the next save replaces it.                         *)
(***************************************************************************)
EXTENDS Integers

CONSTANTS
    Extensions,
    MaxClock, \* bound: the clock
    Never

ASSUME LastActiveAssumption == MaxClock \in Nat /\ Never \notin Nat

VARIABLES
    clock,
    lastActive,   \* _last_active
    wasAvailable, \* _was_available; a phone not seen in this life is "unseen"
    file,         \* what the file holds
    unloaded,     \* history: this life could not read the file, nor has it written it
    truth,        \* history: the last healthy observation of each phone
    offline       \* history: phones that were seen to go offline, whose values
                  \* were saved then and not overwritten by a life that could not
                  \* read them, and that have not been back since

lastActiveVars == <<clock, lastActive, wasAvailable, file, unloaded, truth, offline>>

Values == [Extensions -> 0..MaxClock \cup {Never}]

LastActiveTypeOK ==
    /\ clock \in 0..MaxClock
    /\ lastActive \in Values /\ file \in Values /\ truth \in Values
    /\ wasAvailable \in [Extensions -> {"unseen", "yes", "no"}]
    /\ unloaded \in BOOLEAN /\ offline \subseteq Extensions

NoValues == [p \in Extensions |-> Never]

LastActiveInit ==
    /\ clock = 0
    /\ lastActive = NoValues
    /\ file = lastActive /\ truth = lastActive
    /\ wasAvailable = [p \in Extensions |-> "unseen"]
    /\ unloaded = FALSE /\ offline = {}

\* Every listed phone that is available was last active now.
Updated(values, up) == [p \in Extensions |-> IF p \in up THEN clock' ELSE values[p]]

\* Variant with a fault: only phones that went offline are written.
SaveGone(gone) == file' = [p \in Extensions |-> IF p \in gone THEN lastActive'[p] ELSE Never]

\* The file is replaced, or an OSError leaves it as it is.
SaveAll(gone) == file' = lastActive'

\* A snapshot lists some phones, available or not, the others not at all.
ObservePhones(up, down) ==
    LET gone == {p \in down : wasAvailable[p] = "yes"}
    IN  /\ clock < MaxClock /\ clock' = clock + 1
        /\ lastActive' = Updated(lastActive, up)
        /\ wasAvailable' = [p \in Extensions |-> IF p \in up THEN "yes"
                                             ELSE IF p \in down THEN "no"
                                             ELSE wasAvailable[p]]
        /\ truth' = Updated(truth, up)
        /\ \/ /\ gone # {} /\ SaveAll(gone)
              /\ unloaded' = FALSE
              /\ offline' = gone \cup (IF unloaded THEN {} ELSE offline \ up)
           \/ UNCHANGED <<file, unloaded>> /\ offline' = offline \ up

\* An Agent that starts again knows what the file holds, or nothing if it cannot
\* read it.
RestartTracker ==
    /\ \/ lastActive' = file /\ unloaded' = FALSE
       \/ lastActive' = NoValues /\ unloaded' = TRUE
    /\ wasAvailable' = [p \in Extensions |-> "unseen"]
    /\ UNCHANGED <<clock, file, truth, offline>>

LastActiveNext ==
    \/ RestartTracker
    \/ \E up, down \in SUBSET Extensions : up \cap down = {} /\ ObservePhones(up, down)

LastActiveSpec == LastActiveInit /\ [][LastActiveNext]_lastActiveVars

-----------------------------------------------------------------------------
\* "Persists the last healthy observation when a monitored device goes offline,
\* allowing device details to show when it was last active across Agent restarts"
\* (README.md:31-32): whatever the other phones do, and although writes fail.  A
\* life that cannot read the file does without it, and leaves it to the next one
\* unless it saves.
LastActiveSurvives ==
    \A p \in offline :
        /\ file[p] = truth[p]
        /\ unloaded \/ lastActive[p] = truth[p]
=============================================================================
