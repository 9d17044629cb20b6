----------------------------- MODULE JtapiBridge ------------------------------
(***************************************************************************)
(* JtapiBridge of src/pbxsense_agent/jtapi.py: the Java program that       *)
(* watches the calls of a Cisco CUCM, started by whoever first asks for    *)
(* the calls, started again when it died, and read by a thread of its own. *)
(* The publish loop and requests for diagnostics ask at the same time.     *)
(***************************************************************************)
EXTENDS Integers, FiniteSets

CONSTANTS
    Askers,         \* threads that ask
    Bridges,         \* processes, and their pipes; a place is used again
    RestartSeconds,  \* cucm_jtapi_restart_seconds
    StaleSeconds,    \* cucm_jtapi_stale_seconds
    ReadDelay,       \* how long a line may lie in a pipe
    MaxMishaps,      \* bound: deaths and failed starts
    NoBridge

ASSUME BridgeAssumption ==
    /\ {RestartSeconds, StaleSeconds, ReadDelay, MaxMishaps} \subseteq Nat
    /\ NoBridge \notin Bridges \cup Askers \cup Nat

VARIABLES
    handle,    \* _process
    running,   \* the processes that live
    locked,    \* the holder of _process_lock
    starting,  \* callers that found no process, and those about to start one
    backoff,   \* time until _restart_after
    pipe,      \* age of the line in each pipe
    seenCalls, \* age of _calls: of what they say
    unheard,   \* time since _updated_at
    mishaps,   \* deaths and failed starts so far
    exited     \* close() has run, at the exit of the Agent

bridgeVars ==
    <<handle, running, locked, starting, backoff, pipe, seenCalls, unheard, mishaps, exited>>

OldestCalls == StaleSeconds + ReadDelay + 1

BridgeInit ==
    /\ handle = NoBridge
    /\ running = {}
    /\ locked = NoBridge
    /\ starting = [c \in Askers |-> "no"]
    /\ backoff = 0
    /\ pipe = [b \in Bridges |-> NoBridge]
    /\ seenCalls = OldestCalls
    /\ unheard = StaleSeconds + 1
    /\ mishaps = 0
    /\ exited = FALSE

\* Variant with a fault: the lock is not taken.
AnyTime == TRUE

Free == locked = NoBridge

\* Variant with a fault: a process is not looked at again once it was started.
EverStarted == handle # NoBridge

Alive == handle \in running

\* _ensure_running: the process is dead and the pause after the last start over.
\* A caller who finds otherwise leaves at once, with nothing changed.
FindsNone(c) ==
    /\ ~exited
    /\ starting[c] = "no"
    /\ Free
    /\ ~Alive
    /\ backoff = 0
    /\ locked' = c
    /\ starting' = [starting EXCEPT ![c] = "found"]
    /\ UNCHANGED <<handle, running, backoff, pipe, seenCalls, unheard, mishaps, exited>>

PushRestart(c) ==
    /\ starting[c] = "found"
    /\ starting' = [starting EXCEPT ![c] = "starts"]
    /\ backoff' = RestartSeconds
    /\ UNCHANGED <<handle, running, locked, pipe, seenCalls, unheard, mishaps, exited>>

Leave(c) ==
    /\ starting' = [starting EXCEPT ![c] = "no"]
    /\ locked' = NoBridge

StartBridge(c, b) ==
    /\ starting[c] = "starts"
    /\ b \notin running
    /\ pipe[b] = NoBridge
    /\ handle' = b
    /\ running' = running \cup {b}
    /\ Leave(c)
    /\ UNCHANGED <<backoff, pipe, seenCalls, unheard, mishaps, exited>>

\* No compiled bridge, no Cisco classpath, or no Java.
StartFails(c) ==
    /\ starting[c] = "starts"
    /\ mishaps < MaxMishaps
    /\ mishaps' = mishaps + 1
    /\ Leave(c)
    /\ UNCHANGED <<handle, running, backoff, pipe, seenCalls, unheard, exited>>

\* main of PBXSenseJtapiBridge: a line with the calls now active, again and again.
WritesCalls(b) ==
    /\ b \in running
    /\ pipe[b] = NoBridge
    /\ pipe' = [pipe EXCEPT ![b] = 0]
    /\ UNCHANGED <<handle, running, locked, starting, backoff, seenCalls, unheard, mishaps, exited>>

\* The provider does not enter service, or the program fails.  What it wrote
\* stays in the pipe.
BridgeDies(b) ==
    /\ b \in running
    /\ mishaps < MaxMishaps
    /\ mishaps' = mishaps + 1
    /\ running' = running \ {b}
    /\ UNCHANGED <<handle, locked, starting, backoff, pipe, seenCalls, unheard, exited>>

\* _read_stdout, one thread for each process ever started.
ReadCalls(b) ==
    /\ pipe[b] # NoBridge
    /\ seenCalls' = pipe[b]
    /\ unheard' = 0
    /\ pipe' = [pipe EXCEPT ![b] = NoBridge]
    /\ UNCHANGED <<handle, running, locked, starting, backoff, mishaps, exited>>

\* Other threads have ended when the exit handlers run.
CloseBridge ==
    /\ ~exited
    /\ locked = NoBridge
    /\ exited' = TRUE
    /\ handle' = NoBridge
    /\ running' = running \ {handle}
    /\ UNCHANGED <<locked, starting, backoff, pipe, seenCalls, unheard, mishaps>>

Older(age, most) == IF age < most THEN age + 1 ELSE age

BridgeTick ==
    /\ \A b \in Bridges : pipe[b] # ReadDelay
    /\ pipe' = [b \in Bridges |-> IF pipe[b] = NoBridge THEN NoBridge ELSE pipe[b] + 1]
    /\ seenCalls' = Older(seenCalls, OldestCalls)
    /\ unheard' = Older(unheard, StaleSeconds + 1)
    /\ backoff' = IF backoff = 0 THEN 0 ELSE backoff - 1
    /\ UNCHANGED <<handle, running, locked, starting, mishaps, exited>>

\* channels(): whether the calls kept are shown.
CallsShown == unheard <= StaleSeconds

BridgeNext ==
    \/ \E c \in Askers :
         \/ FindsNone(c)
         \/ PushRestart(c)
         \/ \E b \in Bridges : StartBridge(c, b)
         \/ StartFails(c)
    \/ \E b \in Bridges : WritesCalls(b) \/ ReadCalls(b) \/ BridgeDies(b)
    \/ CloseBridge
    \/ BridgeTick

SomeFindsNone == \E c \in Askers : FindsNone(c)

SomeStarts == \E c \in Askers : PushRestart(c) \/ \E b \in Bridges : StartBridge(c, b)

SomeRead == \E b \in Bridges : ReadCalls(b)

\* The publish loop asks at every refresh, time passes, and pipes are read.
BridgeFairness ==
    /\ WF_bridgeVars(BridgeTick)
    /\ WF_bridgeVars(SomeFindsNone)
    /\ WF_bridgeVars(SomeStarts)
    /\ WF_bridgeVars(SomeRead)

BridgeSpec == BridgeInit /\ [][BridgeNext]_bridgeVars /\ BridgeFairness

----------------------------------------------------------------------------

BridgeTypeOK ==
    /\ handle \in Bridges \cup {NoBridge}
    /\ running \subseteq Bridges
    /\ locked \in Askers \cup {NoBridge}
    /\ starting \in [Askers -> {"no", "found", "starts"}]
    /\ backoff \in 0..RestartSeconds
    /\ pipe \in [Bridges -> 0..ReadDelay \cup {NoBridge}]
    /\ seenCalls \in 0..OldestCalls
    /\ unheard \in 0..StaleSeconds + 1
    /\ mishaps \in 0..MaxMishaps
    /\ exited \in BOOLEAN

\* However many threads ask while the bridge is down or coming up, at most one Java
\* process holds a session with the CUCM, it is the one the Agent can still
\* terminate, and none is left when the Agent has exited.
OneBridge ==
    /\ Cardinality(running) <= 1
    /\ running \subseteq {handle}

\* Calls shown as live were live at most stale_seconds and a pipe's delay ago, also
\* when the line of a dead process is read after its successor's.
CallsFresh == CallsShown => seenCalls <= StaleSeconds + ReadDelay

\* A bridge that died or could not be started runs again, as long as the Agent does.
BridgeReturns == []<>(running # {} \/ exited)

==============================================================================
