----------------------------- MODULE CallHistory -----------------------------
(***************************************************************************)
(* The call history of the home state and the moments about days without a *)
(* missed call: read_recent_cdr_calls of src/pbxsense_agent/history.py,    *)
(* the cached history of main.py and _operational_moments of engine.py.    *)
(* Asterisk appends a row to Master.csv when a call ends; the Agent reads  *)
(* the end of the file from time to time and keeps the calls that started  *)
(* last.                                                                   *)
(***************************************************************************)
EXTENDS Integers, Sequences, FiniteSets

CONSTANTS
    HistoryLimit, \* calls kept (limit: 1000)
    TailRows,     \* rows read, at most (3 * limit)
    Lines,        \* calls the PBX can have at once
    MaxCalls,     \* bound of the model
    LastHalf      \* bound of the model: the last half-day

\* A call that started after the oldest kept one is overtaken in the file by at
\* most the other calls in progress: the rows read must have room for them.
ASSUME HistoryAssumption ==
    /\ HistoryLimit \in Nat \ {0} /\ Lines \in Nat \ {0} /\ TailRows \in Nat
    /\ HistoryLimit + Lines <= TailRows + 1
    /\ MaxCalls \in Nat /\ LastHalf \in Nat

VARIABLES
    halfDay,  \* two for each day: until 17 o'clock, and from then on
    started,  \* the half-day in which each call started, in the order of their starts
    cdr,      \* the rows of Master.csv
    history,  \* the calls of _cached_history
    readTo    \* how many rows the file had at the last read that found it

historyVars == <<halfDay, started, cdr, history, readTo>>

Rows == [call : 1..MaxCalls, missed : BOOLEAN]

HistoryTypeOK ==
    /\ halfDay \in 0..LastHalf
    /\ started \in Seq(0..LastHalf)
    /\ cdr \in Seq(Rows)
    /\ history \subseteq Rows
    /\ readTo \in 0..Len(cdr)

HistoryInit ==
    /\ halfDay = 0 /\ started = <<>> /\ cdr = <<>>
    /\ history = {} /\ readTo = 0

Logged == {cdr[i] : i \in DOMAIN cdr}

InProgress == DOMAIN started \ {r.call : r \in Logged}

CallBegins ==
    /\ Len(started) < MaxCalls
    /\ Cardinality(InProgress) < Lines
    /\ started' = Append(started, halfDay)
    /\ UNCHANGED <<halfDay, cdr, history, readTo>>

\* interpreted_call_kind, for its callers here: missed or not.
CallEnds ==
    /\ \E c \in InProgress, missed \in BOOLEAN :
          cdr' = Append(cdr, [call |-> c, missed |-> missed])
    /\ UNCHANGED <<halfDay, started, history, readTo>>

HalfDayPasses ==
    /\ halfDay < LastHalf
    /\ halfDay' = halfDay + 1
    /\ UNCHANGED <<started, cdr, history, readTo>>

\* Variant with a fault: the last rows of the file, which are the calls that
\* ended last.
LastRows == {cdr[i] : i \in {j \in DOMAIN cdr : j > Len(cdr) - HistoryLimit}}

\* The last rows of the file, read as a bounded number of bytes.
FileEnd == {cdr[i] : i \in {j \in DOMAIN cdr : j > Len(cdr) - TailRows}}

\* Of these, the calls that started last.
RecentCalls ==
    {r \in FileEnd : Cardinality({s \in FileEnd : s.call > r.call}) < HistoryLimit}

ReadHistory ==
    /\ history' = RecentCalls
    /\ readTo' = Len(cdr)
    /\ UNCHANGED <<halfDay, started, cdr>>

\* A file that is not there, or not readable, is an empty history.
ReadNothing ==
    /\ history' = {}
    /\ readTo' = 0
    /\ UNCHANGED <<halfDay, started, cdr>>

HistoryNext == CallBegins \/ CallEnds \/ HalfDayPasses \/ ReadHistory \/ ReadNothing

HistorySpec == HistoryInit /\ [][HistoryNext]_historyVars

-----------------------------------------------------------------------------
(* What the home state says of the days                                    *)

DayOf(r) == started[r.call] \div 2

Today == halfDay \div 2
Evening == halfDay % 2 = 1

CallsOf(d) == {r \in history : DayOf(r) = d}

Clean(d) == CallsOf(d) # {} /\ \A r \in CallsOf(d) : ~r.missed

\* Before the evening the streak starts with yesterday.
LastCounted == IF Evening THEN Today ELSE Today - 1

Streak == {d \in 0..LastCounted : \A e \in d..LastCounted : Clean(e)}

\* The days of clean_operating_day_streak and full_day_without_missed_calls.
Praised ==
    (IF Cardinality(Streak) >= 2 THEN Streak ELSE {})
        \cup {d \in {Today} : Evening /\ Clean(d)}

-----------------------------------------------------------------------------
(* Properties                                                              *)

\* The day of the oldest call kept may have lost earlier calls to the limit.
CutDays ==
    IF Cardinality(history) < HistoryLimit THEN {}
    ELSE {DayOf(r) : r \in {o \in history : \A q \in history : o.call <= q.call}}

\* "Each counted day had real call activity and no missed calls" (engine.py
\* _operational_moments): of every day that is praised, but for the one at which
\* the history is cut off, the file had a call and no missed one when it was
\* last read - although the file is in the order in which calls end, and a
\* call may end on a later day than it started.
CleanDaysTrue ==
    \A d \in Praised \ CutDays :
        LET read == {r \in {cdr[i] : i \in 1..readTo} : DayOf(r) = d}
        IN  read # {} /\ \A r \in read : ~r.missed
=============================================================================
