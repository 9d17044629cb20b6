------------------------------ MODULE UsageRollup ------------------------------
(***************************************************************************)
(* The usage counters of one entity, an Agent or a device: _usage_update,  *)
(* _archive_usage and the archiving part of _usage_report of               *)
(* push_relay/app.py.  The counters of a day are in the document of the    *)
(* entity; the first request of a later day, or the dashboard, copies them *)
(* to the archive, and the update of that request starts them anew.  A     *)
(* handler decides from the document it read when it authenticated.        *)
(***************************************************************************)
EXTENDS Integers, FiniteSets

CONSTANTS
    LastDay,   \* bound: days are 1 .. LastDay
    MaxCount,  \* bound: requests counted in a day
    Handlers,  \* relay instances, one handler at a time each
    NoDay

ASSUME UsageAssumption ==
    LastDay \in Nat \ {0} /\ MaxCount \in Nat \ {0} /\ NoDay \notin Int

Days == 1 .. LastDay

VARIABLES
    today,
    doc,      \* usageDate, usage and usageArchivedDate of the document
    archive,  \* usageDaily: the usage of each archived day
    handlers, \* the handler of each instance
    counted   \* history: requests whose update succeeded, by day

usageVars == <<today, doc, archive, handlers, counted>>

UsageDocs ==
    [date : Days \cup {NoDay}, usage : Nat, archived : Days \cup {NoDay}]

UsageHandlers ==
    [existing : UsageDocs, day : Days, request : BOOLEAN,
     step : {"archive", "mark", "update"}]

UsageTypeOK ==
    /\ today \in Days
    /\ doc \in UsageDocs
    /\ archive \in [Days -> Nat \cup {NoDay}]
    /\ handlers \in [Handlers -> UsageHandlers \cup {NoDay}]
    /\ counted \in [Days -> Nat]

UsageInit ==
    /\ today = 1
    /\ doc = [date |-> NoDay, usage |-> 0, archived |-> NoDay]
    /\ archive = [d \in Days |-> NoDay]
    /\ handlers = [h \in Handlers |-> NoDay]
    /\ counted = [d \in Days |-> 0]

-----------------------------------------------------------------------------

\* Variant with a fault: one completed day is archived and no other.
ArchivedOnce(existing, day) ==
    existing.date \notin {NoDay, day} /\ existing.archived = NoDay

\* A completed day that has not been archived yet.
ToArchive(existing, day) ==
    existing.date \notin {NoDay, day, existing.archived}

\* A request (TRUE) or the report reads the document and the date.
ReadUsage(h, request) ==
    /\ handlers[h] = NoDay
    /\ LET archives == ToArchive(doc, today)
       IN  /\ request \/ archives
           /\ handlers' = [handlers EXCEPT ![h] =
                 [existing |-> doc, day |-> today, request |-> request,
                  step |-> IF archives THEN "archive" ELSE "update"]]
    /\ UNCHANGED <<today, doc, archive, counted>>

WriteArchive(h) ==
    /\ handlers[h] # NoDay /\ handlers[h].step = "archive"
    /\ archive' = [archive EXCEPT
          ![handlers[h].existing.date] = handlers[h].existing.usage]
    /\ handlers' = [handlers EXCEPT ![h].step = "mark"]
    /\ UNCHANGED <<today, doc, counted>>

MarkArchived(h) ==
    /\ handlers[h] # NoDay /\ handlers[h].step = "mark"
    /\ doc' = [doc EXCEPT !.archived = handlers[h].existing.date]
    /\ handlers' = IF handlers[h].request
                   THEN [handlers EXCEPT ![h].step = "update"]
                   ELSE [handlers EXCEPT ![h] = NoDay]
    /\ UNCHANGED <<today, archive, counted>>

\* The update of the request carries the counter: the first one of a day
\* replaces the map, the others increment.
Update(h) ==
    LET x == handlers[h]
    IN  /\ x # NoDay /\ x.step = "update"
        /\ counted[x.day] < MaxCount
        /\ doc' = IF x.existing.date # x.day
                  THEN [doc EXCEPT !.date = x.day, !.usage = 1]
                  ELSE [doc EXCEPT !.usage = @ + 1]
        /\ counted' = [counted EXCEPT ![x.day] = @ + 1]
        /\ handlers' = [handlers EXCEPT ![h] = NoDay]
        /\ UNCHANGED <<today, archive>>

\* A Firestore call fails, or the request fails before its update.
FailUsage(h) ==
    /\ handlers[h] # NoDay
    /\ handlers' = [handlers EXCEPT ![h] = NoDay]
    /\ UNCHANGED <<today, doc, archive, counted>>

Midnight ==
    /\ today < LastDay
    /\ today' = today + 1
    /\ UNCHANGED <<doc, archive, handlers, counted>>

\* _current_usage, and what _daily_usage reports of a day.
CurrentUsage == IF doc.date = today THEN doc.usage ELSE 0

Reported(d) ==
    IF d = today THEN CurrentUsage
    ELSE IF archive[d] = NoDay THEN 0 ELSE archive[d]

UsageNext ==
    \/ \E h \in Handlers :
          \/ \E request \in BOOLEAN : ReadUsage(h, request)
          \/ WriteArchive(h) \/ MarkArchived(h) \/ Update(h) \/ FailUsage(h)
    \/ Midnight

UsageSpec == UsageInit /\ [][UsageNext]_usageVars

-----------------------------------------------------------------------------
(* Properties                                                              *)

\* With one instance the counters of the document are those of its day, an
\* archived day has every request that was counted in it, and no day with
\* requests is missing from the archive but the one still in the document;
\* although handlers fail between the archive, its mark and the update, and
\* midnight may pass while one is at work.  So when the dashboard has archived
\* what it found, it reports each day's requests (app.py _usage_update,
\* _archive_usage, _daily_usage).
CountsKept ==
    /\ doc.date # NoDay => doc.usage = counted[doc.date]
    /\ \A d \in Days :
          /\ archive[d] # NoDay => archive[d] = counted[d]
          /\ archive[d] = NoDay /\ counted[d] > 0 => doc.date = d
    /\ (\A h \in Handlers : handlers[h] = NoDay) /\ ~ToArchive(doc, today)
          => \A d \in 1 .. today : Reported(d) = counted[d]
=============================================================================
