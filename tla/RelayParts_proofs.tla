-------------------------- MODULE RelayParts_proofs --------------------------
(***************************************************************************)
(* Parts of the relay that share no state: the counters and their archive  *)
(* keep every request, for any number of days and requests; the device     *)
(* registry keeps its promises for any number of agents, tokens, devices   *)
(* and tasks, as long as one instance serves them; and the rate limiter    *)
(* keeps its limits for any number of addresses and any size of its table. *)
(***************************************************************************)
EXTENDS UsageRollup, DeviceRegistry, RateLimiter, FiniteSetTheorems,
        WellFoundedInduction, TLAPS

-----------------------------------------------------------------------------
(* The counters                                                            *)

OneHandler == \A h, g \in Handlers : h = g

\* The document counts a day that has come, and marks only what is archived.
DocumentFits ==
    /\ doc.date # NoDay => doc.date <= today /\ doc.usage = counted[doc.date]
    /\ doc.archived # NoDay => archive[doc.archived] # NoDay

\* An archived day is over and complete, any other with requests is in the document.
ArchiveFits ==
    \A d \in Days :
        /\ archive[d] # NoDay => archive[d] = counted[d] /\ d < today
        /\ archive[d] = NoDay /\ counted[d] > 0 => doc.date = d

\* What a handler read is still so; no day from its own on is archived, and when
\* it comes to its update the day before is.
HandlerFits(x) ==
    x # NoDay =>
        /\ x.existing.date = doc.date /\ x.existing.usage = doc.usage
        /\ x.day <= today
        /\ doc.date # NoDay => doc.date <= x.day
        /\ \A d \in Days : archive[d] # NoDay => d < x.day
        /\ x.step \in {"archive", "mark"} => doc.date \notin {NoDay, x.day}
        /\ x.step \in {"mark", "update"} =>
              doc.date \in {NoDay, x.day} \/ archive[doc.date] # NoDay

UsageInv ==
    /\ UsageTypeOK
    /\ DocumentFits
    /\ ArchiveFits
    /\ \A h \in Handlers : HandlerFits(handlers[h])

LEMMA UsageConstants ==
    /\ LastDay \in Nat /\ LastDay >= 1 /\ MaxCount \in Nat
    /\ NoDay \notin Nat /\ NoDay \notin Days /\ Days \subseteq Nat
  BY UsageAssumption DEF Days

LEMMA UsageInvInit == UsageInit => UsageInv
<1> SUFFICES ASSUME UsageInit
             PROVE  UsageInv
  OBVIOUS
<1> USE UsageConstants
<1>1. /\ today \in Days /\ archive \in [Days -> Nat \cup {NoDay}]
      /\ counted \in [Days -> Nat] /\ handlers \in [Handlers -> UsageHandlers \cup {NoDay}]
  BY DEF UsageInit, Days
<1>2. doc \in UsageDocs /\ doc.date = NoDay /\ doc.archived = NoDay
  BY DEF UsageInit, UsageDocs
<1>3. DocumentFits /\ ArchiveFits
  BY <1>2 DEF UsageInit, DocumentFits, ArchiveFits
<1>4. \A h \in Handlers : HandlerFits(handlers[h])
  BY DEF UsageInit, HandlerFits
<1> QED BY <1>1, <1>2, <1>3, <1>4 DEF UsageInv, UsageTypeOK

\* The types of what a handler holds.
LEMMA HandlerTypes ==
    ASSUME UsageInv, NEW h \in Handlers, handlers[h] # NoDay
    PROVE  /\ handlers[h] \in UsageHandlers
           /\ handlers[h].existing.date \in Days \cup {NoDay}
           /\ handlers[h].existing.usage \in Nat
           /\ handlers[h].day \in Days
           /\ HandlerFits(handlers[h])
  BY DEF UsageInv, UsageTypeOK, UsageHandlers, UsageDocs

\* The handler that changes is the only one.
LEMMA OneHandlerChanges ==
    ASSUME OneHandler, UsageTypeOK, NEW h \in Handlers, NEW v,
           handlers' = [handlers EXCEPT ![h] = v]
    PROVE  \A g \in Handlers : g = h /\ handlers'[g] = v
  BY DEF OneHandler, UsageTypeOK

LEMMA ReadKeepsInv ==
    ASSUME OneHandler, UsageInv, NEW h \in Handlers, NEW request \in BOOLEAN,
           ReadUsage(h, request)
    PROVE  UsageInv'
<1> USE UsageConstants
<1>1. doc \in UsageDocs /\ today \in Days /\ doc.date \in Days \cup {NoDay}
  BY DEF UsageInv, UsageTypeOK, UsageDocs
<1>2. PICK step \in {"archive", "update"} :
        /\ step = IF ToArchive(doc, today) THEN "archive" ELSE "update"
        /\ handlers' = [handlers EXCEPT ![h] =
              [existing |-> doc, day |-> today, request |-> request, step |-> step]]
  BY DEF ReadUsage
<1>3. PICK x : x = [existing |-> doc, day |-> today, request |-> request, step |-> step]
  OBVIOUS
<1>4. x \in UsageHandlers /\ x.existing = doc /\ x.day = today /\ x.step = step
  BY <1>1, <1>3 DEF UsageHandlers
<1>5. UNCHANGED <<today, doc, archive, counted>>
  BY DEF ReadUsage
<1>6. HandlerFits(x)
  <2>1. doc.date # NoDay => doc.date <= today
    BY DEF UsageInv, DocumentFits
  <2>2. \A d \in Days : archive[d] # NoDay => d < today
    BY DEF UsageInv, ArchiveFits
  <2>3. step = "archive" => doc.date \notin {NoDay, today}
    BY <1>2 DEF ToArchive
  <2>4. step = "update" => doc.date \in {NoDay, today} \/ archive[doc.date] # NoDay
    BY <1>2 DEF ToArchive, UsageInv, DocumentFits
  <2>5. x.existing.date = doc.date /\ x.existing.usage = doc.usage /\ x.day <= today
    BY <1>1, <1>4
  <2>6. x.step \in {"archive", "update"}
    BY <1>2, <1>4
  <2> QED BY <1>4, <2>1, <2>2, <2>3, <2>4, <2>5, <2>6 DEF HandlerFits
<1>7. \A g \in Handlers : handlers'[g] = x
  BY <1>2, <1>3, OneHandlerChanges DEF UsageInv
<1>8. handlers' \in [Handlers -> UsageHandlers \cup {NoDay}]
  BY <1>2, <1>3, <1>4 DEF UsageInv, UsageTypeOK
<1>9. (\A g \in Handlers : HandlerFits(handlers[g]))'
  BY <1>5, <1>6, <1>7 DEF HandlerFits
<1> QED BY <1>5, <1>8, <1>9 DEF UsageInv, UsageTypeOK, DocumentFits, ArchiveFits

LEMMA ArchiveKeepsInv ==
    ASSUME OneHandler, UsageInv, NEW h \in Handlers, WriteArchive(h)
    PROVE  UsageInv'
<1> USE UsageConstants
<1>1. PICK x : x = handlers[h]
  OBVIOUS
<1>2. /\ x # NoDay /\ x.step = "archive"
      /\ archive' = [archive EXCEPT ![x.existing.date] = x.existing.usage]
      /\ handlers' = [handlers EXCEPT ![h] = [x EXCEPT !.step = "mark"]]
      /\ UNCHANGED <<today, doc, counted>>
  BY <1>1 DEF WriteArchive
<1>3. x \in UsageHandlers /\ x.day \in Days /\ HandlerFits(x)
  BY <1>1, <1>2, HandlerTypes
<1>4. PICK y : y = [x EXCEPT !.step = "mark"]
  OBVIOUS
<1>5. /\ y \in UsageHandlers /\ y.step = "mark"
      /\ y.existing = x.existing /\ y.day = x.day
  BY <1>3, <1>4 DEF UsageHandlers
<1>6. /\ doc.date \in Days /\ doc.date < x.day /\ doc.date # x.day
      /\ x.existing.date = doc.date /\ x.existing.usage = counted[doc.date]
      /\ counted \in [Days -> Nat] /\ archive \in [Days -> Nat \cup {NoDay}]
      /\ today \in Days /\ x.day <= today
  BY <1>2, <1>3 DEF UsageInv, UsageTypeOK, UsageDocs, DocumentFits, HandlerFits
<1>7. /\ archive'[doc.date] = counted[doc.date] /\ archive'[doc.date] # NoDay
      /\ \A d \in Days : d # doc.date => archive'[d] = archive[d]
      /\ archive' \in [Days -> Nat \cup {NoDay}]
  BY <1>2, <1>6
<1>8. \A g \in Handlers : handlers'[g] = y
  BY <1>2, <1>4, OneHandlerChanges DEF UsageInv
<1>9. UsageTypeOK'
  BY <1>2, <1>4, <1>5, <1>7 DEF UsageInv, UsageTypeOK
<1>10. ArchiveFits'
  <2>1. ASSUME NEW d \in Days
        PROVE  /\ archive'[d] # NoDay => archive'[d] = counted[d] /\ d < today
               /\ archive'[d] = NoDay /\ counted[d] > 0 => doc.date = d
    <3>1. CASE d = doc.date
      <4>1. /\ doc.date \in Nat /\ x.day \in Nat /\ today \in Nat
            /\ doc.date < x.day /\ x.day <= today
        BY <1>3, <1>6
      <4>2. doc.date < today
        BY ONLY <4>1
      <4> QED BY <1>7, <3>1, <4>2
    <3>2. CASE d # doc.date
      BY <1>7, <3>2 DEF UsageInv, ArchiveFits
    <3> QED BY <3>1, <3>2
  <2> QED BY <1>2, <2>1 DEF ArchiveFits
<1>11. DocumentFits'
  BY <1>2, <1>6, <1>7 DEF UsageInv, UsageTypeOK, UsageDocs, DocumentFits
<1>12. (\A g \in Handlers : HandlerFits(handlers[g]))'
  BY <1>2, <1>3, <1>5, <1>6, <1>7, <1>8 DEF HandlerFits
<1> QED BY <1>9, <1>10, <1>11, <1>12 DEF UsageInv

LEMMA MarkKeepsInv ==
    ASSUME OneHandler, UsageInv, NEW h \in Handlers, MarkArchived(h)
    PROVE  UsageInv'
<1> USE UsageConstants
<1>1. PICK x : x = handlers[h]
  OBVIOUS
<1>2. /\ x # NoDay /\ x.step = "mark"
      /\ doc' = [doc EXCEPT !.archived = x.existing.date]
      /\ \/ handlers' = [handlers EXCEPT ![h] = [x EXCEPT !.step = "update"]]
         \/ handlers' = [handlers EXCEPT ![h] = NoDay]
      /\ UNCHANGED <<today, archive, counted>>
  BY <1>1 DEF MarkArchived
<1>3. x \in UsageHandlers /\ HandlerFits(x) /\ doc \in UsageDocs
  BY <1>1, <1>2, HandlerTypes DEF UsageInv, UsageTypeOK
<1>4. /\ x.existing.date = doc.date /\ doc.date \in Days
      /\ archive[doc.date] # NoDay
  BY <1>2, <1>3 DEF HandlerFits, UsageDocs
<1>5. /\ doc' \in UsageDocs /\ doc'.date = doc.date /\ doc'.usage = doc.usage
      /\ doc'.archived = doc.date
  BY <1>2, <1>3, <1>4 DEF UsageDocs
<1>6. PICK y : y = [x EXCEPT !.step = "update"]
  OBVIOUS
<1>7. /\ y \in UsageHandlers /\ y.step = "update"
      /\ y.existing = x.existing /\ y.day = x.day
  BY <1>3, <1>6 DEF UsageHandlers
<1>8. \A g \in Handlers : handlers'[g] \in {y, NoDay}
  BY <1>2, <1>6, OneHandlerChanges DEF UsageInv
<1>9. UsageTypeOK'
  BY <1>2, <1>5, <1>6, <1>7 DEF UsageInv, UsageTypeOK
<1>10. DocumentFits' /\ ArchiveFits'
  BY <1>2, <1>4, <1>5 DEF UsageInv, DocumentFits, ArchiveFits
<1>11. (\A g \in Handlers : HandlerFits(handlers[g]))'
  BY <1>2, <1>3, <1>4, <1>5, <1>7, <1>8 DEF HandlerFits
<1> QED BY <1>9, <1>10, <1>11 DEF UsageInv

LEMMA UpdateKeepsInv ==
    ASSUME OneHandler, UsageInv, NEW h \in Handlers, Update(h)
    PROVE  UsageInv'
<1> USE UsageConstants
<1>1. PICK x : x = handlers[h]
  OBVIOUS
<1>2. /\ x # NoDay /\ x.step = "update"
      /\ doc' = IF x.existing.date # x.day
                THEN [doc EXCEPT !.date = x.day, !.usage = 1]
                ELSE [doc EXCEPT !.usage = doc.usage + 1]
      /\ counted' = [counted EXCEPT ![x.day] = counted[x.day] + 1]
      /\ handlers' = [handlers EXCEPT ![h] = NoDay]
      /\ UNCHANGED <<today, archive>>
  BY <1>1 DEF Update
<1>3. /\ x.day \in Days /\ HandlerFits(x) /\ doc \in UsageDocs
      /\ counted \in [Days -> Nat] /\ today \in Days
  BY <1>1, <1>2, HandlerTypes DEF UsageInv, UsageTypeOK
<1>4. /\ x.existing.date = doc.date /\ x.day <= today /\ archive[x.day] = NoDay
      /\ doc.date \in {NoDay, x.day} \/ archive[doc.date] # NoDay
      /\ doc.usage \in Nat /\ doc.date \in Days \cup {NoDay}
  BY <1>2, <1>3 DEF HandlerFits, UsageDocs
<1>5. doc.date # x.day => counted[x.day] = 0
  <2>1. archive[x.day] = NoDay /\ counted[x.day] > 0 => doc.date = x.day
    BY <1>3 DEF UsageInv, ArchiveFits
  <2>2. counted[x.day] \in Nat
    BY <1>3
  <2> QED BY <1>4, <2>1, <2>2
<1>6. /\ counted' \in [Days -> Nat] /\ counted'[x.day] = counted[x.day] + 1
      /\ \A d \in Days : d # x.day => counted'[d] = counted[d]
  BY <1>2, <1>3
<1>7. /\ doc' \in UsageDocs /\ doc'.date = x.day /\ doc'.usage = counted'[x.day]
      /\ doc'.archived = doc.archived
  <2>1. CASE doc.date # x.day
    <3>1. doc' = [doc EXCEPT !.date = x.day, !.usage = 1]
      BY <1>2, <1>4, <2>1
    <3>2. counted'[x.day] = 1
      BY <1>5, <1>6, <2>1
    <3> QED BY <1>3, <3>1, <3>2 DEF UsageDocs
  <2>2. CASE doc.date = x.day
    <3>1. doc.usage = counted[x.day]
      BY <1>3, <2>2 DEF UsageInv, DocumentFits
    <3> QED BY <1>2, <1>3, <1>4, <1>6, <2>2, <3>1 DEF UsageDocs
  <2> QED BY <2>1, <2>2
<1>8. \A g \in Handlers : handlers'[g] = NoDay
  BY <1>2, OneHandlerChanges DEF UsageInv
<1>9. UsageTypeOK'
  BY <1>2, <1>6, <1>7 DEF UsageInv, UsageTypeOK
<1>10. DocumentFits'
  BY <1>2, <1>4, <1>7 DEF UsageInv, DocumentFits
<1>11. ArchiveFits'
  <2>1. ASSUME NEW d \in Days
        PROVE  /\ archive[d] # NoDay => archive[d] = counted'[d] /\ d < today
               /\ archive[d] = NoDay /\ counted'[d] > 0 => doc'.date = d
    <3>1. CASE d = x.day
      BY <1>4, <1>7, <3>1
    <3>2. CASE d # x.day
      <4>1. /\ archive[d] # NoDay => archive[d] = counted[d] /\ d < today
            /\ archive[d] = NoDay /\ counted[d] > 0 => doc.date = d
        BY DEF UsageInv, ArchiveFits
      <4> QED BY <1>4, <1>6, <3>2, <4>1
    <3> QED BY <3>1, <3>2
  <2> QED BY <1>2, <2>1 DEF ArchiveFits
<1>12. (\A g \in Handlers : HandlerFits(handlers[g]))'
  BY <1>8 DEF HandlerFits
<1> QED BY <1>9, <1>10, <1>11, <1>12 DEF UsageInv

LEMMA FailKeepsInv ==
    ASSUME OneHandler, UsageInv, NEW h \in Handlers, FailUsage(h)
    PROVE  UsageInv'
<1>1. \A g \in Handlers : handlers'[g] = NoDay
  BY OneHandlerChanges DEF FailUsage, UsageInv
<1>2. (\A g \in Handlers : HandlerFits(handlers[g]))'
  BY <1>1 DEF HandlerFits
<1> QED BY <1>2 DEF FailUsage, UsageInv, UsageTypeOK, DocumentFits, ArchiveFits

\* Another day makes no document false: what was over is over.
LEMMA MidnightKeepsInv ==
    ASSUME UsageInv, Midnight
    PROVE  UsageInv'
<1> USE UsageConstants
<1>1. /\ today \in Days /\ today' = today + 1 /\ today' \in Days
      /\ UNCHANGED <<doc, archive, handlers, counted>>
  BY DEF Midnight, UsageInv, UsageTypeOK, Days
<1>2. doc.date \in Days \cup {NoDay}
  BY DEF UsageInv, UsageTypeOK, UsageDocs
<1>3. DocumentFits' /\ ArchiveFits'
  <2>1. \A d \in Days : (d < today => d < today') /\ (d <= today => d <= today')
    BY <1>1
  <2>2. DocumentFits'
    BY <1>1, <1>2, <2>1 DEF UsageInv, DocumentFits
  <2>3. ArchiveFits'
    BY <1>1, <2>1 DEF UsageInv, ArchiveFits
  <2> QED BY <2>2, <2>3
<1>4. ASSUME NEW g \in Handlers
      PROVE  HandlerFits(handlers[g])'
  <2>1. handlers[g] # NoDay => handlers[g].day \in Days
    BY HandlerTypes
  <2>2. HandlerFits(handlers[g])
    BY DEF UsageInv
  <2>3. handlers[g] # NoDay /\ handlers[g].day <= today => handlers[g].day <= today'
    <3>1. ASSUME NEW n \in Nat, n <= today
          PROVE  n <= today'
      BY <1>1, <3>1
    <3> QED BY <2>1, <3>1
  <2> QED BY <1>1, <2>2, <2>3 DEF HandlerFits
<1> QED BY <1>1, <1>3, <1>4 DEF UsageInv, UsageTypeOK

LEMMA UsageInvStep ==
    ASSUME OneHandler
    PROVE  UsageInv /\ [UsageNext]_usageVars => UsageInv'
<1> SUFFICES ASSUME UsageInv, [UsageNext]_usageVars
             PROVE  UsageInv'
  OBVIOUS
<1>1. CASE UNCHANGED usageVars
  BY <1>1 DEF usageVars, UsageInv, UsageTypeOK, DocumentFits, ArchiveFits, HandlerFits
<1> QED BY <1>1, ReadKeepsInv, ArchiveKeepsInv, MarkKeepsInv, UpdateKeepsInv,
           FailKeepsInv, MidnightKeepsInv DEF UsageNext

\* With one instance no request is lost or counted twice at the end of a day,
\* whatever fails between the archive, its mark and the update, and the report
\* tells each day's requests (app.py _usage_update, _archive_usage, _daily_usage).
THEOREM CountsKeptCorrect ==
    ASSUME OneHandler
    PROVE  UsageSpec => []CountsKept
<1>1. UsageInv => CountsKept
  <2> SUFFICES ASSUME UsageInv
               PROVE  CountsKept
    OBVIOUS
  <2> USE UsageConstants
  <2>1. ASSUME ~ToArchive(doc, today), NEW d \in 1 .. today
        PROVE  Reported(d) = counted[d]
    <3>1. d \in Days /\ today \in Days /\ counted[d] \in Nat
      BY DEF UsageInv, UsageTypeOK, Days
    <3>2. /\ archive[d] # NoDay => archive[d] = counted[d] /\ d < today
          /\ archive[d] = NoDay /\ counted[d] > 0 => doc.date = d
      BY <3>1 DEF UsageInv, ArchiveFits
    <3>3. CASE d = today
      BY <3>1, <3>2, <3>3
      DEF Reported, CurrentUsage, UsageInv, DocumentFits
    <3>4. CASE d # today
      BY <2>1, <3>1, <3>2, <3>4 DEF Reported, ToArchive, UsageInv, DocumentFits
    <3> QED BY <3>3, <3>4
  <2> QED BY <2>1 DEF CountsKept, UsageInv, DocumentFits, ArchiveFits
<1>2. UsageInv /\ [UsageNext]_usageVars => UsageInv'
  BY UsageInvStep
<1> QED BY <1>1, <1>2, UsageInvInit, PTL DEF UsageSpec

-----------------------------------------------------------------------------
(* The device registry: the inductive invariant                            *)

\* One relay instance is deployed.
OneInstance == \E i : Instances = {i}

Holds(d, t) == docs[d] # None /\ docs[d].token = t

\* The task has changed half of what the registry says of token t.
InMotion(task, t) ==
    /\ task # None
    /\ \/ t = task.held /\ task.step \in {"set", "previous", "point", "unpoint"}
       \/ t = task.token /\ task.step \in {"previous", "point"}

\* The document that holds any other token is the one its pointer names.
OthersOwned(task) ==
    \A d \in Devices, t \in Tokens \ torn :
        Holds(d, t) /\ ~InMotion(task, t) => pointers[t] = d

\* Only document d, if any, holds token t.
OnlyIn(d, t) == t \in Tokens \ torn => \A e \in Devices : Holds(e, t) => e = d

\* Which documents may still hold the tokens in motion.
HoldersKnown(task) ==
    /\ task.step = "dropOld" => pointers[task.held] = task.device
    /\ task.step = "set" => OnlyIn(task.device, task.held)
    /\ (task.step = "previous" /\ task.token \notin torn) =>
          \A d \in Devices : Holds(d, task.token) => d \in {task.device, task.other}
    /\ task.step = "point" => OnlyIn(task.device, task.token)
    /\ task.step \in {"previous", "point", "unpoint"} => OnlyIn(None, task.held)

\* What the task is for goes with the step it is at.
TaskFits(task) ==
    /\ task.step = "dropOld" => task.kind = "own" /\ task.held \in Tokens
    /\ task.step = "set" => task.kind \in {"create", "register", "own"}
    /\ (task.step = "set" /\ task.kind = "create") =>
           task.held = None /\ task.device \in Credentials
    /\ (\/ task.step \in {"previous", "point"}
        \/ task.step \in {"dropOld", "set"} /\ task.kind # "create") =>
           task.token \in Tokens /\ task.held # task.token
    /\ task.step = "previous" => task.other # None
    /\ task.step = "unpoint" => task.held \in Tokens

\* The limit the handler checked still holds when it writes the document.
RoomLeft(task) ==
    (task.step = "set" /\ task.kind # "own") =>
        docs[task.device] # None \/ HasCapacity(AgentOf(task.device))

TaskInv(i) ==
    /\ OthersOwned(tasks[i])
    /\ tasks[i] # None =>
          HoldersKnown(tasks[i]) /\ TaskFits(tasks[i]) /\ RoomLeft(tasks[i])

RegistryInv ==
    /\ RegistryTypeOK
    /\ IsFiniteSet({d \in Devices : docs[d] # None})
    /\ \A i \in Instances : TaskInv(i)

LEMMA RegistryInvInit == RegistryInit => RegistryInv
<1> SUFFICES ASSUME RegistryInit PROVE RegistryInv
  OBVIOUS
<1>1. RegistryTypeOK
  BY DEF RegistryInit, RegistryTypeOK
<1>2. {d \in Devices : docs[d] # None} = {}
  BY DEF RegistryInit
<1>3. \A i \in Instances : TaskInv(i)
  BY DEF RegistryInit, TaskInv, OthersOwned, Holds
<1> QED BY <1>1, <1>2, <1>3, FS_EmptySet DEF RegistryInv

\* None is neither the path of a document nor a token.
LEMMA NoneApart == /\ None \notin Devices
                   /\ None \notin Tokens
BY RegistryAssumption DEF Devices

\* The invariant of the one instance is the whole invariant.
LEMMA OneTask ==
    ASSUME OneInstance, NEW i \in Instances, RegistryTypeOK',
           IsFiniteSet({d \in Devices : docs[d] # None})', TaskInv(i)'
    PROVE  RegistryInv'
BY DEF OneInstance, RegistryInv

\* Fewer documents are finitely many, too.
LEMMA DocsFinite ==
    ASSUME RegistryInv, \A d \in Devices : docs'[d] # None => docs[d] # None
    PROVE  IsFiniteSet({d \in Devices : docs[d] # None})'
<1>1. {d \in Devices : docs[d] # None}' \subseteq {d \in Devices : docs[d] # None}
  OBVIOUS
<1> QED BY <1>1, FS_Subset DEF RegistryInv

-----------------------------------------------------------------------------
(* The device registry: the steps                                          *)

\* A handler starts where every token is in place.
LEMMA StartStep ==
    ASSUME OneInstance, RegistryInv, NEW i \in Instances, NEW task \in Tasks,
           Start(i, task), task.step \in {"dropOld", "set", "delete"},
           HoldersKnown(task), TaskFits(task), RoomLeft(task),
           waiting' \subseteq Registrations
    PROVE  RegistryInv'
<1>1. /\ tasks[i] = None /\ tasks' = [tasks EXCEPT ![i] = task]
      /\ UNCHANGED <<docs, pointers, dead, issued, torn>>
  BY DEF Start
<1>2. RegistryTypeOK'
  BY <1>1 DEF RegistryInv, RegistryTypeOK
<1>3. tasks'[i] = task
  BY <1>1 DEF RegistryInv, RegistryTypeOK
<1>4. \A d \in Devices, t \in Tokens \ torn : Holds(d, t) => pointers[t] = d
  BY <1>1 DEF RegistryInv, TaskInv, OthersOwned, InMotion
<1>5. OthersOwned(tasks[i])'
  BY <1>1, <1>4 DEF OthersOwned, Holds
<1>6. HoldersKnown(tasks[i])'
  BY <1>1, <1>3 DEF HoldersKnown, OnlyIn, Holds
<1>7. TaskFits(tasks[i])'
  BY <1>3 DEF TaskFits
<1>8. RoomLeft(tasks[i])'
  BY <1>1, <1>3 DEF RoomLeft, HasCapacity, DevicesOf
<1>9. IsFiniteSet({d \in Devices : docs[d] # None})'
  BY <1>1 DEF RegistryInv
<1> QED BY <1>2, <1>5, <1>6, <1>7, <1>8, <1>9, OneTask DEF TaskInv

LEMMA RequestStep ==
    ASSUME OneInstance, RegistryInv, NEW i \in Instances, NEW d \in Devices,
           \/ CreateDevice(i, d)
           \/ \E t \in Tokens : RegisterByAgent(i, d, t)
           \/ RemoveByAgent(i, d)
    PROVE  RegistryInv'
<1>1. waiting \subseteq Registrations
  BY DEF RegistryInv, RegistryTypeOK
<1>2. ASSUME NEW kind \in Kinds, NEW step \in Steps, NEW t \in Tokens \cup {None},
             NEW held \in Tokens \cup {None}
      PROVE  /\ Task(kind, step, d, t, held) \in Tasks
             /\ Task(kind, step, d, t, held).kind = kind
             /\ Task(kind, step, d, t, held).step = step
             /\ Task(kind, step, d, t, held).device = d
             /\ Task(kind, step, d, t, held).token = t
             /\ Task(kind, step, d, t, held).held = held
  BY DEF Task, Tasks
<1>3. CASE CreateDevice(i, d)
  <2> DEFINE task == Task("create", "set", d, None, None)
  <2>1. /\ task \in Tasks /\ task.kind = "create" /\ task.step = "set"
        /\ task.device = d /\ task.token = None /\ task.held = None
    BY <1>2 DEF Kinds, Steps
  <2>2. /\ Start(i, task) /\ UNCHANGED waiting /\ HasCapacity(AgentOf(d))
        /\ d \in Credentials
    BY <1>3 DEF CreateDevice
  <2> HIDE DEF task
  <2>3. HoldersKnown(task) /\ TaskFits(task) /\ RoomLeft(task)
    BY <2>1, <2>2, NoneApart DEF HoldersKnown, OnlyIn, TaskFits, RoomLeft
  <2> QED BY <1>1, <2>1, <2>2, <2>3, StartStep
<1>4. CASE \E t \in Tokens : RegisterByAgent(i, d, t)
  <2>1. PICK t \in Tokens : RegisterByAgent(i, d, t)
    BY <1>4
  <2> DEFINE task == Task("register", "set", d, t, None)
  <2>2. /\ task \in Tasks /\ task.kind = "register" /\ task.step = "set"
        /\ task.device = d /\ task.token = t /\ task.held = None
    BY <1>2 DEF Kinds, Steps
  <2>3. /\ Start(i, task) /\ UNCHANGED waiting
        /\ docs[d] # None \/ HasCapacity(AgentOf(d))
    BY <2>1 DEF RegisterByAgent
  <2> HIDE DEF task
  <2>4. HoldersKnown(task) /\ TaskFits(task) /\ RoomLeft(task)
    BY <2>2, <2>3, NoneApart DEF HoldersKnown, OnlyIn, TaskFits, RoomLeft
  <2> QED BY <1>1, <2>2, <2>3, <2>4, StartStep
<1>5. CASE RemoveByAgent(i, d)
  <2> DEFINE held == TokenIn(d)
             task == Task("remove", "delete", d, None, held)
  <2>1. held \in Tokens \cup {None}
    BY DEF TokenIn, RegistryInv, RegistryTypeOK, Documents
  <2>3. Start(i, task) /\ UNCHANGED waiting
    BY <1>5 DEF RemoveByAgent
  <2> HIDE DEF held
  <2>2. task \in Tasks /\ task.step = "delete"
    BY <2>1 DEF Task, Tasks, Kinds, Steps
  <2> HIDE DEF task
  <2>4. HoldersKnown(task) /\ TaskFits(task) /\ RoomLeft(task)
    BY <2>2 DEF HoldersKnown, TaskFits, RoomLeft
  <2> QED BY <1>1, <2>2, <2>3, <2>4, StartStep
<1> QED BY <1>3, <1>4, <1>5

\* An own registration drops the old pointer first if it is the app's.
LEMMA RegisterOwnStep ==
    ASSUME OneInstance, RegistryInv, NEW i \in Instances,
           NEW w \in waiting, NEW t \in Tokens, RegisterOwn(i, w, t)
    PROVE  RegistryInv'
<1> DEFINE release == w.token \notin {None, t} /\ pointers[w.token] = w.device
           held == IF release THEN w.token ELSE None
           task == Task("own", IF release THEN "dropOld" ELSE "set",
                        w.device, t, held)
<1>1. w \in Registrations /\ waiting' \subseteq Registrations
  BY DEF RegisterOwn, RegistryInv, RegistryTypeOK
<1>2. w.device \in Devices /\ w.token \in Tokens \cup {None}
  BY <1>1 DEF Registrations
<1>3. /\ task \in Tasks /\ task.kind = "own"
      /\ task.step = IF release THEN "dropOld" ELSE "set"
      /\ task.device = w.device /\ task.token = t /\ task.held = held
  BY <1>2 DEF Task, Tasks, Kinds, Steps
<1>4. Start(i, task)
  BY DEF RegisterOwn
<1> HIDE DEF task
<1>5. HoldersKnown(task) /\ TaskFits(task) /\ RoomLeft(task)
  <2>1. CASE release
    BY <1>2, <1>3, <2>1 DEF HoldersKnown, TaskFits, RoomLeft
  <2>2. CASE ~release
    BY <1>2, <1>3, <2>2, NoneApart DEF HoldersKnown, OnlyIn, TaskFits, RoomLeft
  <2> QED BY <2>1, <2>2
<1>6. task.step \in {"dropOld", "set", "delete"}
  BY <1>3
<1> QED BY <1>1, <1>3, <1>4, <1>5, <1>6, StartStep

LEMMA MulticastStep ==
    ASSUME OneInstance, RegistryInv, NEW i \in Instances, NEW a, Multicast(i, a)
    PROVE  RegistryInv'
<1> DEFINE listed == {[device |-> d, token |-> docs[d].token] : d \in DevicesOf(a)}
<1>1. PICK listing \in SUBSET listed :
          /\ \E r \in Unregistered(listing) :
                Start(i, [Task("prune", "delete", r.device, None, r.token)
                             EXCEPT !.todo = Unregistered(listing) \ {r}])
          /\ UNCHANGED waiting
  BY DEF Multicast
<1>2. listed \subseteq Registrations
  BY DEF DevicesOf, RegistryInv, RegistryTypeOK, Documents, Registrations
<1>3. PICK r \in Unregistered(listing) :
          Start(i, [Task("prune", "delete", r.device, None, r.token)
                       EXCEPT !.todo = Unregistered(listing) \ {r}])
  BY <1>1
<1> DEFINE task == [Task("prune", "delete", r.device, None, r.token)
                       EXCEPT !.todo = Unregistered(listing) \ {r}]
<1> HIDE DEF listed
<1>4. r \in Registrations /\ Unregistered(listing) \subseteq Registrations
  BY <1>1, <1>2 DEF Unregistered
<1>5. task \in Tasks /\ task.step = "delete"
  BY <1>4 DEF Task, Tasks, Kinds, Steps, Registrations
<1>6. Start(i, task)
  BY <1>3
<1> HIDE DEF task
<1>7. HoldersKnown(task) /\ TaskFits(task) /\ RoomLeft(task)
  BY <1>5 DEF HoldersKnown, TaskFits, RoomLeft
<1>8. waiting' \subseteq Registrations
  BY <1>1 DEF RegistryInv, RegistryTypeOK
<1> QED BY <1>5, <1>6, <1>7, <1>8, StartStep

\* A handler that is done leaves every token in place; so does one that goes on
\* with the next dead token.
LEMMA FinishStep ==
    ASSUME RegistryTypeOK, NEW i \in Instances, tasks[i] # None, Finish(i),
           \A d \in Devices, t \in Tokens \ torn' : Holds(d, t)' => pointers'[t] = d
    PROVE  tasks' \in [Instances -> Tasks \cup {None}] /\ TaskInv(i)'
<1>1. tasks[i] \in Tasks
  BY DEF RegistryTypeOK
<1>2. OthersOwned(tasks[i])'
  BY DEF OthersOwned
<1>3. CASE tasks' = [tasks EXCEPT ![i] = None]
  <2>1. tasks'[i] = None /\ tasks' \in [Instances -> Tasks \cup {None}]
    BY <1>3 DEF RegistryTypeOK
  <2> QED BY <1>2, <2>1 DEF TaskInv
<1>4. CASE \E r \in tasks[i].todo :
          tasks' = [tasks EXCEPT ![i].step = "delete", ![i].device = r.device,
                                 ![i].held = r.token, ![i].todo = @ \ {r}]
  <2>1. PICK r \in tasks[i].todo :
          tasks' = [tasks EXCEPT ![i].step = "delete", ![i].device = r.device,
                                 ![i].held = r.token, ![i].todo = @ \ {r}]
    BY <1>4
  <2> DEFINE task == [tasks[i] EXCEPT !.step = "delete", !.device = r.device,
                                      !.held = r.token, !.todo = @ \ {r}]
  <2>2. r.device \in Devices /\ r.token \in Tokens \cup {None}
    BY <1>1 DEF Tasks, Registrations
  <2>3. task \in Tasks /\ task.step = "delete"
    BY <1>1, <2>2 DEF Tasks, Steps
  <2>4. tasks' = [tasks EXCEPT ![i] = task]
    BY <2>1 DEF RegistryTypeOK
  <2> HIDE DEF task
  <2>5. tasks'[i] = task /\ tasks' \in [Instances -> Tasks \cup {None}]
    BY <2>3, <2>4 DEF RegistryTypeOK
  <2>6. HoldersKnown(tasks[i])' /\ TaskFits(tasks[i])' /\ RoomLeft(tasks[i])'
    BY <2>3, <2>5 DEF HoldersKnown, TaskFits, RoomLeft
  <2> QED BY <1>2, <2>5, <2>6 DEF TaskInv
<1> QED BY <1>3, <1>4 DEF Finish

\* Going to the next step changes nothing else of the task.
LEMMA GotoStep ==
    ASSUME RegistryTypeOK, NEW i \in Instances, tasks[i] # None,
           NEW step \in Steps, Goto(i, step)
    PROVE  /\ tasks' \in [Instances -> Tasks \cup {None}]
           /\ tasks'[i] = [tasks[i] EXCEPT !.step = step]
           /\ tasks'[i] \in Tasks /\ tasks'[i] # None
           /\ tasks'[i].step = step
           /\ tasks'[i].kind = tasks[i].kind
           /\ tasks'[i].device = tasks[i].device
           /\ tasks'[i].token = tasks[i].token
           /\ tasks'[i].held = tasks[i].held
           /\ tasks'[i].other = tasks[i].other
<1> DEFINE task == [tasks[i] EXCEPT !.step = step]
<1>1. tasks[i] \in Tasks /\ tasks' = [tasks EXCEPT ![i] = task]
  BY DEF RegistryTypeOK, Goto
<1>2. /\ task \in Tasks /\ task.step = step /\ task.kind = tasks[i].kind
      /\ task.device = tasks[i].device /\ task.token = tasks[i].token
      /\ task.held = tasks[i].held /\ task.other = tasks[i].other
  BY <1>1 DEF Tasks
<1> HIDE DEF task
<1>3. tasks'[i] = task /\ tasks' \in [Instances -> Tasks \cup {None}]
  BY <1>1, <1>2 DEF RegistryTypeOK
<1> QED BY <1>1, <1>2, <1>3, NoneAssumption DEF task

\* The old pointer of an app that registers anew is dropped.
LEMMA DropOldStep ==
    ASSUME OneInstance, RegistryInv, NEW i \in Instances, DropOldPointer(i)
    PROVE  RegistryInv'
<1> DEFINE task == tasks[i]
<1>1. /\ task # None /\ task.step = "dropOld"
      /\ pointers' = [pointers EXCEPT ![task.held] = None]
      /\ Goto(i, "set")
      /\ UNCHANGED <<docs, waiting, dead, issued, torn>>
  BY DEF DropOldPointer
<1>2. /\ HoldersKnown(task) /\ TaskFits(task)
      /\ RegistryTypeOK
      /\ \A d \in Devices, t \in Tokens \ torn : Holds(d, t) => pointers[t] = d
  BY <1>1 DEF RegistryInv, TaskInv, OthersOwned, InMotion
<1>3. /\ task.kind = "own" /\ task.held \in Tokens /\ task.token \in Tokens
      /\ pointers[task.held] = task.device /\ task.held # task.token
  BY <1>1, <1>2 DEF HoldersKnown, TaskFits
<1> HIDE DEF task
<1>4. /\ tasks' \in [Instances -> Tasks \cup {None}] /\ tasks'[i] # None
      /\ tasks'[i].step = "set" /\ tasks'[i].kind = "own"
      /\ tasks'[i].device = task.device /\ tasks'[i].token = task.token
      /\ tasks'[i].held = task.held
  BY <1>1, <1>2, <1>3, GotoStep DEF Steps, task
<1>5. pointers' \in [Tokens -> Devices \cup {None}]
  BY <1>1, <1>2 DEF RegistryTypeOK
<1>6. RegistryTypeOK'
  BY <1>1, <1>2, <1>4, <1>5 DEF RegistryTypeOK
<1>7. \A d \in Devices, t \in Tokens \ torn :
          Holds(d, t) /\ t # task.held => pointers'[t] = d
  BY <1>1, <1>2 DEF RegistryTypeOK
<1>8. OthersOwned(tasks[i])'
  BY <1>1, <1>4, <1>7 DEF OthersOwned, InMotion, Holds
<1>9. OnlyIn(task.device, task.held)
  BY <1>2, <1>3 DEF OnlyIn
<1>10. HoldersKnown(tasks[i])' /\ TaskFits(tasks[i])' /\ RoomLeft(tasks[i])'
  BY <1>1, <1>3, <1>4, <1>9 DEF HoldersKnown, TaskFits, RoomLeft, OnlyIn, Holds
<1> QED BY <1>1, <1>6, <1>8, <1>10, OneTask, DocsFinite DEF TaskInv

\* The document is written before the pointer: the token has one other holder
\* at most, the document its pointer named.
LEMMA SetDocumentStep ==
    ASSUME OneInstance, RegistryInv, NEW i \in Instances, SetDocument(i)
    PROVE  RegistryInv'
<1>0. PICK task : task = tasks[i]
  OBVIOUS
<1> DEFINE d == task.device
           t == task.token
           next == [task EXCEPT !.step = IF Previous(task) = None THEN "point"
                                         ELSE "previous",
                                !.other = Previous(task)]
<1>1. /\ task # None /\ task.step = "set" /\ task \in Tasks
      /\ docs' = [docs EXCEPT ![d] = Written(task)]
      /\ UNCHANGED <<pointers, waiting, dead, torn>>
  BY <1>0 DEF SetDocument, RegistryInv, RegistryTypeOK
<1>2. /\ HoldersKnown(task) /\ TaskFits(task) /\ OthersOwned(task) /\ RegistryTypeOK
  BY <1>0, <1>1 DEF RegistryInv, TaskInv
<1>3. /\ d \in Devices /\ t \in Tokens \cup {None} /\ task.held \in Tokens \cup {None}
      /\ task.kind \in {"create", "register", "own"}
  BY <1>1, <1>2 DEF Tasks, TaskFits
<1>4. Written(task) \in Documents /\ (task.kind # "create" => Written(task).token = t)
      /\ (task.kind = "create" => Written(task).token = None)
  BY <1>2, <1>3 DEF Written, Documents, RegistryTypeOK
<1>5. docs' \in [Devices -> Documents \cup {None}] /\ docs'[d] = Written(task)
      /\ \A e \in Devices : e # d => docs'[e] = docs[e]
  BY <1>1, <1>2, <1>3, <1>4 DEF RegistryTypeOK
<1>6. IsFiniteSet({e \in Devices : docs[e] # None})'
  <2>1. {e \in Devices : docs[e] # None}' \subseteq {e \in Devices : docs[e] # None} \cup {d}
    BY <1>5
  <2>2. IsFiniteSet({e \in Devices : docs[e] # None} \cup {d})
    BY FS_AddElement DEF RegistryInv
  <2> QED BY <2>1, <2>2, FS_Subset
<1>7. \A e \in Devices, u \in Tokens \ torn :
          Holds(e, u) /\ u # task.held => pointers[u] = e
  BY <1>1, <1>2 DEF OthersOwned, InMotion
<1>8. CASE task.kind = "create"
  <2>1. /\ tasks' = [tasks EXCEPT ![i] = None] /\ issued' = issued \cup {d}
        /\ d \in Credentials /\ task.held = None
    BY <1>0, <1>1, <1>2, <1>8 DEF SetDocument, TaskFits
  <2>2. RegistryTypeOK'
    BY <1>1, <1>2, <1>5, <2>1 DEF RegistryTypeOK
  <2>3. tasks'[i] = None
    BY <1>2, <2>1 DEF RegistryTypeOK
  <2>4. ASSUME NEW e \in Devices, NEW u \in Tokens \ torn, Holds(e, u)'
        PROVE  pointers[u] = e
    <3>1. Holds(e, u)
      BY <1>4, <1>5, <1>8, <2>4, NoneApart DEF Holds
    <3> QED BY <1>7, <2>1, <3>1, NoneApart
  <2>5. OthersOwned(tasks[i])'
    BY <1>1, <2>4 DEF OthersOwned
  <2> QED BY <1>6, <2>2, <2>3, <2>5, OneTask DEF TaskInv
<1>9. CASE task.kind # "create"
  <2>1. /\ t \in Tokens /\ task.held # t /\ Written(task).token = t
        /\ Previous(task) \in Devices \cup {None}
    BY <1>1, <1>2, <1>3, <1>4, <1>9 DEF TaskFits, Previous, RegistryTypeOK
  <2>2. tasks' = [tasks EXCEPT ![i] = next] /\ UNCHANGED issued
    BY <1>0, <1>1, <1>2, <1>9 DEF SetDocument, RegistryTypeOK
  <2>3. /\ next \in Tasks /\ next.device = d /\ next.token = t /\ next.held = task.held
        /\ next.other = Previous(task) /\ next.kind = task.kind
        /\ next.step = IF Previous(task) = None THEN "point" ELSE "previous"
    BY <1>1, <2>1 DEF Tasks, Steps
  <2> HIDE DEF next
  <2>4. tasks'[i] = next /\ next # None
    BY <1>2, <2>2, <2>3, NoneAssumption DEF RegistryTypeOK
  <2>5. RegistryTypeOK'
    BY <1>1, <1>2, <1>5, <2>2, <2>3 DEF RegistryTypeOK
  <2>6. ASSUME NEW e \in Devices, NEW u, Holds(e, u)'
        PROVE  (e = d /\ u = t) \/ (e # d /\ Holds(e, u))
    BY <1>5, <2>1, <2>6 DEF Holds
  <2>7. OthersOwned(tasks[i])'
    BY <1>1, <1>7, <2>3, <2>4, <2>6 DEF OthersOwned, InMotion
  <2>8. ASSUME NEW e \in Devices, t \notin torn, Holds(e, t)', e # d
        PROVE  Previous(task) = e
    <3>1. pointers[t] = e /\ docs[e] # None
      BY <1>7, <2>1, <2>6, <2>8 DEF Holds
    <3> QED BY <2>8, <3>1, NoneApart DEF Previous
  <2>9. OnlyIn(None, task.held)'
    <3>1. ASSUME NEW e \in Devices, task.held \in Tokens \ torn, Holds(e, task.held)'
          PROVE  FALSE
      BY <1>1, <1>2, <2>1, <2>6, <3>1 DEF HoldersKnown, OnlyIn
    <3> QED BY <1>1, <3>1 DEF OnlyIn
  <2>10. HoldersKnown(tasks[i])'
    <3>1. CASE Previous(task) = None
      <4>1. \A e \in Devices : t \notin torn /\ Holds(e, t)' => e = d
        BY <2>8, <3>1, NoneApart
      <4> QED BY <1>1, <2>3, <2>4, <2>9, <3>1, <4>1 DEF HoldersKnown, OnlyIn
    <3>2. CASE Previous(task) # None
      <4>1. \A e \in Devices : t \notin torn /\ Holds(e, t)'
                                   => e \in {d, Previous(task)}
        BY <2>8
      <4> QED BY <1>1, <2>3, <2>4, <2>9, <3>2, <4>1 DEF HoldersKnown, OnlyIn
    <3> QED BY <3>1, <3>2
  <2>11. TaskFits(tasks[i])' /\ RoomLeft(tasks[i])'
    BY <1>9, <2>1, <2>3, <2>4 DEF TaskFits, RoomLeft
  <2> QED BY <1>6, <2>5, <2>7, <2>10, <2>11, OneTask DEF TaskInv
<1> QED BY <1>8, <1>9

\* The document the pointer named is deleted: one holder of the token is left.
LEMMA DeletePreviousStep ==
    ASSUME OneInstance, RegistryInv, NEW i \in Instances, DeletePrevious(i)
    PROVE  RegistryInv'
<1>1. PICK task : task = tasks[i]
  OBVIOUS
<1>2. /\ task # None /\ task.step = "previous" /\ task \in Tasks
      /\ docs' = [docs EXCEPT ![task.other] = None]
      /\ Goto(i, "point")
      /\ UNCHANGED <<pointers, waiting, dead, issued, torn>>
  BY <1>1 DEF DeletePrevious, RegistryInv, RegistryTypeOK
<1>3. /\ HoldersKnown(task) /\ TaskFits(task) /\ OthersOwned(task) /\ RegistryTypeOK
  BY <1>1, <1>2 DEF RegistryInv, TaskInv
<1>4. /\ tasks' \in [Instances -> Tasks \cup {None}] /\ tasks'[i] # None
      /\ tasks'[i].step = "point" /\ tasks'[i].kind = task.kind
      /\ tasks'[i].device = task.device /\ tasks'[i].token = task.token
      /\ tasks'[i].held = task.held
  BY <1>1, <1>2, <1>3, GotoStep DEF Steps
<1>5. docs' \in [Devices -> Documents \cup {None}]
  BY <1>2, <1>3 DEF RegistryTypeOK
<1>6. RegistryTypeOK'
  BY <1>2, <1>3, <1>4, <1>5 DEF RegistryTypeOK
<1>7. \A e \in Devices : docs'[e] # None => docs[e] # None /\ docs'[e] = docs[e]
  BY <1>2, <1>3 DEF RegistryTypeOK
<1>8. \A e \in Devices : \A u : Holds(e, u)' => Holds(e, u) /\ e # task.other
  BY <1>2, <1>3, <1>7 DEF Holds, RegistryTypeOK
<1>9. OthersOwned(tasks[i])'
  BY <1>2, <1>3, <1>4, <1>8 DEF OthersOwned, InMotion
<1>10. HoldersKnown(tasks[i])'
  BY <1>2, <1>3, <1>4, <1>8 DEF HoldersKnown, OnlyIn
<1>11. TaskFits(tasks[i])' /\ RoomLeft(tasks[i])'
  BY <1>2, <1>3, <1>4 DEF TaskFits, RoomLeft
<1> QED BY <1>6, <1>7, <1>9, <1>10, <1>11, OneTask, DocsFinite DEF TaskInv

\* The pointer names the one document that holds the token.
LEMMA WritePointerStep ==
    ASSUME OneInstance, RegistryInv, NEW i \in Instances, WritePointer(i)
    PROVE  RegistryInv'
<1>1. PICK task : task = tasks[i]
  OBVIOUS
<1>2. /\ task # None /\ task.step = "point" /\ task \in Tasks
      /\ pointers' = [pointers EXCEPT ![task.token] = task.device]
      /\ Finish(i)
      /\ UNCHANGED <<docs, waiting, dead, issued, torn>>
  BY <1>1 DEF WritePointer, RegistryInv, RegistryTypeOK
<1>3. /\ HoldersKnown(task) /\ OthersOwned(task) /\ RegistryTypeOK
      /\ task.device \in Devices
  BY <1>1, <1>2 DEF RegistryInv, TaskInv, Tasks
<1>4. pointers' \in [Tokens -> Devices \cup {None}]
  BY <1>2, <1>3 DEF RegistryTypeOK
<1>5. ASSUME NEW e \in Devices, NEW u \in Tokens \ torn, Holds(e, u)
      PROVE  pointers'[u] = e
  <2>1. CASE u = task.token
    BY <1>2, <1>3, <1>5, <2>1 DEF HoldersKnown, OnlyIn, RegistryTypeOK
  <2>2. CASE u = task.held /\ u # task.token
    BY <1>2, <1>3, <1>5, <2>2, NoneApart DEF HoldersKnown, OnlyIn
  <2>3. CASE u # task.token /\ u # task.held
    BY <1>2, <1>3, <1>5, <2>3 DEF OthersOwned, InMotion, RegistryTypeOK
  <2> QED BY <2>1, <2>2, <2>3
<1>6. \A e \in Devices, u \in Tokens \ torn' : Holds(e, u)' => pointers'[u] = e
  BY <1>2, <1>5 DEF Holds
<1>7. tasks' \in [Instances -> Tasks \cup {None}] /\ TaskInv(i)'
  BY <1>1, <1>2, <1>3, <1>6, FinishStep
<1>8. RegistryTypeOK'
  BY <1>2, <1>3, <1>4, <1>7 DEF RegistryTypeOK
<1> QED BY <1>2, <1>7, <1>8, OneTask, DocsFinite

\* A deletion takes the document first; its token is in nobody's document then.
LEMMA DeleteDocumentStep ==
    ASSUME OneInstance, RegistryInv, NEW i \in Instances, DeleteDocument(i)
    PROVE  RegistryInv'
<1>1. PICK task : task = tasks[i]
  OBVIOUS
<1>2. /\ task # None /\ task.step = "delete" /\ task \in Tasks
      /\ docs' = [docs EXCEPT ![task.device] = None]
      /\ IF task.held # None /\ pointers[task.held] = task.device
         THEN Goto(i, "unpoint")
         ELSE Finish(i)
      /\ UNCHANGED <<pointers, waiting, dead, issued, torn>>
  BY <1>1 DEF DeleteDocument, RegistryInv, RegistryTypeOK
<1>3. /\ OthersOwned(task) /\ RegistryTypeOK
      /\ task.device \in Devices /\ task.held \in Tokens \cup {None}
  BY <1>1, <1>2 DEF RegistryInv, TaskInv, Tasks
<1>4. docs' \in [Devices -> Documents \cup {None}]
  BY <1>2, <1>3 DEF RegistryTypeOK
<1>5. \A e \in Devices : docs'[e] # None => docs[e] # None /\ docs'[e] = docs[e]
  BY <1>2, <1>3 DEF RegistryTypeOK
<1>6. \A e \in Devices : \A u : Holds(e, u)' => Holds(e, u) /\ e # task.device
  BY <1>2, <1>3, <1>5 DEF Holds, RegistryTypeOK
<1>7. \A e \in Devices, u \in Tokens \ torn' : Holds(e, u)' => pointers'[u] = e
  BY <1>2, <1>3, <1>6 DEF OthersOwned, InMotion
<1>8. tasks' \in [Instances -> Tasks \cup {None}] /\ TaskInv(i)'
  <2>1. CASE task.held # None /\ pointers[task.held] = task.device
    <3>1. Goto(i, "unpoint")
      BY <1>2, <2>1
    <3>2. /\ tasks' \in [Instances -> Tasks \cup {None}] /\ tasks'[i] # None
          /\ tasks'[i].step = "unpoint" /\ tasks'[i].held = task.held
      BY <1>1, <1>2, <1>3, <3>1, GotoStep DEF Steps
    <3>3. OthersOwned(tasks[i])'
      BY <1>7 DEF OthersOwned
    <3>4. \A e \in Devices, u \in Tokens \ torn' : Holds(e, u)' => u # task.held
      BY <1>2, <1>6, <1>7, <2>1
    <3>5. HoldersKnown(tasks[i])'
      BY <3>2, <3>4 DEF HoldersKnown, OnlyIn
    <3>6. TaskFits(tasks[i])' /\ RoomLeft(tasks[i])'
      BY <1>3, <2>1, <3>2 DEF TaskFits, RoomLeft
    <3> QED BY <3>2, <3>3, <3>5, <3>6 DEF TaskInv
  <2>2. CASE ~(task.held # None /\ pointers[task.held] = task.device)
    BY <1>1, <1>2, <1>3, <1>7, <2>2, FinishStep
  <2> QED BY <2>1, <2>2
<1>9. RegistryTypeOK'
  BY <1>2, <1>3, <1>4, <1>8 DEF RegistryTypeOK
<1> QED BY <1>5, <1>8, <1>9, OneTask, DocsFinite

LEMMA DropPointerStep ==
    ASSUME OneInstance, RegistryInv, NEW i \in Instances, DropPointer(i)
    PROVE  RegistryInv'
<1>1. PICK task : task = tasks[i]
  OBVIOUS
<1>2. /\ task # None /\ task.step = "unpoint" /\ task \in Tasks
      /\ pointers' = [pointers EXCEPT ![task.held] = None]
      /\ Finish(i)
      /\ UNCHANGED <<docs, waiting, dead, issued, torn>>
  BY <1>1 DEF DropPointer, RegistryInv, RegistryTypeOK
<1>3. /\ HoldersKnown(task) /\ OthersOwned(task) /\ RegistryTypeOK
  BY <1>1, <1>2 DEF RegistryInv, TaskInv
<1>4. pointers' \in [Tokens -> Devices \cup {None}]
  BY <1>2, <1>3 DEF RegistryTypeOK
<1>5. ASSUME NEW e \in Devices, NEW u \in Tokens \ torn, Holds(e, u)
      PROVE  pointers'[u] = e
  <2>1. CASE u = task.held
    BY <1>2, <1>3, <1>5, <2>1, NoneApart DEF HoldersKnown, OnlyIn
  <2>2. CASE u # task.held
    BY <1>2, <1>3, <1>5, <2>2 DEF OthersOwned, InMotion, RegistryTypeOK
  <2> QED BY <2>1, <2>2
<1>6. \A e \in Devices, u \in Tokens \ torn' : Holds(e, u)' => pointers'[u] = e
  BY <1>2, <1>5 DEF Holds
<1>7. tasks' \in [Instances -> Tasks \cup {None}] /\ TaskInv(i)'
  BY <1>1, <1>2, <1>3, <1>6, FinishStep
<1>8. RegistryTypeOK'
  BY <1>2, <1>3, <1>4, <1>7 DEF RegistryTypeOK
<1> QED BY <1>2, <1>7, <1>8, OneTask, DocsFinite

\* A handler that is cut short leaves its own tokens behind, and no other.
LEMMA CutStep ==
    ASSUME OneInstance, RegistryInv, NEW i \in Instances, Cut(i)
    PROVE  RegistryInv'
<1>1. PICK task : task = tasks[i]
  OBVIOUS
<1>2. /\ task # None /\ task \in Tasks
      /\ tasks' = [tasks EXCEPT ![i] = None]
      /\ torn' = torn \cup ({task.token, task.held} \ {None})
      /\ UNCHANGED <<docs, pointers, waiting, dead, issued>>
  BY <1>1 DEF Cut, Touched, RegistryInv, RegistryTypeOK
<1>3. OthersOwned(task) /\ RegistryTypeOK
  BY <1>1, <1>2 DEF RegistryInv, TaskInv
<1>4. tasks'[i] = None
  BY <1>2, <1>3 DEF RegistryTypeOK
<1>5. RegistryTypeOK'
  BY <1>2, <1>3 DEF RegistryTypeOK, Tasks
<1>6. \A u \in Tokens \ torn' : u \in Tokens \ torn /\ ~InMotion(task, u)
  BY <1>2, NoneApart DEF InMotion
<1>7. OthersOwned(tasks[i])'
  BY <1>2, <1>3, <1>6 DEF OthersOwned, Holds
<1> QED BY <1>2, <1>4, <1>5, <1>7, OneTask, DocsFinite DEF TaskInv

\* A step that leaves documents, pointers and handlers alone.
LEMMA RegistryQuietStep ==
    ASSUME RegistryInv, UNCHANGED <<docs, pointers, tasks, torn, issued>>,
           dead' \subseteq Tokens, waiting' \subseteq Registrations
    PROVE  RegistryInv'
BY DEF RegistryInv, RegistryTypeOK, TaskInv, OthersOwned, Holds, InMotion,
       HoldersKnown, OnlyIn, TaskFits, RoomLeft, HasCapacity, DevicesOf

LEMMA AuthenticateOwnStep ==
    ASSUME RegistryInv, NEW i, NEW d \in Devices, AuthenticateOwn(i, d)
    PROVE  RegistryInv'
<1>1. [device |-> d, token |-> docs[d].token] \in Registrations
  BY DEF AuthenticateOwn, RegistryInv, RegistryTypeOK, Documents, Registrations
<1> QED BY <1>1, RegistryQuietStep
        DEF AuthenticateOwn, RegistryInv, RegistryTypeOK

LEMMA RegistryInvStep ==
    ASSUME OneInstance, RegistryInv, [RegistryNext]_registryVars
    PROVE  RegistryInv'
<1>1. CASE \E i \in Instances : HandlerStep(i)
  BY <1>1, DropOldStep, SetDocumentStep, DeletePreviousStep, WritePointerStep,
     DeleteDocumentStep, DropPointerStep, CutStep DEF HandlerStep
<1>2. CASE \E i \in Instances, d \in Devices :
              \/ CreateDevice(i, d) \/ RemoveByAgent(i, d) \/ RemoveOwn(i, d)
              \/ \E t \in Tokens : RegisterByAgent(i, d, t)
  BY <1>2, RequestStep DEF RemoveOwn
<1>3. CASE \E i \in Instances, d \in Devices : AuthenticateOwn(i, d)
  BY <1>3, AuthenticateOwnStep
<1>4. CASE \E i \in Instances, w \in waiting, t \in Tokens : RegisterOwn(i, w, t)
  BY <1>4, RegisterOwnStep
<1>5. CASE \E i \in Instances, a \in Agents : Multicast(i, a)
  BY <1>5, MulticastStep
<1>6. CASE \E t \in Tokens : TokenDies(t)
  BY <1>6, RegistryQuietStep DEF TokenDies, RegistryInv, RegistryTypeOK
<1>7. CASE UNCHANGED registryVars
  BY <1>7, RegistryQuietStep DEF registryVars, RegistryInv, RegistryTypeOK
<1> QED BY <1>1, <1>2, <1>3, <1>4, <1>5, <1>6, <1>7 DEF RegistryNext

\* Only a registration or a claim adds a document, and its capacity was checked.
LEMMA CapacityStep ==
    ASSUME OneInstance, RegistryInv, [RegistryNext]_registryVars, NEW a \in Agents
    PROVE  \/ Cardinality(DevicesOf(a)') <= MaxDevices
           \/ DevicesOf(a)' \subseteq DevicesOf(a)
           \/ \E i \in Instances : tasks[i] # None /\ tasks[i].kind = "own"
<1>1. CASE \E i \in Instances : SetDocument(i)
  <2>1. PICK i \in Instances : SetDocument(i)
    BY <1>1
  <2>2. PICK task : task = tasks[i]
    OBVIOUS
  <2> DEFINE d == task.device
  <2>3. /\ task # None /\ task.step = "set" /\ task \in Tasks /\ d \in Devices
        /\ docs' = [docs EXCEPT ![d] = Written(task)]
    BY <2>1, <2>2 DEF SetDocument, RegistryInv, RegistryTypeOK, Tasks
  <2>4. docs \in [Devices -> Documents \cup {None}] /\ RoomLeft(task)
    BY <2>2, <2>3 DEF RegistryInv, RegistryTypeOK, TaskInv
  <2>5. CASE task.kind = "own"
    BY <2>2, <2>3, <2>5
  <2>6. CASE docs[d] # None \/ AgentOf(d) # a
    BY <2>3, <2>4, <2>6 DEF DevicesOf
  <2>7. CASE task.kind # "own" /\ docs[d] = None /\ AgentOf(d) = a
    <3>1. HasCapacity(a)
      BY <2>3, <2>4, <2>7 DEF RoomLeft
    <3>2. DevicesOf(a)' \subseteq DevicesOf(a) \cup {d} /\ d \notin DevicesOf(a)
      BY <2>3, <2>4, <2>7 DEF DevicesOf
    <3>3. DevicesOf(a) \subseteq {e \in Devices : docs[e] # None}
      BY DEF DevicesOf
    <3>4. IsFiniteSet(DevicesOf(a)) /\ Cardinality(DevicesOf(a)) \in Nat
      BY <3>3, FS_Subset, FS_CardinalityType DEF RegistryInv
    <3>5. /\ IsFiniteSet(DevicesOf(a) \cup {d})
          /\ Cardinality(DevicesOf(a) \cup {d}) = Cardinality(DevicesOf(a)) + 1
      BY <3>2, <3>4, FS_AddElement
    <3>6. /\ Cardinality(DevicesOf(a)') <= Cardinality(DevicesOf(a) \cup {d})
          /\ Cardinality(DevicesOf(a)') \in Nat
      BY <3>2, <3>5, FS_Subset, FS_CardinalityType
    <3> QED BY <3>1, <3>4, <3>5, <3>6, RegistryAssumption DEF HasCapacity
  <2> QED BY <2>5, <2>6, <2>7
<1>2. CASE \E i \in Instances : DeletePrevious(i) \/ DeleteDocument(i)
  <2>1. docs \in [Devices -> Documents \cup {None}]
    BY DEF RegistryInv, RegistryTypeOK
  <2>2. \E d : docs' = [docs EXCEPT ![d] = None]
    BY <1>2 DEF DeletePrevious, DeleteDocument
  <2> QED BY <2>1, <2>2 DEF DevicesOf
<1>3. CASE docs' = docs
  BY <1>3 DEF DevicesOf
<1>4. docs' = docs \/ \E i \in Instances :
          SetDocument(i) \/ DeletePrevious(i) \/ DeleteDocument(i)
  BY DEF RegistryNext, HandlerStep, DropOldPointer, WritePointer, DropPointer, Cut,
         CreateDevice, RegisterByAgent, RemoveByAgent, RemoveOwn, AuthenticateOwn,
         RegisterOwn, Multicast, TokenDies, Start, registryVars
<1> QED BY <1>1, <1>2, <1>3, <1>4

-----------------------------------------------------------------------------
(* The device registry: theorems                                           *)

\* With one instance every variable of the registry keeps its type.
THEOREM RegistryTypeCorrect ==
    ASSUME OneInstance
    PROVE  RegistrySpec => []RegistryTypeOK
<1>1. RegistryInv => RegistryTypeOK
  BY DEF RegistryInv
<1>2. RegistryInv /\ [RegistryNext]_registryVars => RegistryInv'
  BY RegistryInvStep
<1> QED BY <1>1, <1>2, RegistryInvInit, PTL DEF RegistrySpec

\* With one instance the pointer of a token names the one document that holds
\* it, but for tokens a handler is at work on or failed over (app.py
\* register_device, register_own_device, _delete_device_registration).
THEOREM OneOwnerCorrect ==
    ASSUME OneInstance
    PROVE  RegistrySpec => []OneOwner
<1>1. ASSUME RegistryInv PROVE OneOwner
  <2>1. ASSUME NEW d \in Devices, docs[d] # None,
               docs[d].token \notin torn \cup Busy \cup {None}
        PROVE  pointers[docs[d].token] = d
    <3> DEFINE t == docs[d].token
    <3>1. t \in Tokens \ torn /\ Holds(d, t)
      BY <1>1, <2>1 DEF RegistryInv, RegistryTypeOK, Documents, Holds
    <3>2. PICK i \in Instances : TRUE
      BY DEF OneInstance
    <3>3. t \notin Touched(i)
      BY <2>1, <3>2 DEF Busy
    <3>4. ~InMotion(tasks[i], t)
      BY <3>1, <3>3, NoneApart DEF InMotion, Touched
    <3> QED BY <1>1, <3>1, <3>4 DEF RegistryInv, TaskInv, OthersOwned
  <2> QED BY <2>1 DEF OneOwner
<1>2. RegistryInv /\ [RegistryNext]_registryVars => RegistryInv'
  BY RegistryInvStep
<1> QED BY <1>1, <1>2, RegistryInvInit, PTL DEF RegistrySpec

\* With one instance no handler but the app's own registration brings an Agent
\* above the limit (app.py _require_device_capacity).
THEOREM CapacityCorrect ==
    ASSUME OneInstance
    PROVE  RegistrySpec => CapacityKept
<1>1. RegistryInv /\ [RegistryNext]_registryVars => RegistryInv'
  BY RegistryInvStep
<1>2. RegistryInv /\ [RegistryNext]_registryVars =>
        [\A a \in Agents :
            \/ Cardinality(DevicesOf(a)') <= MaxDevices
            \/ DevicesOf(a)' \subseteq DevicesOf(a)
            \/ \E i \in Instances : tasks[i] # None /\ tasks[i].kind = "own"]_registryVars
  BY CapacityStep
<1> QED BY <1>1, <1>2, RegistryInvInit, PTL DEF RegistrySpec, CapacityKept

-----------------------------------------------------------------------------
(* The rate limiter                                                        *)

\* The recent requests of window k that are at most a old, and the times of the
\* window itself that are.
Young(k, a) == {n \in DOMAIN recent : recent[n].key = k /\ recent[n].age <= a}
InWindow(k, a) == {n \in DOMAIN windows[k] : windows[k][n] <= a}

\* The recent requests that were counted in window k, and the activations of them.
CountedIn(k) == {n \in DOMAIN recent : recent[n].key = k}
ActivationsIn(k) ==
    {n \in DOMAIN recent : recent[n].key = k /\ recent[n].kind = "activation"}

\* Both are kept oldest first.
OldestFirst ==
    /\ \A k \in DOMAIN windows : \A m, n \in DOMAIN windows[k] :
          m <= n => windows[k][m] >= windows[k][n]
    /\ \A m, n \in DOMAIN recent : m <= n => recent[m].age >= recent[n].age

\* A window has the time of every request of the last period that was counted in
\* it, and only windows without any are gone.
NoneForgotten ==
    \A k \in Clients \cup {Overflow}, a \in 0 .. Period - 1 :
        IF k \in DOMAIN windows
        THEN Cardinality(Young(k, a)) <= Cardinality(InWindow(k, a))
        ELSE Young(k, a) = {}

LimiterInv ==
    /\ LimiterTypeOK
    /\ OldestFirst
    /\ NoneForgotten
    /\ WithinLimits
    /\ Cardinality(DOMAIN windows \ {Overflow}) <= MaxWindows

LEMMA SubsetIsSmaller ==
    ASSUME NEW S, NEW T, IsFiniteSet(T), S \subseteq T
    PROVE  /\ IsFiniteSet(S) /\ Cardinality(S) \in Nat /\ Cardinality(T) \in Nat
           /\ Cardinality(S) <= Cardinality(T)
  BY FS_Subset, FS_CardinalityType

LEMMA InjectionBound ==
    ASSUME NEW S, NEW T, IsFiniteSet(T), NEW f \in [S -> T],
           \A x, y \in S : f[x] = f[y] => x = y
    PROVE  Cardinality(S) <= Cardinality(T)
<1>1. f \in Injection(S, T)
  BY DEF Injection, IsInjective
<1> QED BY <1>1, FS_Injection

LEMMA IntervalSize ==
    ASSUME NEW n \in Nat
    PROVE  IsFiniteSet(1 .. n) /\ Cardinality(1 .. n) = n
<1>1. IsFiniteSet(1 .. n) /\ Cardinality(1 .. n) = IF 1 > n THEN 0 ELSE n - 1 + 1
  BY FS_Interval
<1> QED BY <1>1

LEMMA OneMore ==
    ASSUME NEW S, IsFiniteSet(S), NEW x
    PROVE  /\ IsFiniteSet(S \cup {x}) /\ Cardinality(S) \in Nat
           /\ Cardinality(S \cup {x}) \in Nat
           /\ Cardinality(S \cup {x}) <= Cardinality(S) + 1
<1>1. Cardinality(S) \in Nat
  BY FS_CardinalityType
<1> QED BY <1>1, FS_AddElement

LEMMA LimiterConstants ==
    /\ Overflow \notin Clients /\ IsFiniteSet(Clients)
    /\ Period \in Nat \ {0} /\ MaxWindows \in Nat \ {0}
    /\ RequestLimit \in Nat \ {0} /\ ActivationLimit \in 1 .. RequestLimit
  BY LimiterAssumption

-----------------------------------------------------------------------------
(* Popping old times                                                       *)

LEMMA LeastOf ==
    ASSUME NEW S \in SUBSET Nat, S # {}
    PROVE  \E m \in S : \A k \in S : m <= k
<1>1. PICK m \in S : \A k \in S : ~(<<k, m>> \in OpToRel(<, Nat))
  BY WFMin, NatLessThanWellFounded
<1>2. \A k \in S : k \in Nat
  OBVIOUS
<1>3. \A k \in S : ~(k < m)
  BY <1>1, <1>2 DEF OpToRel
<1> QED BY <1>2, <1>3

\* The loop of _consume_window ends before the first time within the period.
LEMMA PoppedIs ==
    ASSUME NEW ages \in Seq(Nat)
    PROVE  /\ Popped(ages) \in 0 .. Len(ages)
           /\ \A m \in 1 .. Popped(ages) : ages[m] >= Period
           /\ Popped(ages) = Len(ages) \/ ages[Popped(ages) + 1] < Period
<1> USE LimiterConstants
<1> DEFINE Stops == {n \in 0 .. Len(ages) : n = Len(ages) \/ ages[n + 1] < Period}
<1>1. Len(ages) \in Nat /\ \A n \in 1 .. Len(ages) : ages[n] \in Nat
  OBVIOUS
<1>2. Stops \in SUBSET Nat /\ Stops # {}
  BY <1>1
<1>3. PICK p \in Stops : \A n \in Stops : p <= n
  <2> HIDE DEF Stops
  <2> QED BY <1>2, LeastOf
<1>4. ASSUME NEW m \in 1 .. p PROVE ages[m] >= Period
  <2>1. m - 1 \in 0 .. Len(ages) /\ m - 1 # Len(ages) /\ m - 1 < p
    BY <1>1, <1>3
  <2>2. m - 1 \notin Stops
    <3> HIDE DEF Stops
    <3>1. p \in Nat /\ m - 1 \in Int /\ ~(p <= m - 1)
      BY <1>2, <2>1
    <3> QED BY <1>3, <3>1
  <2>3. ~(ages[(m - 1) + 1] < Period)
    BY <2>1, <2>2
  <2>4. (m - 1) + 1 = m /\ ages[m] \in Nat
    BY <1>1, <1>3
  <2> QED BY <2>3, <2>4
<1>5. \E n \in 0 .. Len(ages) :
        /\ \A m \in 1 .. n : ages[m] >= Period
        /\ n = Len(ages) \/ ages[n + 1] < Period
  BY <1>3, <1>4
<1> QED BY <1>5 DEF Popped

LEMMA InPeriodIs ==
    ASSUME NEW w \in Seq(0 .. Period)
    PROVE  /\ InPeriod(w) \in Seq(0 .. Period)
           /\ Popped(w) \in 0 .. Len(w) /\ Len(InPeriod(w)) = Len(w) - Popped(w)
           /\ \A n \in 1 .. Len(InPeriod(w)) : InPeriod(w)[n] = w[n + Popped(w)]
           /\ \A n \in 1 .. Popped(w) : w[n] >= Period
<1> USE LimiterConstants
<1>1. w \in Seq(Nat) /\ Len(w) \in Nat
  OBVIOUS
<1>2. Popped(w) \in 0 .. Len(w) /\ \A n \in 1 .. Popped(w) : w[n] >= Period
  BY <1>1, PoppedIs
<1>3. PICK p \in 0 .. Len(w) : p = Popped(w)
  BY <1>2
<1>4. InPeriod(w) = SubSeq(w, p + 1, Len(w))
  BY <1>3 DEF InPeriod
<1>5. /\ Len(InPeriod(w)) = Len(w) - p /\ InPeriod(w) \in Seq(0 .. Period)
      /\ \A n \in 1 .. Len(InPeriod(w)) : InPeriod(w)[n] = w[n + p]
  BY <1>1, <1>4
<1> QED BY <1>2, <1>3, <1>5

\* Young times are not popped.
LEMMA YoungStay ==
    ASSUME NEW w \in Seq(0 .. Period), NEW a \in 0 .. Period - 1
    PROVE  LET v == InPeriod(w)
               young == {n \in DOMAIN w : w[n] <= a}
               kept == {n \in DOMAIN v : v[n] <= a}
           IN  /\ IsFiniteSet(young) /\ IsFiniteSet(kept)
               /\ Cardinality(young) <= Cardinality(kept)
               /\ Cardinality(young) \in Nat /\ Cardinality(kept) \in Nat
               /\ Cardinality(kept) <= Len(v)
<1> USE LimiterConstants
<1> DEFINE v == InPeriod(w)
           young == {n \in DOMAIN w : w[n] <= a}
           kept == {n \in DOMAIN v : v[n] <= a}
<1>1. PICK p \in 0 .. Len(w) :
        /\ v \in Seq(0 .. Period) /\ Len(v) = Len(w) - p /\ Len(w) \in Nat
        /\ \A n \in 1 .. Len(v) : v[n] = w[n + p]
        /\ \A n \in 1 .. p : w[n] >= Period
  <2>1. Popped(w) \in 0 .. Len(w) /\ Len(w) \in Nat
    BY InPeriodIs
  <2>2. PICK p \in 0 .. Len(w) : p = Popped(w)
    BY <2>1
  <2> QED BY <2>1, <2>2, InPeriodIs
<1> HIDE DEF v
<1>2. DOMAIN w = 1 .. Len(w) /\ DOMAIN v = 1 .. Len(v) /\ Len(v) \in Nat
      /\ \A n \in 1 .. Len(w) : w[n] \in 0 .. Period
  BY <1>1
<1>3. IsFiniteSet(1 .. Len(w)) /\ IsFiniteSet(1 .. Len(v)) /\ Cardinality(1 .. Len(v)) = Len(v)
  BY <1>2, <1>1, IntervalSize
<1> DEFINE f == [n \in young |-> n - p]
<1>4. f \in [young -> kept] /\ \A m, n \in young : f[m] = f[n] => m = n
  <2>1. ASSUME NEW n \in young PROVE n - p \in kept
    <3>1. n \in 1 .. Len(w) /\ ~(n \in 1 .. p) /\ w[n] <= a
      BY <1>1, <1>2
    <3>2. n - p \in 1 .. Len(v) /\ (n - p) + p = n
      BY <1>1, <3>1
    <3>3. v[n - p] = w[n]
      BY <1>1, <3>2
    <3> QED BY <1>2, <3>1, <3>2, <3>3
  <2>2. \A n \in young : n \in Int
    BY <1>2
  <2> QED BY <2>1, <2>2
<1>5. young \subseteq 1 .. Len(w) /\ kept \subseteq 1 .. Len(v)
  BY <1>2
<1> HIDE DEF young, kept, f
<1>6. /\ IsFiniteSet(young) /\ Cardinality(young) \in Nat
      /\ IsFiniteSet(kept) /\ Cardinality(kept) \in Nat /\ Cardinality(kept) <= Len(v)
  BY <1>3, <1>5, SubsetIsSmaller
<1>7. Cardinality(young) <= Cardinality(kept)
  BY <1>4, <1>6, InjectionBound
<1> QED BY <1>6, <1>7 DEF young, kept, v

-----------------------------------------------------------------------------
(* Looking for a window                                                    *)

\* The table that _client_window leaves has the window it gives; it lost idle
\* windows only, and is no larger than it may be.
LEMMA LookupIs ==
    ASSUME LimiterInv, NEW c \in Clients, NEW look \in Lookup(c)
    PROVE  /\ look.key \in Clients \cup {Overflow} /\ look.key \in look.table
           /\ look.table \subseteq DOMAIN windows \cup {look.key}
           /\ \A k \in DOMAIN windows \ look.table : Idle(k)
           /\ Cardinality(look.table \ {Overflow}) <= MaxWindows
<1> USE LimiterConstants
<1>1. /\ DOMAIN windows \subseteq Clients \cup {Overflow} /\ c # Overflow
      /\ Cardinality(DOMAIN windows \ {Overflow}) <= MaxWindows
  BY DEF LimiterInv, LimiterTypeOK
<1>2. IsFiniteSet(Clients \cup {Overflow})
  BY FS_AddElement
<1>3. \A T : T \subseteq Clients \cup {Overflow} => IsFiniteSet(T) /\ Cardinality(T) \in Nat
  BY <1>2, SubsetIsSmaller
<1>4. CASE c \in DOMAIN windows
  BY <1>1, <1>4 DEF Lookup
<1>5. CASE c \notin DOMAIN windows /\ Cardinality(DOMAIN windows) < MaxWindows
  <2>1. look.table = DOMAIN windows \cup {c} /\ look.key = c
    BY <1>5 DEF Lookup
  <2>2. Cardinality(DOMAIN windows \cup {c}) <= MaxWindows
        /\ IsFiniteSet(DOMAIN windows \cup {c})
    BY <1>1, <1>3, <1>5, FS_AddElement
  <2>3. Cardinality(look.table \ {Overflow}) <= Cardinality(look.table)
        /\ Cardinality(look.table \ {Overflow}) \in Nat /\ Cardinality(look.table) \in Nat
    BY <2>1, <2>2, SubsetIsSmaller
  <2> QED BY <1>1, <2>1, <2>2, <2>3
<1>6. CASE c \notin DOMAIN windows /\ ~(Cardinality(DOMAIN windows) < MaxWindows)
  <2>1. PICK E \in Evicted :
           LET kept == DOMAIN windows \ E
               key == IF Cardinality(kept) < MaxWindows THEN c ELSE Overflow
           IN  look = [table |-> kept \cup {key}, key |-> key]
    BY <1>6 DEF Lookup
  <2>2. E \subseteq IdleWindows
    BY DEF Evicted
  <2> DEFINE kept == DOMAIN windows \ E
  <2>3. /\ look.key = IF Cardinality(kept) < MaxWindows THEN c ELSE Overflow
        /\ look.table = kept \cup {look.key}
    BY <2>1
  <2>4. CASE Cardinality(kept) < MaxWindows
    <3>1. IsFiniteSet(kept) /\ Cardinality(kept) \in Nat
      BY <1>1, <1>3
    <3>2. Cardinality(kept \cup {c}) <= MaxWindows /\ IsFiniteSet(kept \cup {c})
      <4> HIDE DEF kept
      <4> QED BY <2>4, <3>1, FS_AddElement
    <3>3. Cardinality(look.table \ {Overflow}) <= Cardinality(look.table)
          /\ Cardinality(look.table \ {Overflow}) \in Nat
          /\ Cardinality(look.table) \in Nat /\ look.table = kept \cup {c} /\ look.key = c
      BY <2>3, <2>4, <3>2, SubsetIsSmaller
    <3> QED BY <1>1, <2>2, <3>2, <3>3 DEF IdleWindows
  <2>5. CASE ~(Cardinality(kept) < MaxWindows)
    <3>1. look.key = Overflow /\ look.table = kept \cup {Overflow}
      BY <2>3, <2>5
    <3>2. look.table \ {Overflow} \subseteq DOMAIN windows \ {Overflow}
      BY <3>1
    <3>3. IsFiniteSet(DOMAIN windows \ {Overflow})
      BY <1>1, <1>3
    <3>4. /\ Cardinality(look.table \ {Overflow}) <= Cardinality(DOMAIN windows \ {Overflow})
          /\ Cardinality(look.table \ {Overflow}) \in Nat
          /\ Cardinality(DOMAIN windows \ {Overflow}) \in Nat
      BY <3>2, <3>3, SubsetIsSmaller
    <3> QED BY <1>1, <2>2, <3>1, <3>4 DEF IdleWindows
  <2> QED BY <2>4, <2>5
<1> QED BY <1>4, <1>5, <1>6

LEMMA YoungFinite ==
    ASSUME LimiterTypeOK
    PROVE  /\ \A k, a : IsFiniteSet(Young(k, a)) /\ Cardinality(Young(k, a)) \in Nat
           /\ \A k : IsFiniteSet(CountedIn(k)) /\ Cardinality(CountedIn(k)) \in Nat
           /\ \A k : /\ IsFiniteSet(ActivationsIn(k))
                     /\ Cardinality(ActivationsIn(k)) \in Nat
                     /\ Cardinality(ActivationsIn(k)) <= Cardinality(CountedIn(k))
<1>1. Len(recent) \in Nat /\ DOMAIN recent = 1 .. Len(recent)
  BY DEF LimiterTypeOK
<1>2. IsFiniteSet(DOMAIN recent)
  BY <1>1, IntervalSize
<1>3. \A k, a : Young(k, a) \subseteq DOMAIN recent
  BY DEF Young
<1>4. \A k : CountedIn(k) \subseteq DOMAIN recent /\ ActivationsIn(k) \subseteq CountedIn(k)
  BY DEF CountedIn, ActivationsIn
<1> QED BY <1>2, <1>3, <1>4, SubsetIsSmaller

\* An idle window has no time within the period.
LEMMA IdleIsOld ==
    ASSUME LimiterInv, NEW k \in DOMAIN windows, Idle(k), NEW a \in 0 .. Period - 1
    PROVE  Young(k, a) = {}
<1> USE LimiterConstants
<1>1. windows[k] \in Seq(0 .. Period) /\ k \in Clients \cup {Overflow}
  BY DEF LimiterInv, LimiterTypeOK
<1>2. PICK w \in Seq(0 .. Period) : w = windows[k]
  BY <1>1
<1>3. Len(w) \in Nat /\ DOMAIN w = 1 .. Len(w) /\ \A n \in 1 .. Len(w) : w[n] \in 0 .. Period
  OBVIOUS
<1>4. \A n \in DOMAIN w : w[n] >= Period
  <2>1. SUFFICES ASSUME NEW n \in DOMAIN w PROVE w[n] >= Period
    OBVIOUS
  <2>2. w # <<>> /\ Len(w) \in DOMAIN w /\ n <= Len(w)
    BY <1>3
  <2>3. w[Len(w)] >= Period
    BY <1>2, <2>2 DEF Idle
  <2>4. w[n] >= w[Len(w)]
    BY <1>2, <2>2 DEF LimiterInv, OldestFirst
  <2> QED BY <1>3, <2>2, <2>3, <2>4
<1>5. InWindow(k, a) = {}
  BY <1>2, <1>3, <1>4 DEF InWindow
<1>6. Cardinality(Young(k, a)) <= 0
  BY <1>1, <1>5, FS_EmptySet DEF LimiterInv, NoneForgotten
<1>7. IsFiniteSet(Young(k, a)) /\ Cardinality(Young(k, a)) \in Nat
  BY YoungFinite DEF LimiterInv
<1> QED BY <1>6, <1>7, FS_EmptySet

\* What _consume_window finds: no request of the last period is missing.
LEMMA CountedIs ==
    ASSUME LimiterInv, NEW k \in Clients \cup {Overflow}, NEW v, v = Counted(k)
    PROVE  /\ v \in Seq(0 .. Period)
           /\ \A m, n \in DOMAIN v : m <= n => v[m] >= v[n]
           /\ \A a \in 0 .. Period - 1 :
                 /\ IsFiniteSet({n \in DOMAIN v : v[n] <= a})
                 /\ Cardinality({n \in DOMAIN v : v[n] <= a}) \in Nat
                 /\ Cardinality({n \in DOMAIN v : v[n] <= a}) <= Len(v)
                 /\ Cardinality(Young(k, a)) <= Cardinality({n \in DOMAIN v : v[n] <= a})
<1> USE LimiterConstants
<1>1. LimiterTypeOK /\ OldestFirst /\ NoneForgotten
  BY DEF LimiterInv
<1>2. CASE k \in DOMAIN windows
  <2>1. PICK w \in Seq(0 .. Period) : w = windows[k]
    BY <1>1, <1>2 DEF LimiterTypeOK
  <2>2. v = InPeriod(w)
    BY <1>2, <2>1 DEF Counted
  <2>3. /\ v \in Seq(0 .. Period) /\ Popped(w) \in 0 .. Len(w)
        /\ Len(v) = Len(w) - Popped(w) /\ \A n \in 1 .. Len(v) : v[n] = w[n + Popped(w)]
    BY <2>2, InPeriodIs
  <2>4. ASSUME NEW m \in DOMAIN v, NEW n \in DOMAIN v, m <= n PROVE v[m] >= v[n]
    <3>1. PICK p \in 0 .. Len(w) : p = Popped(w)
      BY <2>3
    <3>2. m + p \in DOMAIN w /\ n + p \in DOMAIN w /\ m + p <= n + p
      BY <2>3, <2>4, <3>1
    <3>3. v[m] = w[m + p] /\ v[n] = w[n + p]
      BY <2>3, <3>1
    <3> QED BY <1>1, <1>2, <2>1, <3>2, <3>3 DEF OldestFirst
  <2>5. ASSUME NEW a \in 0 .. Period - 1
        PROVE  Cardinality(Young(k, a)) <= Cardinality({n \in DOMAIN w : w[n] <= a})
    BY <1>1, <1>2, <2>1 DEF NoneForgotten, InWindow
  <2>6. \A a : Cardinality(Young(k, a)) \in Nat
    BY <1>1, YoungFinite
  <2>7. ASSUME NEW a \in 0 .. Period - 1
        PROVE  /\ IsFiniteSet({n \in DOMAIN v : v[n] <= a})
               /\ Cardinality({n \in DOMAIN v : v[n] <= a}) \in Nat
               /\ Cardinality({n \in DOMAIN v : v[n] <= a}) <= Len(v)
               /\ Cardinality(Young(k, a)) <= Cardinality({n \in DOMAIN v : v[n] <= a})
    <3> DEFINE young == {n \in DOMAIN w : w[n] <= a}
               kept == {n \in DOMAIN v : v[n] <= a}
    <3>1. /\ IsFiniteSet(kept) /\ Cardinality(young) <= Cardinality(kept)
          /\ Cardinality(young) \in Nat /\ Cardinality(kept) \in Nat
          /\ Cardinality(kept) <= Len(v)
      BY <2>2, YoungStay
    <3>2. Cardinality(Young(k, a)) <= Cardinality(young)
      BY <2>5
    <3> HIDE DEF young
    <3> QED BY <2>6, <3>1, <3>2
  <2> QED BY <2>3, <2>4, <2>7
<1>3. CASE k \notin DOMAIN windows
  <2>1. v = <<>> /\ DOMAIN v = {} /\ Len(v) = 0
    BY <1>3 DEF Counted
  <2>2. \A a \in 0 .. Period - 1 : Young(k, a) = {}
    BY <1>1, <1>3 DEF NoneForgotten
  <2>3. \A a : {n \in DOMAIN v : v[n] <= a} = {}
    BY <2>1
  <2> QED BY <2>1, <2>2, <2>3, FS_EmptySet
<1> QED BY <1>2, <1>3

\* The other windows are kept or were idle.
LEMMA StoredKeeps ==
    ASSUME LimiterInv, NEW c \in Clients, NEW look \in Lookup(c),
           NEW w \in Seq(0 .. Period), \A m, n \in DOMAIN w : m <= n => w[m] >= w[n],
           windows' = Stored(look, w)
    PROVE  /\ DOMAIN windows' = look.table /\ windows'[look.key] = w
           /\ DOMAIN windows' \subseteq Clients \cup {Overflow}
           /\ \A k \in DOMAIN windows' : windows'[k] \in Seq(0 .. Period)
           /\ \A k \in DOMAIN windows' : \A m, n \in DOMAIN windows'[k] :
                 m <= n => windows'[k][m] >= windows'[k][n]
           /\ Cardinality(DOMAIN windows' \ {Overflow}) <= MaxWindows
           /\ \A k \in Clients \cup {Overflow}, a \in 0 .. Period - 1 :
                 k # look.key =>
                    IF k \in DOMAIN windows'
                    THEN Cardinality(Young(k, a)) <= Cardinality(InWindow(k, a)')
                    ELSE Young(k, a) = {}
<1> USE LimiterConstants
<1>1. /\ look.key \in Clients \cup {Overflow} /\ look.key \in look.table
      /\ look.table \subseteq DOMAIN windows \cup {look.key}
      /\ \A k \in DOMAIN windows \ look.table : Idle(k)
      /\ Cardinality(look.table \ {Overflow}) <= MaxWindows
  BY LookupIs
<1>2. LimiterTypeOK /\ OldestFirst /\ NoneForgotten
  BY DEF LimiterInv
<1>3. /\ DOMAIN windows' = look.table /\ windows'[look.key] = w
      /\ \A k \in look.table : k # look.key => k \in DOMAIN windows /\ windows'[k] = windows[k]
  BY <1>1 DEF Stored
<1>4. /\ DOMAIN windows' \subseteq Clients \cup {Overflow}
      /\ \A k \in DOMAIN windows' : windows'[k] \in Seq(0 .. Period)
  BY <1>1, <1>2, <1>3 DEF LimiterTypeOK
<1>5. \A k \in DOMAIN windows' : \A m, n \in DOMAIN windows'[k] :
        m <= n => windows'[k][m] >= windows'[k][n]
  BY <1>2, <1>3 DEF OldestFirst
<1>6. ASSUME NEW k \in Clients \cup {Overflow}, NEW a \in 0 .. Period - 1, k # look.key
      PROVE  IF k \in DOMAIN windows'
             THEN Cardinality(Young(k, a)) <= Cardinality(InWindow(k, a)')
             ELSE Young(k, a) = {}
  <2>1. CASE k \in look.table
    <3>1. InWindow(k, a)' = InWindow(k, a)
      BY <1>3, <1>6, <2>1 DEF InWindow
    <3> QED BY <1>2, <1>3, <1>6, <2>1, <3>1 DEF NoneForgotten
  <2>2. CASE k \in DOMAIN windows \ look.table
    BY <1>1, <1>3, <2>2, IdleIsOld
  <2>3. CASE k \notin DOMAIN windows /\ k \notin look.table
    BY <1>2, <1>3, <2>3 DEF NoneForgotten
  <2> QED BY <2>1, <2>2, <2>3
<1> QED BY <1>1, <1>3, <1>4, <1>5, <1>6

LEMMA LimitsInSets ==
    /\ WithinLimits <=>
          \A k \in Clients \cup {Overflow} :
             /\ Cardinality(CountedIn(k)) <= RequestLimit
             /\ Cardinality(ActivationsIn(k)) <= ActivationLimit
    /\ LimiterTypeOK => \A k : CountedIn(k) = Young(k, Period - 1)
<1>1. WithinLimits <=>
          \A k \in Clients \cup {Overflow} :
             /\ Cardinality(CountedIn(k)) <= RequestLimit
             /\ Cardinality(ActivationsIn(k)) <= ActivationLimit
  BY DEF WithinLimits, RecentOf, CountedIn, ActivationsIn
<1>2. ASSUME LimiterTypeOK, NEW k PROVE CountedIn(k) = Young(k, Period - 1)
  <2>1. \A n \in DOMAIN recent : recent[n].age \in 0 .. Period - 1
    <3>1. \A n \in DOMAIN recent : recent[n] \in AdmittedRequests
      BY <1>2 DEF LimiterTypeOK
    <3> QED BY <3>1 DEF AdmittedRequests
  <2> QED BY <2>1, LimiterConstants DEF CountedIn, Young
<1> QED BY <1>1, <1>2

-----------------------------------------------------------------------------
(* Each step keeps the invariant                                           *)

LEMMA LimiterInvInit == LimiterInit => LimiterInv
<1> SUFFICES ASSUME LimiterInit PROVE LimiterInv
  OBVIOUS
<1> USE LimiterConstants
<1>1. DOMAIN windows = {} /\ recent = <<>> /\ DOMAIN recent = {}
  BY DEF LimiterInit
<1>2. LimiterTypeOK /\ OldestFirst
  BY <1>1 DEF LimiterTypeOK, OldestFirst
<1>3. NoneForgotten /\ \A k : CountedIn(k) = {} /\ ActivationsIn(k) = {}
  BY <1>1 DEF NoneForgotten, Young, CountedIn, ActivationsIn
<1>4. WithinLimits
  BY <1>3, LimitsInSets, FS_EmptySet
<1>5. Cardinality(DOMAIN windows \ {Overflow}) <= MaxWindows
  BY <1>1, FS_EmptySet
<1> QED BY <1>2, <1>3, <1>4, <1>5 DEF LimiterInv

LEMMA RefuseKeepsInv ==
    ASSUME LimiterInv, NEW c \in Clients, NEW kind \in RequestKinds, Refuse(c, kind)
    PROVE  LimiterInv'
<1>1. PICK look \in Lookup(c) :
        windows' = Stored(look, Counted(look.key)) /\ UNCHANGED recent
  BY DEF Refuse
<1>2. PICK key \in Clients \cup {Overflow} : key = look.key
  BY LookupIs
<1>3. PICK v : v = Counted(key)
  OBVIOUS
<1>4. /\ v \in Seq(0 .. Period) /\ \A m, n \in DOMAIN v : m <= n => v[m] >= v[n]
      /\ windows' = Stored(look, v)
  BY <1>1, <1>2, <1>3, CountedIs
<1>5. LimiterTypeOK' /\ OldestFirst' /\ Cardinality(DOMAIN windows' \ {Overflow}) <= MaxWindows
  BY <1>1, <1>4, StoredKeeps DEF LimiterInv, LimiterTypeOK, OldestFirst
<1>6. \A k, a : Young(k, a)' = Young(k, a)
  BY <1>1 DEF Young
<1>7. ASSUME NEW a \in 0 .. Period - 1
      PROVE  key \in DOMAIN windows' /\ Cardinality(Young(key, a)) <= Cardinality(InWindow(key, a)')
  <2>1. key \in DOMAIN windows' /\ windows'[key] = v
    BY <1>2, <1>4, StoredKeeps, LookupIs
  <2>2. InWindow(key, a)' = {n \in DOMAIN v : v[n] <= a}
    BY <2>1 DEF InWindow
  <2> QED BY <1>3, <2>1, <2>2, CountedIs
<1>8. ASSUME NEW k \in Clients \cup {Overflow}, NEW a \in 0 .. Period - 1, k # key
      PROVE  IF k \in DOMAIN windows'
             THEN Cardinality(Young(k, a)) <= Cardinality(InWindow(k, a)')
             ELSE Young(k, a) = {}
  BY <1>2, <1>4, <1>8, StoredKeeps
<1>9. NoneForgotten'
  BY <1>6, <1>7, <1>8 DEF NoneForgotten
<1>10. WithinLimits'
  BY <1>1 DEF LimiterInv, WithinLimits, RecentOf
<1> QED BY <1>5, <1>9, <1>10 DEF LimiterInv

LEMMA AdmitKeepsInv ==
    ASSUME LimiterInv, NEW c \in Clients, NEW kind \in RequestKinds, Admit(c, kind)
    PROVE  LimiterInv'
<1> USE LimiterConstants
<1>1. PICK look \in Lookup(c) :
        /\ Len(Counted(look.key)) < LimitOf(kind)
        /\ windows' = Stored(look, Append(Counted(look.key), 0))
        /\ recent' = Append(recent, [client |-> c, key |-> look.key,
                                     kind |-> kind, age |-> 0])
  BY DEF Admit
<1>2. PICK key \in Clients \cup {Overflow} : key = look.key
  BY LookupIs
<1>3. PICK v : v = Counted(key)
  OBVIOUS
<1>4. PICK w : w = Append(v, 0)
  OBVIOUS
<1>5. v \in Seq(0 .. Period) /\ Len(v) \in Nat /\ \A m, n \in DOMAIN v : m <= n => v[m] >= v[n]
  BY <1>3, CountedIs
<1>6. /\ w \in Seq(0 .. Period) /\ DOMAIN w = DOMAIN v \cup {Len(v) + 1}
      /\ DOMAIN v = 1 .. Len(v) /\ w[Len(v) + 1] = 0
      /\ \A n \in DOMAIN v : w[n] = v[n] /\ v[n] \in 0 .. Period
  BY <1>4, <1>5
<1>7. \A m, n \in DOMAIN w : m <= n => w[m] >= w[n]
  BY <1>5, <1>6
<1>8. windows' = Stored(look, w)
  BY <1>1, <1>2, <1>3, <1>4
<1>9. PICK N : N = Len(recent) + 1
  OBVIOUS
<1>10. LimiterTypeOK /\ recent \in Seq(AdmittedRequests)
  BY DEF LimiterInv, LimiterTypeOK
<1>11. PICK q \in AdmittedRequests : q = [client |-> c, key |-> key, kind |-> kind, age |-> 0]
  <2>1. 0 \in 0 .. Period - 1
    OBVIOUS
  <2>2. [client |-> c, key |-> key, kind |-> kind, age |-> 0] \in AdmittedRequests
    BY <2>1 DEF AdmittedRequests
  <2> QED BY <2>2
<1>12. /\ recent' \in Seq(AdmittedRequests) /\ DOMAIN recent' = DOMAIN recent \cup {N}
       /\ DOMAIN recent = 1 .. Len(recent) /\ Len(recent) \in Nat /\ N \notin DOMAIN recent
       /\ recent'[N] = q /\ \A n \in DOMAIN recent : recent'[n] = recent[n]
  BY <1>1, <1>2, <1>9, <1>10, <1>11
<1>13. LimiterTypeOK' /\ Cardinality(DOMAIN windows' \ {Overflow}) <= MaxWindows
  BY <1>6, <1>7, <1>8, <1>12, StoredKeeps DEF LimiterTypeOK
<1>14. OldestFirst'
  <2>1. \A n \in DOMAIN recent : recent[n].age \in 0 .. Period - 1
    <3>1. \A n \in DOMAIN recent : recent[n] \in AdmittedRequests
      BY <1>10
    <3> QED BY <3>1 DEF AdmittedRequests
  <2>2. \A m, n \in DOMAIN recent' : m <= n => recent'[m].age >= recent'[n].age
    BY <1>9, <1>11, <1>12, <2>1 DEF LimiterInv, OldestFirst
  <2> QED BY <1>6, <1>7, <1>8, <2>2, StoredKeeps DEF OldestFirst
<1>15. /\ \A k, a : k # key => Young(k, a)' = Young(k, a)
       /\ \A k : k # key => /\ CountedIn(k)' = CountedIn(k)
                            /\ ActivationsIn(k)' = ActivationsIn(k)
       /\ CountedIn(key)' = CountedIn(key) \cup {N}
       /\ kind # "activation" => ActivationsIn(key)' = ActivationsIn(key)
       /\ \A a : Young(key, a)' \subseteq Young(key, a) \cup {N}
  BY <1>11, <1>12 DEF Young, CountedIn, ActivationsIn
<1>16. ASSUME NEW a \in 0 .. Period - 1
       PROVE  key \in DOMAIN windows'
              /\ Cardinality(Young(key, a)') <= Cardinality(InWindow(key, a)')
  <2>1. key \in DOMAIN windows' /\ windows'[key] = w
    BY <1>2, <1>6, <1>7, <1>8, StoredKeeps, LookupIs
  <2> DEFINE kept == {n \in DOMAIN v : v[n] <= a}
  <2>2. InWindow(key, a)' = kept \cup {Len(v) + 1} /\ Len(v) + 1 \notin kept
    BY <1>5, <1>6, <2>1 DEF InWindow
  <2>3. /\ IsFiniteSet(kept) /\ Cardinality(kept) \in Nat
        /\ Cardinality(Young(key, a)) <= Cardinality(kept)
    BY <1>3, CountedIs
  <2> HIDE DEF kept
  <2>4. Cardinality(InWindow(key, a)') = Cardinality(kept) + 1
    BY <2>2, <2>3, FS_AddElement
  <2>5. /\ IsFiniteSet(Young(key, a)) /\ Cardinality(Young(key, a)) \in Nat
    BY <1>10, YoungFinite
  <2>6. /\ IsFiniteSet(Young(key, a) \cup {N})
        /\ Cardinality(Young(key, a) \cup {N}) <= Cardinality(Young(key, a)) + 1
    BY <2>5, OneMore
  <2>7. /\ Cardinality(Young(key, a)') <= Cardinality(Young(key, a) \cup {N})
        /\ Cardinality(Young(key, a)') \in Nat /\ Cardinality(Young(key, a) \cup {N}) \in Nat
    BY <1>15, <2>6, SubsetIsSmaller
  <2> QED BY <2>1, <2>3, <2>4, <2>5, <2>6, <2>7
<1>17. ASSUME NEW k \in Clients \cup {Overflow}, NEW a \in 0 .. Period - 1, k # key
       PROVE  IF k \in DOMAIN windows'
              THEN Cardinality(Young(k, a)') <= Cardinality(InWindow(k, a)')
              ELSE Young(k, a)' = {}
  BY <1>2, <1>6, <1>7, <1>8, <1>15, <1>17, StoredKeeps
<1>18. NoneForgotten'
  BY <1>16, <1>17 DEF NoneForgotten
<1>19. Cardinality(CountedIn(key)') <= LimitOf(kind) /\ Cardinality(CountedIn(key)') \in Nat
  <2>1. Cardinality(CountedIn(key)) <= Len(v)
    <3>1. PICK a \in 0 .. Period - 1 : a = Period - 1
      OBVIOUS
    <3>2. Cardinality(Young(key, a)) <= Cardinality({n \in DOMAIN v : v[n] <= a})
          /\ Cardinality({n \in DOMAIN v : v[n] <= a}) <= Len(v)
          /\ Cardinality({n \in DOMAIN v : v[n] <= a}) \in Nat
      BY <1>3, CountedIs
    <3>3. CountedIn(key) = Young(key, a) /\ Cardinality(Young(key, a)) \in Nat
      BY <1>10, <3>1, LimitsInSets, YoungFinite
    <3> QED BY <1>5, <3>2, <3>3
  <2>2. IsFiniteSet(CountedIn(key)) /\ Cardinality(CountedIn(key)) \in Nat
    BY <1>10, YoungFinite
  <2>3. /\ Cardinality(CountedIn(key)') <= Cardinality(CountedIn(key)) + 1
        /\ Cardinality(CountedIn(key)') \in Nat
    BY <1>15, <2>2, OneMore
  <2>4. Len(v) < LimitOf(kind) /\ LimitOf(kind) \in Nat
    BY <1>1, <1>2, <1>3 DEF LimitOf
  <2> QED BY <1>5, <2>1, <2>2, <2>3, <2>4
<1>20. /\ Cardinality(ActivationsIn(key)') \in Nat
       /\ Cardinality(ActivationsIn(key)') <= Cardinality(CountedIn(key)')
  <2>1. IsFiniteSet(CountedIn(key)')
    <3>1. IsFiniteSet(CountedIn(key))
      BY <1>10, YoungFinite
    <3>2. IsFiniteSet(CountedIn(key) \cup {N})
      BY <3>1, OneMore
    <3> QED BY <1>15, <3>2
  <2>2. ActivationsIn(key)' \subseteq CountedIn(key)'
    BY DEF ActivationsIn, CountedIn
  <2> QED BY <2>1, <2>2, SubsetIsSmaller
<1>21. WithinLimits'
  <2>1. \A k \in Clients \cup {Overflow} :
           /\ Cardinality(CountedIn(k)) <= RequestLimit
           /\ Cardinality(ActivationsIn(k)) <= ActivationLimit
    BY LimitsInSets DEF LimiterInv
  <2>2. ASSUME NEW k \in Clients \cup {Overflow}
        PROVE  /\ Cardinality(CountedIn(k)') <= RequestLimit
               /\ Cardinality(ActivationsIn(k)') <= ActivationLimit
    <3>1. CASE k # key
      BY <1>15, <2>1, <3>1
    <3>2. CASE k = key /\ kind # "activation"
      <4>1. LimitOf(kind) = RequestLimit
        BY <3>2 DEF LimitOf
      <4> QED BY <1>15, <1>19, <2>1, <3>2, <4>1
    <3>3. CASE k = key /\ kind = "activation"
      <4>1. LimitOf(kind) = ActivationLimit
        BY <3>3 DEF LimitOf
      <4> QED BY <1>19, <1>20, <3>3, <4>1
    <3> QED BY <3>1, <3>2, <3>3
  <2> QED BY <2>2 DEF WithinLimits, RecentOf, CountedIn, ActivationsIn
<1> QED BY <1>13, <1>14, <1>18, <1>21 DEF LimiterInv

\* A set of numbers that all move to another set has no more members.
LEMMA ShiftBound ==
    ASSUME NEW S, NEW T, NEW p \in Nat, IsFiniteSet(T), S \subseteq Nat,
           \A n \in S : n + p \in T
    PROVE  Cardinality(S) <= Cardinality(T)
<1> DEFINE f == [n \in S |-> n + p]
<1>1. f \in [S -> T]
  OBVIOUS
<1>2. \A m, n \in S : f[m] = f[n] => m = n
  OBVIOUS
<1> HIDE DEF f
<1> QED BY <1>1, <1>2, InjectionBound

LEMMA FunctionIsSequence ==
    ASSUME NEW R, NEW L \in Nat, NEW e \in [1 .. L -> R]
    PROVE  e \in Seq(R) /\ Len(e) = L
  OBVIOUS

LEMMA RestIs ==
    ASSUME NEW R, NEW s \in Seq(R), NEW L \in Nat, L = Len(s), NEW p \in 0 .. L
    PROVE  LET rest == SubSeq(s, p + 1, L)
           IN  /\ rest \in Seq(R) /\ Len(rest) = L - p /\ DOMAIN rest = 1 .. L - p
               /\ \A n \in 1 .. L - p : rest[n] = s[n + p]
  OBVIOUS

LEMMA SequenceOf ==
    ASSUME NEW R, NEW Q, NEW s \in Seq(R), \A n \in 1 .. Len(s) : s[n] \in Q
    PROVE  s \in Seq(Q)
  OBVIOUS

LEMMA TickKeepsInv == ASSUME LimiterInv, Tick PROVE LimiterInv'
<1> USE LimiterConstants
<1>1. LimiterTypeOK /\ recent \in Seq(AdmittedRequests)
  BY DEF LimiterInv, LimiterTypeOK
<1>2. PICK L \in Nat : L = Len(recent) /\ DOMAIN recent = 1 .. L
  BY <1>1
<1>3. \A n \in 1 .. L : /\ recent[n] \in AdmittedRequests
                        /\ recent[n].age \in 0 .. Period - 1
  <2>1. \A n \in 1 .. L : recent[n] \in AdmittedRequests
    BY <1>1, <1>2
  <2> QED BY <2>1 DEF AdmittedRequests
<1> DEFINE aged == [n \in DOMAIN recent |-> [recent[n] EXCEPT !.age = @ + 1]]
<1> DEFINE ages == [n \in DOMAIN recent |-> aged[n].age]
<1>4. /\ aged = [n \in 1 .. L |-> [recent[n] EXCEPT !.age = @ + 1]]
      /\ ages = [n \in 1 .. L |-> recent[n].age + 1]
  <2>1. \A n \in 1 .. L : aged[n].age = recent[n].age + 1
    BY <1>2, <1>3 DEF AdmittedRequests
  <2> QED BY <1>2, <2>1
<1>5. \A n \in 1 .. L :
         /\ aged[n].age = recent[n].age + 1 /\ aged[n].age \in 1 .. Period
         /\ aged[n].key = recent[n].key /\ aged[n].kind = recent[n].kind
         /\ aged[n].client = recent[n].client
         /\ aged[n].age < Period => aged[n] \in AdmittedRequests
  BY <1>3, <1>4 DEF AdmittedRequests
<1>6. ages \in Seq(Nat) /\ Len(ages) = L
  BY <1>3, <1>4
<1>7. PICK p \in 0 .. L :
        /\ p = L \/ ages[p + 1] < Period
        /\ recent' = SubSeq(aged, p + 1, L)
  <2>1. Popped(ages) \in 0 .. L /\ (Popped(ages) = L \/ ages[Popped(ages) + 1] < Period)
    <3> HIDE DEF ages
    <3> QED BY <1>6, PoppedIs
  <2>2. recent' = SubSeq(aged, Popped(ages) + 1, L)
    BY <1>2 DEF Tick
  <2> HIDE DEF ages, aged
  <2> QED BY <2>1, <2>2
<1>8. \A n \in 1 .. L - p : n + p \in 1 .. L /\ aged[n + p].age < Period
  <2>1. SUFFICES ASSUME NEW n \in 1 .. L - p
                 PROVE  n + p \in 1 .. L /\ aged[n + p].age < Period
    OBVIOUS
  <2>2. /\ n + p \in 1 .. L /\ p + 1 \in 1 .. L /\ p + 1 <= n + p
        /\ recent[p + 1].age + 1 < Period
    BY <1>4, <1>7
  <2>3. recent[p + 1].age >= recent[n + p].age
    BY <1>2, <2>2 DEF LimiterInv, OldestFirst
  <2> HIDE DEF aged, ages
  <2>4. recent[n + p].age \in Nat /\ aged[n + p].age = recent[n + p].age + 1
    BY <1>3, <1>5, <2>2
  <2>5. recent[p + 1].age \in Nat
    BY <1>3, <2>2
  <2> QED BY <2>2, <2>3, <2>4, <2>5
<1> HIDE DEF ages
<1> DEFINE Aged == [client : Clients, key : Clients \cup {Overflow},
                    kind : RequestKinds, age : Int]
<1>9. /\ DOMAIN recent' = 1 .. L - p
      /\ \A n \in 1 .. L - p : recent'[n] = aged[n + p]
      /\ recent' \in Seq(AdmittedRequests)
  <2>1. aged \in Seq(Aged) /\ Len(aged) = L
    <3>1. \A n \in 1 .. L : [recent[n] EXCEPT !.age = @ + 1] \in Aged
      BY <1>3 DEF AdmittedRequests
    <3> HIDE DEF aged, Aged
    <3>2. aged \in [1 .. L -> Aged]
      BY <1>4, <3>1
    <3> QED BY <3>2, FunctionIsSequence
  <2> HIDE DEF aged, Aged
  <2>2. /\ DOMAIN recent' = 1 .. L - p /\ Len(recent') = L - p
        /\ \A n \in 1 .. L - p : recent'[n] = aged[n + p]
        /\ recent' \in Seq(Aged)
    BY <1>7, <2>1, RestIs
  <2>3. \A n \in 1 .. L - p : recent'[n] \in AdmittedRequests
    BY <1>5, <1>8, <2>2
  <2>4. PICK s \in Seq(Aged) : s = recent'
    BY <2>2
  <2>5. s \in Seq(AdmittedRequests)
    BY <2>2, <2>3, <2>4, SequenceOf
  <2> QED BY <2>2, <2>4, <2>5
<1> HIDE DEF aged, Aged
<1>10. \A n \in 1 .. L - p :
         /\ n + p \in 1 .. L /\ recent'[n].age = recent[n + p].age + 1
         /\ recent[n + p].age \in Nat
         /\ recent'[n].key = recent[n + p].key /\ recent'[n].kind = recent[n + p].kind
  <2> SUFFICES ASSUME NEW n \in 1 .. L - p
      PROVE  /\ n + p \in 1 .. L /\ recent'[n].age = recent[n + p].age + 1
             /\ recent[n + p].age \in Nat
             /\ recent'[n].key = recent[n + p].key /\ recent'[n].kind = recent[n + p].kind
    OBVIOUS
  <2>1. n + p \in 1 .. L /\ recent'[n] = aged[n + p]
    BY <1>8, <1>9
  <2> QED BY <1>3, <1>5, <2>1
<1>11. DOMAIN windows' = DOMAIN windows
       /\ \A k \in DOMAIN windows :
            windows'[k] = [n \in DOMAIN windows[k] |-> Older(windows[k][n])]
  BY DEF Tick
<1>12. ASSUME NEW k \in DOMAIN windows
       PROVE  /\ windows'[k] \in Seq(0 .. Period) /\ DOMAIN windows'[k] = DOMAIN windows[k]
              /\ IsFiniteSet(DOMAIN windows[k])
              /\ \A n \in DOMAIN windows[k] :
                    /\ windows'[k][n] = Older(windows[k][n])
                    /\ windows[k][n] \in 0 .. Period
  <2>1. PICK w \in Seq(0 .. Period) : w = windows[k]
    BY <1>1 DEF LimiterTypeOK
  <2>2. PICK m \in Nat : m = Len(w) /\ DOMAIN w = 1 .. m
    BY <2>1
  <2>3. \A n \in 1 .. m : w[n] \in 0 .. Period /\ Older(w[n]) \in 0 .. Period
    BY <2>1, <2>2 DEF Older
  <2>4. windows'[k] = [n \in 1 .. m |-> Older(w[n])]
    BY <1>11, <2>1, <2>2
  <2>5. [n \in 1 .. m |-> Older(w[n])] \in Seq(0 .. Period)
    BY <2>3
  <2> QED BY <2>1, <2>2, <2>3, <2>4, <2>5, IntervalSize
<1>13. LimiterTypeOK'
  BY <1>1, <1>9, <1>11, <1>12 DEF LimiterTypeOK
<1>14. OldestFirst'
  <2>1. ASSUME NEW k \in DOMAIN windows, NEW m \in DOMAIN windows[k],
               NEW n \in DOMAIN windows[k], m <= n
        PROVE  windows'[k][m] >= windows'[k][n]
    <3>1. windows[k][m] >= windows[k][n]
      BY <2>1 DEF LimiterInv, OldestFirst
    <3> QED BY <1>12, <3>1 DEF Older
  <2>2. ASSUME NEW m \in 1 .. L - p, NEW n \in 1 .. L - p, m <= n
        PROVE  recent'[m].age >= recent'[n].age
    <3>1. m + p \in DOMAIN recent /\ n + p \in DOMAIN recent /\ m + p <= n + p
      BY <1>2, <1>10, <2>2
    <3>2. recent[m + p].age >= recent[n + p].age
      BY <3>1 DEF LimiterInv, OldestFirst
    <3> QED BY <1>10, <3>2
  <2> QED BY <1>9, <1>11, <1>12, <2>1, <2>2 DEF OldestFirst
<1>15. ASSUME NEW k \in Clients \cup {Overflow}, NEW a \in 0 .. Period - 1
       PROVE  IF k \in DOMAIN windows'
              THEN Cardinality(Young(k, a)') <= Cardinality(InWindow(k, a)')
              ELSE Young(k, a)' = {}
  <2>1. \A n \in Young(k, a)' :
           /\ n \in 1 .. L - p /\ a > 0 /\ n + p \in Young(k, a - 1)
    BY <1>2, <1>9, <1>10 DEF Young
  <2>2. CASE Young(k, a)' = {}
    <3>1. k \in DOMAIN windows => Cardinality(InWindow(k, a)') \in Nat
      BY <1>11, <1>12, SubsetIsSmaller DEF InWindow
    <3>2. Cardinality(Young(k, a)') = 0
      BY <2>2, FS_EmptySet
    <3> QED BY <1>11, <2>2, <3>1, <3>2
  <2>3. CASE Young(k, a)' # {}
    <3>1. PICK b \in 0 .. Period - 1 : b = a - 1
      BY <2>1, <2>3
    <3>2. Young(k, b) # {}
      BY <2>1, <2>3, <3>1
    <3>3. k \in DOMAIN windows /\ Cardinality(Young(k, b)) <= Cardinality(InWindow(k, b))
      BY <3>2 DEF LimiterInv, NoneForgotten
    <3>4. Cardinality(Young(k, a)') <= Cardinality(Young(k, b))
      <4>1. IsFiniteSet(Young(k, b))
        BY <1>1, YoungFinite
      <4>2. PICK S : S = Young(k, a)'
        OBVIOUS
      <4>3. S \subseteq Nat /\ \A n \in S : n + p \in Young(k, b)
        BY <2>1, <3>1, <4>2
      <4>4. Cardinality(S) <= Cardinality(Young(k, b))
        <5>1. p \in Nat
          OBVIOUS
        <5> QED BY <4>1, <4>3, <5>1, ShiftBound
      <4> QED BY <4>2, <4>4
    <3>5. /\ Cardinality(InWindow(k, b)) <= Cardinality(InWindow(k, a)')
          /\ Cardinality(InWindow(k, b)) \in Nat /\ Cardinality(InWindow(k, a)') \in Nat
      <4>1. InWindow(k, b) \subseteq InWindow(k, a)'
        BY <1>11, <1>12, <3>1, <3>3 DEF InWindow, Older
      <4>2. IsFiniteSet(InWindow(k, a)')
        BY <1>11, <1>12, <3>3, SubsetIsSmaller DEF InWindow
      <4> QED BY <4>1, <4>2, SubsetIsSmaller
    <3>6. /\ Cardinality(Young(k, b)) \in Nat /\ Cardinality(Young(k, a)') \in Nat
      <4>1. IsFiniteSet(Young(k, a)')
        <5>1. Young(k, a)' \subseteq 1 .. L - p /\ L - p \in Nat
          BY <2>1
        <5> QED BY <5>1, IntervalSize, SubsetIsSmaller
      <4> QED BY <1>1, <4>1, YoungFinite, FS_CardinalityType
    <3> QED BY <1>11, <3>3, <3>4, <3>5, <3>6
  <2> QED BY <2>2, <2>3
<1>16. NoneForgotten'
  BY <1>15 DEF NoneForgotten
<1>17. ASSUME NEW k \in Clients \cup {Overflow}
       PROVE  /\ Cardinality(CountedIn(k)') <= RequestLimit
              /\ Cardinality(ActivationsIn(k)') <= ActivationLimit
  <2>1. PICK S, T : S = CountedIn(k)' /\ T = ActivationsIn(k)'
    OBVIOUS
  <2>2. /\ S \subseteq 1 .. L - p /\ \A n \in S : n + p \in CountedIn(k)
        /\ T \subseteq 1 .. L - p /\ \A n \in T : n + p \in ActivationsIn(k)
    BY <1>2, <1>9, <1>10, <2>1 DEF CountedIn, ActivationsIn
  <2>3. L - p \in Nat /\ S \subseteq Nat /\ T \subseteq Nat
    BY <2>2
  <2>4. /\ IsFiniteSet(CountedIn(k)) /\ Cardinality(CountedIn(k)) \in Nat
        /\ IsFiniteSet(ActivationsIn(k)) /\ Cardinality(ActivationsIn(k)) \in Nat
    BY <1>1, YoungFinite
  <2>5. /\ Cardinality(S) <= Cardinality(CountedIn(k))
        /\ Cardinality(T) <= Cardinality(ActivationsIn(k))
    <3>1. p \in Nat
      OBVIOUS
    <3> QED BY <2>2, <2>3, <2>4, <3>1, ShiftBound
  <2>6. Cardinality(S) \in Nat /\ Cardinality(T) \in Nat
    BY <2>2, <2>3, IntervalSize, SubsetIsSmaller
  <2>7. /\ Cardinality(CountedIn(k)) <= RequestLimit
        /\ Cardinality(ActivationsIn(k)) <= ActivationLimit
    BY LimitsInSets DEF LimiterInv
  <2> QED BY <2>1, <2>4, <2>5, <2>6, <2>7
<1>18. WithinLimits'
  BY <1>17 DEF WithinLimits, RecentOf, CountedIn, ActivationsIn
<1>19. Cardinality(DOMAIN windows' \ {Overflow}) <= MaxWindows
  BY <1>11 DEF LimiterInv
<1> QED BY <1>13, <1>14, <1>16, <1>18, <1>19 DEF LimiterInv

LEMMA LimiterInvStep == LimiterInv /\ [LimiterNext]_limiterVars => LimiterInv'
<1> SUFFICES ASSUME LimiterInv, [LimiterNext]_limiterVars PROVE LimiterInv'
  OBVIOUS
<1>1. ASSUME NEW c \in Clients, NEW kind \in RequestKinds, Admit(c, kind)
      PROVE  LimiterInv'
  BY <1>1, AdmitKeepsInv
<1>2. ASSUME NEW c \in Clients, NEW kind \in RequestKinds, Refuse(c, kind)
      PROVE  LimiterInv'
  BY <1>2, RefuseKeepsInv
<1>3. CASE Tick
  BY <1>3, TickKeepsInv
<1>4. CASE UNCHANGED limiterVars
  <2>1. windows' = windows /\ recent' = recent
    BY <1>4 DEF limiterVars
  <2>2. LimiterTypeOK' /\ OldestFirst'
    BY <2>1 DEF LimiterInv, LimiterTypeOK, OldestFirst
  <2>3. \A k, a : Young(k, a)' = Young(k, a) /\ InWindow(k, a)' = InWindow(k, a)
    BY <2>1 DEF Young, InWindow
  <2>4. NoneForgotten'
    BY <2>1, <2>3 DEF LimiterInv, NoneForgotten
  <2>5. WithinLimits'
    BY <2>1 DEF LimiterInv, WithinLimits, RecentOf
  <2> QED BY <2>1, <2>2, <2>4, <2>5 DEF LimiterInv
<1> QED BY <1>1, <1>2, <1>3, <1>4 DEF LimiterNext

LEMMA LimiterInvCorrect == LimiterSpec => []LimiterInv
<1>1. LimiterInit => LimiterInv
  BY LimiterInvInit
<1>2. LimiterInv /\ [LimiterNext]_limiterVars => LimiterInv'
  BY LimiterInvStep
<1> QED BY <1>1, <1>2, PTL DEF LimiterSpec

\* The limiter keeps its types, for any number of addresses, limits and windows
\* (app.py _request_windows).
THEOREM LimiterTypeCorrect == LimiterSpec => []LimiterTypeOK
<1>1. LimiterInv => LimiterTypeOK
  BY DEF LimiterInv
<1> QED BY <1>1, LimiterInvCorrect, PTL

\* No window admits more than the limits in any period, although windows are
\* removed from a full table and made again (app.py _client_window,
\* _consume_window).
THEOREM WithinLimitsCorrect == LimiterSpec => []WithinLimits
<1>1. LimiterInv => WithinLimits
  BY DEF LimiterInv
<1> QED BY <1>1, LimiterInvCorrect, PTL

\* However many addresses there are, the table has at most one window more than
\* it may, the shared one (app.py _client_window).
THEOREM TableBoundedCorrect == LimiterSpec => []TableBounded
<1>1. LimiterInv => TableBounded
  <2> SUFFICES ASSUME LimiterInv PROVE TableBounded
    OBVIOUS
  <2> USE LimiterConstants
  <2> DEFINE own == DOMAIN windows \ {Overflow}
  <2>1. Cardinality(own) <= MaxWindows /\ own \subseteq Clients
    BY DEF LimiterInv, LimiterTypeOK
  <2>2. IsFiniteSet(own)
    BY <2>1, SubsetIsSmaller
  <2>3. DOMAIN windows \subseteq own \cup {Overflow}
    OBVIOUS
  <2> HIDE DEF own
  <2>4. /\ IsFiniteSet(own \cup {Overflow}) /\ Cardinality(own) \in Nat
        /\ Cardinality(own \cup {Overflow}) \in Nat
        /\ Cardinality(own \cup {Overflow}) <= Cardinality(own) + 1
    BY <2>2, OneMore
  <2>5. /\ Cardinality(DOMAIN windows) \in Nat
        /\ Cardinality(DOMAIN windows) <= Cardinality(own \cup {Overflow})
    BY <2>3, <2>4, SubsetIsSmaller
  <2> QED BY <2>1, <2>4, <2>5 DEF TableBounded
<1> QED BY <1>1, LimiterInvCorrect, PTL
==============================================================================
