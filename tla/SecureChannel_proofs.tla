------------------------- MODULE SecureChannel_proofs -------------------------
(***************************************************************************)
(* Proofs about SecureChannel, for any apps, keys, payloads and commands   *)
(* and any number of failures and restarts.                                *)
(***************************************************************************)
EXTENDS SecureChannel, TLAPS

-----------------------------------------------------------------------------
(* The inductive invariant                                                 *)

\* A poll that publishes holds the payload it read, and the devices to upload for (relay.py
\* publish_secure_snapshot).
PayloadHeld ==
    /\ poller.phase \in {"list", "upload"} => poller.home \in Homes
    /\ poller.phase = "upload" => poller.listed \in Recipients

\* The Agent answers for commands that wait, or whose answer has arrived.
PendingOpen == \A c \in poller.pending : commands[c] \in {"queued", "completed"}

\* The state file is not ahead of memory.
FileBehind == file.sequence <= remembered.sequence

\* The next upload is not behind any envelope, also after one whose answer was
\* lost, unless a restart forgot that one or the one before it.
NeverAhead ==
    \A d \in Apps :
        envelopes[d] # Absent =>
            \/ envelopes[d].sequence <= NextSequence
            \/ envelopes[d].sequence <= forgotten + 1

ChannelInv == ChannelTypeOK /\ PayloadHeld /\ PendingOpen /\ FileBehind /\ NeverAhead

LEMMA ChannelInvInit == ChannelInit => ChannelInv
<1> SUFFICES ASSUME ChannelInit PROVE ChannelInv
  OBVIOUS
<1>1. keys \in Recipients
  BY DEF ChannelInit, Nobody, Recipients
<1>2. poller \in Pollers /\ poller.phase = "idle" /\ poller.pending = {}
  BY DEF ChannelInit, NewSession, Pollers
<1>3. ChannelTypeOK
  BY <1>1, <1>2, ChannelAssumption DEF ChannelInit, ChannelTypeOK
<1> QED BY <1>2, <1>3
        DEF ChannelInit, ChannelInv, PayloadHeld, PendingOpen, FileBehind, NeverAhead

-----------------------------------------------------------------------------
(* The poller                                                              *)

\* A poller of its type with no commands but these, which holds what it needs if
\* it publishes.
Carries(q, pending) ==
    /\ q \in Pollers
    /\ q.pending \subseteq pending
    /\ q.phase \in {"list", "upload"} => q.home \in Homes
    /\ q.phase = "upload" => q.listed \in Recipients

\* Ending a poll, with or without an answer, adds no responses; neither does the
\* end of the session.
LEMMA EndCarries ==
    ASSUME NEW p \in Pollers
    PROVE  /\ Carries(Done(p), p.pending)
           /\ Carries(Failed(p), p.pending)
BY DEF Done, Failed, Ended, Carries, Pollers

LEMMA SessionCarries ==
    ASSUME NEW pending
    PROVE  /\ Carries(NewSession, pending)
           /\ Carries([NewSession EXCEPT !.phase = "stopped"], pending)
BY DEF NewSession, Carries, Pollers

LEMMA ComparedCarries ==
    ASSUME NEW p \in Pollers, p.home \in Homes, p.listed \in Recipients
    PROVE  Carries(Compared(p), p.pending)
<1>1. Carries([p EXCEPT !.phase = "upload"], p.pending)
  BY DEF Carries, Pollers
<1> QED BY <1>1, EndCarries DEF Compared

\* Publishing reads the payload before anything else.
LEMMA PublishedCarries ==
    ASSUME ChannelTypeOK, NEW p \in Pollers
    PROVE  Carries(Published(p), p.pending)
<1> DEFINE q == [p EXCEPT !.home = home, !.status = p.connected]
<1>1. home \in Homes
  BY DEF ChannelTypeOK
<1>2. q \in Pollers /\ q.home \in Homes /\ q.pending = p.pending
  BY <1>1 DEF Pollers
<1>3. Carries([q EXCEPT !.phase = "list"], p.pending)
  BY <1>2 DEF Carries, Pollers
<1>4. Published(p) = IF p.listed # Absent THEN Compared(q) ELSE [q EXCEPT !.phase = "list"]
  BY DEF Published
<1>5. q.listed = p.listed /\ (p.listed # Absent => p.listed \in Recipients)
  BY DEF Pollers
<1> HIDE DEF q
<1>6. p.listed # Absent => Carries(Compared(q), p.pending)
  BY <1>2, <1>5, ComparedCarries
<1> QED BY <1>3, <1>4, <1>6

\* What a poller carries is what the invariant says of it.
LEMMA CarriedPoller ==
    ASSUME NEW pending, Carries(poller', pending)
    PROVE  poller' \in Pollers /\ PayloadHeld' /\ poller'.pending \subseteq pending
BY DEF Carries, PayloadHeld

\* A failed request adds no responses, and leaves what is remembered as it is.
LEMMA BrokenCarries ==
    ASSUME ChannelTypeOK, Broken
    PROVE  /\ Carries(poller', poller.pending)
           /\ UNCHANGED memory /\ trouble' \in 0..MaxTrouble
<1>1. poller \in Pollers /\ trouble \in 0..MaxTrouble /\ MaxTrouble \in Nat
  BY ChannelAssumption DEF ChannelTypeOK
<1>2. /\ trouble' = trouble + 1 /\ trouble < MaxTrouble /\ UNCHANGED memory
      /\ \/ poller' = Failed(poller)
         \/ poller' = [NewSession EXCEPT !.phase = "stopped"]
  BY DEF Broken, Troubled
<1>3. trouble' \in 0..MaxTrouble
  BY <1>1, <1>2
<1>4. Carries(poller', poller.pending)
  BY <1>1, <1>2, EndCarries, SessionCarries
<1> QED BY <1>2, <1>3, <1>4

-----------------------------------------------------------------------------
(* The commands                                                            *)

\* The commands that the exchange settles: those answered for and those the
\* relay finds overdue.
LEMMA ExchangedCommands ==
    ASSUME ChannelTypeOK, PendingOpen,
           NEW done \in SUBSET poller.pending,
           NEW late \in SUBSET Commands,
           \A c \in late : commands[c] = "queued" /\ c \notin poller.pending,
           commands' = Exchanged(done, late)
    PROVE  /\ commands' \in [Commands -> {"none", "queued", "completed", "expired"}]
           /\ \A c \in Commands : commands[c] \in {"completed", "expired"}
                                      => commands'[c] = commands[c]
           /\ \A c \in poller.pending : commands'[c] \in {"queued", "completed"}
           /\ \A c \in Commands \ (poller.pending \cup late) :
                  commands'[c] = commands[c]
<1>1. poller.pending \subseteq Commands
  BY DEF ChannelTypeOK, Pollers
<1>2. commands \in [Commands -> {"none", "queued", "completed", "expired"}]
  BY DEF ChannelTypeOK
<1>3. commands' = [c \in Commands |-> IF c \in done THEN "completed"
                                      ELSE IF c \in late THEN "expired"
                                      ELSE commands[c]]
  BY DEF Exchanged
<1>4. \A c \in poller.pending : c \notin late /\ commands[c] \in {"queued", "completed"}
  BY DEF PendingOpen
<1>5. commands' \in [Commands -> {"none", "queued", "completed", "expired"}]
  BY <1>2, <1>3
<1>6. \A c \in Commands : commands[c] \in {"completed", "expired"}
                              => commands'[c] = commands[c]
  BY <1>3, <1>4
<1>7. \A c \in poller.pending : commands'[c] \in {"queued", "completed"}
  BY <1>1, <1>3, <1>4
<1>8. \A c \in Commands \ (poller.pending \cup late) : commands'[c] = commands[c]
  BY <1>3
<1> QED BY <1>5, <1>6, <1>7, <1>8

\* How the envelope of an app may change.
Advances(d) ==
    envelopes'[d] # envelopes[d] =>
        /\ envelopes'[d].sequence > file.sequence
        /\ \/ envelopes[d] = Absent
           \/ envelopes'[d].sequence >= envelopes[d].sequence
           \/ envelopes'[d].sequence <= forgotten

\* What a step does to the commands and envelopes, besides the invariant.
ChannelStep ==
    /\ ChannelInv'
    /\ \A c \in Commands : commands[c] \in {"completed", "expired"}
                               => commands'[c] = commands[c]
    /\ \A d \in Apps : Advances(d)

\* A step that leaves commands and envelopes alone.
LEMMA QuietStep ==
    ASSUME ChannelInv, UNCHANGED <<commands, envelopes, memory>>,
           Carries(poller', poller.pending),
           home' \in Homes, keys' \in Recipients, gone' \subseteq Apps,
           overdue' \subseteq Commands,
           trouble' \in 0..MaxTrouble, changes' \in 0..MaxChanges
    PROVE  ChannelStep
<1> USE DEF ChannelInv
<1>1. poller' \in Pollers /\ PayloadHeld' /\ poller'.pending \subseteq poller.pending
  BY CarriedPoller
<1>2. ChannelTypeOK'
  BY <1>1 DEF ChannelTypeOK, memory
<1>3. PendingOpen'
  BY <1>1 DEF PendingOpen
<1>4. FileBehind' /\ NeverAhead'
  BY DEF FileBehind, NeverAhead, NextSequence, memory
<1>5. \A d \in Apps : Advances(d)
  BY DEF Advances
<1> QED BY <1>1, <1>2, <1>3, <1>4, <1>5 DEF ChannelStep

-----------------------------------------------------------------------------
(* The steps                                                               *)

LEMMA ExchangeStep ==
    ASSUME ChannelInv, Exchange \/ ExchangeFails
    PROVE  ChannelStep
<1> USE DEF ChannelInv
<1>1. poller \in Pollers /\ poller.pending \subseteq Commands
  BY DEF ChannelTypeOK, Pollers
<1>2. UNCHANGED <<envelopes, home, keys, gone, overdue, changes>>
  BY DEF Exchange, ExchangeFails, outside
<1>3. PICK done \in SUBSET poller.pending, late \in SUBSET Commands :
          /\ commands' = Exchanged(done, late)
          /\ late \subseteq QueuedAfter(done)
          /\ late # {} => done = poller.pending
          /\ \/ Broken
             \/ /\ done = poller.pending
                /\ UNCHANGED <<memory, trouble>>
                /\ \E accepted \in Accepted(late) :
                      poller' = Published([poller EXCEPT !.pending = accepted,
                                                         !.due = FALSE])
  <2>1. CASE Exchange
    <3> DEFINE l == QueuedAfter(poller.pending) \cap overdue
    <3>1. l \in SUBSET Commands /\ l \subseteq QueuedAfter(poller.pending)
      BY DEF QueuedAfter
    <3>2. commands' = Exchanged(poller.pending, l)
      BY <2>1 DEF Exchange
    <3>3. \/ Broken
          \/ /\ UNCHANGED <<memory, trouble>>
             /\ \E accepted \in Accepted(l) :
                   poller' = Published([poller EXCEPT !.pending = accepted,
                                                      !.due = FALSE])
      BY <2>1 DEF Exchange
    <3> HIDE DEF l
    <3> QED BY <3>1, <3>2, <3>3
  <2>2. CASE ExchangeFails
    <3>1. PICK done \in SUBSET poller.pending, late \in SUBSET overdue :
              /\ late \subseteq QueuedAfter(done)
              /\ InOrder(done, late)
              /\ commands' = Exchanged(done, late)
      BY <2>2 DEF ExchangeFails
    <3>2. Broken /\ overdue \subseteq Commands
      BY <2>2 DEF ExchangeFails, ChannelTypeOK
    <3> QED BY <3>1, <3>2 DEF InOrder
  <2> QED BY <2>1, <2>2
<1>4. \A c \in late : commands[c] = "queued" /\ c \notin poller.pending
  BY <1>3 DEF QueuedAfter
<1>5. /\ commands' \in [Commands -> {"none", "queued", "completed", "expired"}]
      /\ \A c \in Commands : commands[c] \in {"completed", "expired"}
                                 => commands'[c] = commands[c]
      /\ \A c \in poller.pending : commands'[c] \in {"queued", "completed"}
      /\ \A c \in Commands \ (poller.pending \cup late) : commands'[c] = commands[c]
  BY <1>3, <1>4, ExchangedCommands
<1>6. /\ poller' \in Pollers /\ PayloadHeld' /\ UNCHANGED memory
      /\ trouble' \in 0..MaxTrouble
      /\ \A c \in poller'.pending : commands'[c] \in {"queued", "completed"}
  <2>1. CASE Broken
    <3>1. /\ Carries(poller', poller.pending)
          /\ UNCHANGED memory /\ trouble' \in 0..MaxTrouble
      BY <2>1, BrokenCarries
    <3> QED BY <1>5, <3>1, CarriedPoller
  <2>2. CASE /\ done = poller.pending
             /\ UNCHANGED <<memory, trouble>>
             /\ \E accepted \in Accepted(late) :
                   poller' = Published([poller EXCEPT !.pending = accepted,
                                                      !.due = FALSE])
    <3>1. PICK accepted \in Accepted(late) :
              poller' = Published([poller EXCEPT !.pending = accepted, !.due = FALSE])
      BY <2>2
    <3>2. /\ accepted \subseteq Commands \ (poller.pending \cup late)
          /\ \A c \in accepted : commands[c] = "queued"
      BY <3>1 DEF Accepted, QueuedAfter
    <3> DEFINE p == [poller EXCEPT !.pending = accepted, !.due = FALSE]
    <3>3. p \in Pollers /\ p.pending = accepted
      BY <1>1, <3>2 DEF Pollers
    <3> HIDE DEF p
    <3>4. Carries(poller', accepted)
      BY <3>1, <3>3, PublishedCarries DEF p
    <3>5. \A c \in accepted : commands'[c] = "queued"
      BY <1>5, <3>2
    <3> QED BY <2>2, <3>4, <3>5, CarriedPoller DEF ChannelTypeOK
  <2> QED BY <1>3, <2>1, <2>2
<1>7. ChannelTypeOK'
  BY <1>2, <1>5, <1>6 DEF ChannelTypeOK, memory
<1>8. PendingOpen' /\ FileBehind' /\ NeverAhead'
  BY <1>2, <1>6 DEF PendingOpen, FileBehind, NeverAhead, NextSequence, memory
<1>9. \A d \in Apps : Advances(d)
  BY <1>2 DEF Advances
<1> QED BY <1>5, <1>6, <1>7, <1>8, <1>9 DEF ChannelStep

\* An upload numbers what it stores one above what is remembered, and only a
\* whole answer moves that number, in memory first.
LEMMA RecordedState ==
    ASSUME ChannelInv, poller.phase = "upload",
           \/ Broken
           \/ Recorded /\ UNCHANGED forgotten
    PROVE  /\ Carries(poller', poller.pending)
           /\ trouble' \in 0..MaxTrouble
           /\ forgotten' = forgotten
           /\ remembered' = remembered \/ remembered' = Remembered
           /\ \/ file' = file
              \/ file' = Remembered /\ remembered' = Remembered
<1> USE DEF ChannelInv
<1>1. poller \in Pollers /\ trouble \in 0..MaxTrouble /\ MaxTrouble \in Nat
  BY ChannelAssumption DEF ChannelTypeOK
<1>2. CASE Broken
  BY <1>2, BrokenCarries DEF memory
<1>3. CASE Recorded /\ UNCHANGED forgotten
  <2>1. trouble' \in 0..MaxTrouble
    BY <1>1, <1>3 DEF Recorded, Troubled
  <2>2. poller' = Done(poller) \/ poller' = Failed(poller)
    BY <1>3 DEF Recorded
  <2>3. Carries(poller', poller.pending)
    BY <1>1, <2>2, EndCarries
  <2> QED BY <1>3, <2>1, <2>3 DEF Recorded
<1> QED BY <1>2, <1>3

LEMMA UploadStep ==
    ASSUME ChannelInv, Upload \/ UploadFails
    PROVE  ChannelStep
<1> USE DEF ChannelInv
<1>1. /\ poller \in Pollers /\ poller.phase = "upload"
      /\ poller.home \in Homes /\ poller.listed \in Recipients
      /\ remembered.sequence \in Nat /\ file.sequence \in Nat /\ forgotten \in Nat
      /\ file.sequence <= remembered.sequence
  BY DEF Upload, UploadFails, ChannelTypeOK, PayloadHeld, FileBehind
<1>2. UNCHANGED <<commands, home, keys, gone, overdue, changes>>
  BY DEF Upload, UploadFails, outside
<1>3. PICK written \in SUBSET Reached :
          /\ envelopes' = StoredEnvelopes(written)
          /\ \/ Broken
             \/ Recorded /\ UNCHANGED forgotten
  BY DEF Upload, UploadFails
<1>4. /\ Carries(poller', poller.pending)
      /\ trouble' \in 0..MaxTrouble
      /\ forgotten' = forgotten
      /\ remembered' = remembered \/ remembered' = Remembered
      /\ \/ file' = file
         \/ file' = Remembered /\ remembered' = Remembered
  BY <1>1, <1>3, RecordedState
<1>5. NextSequence = remembered.sequence + 1 /\ Remembered.sequence = NextSequence
  BY DEF NextSequence, Remembered
<1>6. Remembered.print \in Fingerprints
  BY <1>1 DEF Remembered, Fingerprint, Fingerprints, Pollers
<1>7. /\ remembered'.sequence \in Nat /\ remembered'.sequence >= remembered.sequence
      /\ file'.sequence \in Nat /\ file'.sequence <= remembered'.sequence
  BY <1>1, <1>4, <1>5
<1>8. /\ remembered'.print \in Fingerprints \cup {Absent}
      /\ file'.print \in Fingerprints \cup {Absent}
  BY <1>4, <1>6 DEF ChannelTypeOK
<1>9. ASSUME NEW d \in Apps
      PROVE  \/ envelopes'[d] = envelopes[d]
             \/ /\ envelopes'[d].sequence = remembered.sequence + 1
                /\ envelopes'[d].home \in Homes
                /\ envelopes'[d].key \in Keys
  <2>1. CASE d \in written
    <3>1. poller.listed[d] \in Keys
      BY <1>1, <1>3, <2>1 DEF Reached, Addressed, Recipients
    <3> QED BY <1>1, <1>3, <1>5, <2>1, <3>1 DEF StoredEnvelopes
  <2>2. CASE d \notin written
    BY <1>3, <2>2 DEF StoredEnvelopes
  <2> QED BY <2>1, <2>2
<1>10. poller' \in Pollers /\ PayloadHeld' /\ poller'.pending \subseteq poller.pending
  BY <1>4, CarriedPoller
<1>11. ChannelTypeOK'
  <2>1. \A d \in Apps : \/ envelopes'[d] = Absent
                        \/ /\ envelopes'[d].sequence \in Nat
                           /\ envelopes'[d].home \in Homes
                           /\ envelopes'[d].key \in Keys
    BY <1>1, <1>9 DEF ChannelTypeOK
  <2> QED BY <1>2, <1>4, <1>7, <1>8, <1>10, <2>1 DEF ChannelTypeOK
<1>12. PendingOpen' /\ FileBehind'
  BY <1>2, <1>7, <1>10 DEF PendingOpen, FileBehind
<1>13. ASSUME NEW d \in Apps, envelopes'[d] # Absent
       PROVE  \/ envelopes'[d].sequence <= remembered'.sequence + 1
              \/ envelopes'[d].sequence <= forgotten' + 1
  <2>1. CASE envelopes'[d] = envelopes[d]
    <3>1. /\ envelopes[d].sequence \in Nat
          /\ \/ envelopes[d].sequence <= remembered.sequence + 1
             \/ envelopes[d].sequence <= forgotten + 1
      BY <1>5, <1>13, <2>1 DEF ChannelTypeOK, NeverAhead
    <3> QED BY <1>1, <1>4, <1>7, <2>1, <3>1
  <2>2. CASE envelopes'[d].sequence = remembered.sequence + 1
    BY <1>1, <1>7, <2>2
  <2> QED BY <1>9, <2>1, <2>2
<1>14. NeverAhead'
  BY <1>13 DEF NeverAhead, NextSequence
<1>15. ASSUME NEW d \in Apps, envelopes'[d] # envelopes[d]
       PROVE  /\ envelopes'[d].sequence > file.sequence
              /\ \/ envelopes[d] = Absent
                 \/ envelopes'[d].sequence >= envelopes[d].sequence
                 \/ envelopes'[d].sequence <= forgotten
  <2>1. envelopes'[d].sequence = remembered.sequence + 1
    BY <1>9, <1>15
  <2>2. CASE envelopes[d] = Absent
    BY <1>1, <2>1, <2>2
  <2>3. CASE envelopes[d] # Absent
    <3>1. /\ envelopes[d].sequence \in Nat
          /\ \/ envelopes[d].sequence <= remembered.sequence + 1
             \/ envelopes[d].sequence <= forgotten + 1
      BY <1>5, <2>3 DEF ChannelTypeOK, NeverAhead
    <3> QED BY <1>1, <2>1, <3>1
  <2> QED BY <2>2, <2>3
<1>16. \A d \in Apps : Advances(d)
  BY <1>15 DEF Advances
<1> QED BY <1>2, <1>10, <1>11, <1>12, <1>14, <1>16 DEF ChannelStep

LEMMA ListDevicesStep == ASSUME ChannelInv, ListDevices PROVE ChannelStep
<1> USE DEF ChannelInv
<1>1. /\ UNCHANGED <<commands, envelopes, home, keys, gone, overdue, changes>>
      /\ poller.phase = "list" /\ poller \in Pollers /\ poller.home \in Homes
  BY DEF ListDevices, relaySide, outside, ChannelTypeOK, PayloadHeld
<1> DEFINE p == [poller EXCEPT !.listed = keys]
<1>2. /\ p \in Pollers /\ p.home \in Homes /\ p.listed \in Recipients
      /\ p.pending = poller.pending
  BY <1>1 DEF Pollers, ChannelTypeOK
<1>3. Broken \/ (poller' = Compared(p) /\ UNCHANGED <<memory, trouble>>)
  BY DEF ListDevices
<1> HIDE DEF p
<1>4. Carries(poller', poller.pending) /\ UNCHANGED memory /\ trouble' \in 0..MaxTrouble
  BY <1>2, <1>3, ComparedCarries, BrokenCarries DEF ChannelTypeOK
<1> QED BY <1>1, <1>4, QuietStep DEF ChannelTypeOK

LEMMA WakeStep == ASSUME ChannelInv, Wake PROVE ChannelStep
<1> USE DEF ChannelInv
<1>1. UNCHANGED <<memory, envelopes, commands, home, keys, gone, overdue, changes,
                  trouble>>
  BY DEF Wake, relaySide, outside
<1>2. poller \in Pollers
  BY DEF ChannelTypeOK
<1>3. Carries([poller EXCEPT !.phase = "ask"], poller.pending)
  BY <1>2 DEF Carries, Pollers
<1>4. Carries(poller', poller.pending)
  BY <1>2, <1>3, PublishedCarries DEF Wake
<1> QED BY <1>1, <1>4, QuietStep DEF ChannelTypeOK

\* A save brings the file up to what is remembered, and a restart goes back to the
\* file: it forgets what was not saved.
LEMMA SaveStateStep == ASSUME ChannelInv, SaveState PROVE ChannelStep
<1> USE DEF ChannelInv
<1>1. /\ UNCHANGED <<poller, remembered, forgotten, commands, envelopes, home, keys,
                     gone, overdue, changes, trouble>>
      /\ file' = remembered
  BY DEF SaveState, relaySide, outside
<1>2. ChannelTypeOK'
  BY <1>1 DEF ChannelTypeOK
<1>3. PayloadHeld' /\ PendingOpen' /\ NeverAhead'
  BY <1>1 DEF PayloadHeld, PendingOpen, NeverAhead, NextSequence
<1>4. FileBehind'
  BY <1>1 DEF FileBehind, ChannelTypeOK
<1>5. \A d \in Apps : Advances(d)
  BY <1>1 DEF Advances
<1> QED BY <1>1, <1>2, <1>3, <1>4, <1>5 DEF ChannelStep

LEMMA RestartStep == ASSUME ChannelInv, Restart PROVE ChannelStep
<1> USE DEF ChannelInv
<1>1. /\ UNCHANGED <<file, commands, envelopes, home, keys, gone, overdue, changes>>
      /\ poller' = NewSession /\ remembered' = file
      /\ trouble < MaxTrouble /\ trouble' = trouble + 1
  BY DEF Restart, Reloaded, Troubled, relaySide, outside
<1>2. /\ trouble \in 0..MaxTrouble /\ MaxTrouble \in Nat /\ forgotten \in Nat
      /\ remembered.sequence \in Nat /\ file.sequence \in Nat
      /\ file.sequence <= remembered.sequence
  BY ChannelAssumption DEF ChannelTypeOK, FileBehind
<1>3. /\ forgotten' \in Nat /\ forgotten' >= forgotten
      /\ remembered.sequence = file.sequence \/ forgotten' >= remembered.sequence
  BY <1>2 DEF Restart, Larger
<1>4. Carries(poller', poller.pending)
  BY <1>1, SessionCarries
<1>5. poller' \in Pollers /\ PayloadHeld' /\ poller'.pending \subseteq poller.pending
  BY <1>4, CarriedPoller
<1>6. trouble' \in 0..MaxTrouble
  BY <1>1, <1>2
<1>7. ChannelTypeOK'
  BY <1>1, <1>3, <1>5, <1>6 DEF ChannelTypeOK
<1>8. PendingOpen'
  BY <1>1, <1>5 DEF PendingOpen
<1>9. FileBehind'
  BY <1>1, <1>2 DEF FileBehind
<1>10. ASSUME NEW d \in Apps, envelopes[d] # Absent
       PROVE  \/ envelopes[d].sequence <= file.sequence + 1
              \/ envelopes[d].sequence <= forgotten' + 1
  <2>1. /\ envelopes[d].sequence \in Nat
        /\ \/ envelopes[d].sequence <= remembered.sequence + 1
           \/ envelopes[d].sequence <= forgotten + 1
    BY <1>10 DEF ChannelTypeOK, NeverAhead, NextSequence
  <2> QED BY <1>2, <1>3, <2>1
<1>11. NeverAhead'
  BY <1>1, <1>10 DEF NeverAhead, NextSequence
<1>12. \A d \in Apps : Advances(d)
  BY <1>1 DEF Advances
<1> QED BY <1>1, <1>5, <1>7, <1>8, <1>9, <1>11, <1>12 DEF ChannelStep

\* Steps of the clocks and of the world outside the channel.
LEMMA OutsideStep ==
    ASSUME ChannelInv,
           \/ DueAgain \/ ListAges \/ HomeChanges
           \/ \E d \in Apps : RemoveApp(d) \/ \E k \in Keys : RegisterKey(d, k)
           \/ \E c \in Commands : Expires(c)
    PROVE  ChannelStep
<1> USE DEF ChannelInv
<1>1. poller \in Pollers /\ Carries(poller, poller.pending)
  BY DEF ChannelTypeOK, PayloadHeld, Carries
<1>2. /\ Carries([poller EXCEPT !.due = TRUE], poller.pending)
      /\ poller.phase # "upload"
             => Carries([poller EXCEPT !.listed = Absent], poller.pending)
  BY <1>1 DEF Carries, Pollers
<1>3. Relist => Carries(poller', poller.pending)
  BY <1>1, <1>2 DEF Relist
<1>4. CASE DueAgain \/ ListAges
  BY <1>2, <1>4, QuietStep DEF DueAgain, ListAges, relaySide, outside, ChannelTypeOK
<1>6. Changed => changes' \in 0..MaxChanges
  BY ChannelAssumption DEF Changed, ChannelTypeOK
<1>7. CASE HomeChanges
  BY <1>1, <1>6, <1>7, QuietStep DEF HomeChanges, agentSide, relaySide, ChannelTypeOK
<1>8. CASE \E d \in Apps : RemoveApp(d)
  <2>1. PICK d \in Apps : RemoveApp(d)
    BY <1>8
  <2>2. keys' \in Recipients /\ gone' \subseteq Apps
    BY <2>1 DEF RemoveApp, ChannelTypeOK, Recipients
  <2> QED BY <1>3, <1>6, <2>1, <2>2, QuietStep DEF RemoveApp, relaySide, ChannelTypeOK
<1>9. CASE \E d \in Apps : \E k \in Keys : RegisterKey(d, k)
  <2>1. PICK d \in Apps, k \in Keys : RegisterKey(d, k)
    BY <1>9
  <2>2. keys' \in Recipients
    BY <2>1 DEF RegisterKey, ChannelTypeOK, Recipients
  <2> QED BY <1>3, <1>6, <2>1, <2>2, QuietStep
          DEF RegisterKey, relaySide, ChannelTypeOK
<1>10. CASE \E c \in Commands : Expires(c)
  BY <1>1, <1>10, QuietStep DEF Expires, agentSide, relaySide, ChannelTypeOK
<1> QED BY <1>4, <1>7, <1>8, <1>9, <1>10

\* Only a command that does not exist yet is queued.
LEMMA QueuePingStep ==
    ASSUME ChannelInv, NEW c \in Commands, QueuePing(c)
    PROVE  ChannelStep
<1> USE DEF ChannelInv
<1>1. /\ commands[c] = "none"
      /\ commands' = [commands EXCEPT ![c] = "queued"]
      /\ UNCHANGED <<poller, memory, envelopes, home, keys, gone, overdue, changes,
                     trouble>>
  BY DEF QueuePing, agentSide, outside
<1>2. commands' \in [Commands -> {"none", "queued", "completed", "expired"}]
  BY <1>1 DEF ChannelTypeOK
<1>3. /\ \A x \in Commands : commands[x] \in {"completed", "expired"}
                                 => commands'[x] = commands[x]
      /\ \A x \in poller.pending : commands'[x] \in {"queued", "completed"}
  BY <1>1 DEF ChannelTypeOK, PendingOpen, Pollers
<1>4. ChannelTypeOK'
  BY <1>1, <1>2 DEF ChannelTypeOK, memory
<1>5. PayloadHeld' /\ PendingOpen' /\ FileBehind' /\ NeverAhead'
  BY <1>1, <1>3
     DEF PayloadHeld, PendingOpen, FileBehind, NeverAhead, NextSequence, memory
<1>6. \A d \in Apps : Advances(d)
  BY <1>1 DEF Advances
<1> QED BY <1>3, <1>4, <1>5, <1>6 DEF ChannelStep

LEMMA ChannelNextStep == ASSUME ChannelInv, [ChannelNext]_channelVars PROVE ChannelStep
<1>1. CASE ChannelNext
  BY <1>1, WakeStep, SaveStateStep, RestartStep, OutsideStep, ExchangeStep,
     ListDevicesStep, UploadStep, QueuePingStep DEF ChannelNext
<1>2. CASE UNCHANGED channelVars
  <2>1. Carries(poller', poller.pending)
    BY <1>2 DEF channelVars, ChannelInv, ChannelTypeOK, PayloadHeld, Carries
  <2> QED BY <1>2, <2>1, QuietStep DEF channelVars, memory, ChannelInv, ChannelTypeOK
<1> QED BY <1>1, <1>2

-----------------------------------------------------------------------------
(* Theorems                                                                *)

\* Every variable keeps its type.
THEOREM ChannelTypeCorrect == ChannelSpec => []ChannelTypeOK
<1>1. ChannelInv => ChannelTypeOK
  BY DEF ChannelInv
<1>2. ChannelInv /\ [ChannelNext]_channelVars => ChannelInv'
  BY ChannelNextStep DEF ChannelStep
<1> QED BY <1>1, <1>2, ChannelInvInit, PTL DEF ChannelSpec

\* A settled command stays as it is, whatever is answered twice or late
\* (app.py secure_exchange).
THEOREM CommandsFinalCorrect == ChannelSpec => CommandsFinal
<1>1. ChannelInv /\ [ChannelNext]_channelVars => ChannelInv'
  BY ChannelNextStep DEF ChannelStep
<1>2. ChannelInv /\ [ChannelNext]_channelVars =>
        [\A c \in Commands :
            commands[c] \in {"completed", "expired"}
                => commands'[c] = commands[c]]_channelVars
  BY ChannelNextStep DEF ChannelStep
<1> QED BY <1>1, <1>2, ChannelInvInit, PTL DEF ChannelSpec, CommandsFinal

\* An envelope goes back only to a sequence a restart forgot, and never to one the
\* state file holds (relay.py publish_secure_snapshot, _save, _load).
THEOREM SequenceCorrect == ChannelSpec => FallsOnlyIfForgotten
<1>1. ChannelInv /\ [ChannelNext]_channelVars => ChannelInv'
  BY ChannelNextStep DEF ChannelStep
<1>2. ChannelInv /\ [ChannelNext]_channelVars =>
        [\A d \in Apps :
            envelopes'[d] # envelopes[d] =>
                /\ envelopes'[d].sequence > file.sequence
                /\ \/ envelopes[d] = Absent
                   \/ envelopes'[d].sequence >= envelopes[d].sequence
                   \/ envelopes'[d].sequence <= forgotten]_channelVars
  BY ChannelNextStep DEF ChannelStep, Advances
<1> QED BY <1>1, <1>2, ChannelInvInit, PTL DEF ChannelSpec, FallsOnlyIfForgotten
=============================================================================
