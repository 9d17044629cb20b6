-------------------------- MODULE AgentOutbox_proofs --------------------------
(***************************************************************************)
(* Proofs about AgentOutbox, for any signals, apps and bounds.             *)
(***************************************************************************)
EXTENDS AgentOutbox, SequenceTheorems, TLAPS

-----------------------------------------------------------------------------
(* The queue operations                                                    *)

\* Appending (relay.py _queue) adds its item to the items of the queue.
LEMMA RangeOfAppend ==
    ASSUME NEW S, NEW q \in Seq(S), NEW x \in S
    PROVE  /\ Append(q, x) \in Seq(S)
           /\ \A y : y \in Range(Append(q, x)) <=> y \in Range(q) \/ y = x
<1>1. /\ Append(q, x) \in Seq(S)
      /\ DOMAIN Append(q, x) = 1..(Len(q) + 1)
      /\ DOMAIN q = 1..Len(q)
      /\ Append(q, x)[Len(q) + 1] = x
      /\ \A i \in 1..Len(q) : Append(q, x)[i] = q[i]
      /\ Len(q) \in Nat
  BY AppendProperties, LenProperties
<1>2. \A y : y \in Range(Append(q, x)) => y \in Range(q) \/ y = x
  BY <1>1 DEF Range
<1>3. \A y \in Range(q) : y \in Range(Append(q, x))
  BY <1>1 DEF Range
<1>4. x \in Range(Append(q, x))
  BY <1>1 DEF Range
<1> QED BY <1>1, <1>2, <1>3, <1>4

\* Popping (relay.py _flush) takes nothing but the head out of the queue.
LEMMA RangeOfTail ==
    ASSUME NEW S, NEW q \in Seq(S), q # <<>>
    PROVE  /\ Head(q) \in S
           /\ Tail(q) \in Seq(S)
           /\ Head(q) \in Range(q)
           /\ \A y \in Range(q) : y = Head(q) \/ y \in Range(Tail(q))
           /\ \A y \in Range(Tail(q)) : y \in Range(q)
<1>1. /\ Head(q) \in S
      /\ Tail(q) \in Seq(S)
      /\ Len(Tail(q)) = Len(q) - 1
      /\ \A i \in 1..Len(Tail(q)) : Tail(q)[i] = q[i + 1]
  BY HeadTailProperties
<1>2. /\ Len(q) \in Nat \ {0}
      /\ DOMAIN q = 1..Len(q)
      /\ DOMAIN Tail(q) = 1..(Len(q) - 1)
      /\ Head(q) = q[1]
  BY <1>1, LenProperties, EmptySeq
<1>3. ASSUME NEW i \in 1..Len(q)
      PROVE  q[i] = Head(q) \/ q[i] \in Range(Tail(q))
  <2>1. CASE i = 1
    BY <2>1, <1>2
  <2>2. CASE i # 1
    <3>1. i - 1 \in DOMAIN Tail(q) /\ Tail(q)[i - 1] = q[i]
      BY <2>2, <1>1, <1>2
    <3> QED BY <3>1 DEF Range
  <2> QED BY <2>1, <2>2
<1>4. \A y \in Range(q) : y = Head(q) \/ y \in Range(Tail(q))
  BY <1>2, <1>3 DEF Range
<1>5. \A i \in DOMAIN Tail(q) : Tail(q)[i] \in Range(q)
  BY <1>1, <1>2 DEF Range
<1>6. Head(q) \in Range(q)
  BY <1>2 DEF Range
<1> QED BY <1>1, <1>4, <1>5, <1>6 DEF Range

\* Taking out one item leaves every other one.
LEMMA RangeOfWithout ==
    ASSUME NEW S, NEW q \in Seq(S), NEW n \in 1..Len(q)
    PROVE  /\ Without(q, n) \in Seq(S)
           /\ \A y \in Range(q) : y = q[n] \/ y \in Range(Without(q, n))
           /\ \A y \in Range(Without(q, n)) : y \in Range(q)
<1> DEFINE w == Without(q, n)
<1>1. /\ Len(q) \in Nat \ {0}
      /\ DOMAIN q = 1..Len(q)
      /\ \A i \in 1..Len(q) : q[i] \in S
  BY LenProperties, ElementOfSeq
<1>2. /\ DOMAIN w = 1..(Len(q) - 1)
      /\ \A i \in 1..(Len(q) - 1) : w[i] = IF i < n THEN q[i] ELSE q[i + 1]
  BY DEF Without
<1>3. w \in Seq(S)
  BY <1>1 DEF Without
<1>4. ASSUME NEW i \in 1..Len(q), i # n
      PROVE  q[i] \in Range(w)
  <2>1. CASE i < n
    <3>1. i \in DOMAIN w /\ w[i] = q[i]
      BY <2>1, <1>1, <1>2
    <3> QED BY <3>1 DEF Range
  <2>2. CASE i > n
    <3>1. i - 1 \in DOMAIN w /\ w[i - 1] = q[i]
      BY <2>2, <1>1, <1>2
    <3> QED BY <3>1 DEF Range
  <2> QED BY <2>1, <2>2, <1>4, <1>1
<1>5. \A y \in Range(q) : y = q[n] \/ y \in Range(w)
  BY <1>1, <1>4 DEF Range
<1>6. \A i \in DOMAIN w : w[i] \in Range(q)
  BY <1>1, <1>2 DEF Range
<1> HIDE DEF w
<1>7. \A y \in Range(w) : y \in Range(q)
  BY <1>6 DEF Range
<1> QED BY <1>3, <1>5, <1>7 DEF w

\* A registration is queued and replaces only registrations of its token
\* (relay.py _queue).
LEMMA RangeOfQueued ==
    ASSUME NEW q \in Seq(Items), NEW r \in Registrations
    PROVE  /\ Queued(r, q) \in Seq(Items)
           /\ r \in Range(Queued(r, q))
           /\ \A y \in Range(Queued(r, q)) : y \in Range(q) \/ y = r
           /\ \A y \in Range(q) : SameToken(y, r) \/ y \in Range(Queued(r, q))
<1> DEFINE old == {n \in 1..Len(q) : SameToken(q[n], r)}
           n == CHOOSE n \in old : TRUE
           kept == IF old = {} THEN q ELSE Without(q, n)
<1>1. Queued(r, q) = Append(kept, r)
  BY DEF Queued
<1>2. r \in Items
  BY DEF Items
<1>3. /\ kept \in Seq(Items)
      /\ \A y \in Range(kept) : y \in Range(q)
      /\ \A y \in Range(q) : SameToken(y, r) \/ y \in Range(kept)
  <2>1. CASE old = {}
    BY <2>1
  <2>2. CASE old # {}
    <3>1. n \in old
      BY <2>2
    <3>2. n \in 1..Len(q) /\ SameToken(q[n], r)
      BY <3>1
    <3>3. kept = Without(q, n)
      BY <2>2
    <3> HIDE DEF n, old
    <3>4. /\ Without(q, n) \in Seq(Items)
          /\ \A y \in Range(q) : y = q[n] \/ y \in Range(Without(q, n))
          /\ \A y \in Range(Without(q, n)) : y \in Range(q)
      BY <3>2, RangeOfWithout
    <3> QED BY <3>2, <3>3, <3>4
  <2> QED BY <2>1, <2>2
<1> HIDE DEF kept, old, n
<1>4. /\ Append(kept, r) \in Seq(Items)
      /\ \A y : y \in Range(Append(kept, r)) <=> y \in Range(kept) \/ y = r
  BY <1>2, <1>3, RangeOfAppend
<1> QED BY <1>1, <1>3, <1>4

-----------------------------------------------------------------------------
(* Types                                                                   *)

LEMMA InitTypeOK == Init => TypeOK
<1> SUFFICES ASSUME Init PROVE TypeOK
  OBVIOUS
<1>1. <<>> \in Seq(Items)
  BY EmptySeq
<1>2. mem \in States
  BY <1>1 DEF Init, States
<1> QED BY <1>2 DEF Init, TypeOK

\* The world changes the signals only.
LEMMA WorldTypeOK == ASSUME TypeOK, World PROVE TypeOK'
<1>1. PICK s \in Signals :
          Raise(s) \/ Clear(s) \/ Reword(s) \/ Hide(s) \/ Reveal(s)
  BY DEF World
<1>2. /\ signals[s].occurrence \in Nat
      /\ signals[s].version \in Nat
  BY DEF TypeOK
<1>3. PICK status \in {"clear", "active", "hidden"}, o \in Nat, v \in Nat :
          Change(s, status, o, v)
  BY <1>1, <1>2 DEF Raise, Clear, Reword, Hide, Reveal
<1> QED BY <1>3 DEF Change, TypeOK, agentVars

\* The events observe finds are events, whatever signals are active.
LEMMA EventOfType ==
    ASSUME TypeOK, NEW s \in Signals
    PROVE  EventOf(s) \in Events
<1>1. signals[s].occurrence \in Nat /\ signals[s].version \in Nat
  BY DEF TypeOK
<1> QED BY <1>1 DEF EventOf, Events

\* A queue without its head, as _flush saves it.
LEMMA PopHeadTypeOK ==
    ASSUME TypeOK, mem.outbox # <<>>, PopHead
    PROVE  /\ mem' \in States /\ disk' \in States
           /\ pc' \in {"idle", "flush"}
           /\ Head(mem.outbox) \in Items
<1>1. mem.outbox \in Seq(Items)
  BY DEF TypeOK, States
<1>2. Tail(mem.outbox) \in Seq(Items) /\ Head(mem.outbox) \in Items
  BY <1>1, RangeOfTail
<1>3. [mem EXCEPT !.outbox = Tail(@)] \in States
  BY <1>2 DEF TypeOK, States
<1> QED BY <1>2, <1>3 DEF PopHead, Saved, SaveFailed, TypeOK

\* A request is under way only for the head of the outbox.
RequestHasHead == pc = "request" => mem.outbox # <<>>

LEMMA NextTypeOK ==
    ASSUME TypeOK, RequestHasHead, [Next]_vars
    PROVE  TypeOK' /\ RequestHasHead'
<1> USE DEF RequestHasHead
<1>1. CASE World
  <2>1. TypeOK'
    BY <1>1, WorldTypeOK
  <2> QED BY <1>1, <2>1
          DEF World, Raise, Clear, Reword, Hide, Reveal, Change, agentVars
<1>2. CASE Crash
  <2> DEFINE cleared(s) == [signals[s] EXCEPT !.status = "clear", !.version = 0]
  <2>1. \A s \in Signals : cleared(s) \in [status     : {"clear", "active", "hidden"},
                                          occurrence : Nat,
                                          version    : Nat]
    BY DEF TypeOK
  <2>2. signals' = [s \in Signals |-> cleared(s)]
    BY <1>2 DEF Crash
  <2> HIDE DEF cleared
  <2>3. signals' \in [Signals -> [status     : {"clear", "active", "hidden"},
                                  occurrence : Nat,
                                  version    : Nat]]
    BY <2>1, <2>2
  <2>4. crashes' = crashes + 1 /\ mem' = disk /\ pc' = "idle" /\ todo' = {}
    BY <1>2 DEF Crash
  <2>5. UNCHANGED <<disk, accepted, rejected, changes>>
    BY <1>2 DEF Crash
  <2> QED BY <2>3, <2>4, <2>5 DEF TypeOK
<1>3. CASE AdoptClaim
  <2>1. [mem EXCEPT !.enrolled = TRUE] \in States
    BY DEF TypeOK, States
  <2> QED BY <1>3, <2>1 DEF AdoptClaim, Saved, SaveFailed, TypeOK, worldVars
<1>4. CASE ObserveBegin
  <2>1. [s \in Signals |-> IF s \in Active THEN mem.delivered[s] ELSE None]
            \in [Signals -> Nat \cup {None}]
    BY DEF TypeOK, States
  <2>2. mem' \in States
    BY <1>4, <2>1 DEF ObserveBegin, TypeOK, States
  <2>3. todo' \subseteq Events
    BY <1>4, EventOfType DEF ObserveBegin, Unannounced, Active
  <2> QED BY <1>4, <2>2, <2>3 DEF ObserveBegin, TypeOK, worldVars
<1>5. CASE \E e \in todo : QueueSignal(e)
  <2>1. PICK e \in todo : QueueSignal(e)
    BY <1>5
  <2>2. e \in Events /\ e \in Items /\ mem.outbox \in Seq(Items)
    BY DEF TypeOK, States, Items
  <2>3. Append(mem.outbox, e) \in Seq(Items)
    BY <2>2, RangeOfAppend
  <2>4. e.signal \in Signals /\ e.version \in Nat
    BY <2>2 DEF Events
  <2>5. [mem EXCEPT !.delivered[e.signal] = e.version,
                    !.outbox = Append(@, e)] \in States
    BY <2>3, <2>4 DEF TypeOK, States
  <2> QED BY <2>1, <2>5 DEF QueueSignal, Saved, SaveFailed, TypeOK, worldVars
<1>6. CASE ObserveEnd
  BY <1>6 DEF ObserveEnd, Saved, SaveFailed, TypeOK, worldVars
<1>7. CASE \E t \in Tokens : RegisterDevice(t)
  <2>1. PICK t \in Tokens : RegisterDevice(t)
    BY <1>7
  <2> DEFINE r == [kind |-> "devices", token |-> t, preference |-> changes + 1]
  <2>2. r \in Registrations /\ mem.outbox \in Seq(Items) /\ changes + 1 \in Nat
    BY DEF Registrations, TypeOK, States
  <2>3. Queued(r, mem.outbox) \in Seq(Items)
    BY <2>2, RangeOfQueued
  <2>4. [mem EXCEPT !.outbox = Queued(r, @)] \in States
    BY <2>3 DEF TypeOK, States
  <2> QED BY <2>1, <2>2, <2>4 DEF RegisterDevice, Saved, SaveFailed, TypeOK
<1>8. CASE EnrollmentChecked
  BY <1>8 DEF EnrollmentChecked, TypeOK, worldVars
<1>9. CASE FlushDone
  BY <1>9 DEF FlushDone, TypeOK, worldVars
<1>10. CASE Send
  BY <1>10 DEF Send, TypeOK, worldVars
<1>11. CASE Accepted
  BY <1>11, PopHeadTypeOK DEF Accepted, TypeOK, worldVars
<1>12. CASE Rejected
  BY <1>12, PopHeadTypeOK DEF Rejected, TypeOK, worldVars
<1>13. CASE Postponed
  BY <1>13 DEF Postponed, TypeOK, worldVars
<1>14. CASE UNCHANGED vars
  BY <1>14 DEF vars, TypeOK
<1> QED BY <1>1, <1>2, <1>3, <1>4, <1>5, <1>6, <1>7, <1>8, <1>9, <1>10, <1>11,
           <1>12, <1>13, <1>14 DEF Next, Observe

\* Every variable keeps its type: what _save writes is a state that _load
\* reads back.
THEOREM TypeCorrect == Spec => []TypeOK
<1>1. Init => TypeOK /\ RequestHasHead
  BY InitTypeOK DEF Init, RequestHasHead
<1>2. TypeOK /\ RequestHasHead /\ [Next]_vars => TypeOK' /\ RequestHasHead'
  BY NextTypeOK
<1> QED BY <1>1, <1>2, PTL DEF Spec

-----------------------------------------------------------------------------
(* What one step does to the items of the outbox in memory                 *)

\* Item i is still in the queue, was answered, or gave way to a newer one.
Kept(i, queue, answers) ==
    i \in Range(queue) \cup answers \/ Superseded(i, queue, answers)

\* Whatever was found, queued, saved or answered.
Known == todo \cup Range(mem.outbox) \cup Range(disk.outbox) \cup Answered

\* A registration or an occurrence with number n or less.
UpTo(i, n) ==
    /\ i.kind = "devices" => i.preference <= n
    /\ i.kind = "events" => i.occurrence <= n

\* Occurrences and registrations are numbered by the changes so far.
Numbered ==
    /\ changes <= MaxChanges
    /\ \A s \in Signals : signals[s].occurrence <= changes
    /\ \A i \in Known : UpTo(i, changes)

\* The fingerprint of s is an old one or the one of an event in the outbox.
FingerprintExplained(s) ==
    \/ mem'.delivered[s] \in {None, mem.delivered[s]}
    \/ \E e \in Range(mem'.outbox) :
          e.kind = "events" /\ e.signal = s /\ e.version = mem'.delivered[s]

\* The guarantee of a step: it keeps what memory holds, records a fingerprint
\* together with its event, and saves what is in memory or nothing.
StepKeeps ==
    /\ Answered \subseteq Answered'
    /\ disk' \in {disk, mem'}
    /\ \A i \in Range(mem.outbox) : Kept(i, mem'.outbox, Answered')
    /\ \A s \in Signals : FingerprintExplained(s)

\* A step that leaves the outbox and the fingerprints alone keeps everything.
LEMMA QuietStep ==
    ASSUME UNCHANGED <<accepted, rejected>>,
           mem'.outbox = mem.outbox, mem'.delivered = mem.delivered,
           disk' \in {disk, mem'}
    PROVE  StepKeeps
BY DEF StepKeeps, Answered, Kept, FingerprintExplained

LEMMA ObserveBeginKeeps == ASSUME TypeOK, ObserveBegin PROVE StepKeeps
<1>1. /\ mem'.outbox = mem.outbox
      /\ mem'.delivered =
            [s \in Signals |-> IF s \in Active THEN mem.delivered[s] ELSE None]
  BY DEF ObserveBegin, TypeOK, States
<1>2. UNCHANGED <<disk, accepted, rejected>>
  BY DEF ObserveBegin
<1>3. \A s \in Signals : mem'.delivered[s] \in {None, mem.delivered[s]}
  BY <1>1
<1> QED BY <1>1, <1>2, <1>3
        DEF StepKeeps, Answered, Kept, FingerprintExplained

LEMMA QueueSignalKeeps ==
    ASSUME TypeOK, NEW e \in todo, QueueSignal(e)
    PROVE  StepKeeps
<1> DEFINE m == [mem EXCEPT !.delivered[e.signal] = e.version,
                            !.outbox = Append(@, e)]
<1>1. mem' = m /\ disk' \in {disk, mem'} /\ UNCHANGED <<accepted, rejected>>
  BY DEF QueueSignal, Saved, SaveFailed
<1>2. /\ mem \in States
      /\ e \in Events /\ e \in Items
  BY DEF TypeOK, Items
<1>3. /\ mem'.outbox = Append(mem.outbox, e)
      /\ mem'.delivered = [mem.delivered EXCEPT ![e.signal] = e.version]
      /\ mem.outbox \in Seq(Items)
      /\ mem.delivered \in [Signals -> Nat \cup {None}]
      /\ e.kind = "events"
  BY <1>1, <1>2 DEF States, Events
<1>4. \A y : y \in Range(mem'.outbox) <=> y \in Range(mem.outbox) \/ y = e
  BY <1>2, <1>3, RangeOfAppend
<1>5. ASSUME NEW s \in Signals PROVE FingerprintExplained(s)
  <2>1. CASE s = e.signal
    BY <2>1, <1>3, <1>4 DEF FingerprintExplained
  <2>2. CASE s # e.signal
    BY <2>2, <1>3 DEF FingerprintExplained
  <2> QED BY <2>1, <2>2
<1> QED BY <1>1, <1>4, <1>5 DEF StepKeeps, Answered, Kept

LEMMA RegisterDeviceKeeps ==
    ASSUME TypeOK, Numbered, NEW t \in Tokens, RegisterDevice(t)
    PROVE  StepKeeps
<1> DEFINE r == [kind |-> "devices", token |-> t, preference |-> changes + 1]
<1>1. /\ mem' = [mem EXCEPT !.outbox = Queued(r, @)]
      /\ disk' \in {disk, mem'}
      /\ UNCHANGED <<accepted, rejected>>
  BY DEF RegisterDevice, Saved, SaveFailed
<1>2. mem \in States /\ changes \in Nat /\ r \in Registrations
  BY DEF TypeOK, Registrations
<1>3. /\ mem'.outbox = Queued(r, mem.outbox)
      /\ mem'.delivered = mem.delivered
      /\ mem.outbox \in Seq(Items)
  BY <1>1, <1>2 DEF States
<1>4. /\ r \in Range(mem'.outbox)
      /\ \A y \in Range(mem.outbox) :
            SameToken(y, r) \/ y \in Range(mem'.outbox)
  BY <1>2, <1>3, RangeOfQueued
<1>5. ASSUME NEW i \in Range(mem.outbox) PROVE Kept(i, mem'.outbox, Answered')
  <2>1. CASE i \in Range(mem'.outbox)
    BY <2>1 DEF Kept
  <2>2. CASE SameToken(i, r)
    <3>1. i.kind = "devices" /\ i.token = r.token
      BY <2>2 DEF SameToken
    <3>2. i \in Items
      BY <1>3, LenProperties DEF Range
    <3>3. i.preference \in Nat /\ i.preference <= changes
      BY <3>1, <3>2 DEF Numbered, Known, UpTo, Items, Events, Registrations
    <3>4. r.kind = "devices" /\ r.token = i.token /\ r.preference > i.preference
      BY <3>1, <3>3, <1>2
    <3> HIDE DEF r
    <3> QED BY <3>1, <3>4, <1>4 DEF Kept, Superseded
  <2> QED BY <2>1, <2>2, <1>4
<1> QED BY <1>1, <1>3, <1>5 DEF StepKeeps, Answered, FingerprintExplained

\* A final answer takes the head from the outbox into the answers.
LEMMA AnswerKeeps ==
    ASSUME TypeOK, RequestHasHead, Accepted \/ Rejected
    PROVE  StepKeeps
<1>1. /\ mem.outbox # <<>> /\ PopHead
      /\ Answered' = Answered \cup {Head(mem.outbox)}
  BY DEF Accepted, Rejected, RequestHasHead, Answered
<1>2. mem' = [mem EXCEPT !.outbox = Tail(@)] /\ disk' \in {disk, mem'}
  BY <1>1 DEF PopHead, Saved, SaveFailed
<1>3. /\ mem'.outbox = Tail(mem.outbox)
      /\ mem'.delivered = mem.delivered
      /\ mem.outbox \in Seq(Items)
  BY <1>2 DEF TypeOK, States
<1>4. \A y \in Range(mem.outbox) :
          y = Head(mem.outbox) \/ y \in Range(mem'.outbox)
  BY <1>1, <1>3, RangeOfTail
<1> QED BY <1>1, <1>2, <1>3, <1>4 DEF StepKeeps, Kept, FingerprintExplained

\* Every step but a crash keeps the items and explains the fingerprints.
LEMMA NextKeeps ==
    ASSUME TypeOK, RequestHasHead, Numbered, [Next]_vars, ~Crash
    PROVE  StepKeeps
<1>1. CASE World
  BY <1>1, QuietStep
  DEF World, Raise, Clear, Reword, Hide, Reveal, Change, agentVars
<1>2. CASE AdoptClaim
  <2>1. /\ mem' = [mem EXCEPT !.enrolled = TRUE]
        /\ disk' \in {disk, mem'}
        /\ UNCHANGED <<accepted, rejected>>
    BY <1>2 DEF AdoptClaim, Saved, SaveFailed
  <2>2. mem'.outbox = mem.outbox /\ mem'.delivered = mem.delivered
    BY <2>1 DEF TypeOK, States
  <2> QED BY <2>1, <2>2, QuietStep
<1>3. CASE ObserveBegin
  BY <1>3, ObserveBeginKeeps
<1>4. CASE \E e \in todo : QueueSignal(e)
  BY <1>4, QueueSignalKeeps
<1>5. CASE ObserveEnd
  BY <1>5, QuietStep DEF ObserveEnd, Saved, SaveFailed
<1>6. CASE \E t \in Tokens : RegisterDevice(t)
  BY <1>6, RegisterDeviceKeeps
<1>7. CASE EnrollmentChecked \/ FlushDone \/ Send \/ Postponed
  BY <1>7, QuietStep DEF EnrollmentChecked, FlushDone, Send, Postponed
<1>8. CASE Accepted \/ Rejected
  BY <1>8, AnswerKeeps
<1>9. CASE UNCHANGED vars
  BY <1>9, QuietStep DEF vars
<1> QED BY <1>1, <1>2, <1>3, <1>4, <1>5, <1>6, <1>7, <1>8, <1>9
        DEF Next, Observe

\* Giving way to a newer registration carries over from step to step.
LEMMA KeptIsTransitive ==
    ASSUME NEW q \in Seq(Items), NEW r \in Seq(Items),
           NEW A \in SUBSET Items, NEW B \in SUBSET Items, A \subseteq B,
           \A j \in Range(q) : Kept(j, r, B),
           NEW i \in Items, Kept(i, q, A)
    PROVE  Kept(i, r, B)
<1>1. CASE i \in Range(q) \cup A
  BY <1>1 DEF Kept
<1>2. CASE Superseded(i, q, A)
  <2>1. PICK j \in Range(q) \cup A :
            j.kind = "devices" /\ j.token = i.token /\ j.preference > i.preference
    BY <1>2 DEF Superseded
  <2>2. i.kind = "devices"
    BY <1>2 DEF Superseded
  <2>3. j \in Items
    BY LenProperties DEF Range
  <2>4. i.preference \in Nat /\ j.preference \in Nat
    BY <2>1, <2>2, <2>3 DEF Items, Events, Registrations
  <2>5. CASE j \in Range(r) \cup B
    BY <2>1, <2>2, <2>5 DEF Kept, Superseded
  <2>6. CASE Superseded(j, r, B)
    <3>1. PICK k \in Range(r) \cup B :
              k.kind = "devices" /\ k.token = j.token /\ k.preference > j.preference
      BY <2>6 DEF Superseded
    <3>2. k \in Items
      BY LenProperties DEF Range
    <3>3. k.preference \in Nat
      BY <3>1, <3>2 DEF Items, Events, Registrations
    <3>4. k.token = i.token /\ k.preference > i.preference
      BY <2>1, <2>4, <3>1, <3>3
    <3> QED BY <2>2, <3>1, <3>4 DEF Kept, Superseded
  <2> QED BY <2>1, <2>5, <2>6 DEF Kept
<1> QED BY <1>1, <1>2 DEF Kept

\* Where an item found or queued by a step comes from.
NewItem(i) ==
    \/ \E s \in Active : i = EventOf(s)
    \/ \E t \in Tokens :
          i = [kind |-> "devices", token |-> t, preference |-> changes']

\* What a step adds comes from a signal or carries the number of the change.
StepNumbers ==
    /\ changes' \in Nat /\ changes <= changes' /\ changes' <= MaxChanges
    /\ \A s \in Signals : signals'[s].occurrence <= changes'
    /\ Answered' \subseteq Known
    /\ disk' \in {disk, mem'}
    /\ \A i \in Range(mem'.outbox) \cup todo' : i \in Known \/ NewItem(i)

\* A step of the Agent that neither raises a signal nor finds or queues an item.
LEMMA QuietNumbers ==
    ASSUME TypeOK, Numbered, UNCHANGED <<signals, accepted, rejected, changes>>,
           disk' \in {disk, mem'}, todo' \subseteq todo,
           \A i \in Range(mem'.outbox) : i \in Known
    PROVE  StepNumbers
BY DEF StepNumbers, TypeOK, Numbered, Answered, Known

\* A change of the signals may start the next occurrence.
LEMMA WorldNumbers == ASSUME TypeOK, Numbered, World PROVE StepNumbers
<1>1. PICK s \in Signals :
          Raise(s) \/ Clear(s) \/ Reword(s) \/ Hide(s) \/ Reveal(s)
  BY DEF World
<1>2. /\ signals[s].occurrence \in Nat /\ signals[s].version \in Nat
      /\ signals[s].occurrence <= changes
      /\ changes \in Nat /\ MaxChanges \in Nat
  BY OutboxAssumption DEF TypeOK, Numbered
<1>3. PICK status \in {"clear", "active", "hidden"}, o \in Nat, v \in Nat :
          Change(s, status, o, v) /\ o <= changes + 1
  BY <1>1, <1>2 DEF Raise, Clear, Reword, Hide, Reveal
<1>4. /\ changes' = changes + 1 /\ changes < MaxChanges
      /\ signals' = [signals EXCEPT ![s] = [status     |-> status,
                                            occurrence |-> o,
                                            version    |-> v]]
      /\ UNCHANGED <<mem, disk, todo, accepted, rejected>>
  BY <1>3 DEF Change, agentVars
<1>5. ASSUME NEW x \in Signals PROVE signals'[x].occurrence <= changes'
  <2>1. signals[x].occurrence \in Nat /\ signals[x].occurrence <= changes
    BY DEF TypeOK, Numbered
  <2>2. CASE x = s
    BY <2>2, <1>3, <1>4 DEF TypeOK
  <2>3. CASE x # s
    BY <2>1, <2>3, <1>2, <1>4 DEF TypeOK
  <2> QED BY <2>2, <2>3
<1> QED BY <1>2, <1>4, <1>5 DEF StepNumbers, Known, Answered

\* A restart keeps the occurrences and takes the items of the state file.
LEMMA CrashNumbers == ASSUME TypeOK, Numbered, Crash PROVE StepNumbers
<1>1. /\ mem' = disk /\ todo' = {}
      /\ UNCHANGED <<disk, accepted, rejected, changes>>
  BY DEF Crash
<1>2. signals' = [s \in Signals |-> [signals[s] EXCEPT !.status = "clear",
                                                       !.version = 0]]
  BY DEF Crash
<1>3. \A s \in Signals : signals'[s].occurrence = signals[s].occurrence
  BY <1>2 DEF TypeOK
<1> QED BY <1>1, <1>3 DEF StepNumbers, TypeOK, Numbered, Answered, Known

\* The events observe finds are those of active signals.
LEMMA ObserveBeginNumbers == ASSUME TypeOK, Numbered, ObserveBegin PROVE StepNumbers
<1>1. mem'.outbox = mem.outbox
  BY DEF ObserveBegin, TypeOK, States
<1>2. /\ UNCHANGED <<disk, accepted, rejected, changes, signals>>
      /\ todo' = {EventOf(s) : s \in Unannounced}
  BY DEF ObserveBegin, worldVars
<1>3. \A i \in todo' : NewItem(i)
  BY <1>2 DEF NewItem, Unannounced
<1> QED BY <1>1, <1>2, <1>3 DEF StepNumbers, TypeOK, Numbered, Answered, Known

LEMMA QueueSignalNumbers ==
    ASSUME TypeOK, Numbered, NEW e \in todo, QueueSignal(e)
    PROVE  StepNumbers
<1>1. /\ mem' = [mem EXCEPT !.delivered[e.signal] = e.version,
                            !.outbox = Append(@, e)]
      /\ disk' \in {disk, mem'} /\ todo' \subseteq todo
      /\ UNCHANGED <<signals, accepted, rejected, changes>>
  BY DEF QueueSignal, Saved, SaveFailed, worldVars
<1>2. /\ e \in Items
      /\ mem.outbox \in Seq(Items)
      /\ mem'.outbox = Append(mem.outbox, e)
  BY <1>1 DEF TypeOK, Items, States
<1>3. \A i \in Range(mem'.outbox) : i \in Range(mem.outbox) \/ i = e
  BY <1>2, RangeOfAppend
<1>4. \A i \in Range(mem'.outbox) : i \in Known
  BY <1>3 DEF Known
<1> QED BY <1>1, <1>4, QuietNumbers

\* register_device lets in a registration under the next number.
LEMMA RegisterDeviceNumbers ==
    ASSUME TypeOK, Numbered, NEW t \in Tokens, RegisterDevice(t)
    PROVE  StepNumbers
<1> DEFINE r == [kind |-> "devices", token |-> t, preference |-> changes + 1]
<1>1. /\ mem' = [mem EXCEPT !.outbox = Queued(r, @)]
      /\ disk' \in {disk, mem'}
      /\ UNCHANGED <<signals, todo, accepted, rejected>>
      /\ changes < MaxChanges /\ changes' = changes + 1
  BY DEF RegisterDevice, Saved, SaveFailed
<1>2. changes \in Nat /\ MaxChanges \in Nat
  BY OutboxAssumption DEF TypeOK
<1>3. /\ r \in Registrations
      /\ mem.outbox \in Seq(Items)
      /\ mem'.outbox = Queued(r, mem.outbox)
  BY <1>1, <1>2 DEF TypeOK, Registrations, States
<1>4. \A i \in Range(mem'.outbox) : i \in Range(mem.outbox) \/ i = r
  BY <1>3, RangeOfQueued
<1>5. NewItem(r)
  BY <1>1 DEF NewItem
<1>6. \A s \in Signals : signals[s].occurrence \in Nat
  BY DEF TypeOK
<1>7. \A s \in Signals : signals'[s].occurrence <= changes'
  BY <1>1, <1>2, <1>6 DEF Numbered
<1>8. \A i \in Range(mem'.outbox) \cup todo' : i \in Known \/ NewItem(i)
  BY <1>1, <1>4, <1>5 DEF Known
<1>9. changes' \in Nat /\ changes <= changes' /\ changes' <= MaxChanges
  BY <1>1, <1>2
<1>10. Answered' = Answered
  BY <1>1 DEF Answered
<1> QED BY <1>1, <1>7, <1>8, <1>9, <1>10 DEF StepNumbers, Known

LEMMA AnswerNumbers ==
    ASSUME TypeOK, RequestHasHead, Numbered, Accepted \/ Rejected
    PROVE  StepNumbers
<1>1. /\ mem.outbox # <<>> /\ PopHead
      /\ Answered' = Answered \cup {Head(mem.outbox)}
      /\ UNCHANGED <<signals, changes, todo>>
  BY DEF Accepted, Rejected, RequestHasHead, Answered, worldVars
<1>2. mem' = [mem EXCEPT !.outbox = Tail(@)] /\ disk' \in {disk, mem'}
  BY <1>1 DEF PopHead, Saved, SaveFailed
<1>3. mem'.outbox = Tail(mem.outbox) /\ mem.outbox \in Seq(Items)
  BY <1>2 DEF TypeOK, States
<1>4. /\ Head(mem.outbox) \in Range(mem.outbox)
      /\ \A i \in Range(mem'.outbox) : i \in Range(mem.outbox)
  BY <1>1, <1>3, RangeOfTail
<1> QED BY <1>1, <1>2, <1>4 DEF StepNumbers, TypeOK, Numbered, Known

LEMMA NextNumbers ==
    ASSUME TypeOK, RequestHasHead, Numbered, [Next]_vars
    PROVE  StepNumbers
<1>1. CASE World
  BY <1>1, WorldNumbers
<1>2. CASE Crash
  BY <1>2, CrashNumbers
<1>3. CASE AdoptClaim
  <2>1. /\ mem' = [mem EXCEPT !.enrolled = TRUE]
        /\ disk' \in {disk, mem'}
        /\ UNCHANGED <<signals, todo, accepted, rejected, changes>>
    BY <1>3 DEF AdoptClaim, Saved, SaveFailed, worldVars
  <2>2. mem'.outbox = mem.outbox
    BY <2>1 DEF TypeOK, States
  <2> QED BY <2>1, <2>2, QuietNumbers DEF Known
<1>4. CASE ObserveBegin
  BY <1>4, ObserveBeginNumbers
<1>5. CASE \E e \in todo : QueueSignal(e)
  BY <1>5, QueueSignalNumbers
<1>6. CASE ObserveEnd
  BY <1>6, QuietNumbers DEF ObserveEnd, Saved, SaveFailed, worldVars, Known
<1>7. CASE \E t \in Tokens : RegisterDevice(t)
  BY <1>7, RegisterDeviceNumbers
<1>8. CASE EnrollmentChecked \/ FlushDone \/ Send \/ Postponed
  BY <1>8, QuietNumbers
  DEF EnrollmentChecked, FlushDone, Send, Postponed, worldVars, Known
<1>9. CASE Accepted \/ Rejected
  BY <1>9, AnswerNumbers
<1>10. CASE UNCHANGED vars
  BY <1>10, QuietNumbers DEF vars, Known
<1> QED BY <1>1, <1>2, <1>3, <1>4, <1>5, <1>6, <1>7, <1>8, <1>9, <1>10
        DEF Next, Observe

\* So no item carries a number that is still to come.
LEMMA NumberedStep ==
    ASSUME TypeOK, RequestHasHead, Numbered, [Next]_vars
    PROVE  Numbered'
<1>1. StepNumbers
  BY NextNumbers
<1>2. Known \subseteq Items
  BY LenProperties DEF TypeOK, States, Range, Answered, Known, Items
<1>3. ASSUME NEW i \in Known PROVE UpTo(i, changes')
  <2>1. i \in Items /\ UpTo(i, changes)
    BY <1>2 DEF Numbered
  <2>2. changes \in Nat /\ changes' \in Nat /\ changes <= changes'
    BY <1>1 DEF TypeOK, StepNumbers
  <2> QED BY <2>1, <2>2 DEF Items, Events, Registrations, UpTo
<1>4. Known' \subseteq Known \cup Range(mem'.outbox) \cup todo'
  BY <1>1 DEF StepNumbers, Known
<1>5. ASSUME NEW i, NewItem(i) PROVE UpTo(i, changes')
  <2>1. ASSUME NEW s \in Active, i = EventOf(s) PROVE UpTo(i, changes')
    <3>1. s \in Signals /\ signals[s].occurrence <= changes /\ changes \in Nat
      BY DEF Active, Numbered, TypeOK
    <3>2. signals[s].occurrence \in Nat /\ changes' \in Nat /\ changes <= changes'
      BY <1>1, <3>1 DEF StepNumbers, TypeOK
    <3>3. i.kind = "events" /\ i.occurrence <= changes'
      BY <2>1, <3>1, <3>2 DEF EventOf
    <3> QED BY <3>3 DEF UpTo
  <2>2. ASSUME NEW t \in Tokens,
               i = [kind |-> "devices", token |-> t, preference |-> changes']
        PROVE  UpTo(i, changes')
    BY <1>1, <2>2 DEF StepNumbers, UpTo
  <2> QED BY <1>5, <2>1, <2>2 DEF NewItem
<1>6. \A i \in Known' : UpTo(i, changes')
  BY <1>1, <1>3, <1>4, <1>5 DEF StepNumbers
<1> QED BY <1>1, <1>6 DEF StepNumbers, Numbered, UpTo

-----------------------------------------------------------------------------
(* The inductive invariant                                                 *)

\* What the state file still owes is in memory too, or it is settled.
DiskKept == \A i \in Range(disk.outbox) : Kept(i, mem.outbox, Answered)

OutboxInv ==
    /\ TypeOK
    /\ RequestHasHead
    /\ Numbered
    /\ DiskKept
    /\ FingerprintsAccounted

\* A fingerprint accounted for before the step is accounted for after it.
LEMMA AccountsStep ==
    ASSUME TypeOK, TypeOK', StepKeeps, Accounts(mem)
    PROVE  Accounts(mem)'
<1>1. ASSUME NEW s \in Signals, mem'.delivered[s] # None
      PROVE  \E e \in Range(mem'.outbox) \cup Answered' :
                e.kind = "events" /\ e.signal = s /\ e.version = mem'.delivered[s]
  <2>1. CASE mem'.delivered[s] = mem.delivered[s]
    <3>1. PICK e \in Range(mem.outbox) \cup Answered :
              e.kind = "events" /\ e.signal = s /\ e.version = mem.delivered[s]
      BY <1>1, <2>1 DEF Accounts
    <3>2. e \in Range(mem'.outbox) \cup Answered'
      BY <3>1 DEF StepKeeps, Kept, Superseded
    <3> QED BY <2>1, <3>1, <3>2
  <2>2. CASE mem'.delivered[s] # mem.delivered[s]
    BY <1>1, <2>2 DEF StepKeeps, FingerprintExplained
  <2> QED BY <2>1, <2>2
<1> QED BY <1>1 DEF Accounts, StepKeeps

\* The answers only grow, so a state file that is not rewritten stays accounted
\* for by its own outbox.
LEMMA DiskAccountsStep ==
    ASSUME StepKeeps, Accounts(mem)', Accounts(disk)
    PROVE  Accounts(disk)'
<1>1. CASE disk' = disk
  BY <1>1 DEF Accounts, StepKeeps
<1>2. CASE disk' = mem'
  BY <1>2 DEF Accounts
<1> QED BY <1>1, <1>2 DEF StepKeeps

LEMMA InvInit == Init => OutboxInv
<1> SUFFICES ASSUME Init PROVE OutboxInv
  OBVIOUS
<1>1. mem.outbox = <<>> /\ disk = mem /\ accepted = {} /\ rejected = {}
  BY DEF Init
<1>2. Range(mem.outbox) = {}
  BY <1>1 DEF Range
<1>3. \A s \in Signals : mem.delivered[s] = None
  BY DEF Init
<1>4. Numbered
  <2>1. Known = {}
    BY <1>1, <1>2 DEF Known, Answered, Init
  <2>2. \A s \in Signals : signals[s].occurrence = 0
    BY DEF Init
  <2> QED BY <2>1, <2>2, OutboxAssumption DEF Numbered, Init
<1> QED BY <1>1, <1>2, <1>3, <1>4, InitTypeOK
        DEF OutboxInv, RequestHasHead, DiskKept, Init,
            FingerprintsAccounted, Accounts, Answered

LEMMA InvStep == OutboxInv /\ [Next]_vars => OutboxInv'
<1> SUFFICES ASSUME OutboxInv, [Next]_vars PROVE OutboxInv'
  OBVIOUS
<1> USE DEF OutboxInv
<1>1. TypeOK' /\ RequestHasHead'
  BY NextTypeOK
<1>2. Numbered'
  BY NumberedStep
<1>3. CASE Crash
  <2>1. mem' = disk /\ UNCHANGED <<disk, accepted, rejected>>
    BY <1>3 DEF Crash
  <2>2. DiskKept'
    BY <2>1 DEF DiskKept, Kept
  <2>3. FingerprintsAccounted'
    BY <2>1 DEF FingerprintsAccounted, Accounts, Answered
  <2> QED BY <1>1, <1>2, <2>2, <2>3
<1>4. CASE ~Crash
  <2>1. StepKeeps
    BY <1>4, NextKeeps
  <2>2. FingerprintsAccounted'
    BY <1>1, <2>1, AccountsStep, DiskAccountsStep DEF FingerprintsAccounted
  <2>3. ASSUME NEW i \in Range(disk.outbox)
        PROVE  Kept(i, mem'.outbox, Answered')
    <3>1. /\ mem.outbox \in Seq(Items) /\ mem'.outbox \in Seq(Items)
          /\ Answered \in SUBSET Items /\ Answered' \in SUBSET Items
          /\ Answered \subseteq Answered'
          /\ disk.outbox \in Seq(Items)
      BY <1>1, <2>1 DEF TypeOK, States, Answered, StepKeeps
    <3>2. i \in Items
      BY <3>1, LenProperties DEF Range
    <3>3. Kept(i, mem.outbox, Answered)
      BY DEF DiskKept
    <3>4. \A j \in Range(mem.outbox) : Kept(j, mem'.outbox, Answered')
      BY <2>1 DEF StepKeeps
    <3> QED BY <3>1, <3>2, <3>3, <3>4, KeptIsTransitive
  <2>4. DiskKept'
    BY <2>1, <2>3 DEF DiskKept, StepKeeps, Kept
  <2> QED BY <1>1, <1>2, <2>2, <2>4
<1> QED BY <1>3, <1>4

\* A recorded fingerprint always has its event in the same outbox or a final
\* answer of the relay to it (relay.py observe, _flush): whatever crashes and
\* whichever saves fail.
THEOREM FingerprintsCorrect == Spec => []FingerprintsAccounted
<1>1. OutboxInv => FingerprintsAccounted
  BY DEF OutboxInv
<1> QED BY <1>1, InvInit, InvStep, PTL DEF Spec

\* No step lets an item slip out of the state file before it is settled.
LEMMA OwedStep ==
    ASSUME OutboxInv, [Next]_vars
    PROVE  \A i \in Range(disk.outbox) :
              \/ i \in Range(disk'.outbox) \cup Answered'
              \/ Superseded(i, disk'.outbox, Answered')
<1>1. OutboxInv'
  BY InvStep
<1>2. CASE disk' = disk
  BY <1>2
<1>3. CASE disk' # disk
  <2>1. ~Crash
    BY <1>3 DEF Crash
  <2>2. StepKeeps
    BY <2>1, NextKeeps DEF OutboxInv
  <2>3. disk' = mem'
    BY <1>3, <2>2 DEF StepKeeps
  <2>4. ASSUME NEW i \in Range(disk.outbox)
        PROVE  Kept(i, mem'.outbox, Answered')
    <3>1. /\ mem.outbox \in Seq(Items) /\ mem'.outbox \in Seq(Items)
          /\ Answered \in SUBSET Items /\ Answered' \in SUBSET Items
          /\ Answered \subseteq Answered'
          /\ disk.outbox \in Seq(Items)
      BY <1>1, <2>2 DEF OutboxInv, TypeOK, States, Answered, StepKeeps
    <3>2. i \in Items
      BY <3>1, LenProperties DEF Range
    <3>3. Kept(i, mem.outbox, Answered)
      BY DEF OutboxInv, DiskKept
    <3>4. \A j \in Range(mem.outbox) : Kept(j, mem'.outbox, Answered')
      BY <2>2 DEF StepKeeps
    <3> QED BY <3>1, <3>2, <3>3, <3>4, KeptIsTransitive
  <2> QED BY <2>3, <2>4 DEF Kept
<1> QED BY <1>2, <1>3

\* What the state file owes leaves it only for a final answer or a newer
\* registration of the same app (relay.py _flush, _queue).
THEOREM OwedCorrect == Spec => OwedUntilAnswered
<1>1. OutboxInv /\ [Next]_vars =>
        [\A i \in Range(disk.outbox) :
            i \in Range(disk'.outbox) \cup Answered'
               \/ Superseded(i, disk'.outbox, Answered')]_vars
  BY OwedStep
<1> QED BY <1>1, InvInit, InvStep, PTL DEF Spec, OwedUntilAnswered

-----------------------------------------------------------------------------
(* One registration for each app                                           *)

\* No two registrations in the queue are of one token.
OnePerToken(q) ==
    \A m, n \in 1..Len(q) :
        (/\ q[m].kind = "devices"
         /\ q[n].kind = "devices"
         /\ q[m].token = q[n].token) => m = n

\* An item can be appended when no queued registration has its token.
LEMMA AppendKeepsOne ==
    ASSUME NEW q \in Seq(Items), NEW x \in Items, OnePerToken(q),
           \A n \in 1..Len(q) : x.kind = "devices" => ~SameToken(q[n], x)
    PROVE  OnePerToken(Append(q, x))
<1>1. /\ Len(Append(q, x)) = Len(q) + 1
      /\ Len(q) \in Nat
      /\ Append(q, x)[Len(q) + 1] = x
      /\ \A i \in 1..Len(q) : Append(q, x)[i] = q[i]
  BY AppendProperties, LenProperties
<1>2. \A i \in 1..(Len(q) + 1) : i \in 1..Len(q) \/ i = Len(q) + 1
  BY <1>1
<1> QED BY <1>1, <1>2 DEF OnePerToken, SameToken

LEMMA TailKeepsOne ==
    ASSUME NEW q \in Seq(Items), q # <<>>, OnePerToken(q)
    PROVE  /\ OnePerToken(Tail(q))
           /\ \A i \in Range(Tail(q)) :
                 (i.kind = "devices" /\ Head(q).kind = "devices")
                     => i.token # Head(q).token
<1>1. /\ Len(q) \in Nat \ {0}
      /\ Len(Tail(q)) = Len(q) - 1
      /\ DOMAIN Tail(q) = 1..(Len(q) - 1)
      /\ Head(q) = q[1]
      /\ \A i \in 1..(Len(q) - 1) : Tail(q)[i] = q[i + 1]
  BY HeadTailProperties, LenProperties, EmptySeq
<1>2. \A i \in 1..(Len(q) - 1) : i + 1 \in 1..Len(q) /\ i + 1 # 1
  BY <1>1
<1>3. 1 \in 1..Len(q)
  BY <1>1
<1>4. ASSUME NEW i \in Range(Tail(q)), i.kind = "devices", Head(q).kind = "devices"
      PROVE  i.token # Head(q).token
  <2>1. PICK n \in 1..(Len(q) - 1) : i = q[n + 1]
    BY <1>1 DEF Range
  <2> QED BY <1>1, <1>2, <1>3, <1>4, <2>1 DEF OnePerToken
<1>5. ASSUME NEW m \in 1..(Len(q) - 1), NEW n \in 1..(Len(q) - 1),
             q[m + 1].kind = "devices", q[n + 1].kind = "devices",
             q[m + 1].token = q[n + 1].token
      PROVE  m = n
  <2>1. m + 1 = n + 1
    BY <1>2, <1>5 DEF OnePerToken
  <2> QED BY <2>1
<1> QED BY <1>1, <1>4, <1>5 DEF OnePerToken

\* Taking out the n-th item leaves one registration for each other token.
LEMMA WithoutKeepsOne ==
    ASSUME NEW q \in Seq(Items), NEW n \in 1..Len(q), q[n].kind = "devices",
           OnePerToken(q)
    PROVE  /\ OnePerToken(Without(q, n))
           /\ \A i \in 1..Len(Without(q, n)) : ~SameToken(Without(q, n)[i], q[n])
<1> DEFINE w == Without(q, n)
           at(i) == IF i < n THEN i ELSE i + 1
<1>1. Len(q) \in Nat \ {0} /\ n \in Nat
  BY LenProperties
<1>2. /\ Len(w) = Len(q) - 1
      /\ \A i \in 1..(Len(q) - 1) : w[i] = q[at(i)]
  <2>1. w \in Seq(Items)
    BY RangeOfWithout
  <2>2. DOMAIN w = 1..(Len(q) - 1) /\ Len(w) \in Nat /\ DOMAIN w = 1..Len(w)
    BY <2>1, LenProperties DEF Without
  <2>3. Len(w) = Len(q) - 1
    BY <1>1, <2>2
  <2> QED BY <2>3 DEF Without
<1>3. \A i \in 1..(Len(q) - 1) : at(i) \in 1..Len(q) /\ at(i) # n
  BY <1>1
<1>4. \A i, j \in 1..(Len(q) - 1) : at(i) = at(j) => i = j
  BY <1>1
<1> HIDE DEF w, at
<1>5. \A i \in 1..Len(w) : ~SameToken(w[i], q[n])
  BY <1>2, <1>3 DEF OnePerToken, SameToken
<1>6. OnePerToken(w)
  BY <1>2, <1>3, <1>4 DEF OnePerToken
<1> QED BY <1>5, <1>6 DEF w

\* The replacement in relay.py _queue keeps one registration for each token.
LEMMA QueuedKeepsOne ==
    ASSUME NEW q \in Seq(Items), NEW r \in Registrations, OnePerToken(q)
    PROVE  OnePerToken(Queued(r, q))
<1> DEFINE old == {n \in 1..Len(q) : SameToken(q[n], r)}
           n == CHOOSE n \in old : TRUE
<1>1. r \in Items /\ r.kind = "devices"
  BY DEF Items, Registrations
<1>2. CASE old = {}
  <2>1. Queued(r, q) = Append(q, r)
    BY <1>2 DEF Queued
  <2>2. \A m \in 1..Len(q) : ~SameToken(q[m], r)
    BY <1>2
  <2> QED BY <1>1, <2>1, <2>2, AppendKeepsOne
<1>3. CASE old # {}
  <2>1. n \in old
    BY <1>3
  <2>2. Queued(r, q) = Append(Without(q, n), r)
    BY <1>3 DEF Queued
  <2>3. n \in 1..Len(q) /\ SameToken(q[n], r)
    BY <2>1
  <2> HIDE DEF n, old
  <2>4. Without(q, n) \in Seq(Items)
    BY <2>3, RangeOfWithout
  <2>5. /\ OnePerToken(Without(q, n))
        /\ \A i \in 1..Len(Without(q, n)) : ~SameToken(Without(q, n)[i], q[n])
    BY <2>3, WithoutKeepsOne DEF SameToken
  <2>6. \A i \in 1..Len(Without(q, n)) : ~SameToken(Without(q, n)[i], r)
    BY <2>3, <2>5 DEF SameToken
  <2> QED BY <1>1, <2>2, <2>4, <2>5, <2>6, AppendKeepsOne
<1> QED BY <1>2, <1>3

\* What a step does to the queue in memory, and that it saves it or nothing.
QueueStep ==
    \/ Crash
    \/ /\ disk' \in {disk, mem'} /\ crashes' = crashes
       /\ \/ mem'.outbox = mem.outbox /\ Answered' = Answered
          \/ /\ Answered' = Answered
             /\ \E e \in Events : mem'.outbox = Append(mem.outbox, e)
          \/ /\ Answered' = Answered
             /\ \E r \in Registrations :
                   /\ r.preference = changes + 1
                   /\ mem'.outbox = Queued(r, mem.outbox)
          \/ /\ mem.outbox # <<>>
             /\ mem'.outbox = Tail(mem.outbox)
             /\ Answered' = Answered \cup {Head(mem.outbox)}

LEMMA NextQueue ==
    ASSUME TypeOK, RequestHasHead, [Next]_vars
    PROVE  QueueStep
<1> USE DEF QueueStep, worldVars, Answered
<1>1. CASE World
  BY <1>1 DEF World, Raise, Clear, Reword, Hide, Reveal, Change, agentVars
<1>2. CASE Crash
  BY <1>2
<1>3. CASE AdoptClaim
  BY <1>3 DEF AdoptClaim, Saved, SaveFailed, TypeOK, States
<1>4. CASE ObserveBegin
  BY <1>4 DEF ObserveBegin, TypeOK, States
<1>5. CASE \E e \in todo : QueueSignal(e)
  <2>1. PICK e \in todo : QueueSignal(e)
    BY <1>5
  <2>2. e \in Events
    BY DEF TypeOK
  <2>3. /\ mem' = [mem EXCEPT !.delivered[e.signal] = e.version,
                              !.outbox = Append(@, e)]
        /\ disk' \in {disk, mem'}
        /\ UNCHANGED <<accepted, rejected, crashes>>
    BY <2>1 DEF QueueSignal, Saved, SaveFailed
  <2>4. mem'.outbox = Append(mem.outbox, e)
    BY <2>3 DEF TypeOK, States
  <2> QED BY <2>2, <2>3, <2>4
<1>6. CASE ObserveEnd
  BY <1>6 DEF ObserveEnd, Saved, SaveFailed
<1>7. CASE \E t \in Tokens : RegisterDevice(t)
  <2>1. PICK t \in Tokens : RegisterDevice(t)
    BY <1>7
  <2> DEFINE r == [kind |-> "devices", token |-> t, preference |-> changes + 1]
  <2>2. /\ mem' = [mem EXCEPT !.outbox = Queued(r, @)]
        /\ disk' \in {disk, mem'}
        /\ UNCHANGED <<accepted, rejected, crashes>>
    BY <2>1 DEF RegisterDevice, Saved, SaveFailed
  <2>3. r \in Registrations /\ r.preference = changes + 1
    BY DEF TypeOK, Registrations
  <2>4. mem'.outbox = Queued(r, mem.outbox)
    BY <2>2 DEF TypeOK, States
  <2> HIDE DEF r
  <2> QED BY <2>2, <2>3, <2>4
<1>8. CASE EnrollmentChecked \/ FlushDone \/ Send \/ Postponed
  BY <1>8 DEF EnrollmentChecked, FlushDone, Send, Postponed
<1>9. CASE Accepted \/ Rejected
  <2>1. /\ mem.outbox # <<>> /\ PopHead
        /\ Answered' = Answered \cup {Head(mem.outbox)}
        /\ UNCHANGED crashes
    BY <1>9 DEF Accepted, Rejected, RequestHasHead
  <2>2. mem' = [mem EXCEPT !.outbox = Tail(@)] /\ disk' \in {disk, mem'}
    BY <2>1 DEF PopHead, Saved, SaveFailed
  <2>3. mem'.outbox = Tail(mem.outbox)
    BY <2>2 DEF TypeOK, States
  <2> QED BY <2>1, <2>2, <2>3
<1>10. CASE UNCHANGED vars
  BY <1>10 DEF vars
<1> QED BY <1>1, <1>2, <1>3, <1>4, <1>5, <1>6, <1>7, <1>8, <1>9, <1>10
        DEF Next, Observe

\* Memory and the state file hold one registration for each app.
OneEach == OnePerToken(mem.outbox) /\ OnePerToken(disk.outbox)

LEMMA OneEachStep ==
    ASSUME OutboxInv, OneEach, [Next]_vars
    PROVE  OneEach'
<1>1. QueueStep
  BY NextQueue DEF OutboxInv
<1>2. CASE Crash
  BY <1>2 DEF Crash, OneEach
<1>3. CASE ~Crash
  <2>1. mem.outbox \in Seq(Items)
    BY DEF OutboxInv, TypeOK, States
  <2>2. disk' \in {disk, mem'}
    BY <1>1, <1>3 DEF QueueStep
  <2>3. OnePerToken(mem'.outbox)
    <3>1. CASE mem'.outbox = mem.outbox
      BY <3>1 DEF OneEach
    <3>2. ASSUME NEW e \in Events, mem'.outbox = Append(mem.outbox, e)
          PROVE  OnePerToken(mem'.outbox)
      <4>1. e \in Items /\ e.kind # "devices"
        BY DEF Items, Events
      <4> QED BY <2>1, <3>2, <4>1, AppendKeepsOne DEF OneEach
    <3>3. ASSUME NEW r \in Registrations, mem'.outbox = Queued(r, mem.outbox)
          PROVE  OnePerToken(mem'.outbox)
      BY <2>1, <3>3, QueuedKeepsOne DEF OneEach
    <3>4. CASE mem.outbox # <<>> /\ mem'.outbox = Tail(mem.outbox)
      BY <2>1, <3>4, TailKeepsOne DEF OneEach
    <3> QED BY <1>1, <1>3, <3>1, <3>2, <3>3, <3>4 DEF QueueStep
  <2> QED BY <2>2, <2>3 DEF OneEach
<1> QED BY <1>2, <1>3

LEMMA FreshStep ==
    ASSUME OutboxInv, OneEach, [Next]_vars, NothingStale,
           crashes' = crashes \/ mem.outbox = disk.outbox
    PROVE  NothingStale'
<1>1. QueueStep
  BY NextQueue DEF OutboxInv
<1>2. /\ mem.outbox \in Seq(Items) /\ Answered \subseteq Items
      /\ changes \in Nat /\ crashes \in Nat
  BY DEF OutboxInv, TypeOK, States, Answered
<1>3. CASE Crash
  <2>1. mem' = disk /\ crashes' = crashes + 1
    BY <1>3 DEF Crash
  <2>2. crashes' # crashes
    BY <1>2, <2>1
  <2>3. mem'.outbox = mem.outbox
    BY <2>1, <2>2
  <2>4. Answered' = Answered
    BY <1>3 DEF Crash, Answered
  <2> QED BY <2>3, <2>4 DEF NothingStale
<1>4. CASE mem'.outbox = mem.outbox /\ Answered' = Answered
  BY <1>4 DEF NothingStale
<1>5. ASSUME NEW e \in Events, mem'.outbox = Append(mem.outbox, e),
             Answered' = Answered
      PROVE  NothingStale'
  <2>1. e \in Items /\ e.kind # "devices"
    BY DEF Items, Events
  <2>2. \A i \in Range(mem'.outbox) : i \in Range(mem.outbox) \/ i = e
    BY <1>2, <1>5, <2>1, RangeOfAppend
  <2> QED BY <1>5, <2>1, <2>2 DEF NothingStale
<1>6. ASSUME NEW r \in Registrations, r.preference = changes + 1,
             mem'.outbox = Queued(r, mem.outbox), Answered' = Answered
      PROVE  NothingStale'
  <2>1. \A i \in Range(mem'.outbox) : i \in Range(mem.outbox) \/ i = r
    BY <1>2, <1>6, RangeOfQueued
  <2>2. ASSUME NEW a \in Answered, a.kind = "devices"
        PROVE  a.preference <= r.preference
    <3>1. a \in Items /\ UpTo(a, changes)
      BY <1>2 DEF OutboxInv, Numbered, Known
    <3>2. a.preference \in Nat /\ a.preference <= changes
      BY <2>2, <3>1 DEF Items, Events, Registrations, UpTo
    <3> QED BY <1>2, <1>6, <3>2
  <2> QED BY <1>6, <2>1, <2>2 DEF NothingStale
<1>7. CASE /\ mem.outbox # <<>>
           /\ mem'.outbox = Tail(mem.outbox)
           /\ Answered' = Answered \cup {Head(mem.outbox)}
  <2>1. /\ \A i \in Range(mem'.outbox) : i \in Range(mem.outbox)
        /\ \A i \in Range(mem'.outbox) :
              (i.kind = "devices" /\ Head(mem.outbox).kind = "devices")
                  => i.token # Head(mem.outbox).token
    BY <1>2, <1>7, RangeOfTail, TailKeepsOne DEF OneEach
  <2> QED BY <1>7, <2>1 DEF NothingStale
<1> QED BY <1>1, <1>3, <1>4, <1>5, <1>6, <1>7 DEF QueueStep

\* An app's older preferences never follow its newer ones to the relay, except
\* after a crash that forgets a queue the file never got (relay.py _queue).
THEOREM NoStaleCorrect == Spec => NoStaleRegistration
<1>1. Init => OutboxInv /\ OneEach
  <2> SUFFICES ASSUME Init PROVE OutboxInv /\ OneEach
    OBVIOUS
  <2>1. mem.outbox = <<>> /\ disk.outbox = <<>>
    BY DEF Init
  <2>2. Len(mem.outbox) = 0 /\ Len(disk.outbox) = 0
    BY <2>1, EmptySeq
  <2> QED BY <2>2, InvInit DEF OneEach, OnePerToken
<1>2. OutboxInv /\ OneEach /\ [Next]_vars => (OutboxInv /\ OneEach)'
  BY InvStep, OneEachStep
<1>3. OutboxInv /\ OneEach /\ [Next]_vars =>
        [(NothingStale /\ (crashes' = crashes \/ mem.outbox = disk.outbox))
            => NothingStale']_vars
  BY FreshStep
<1> QED BY <1>1, <1>2, <1>3, PTL DEF Spec, NoStaleRegistration
=============================================================================
