--------------------------- MODULE Enrollment_proofs ---------------------------
(***************************************************************************)
(* Tickets are used once, whatever the number of relay instances; and with *)
(* one instance an Agent has one identity, keeps it, and pairs one app     *)
(* with each QR code.                                                      *)
(***************************************************************************)
EXTENDS Enrollment, TLAPS

LEMMA NoOneIsNobody ==
    /\ NoOne \notin Keys /\ NoOne \notin Ids
    /\ NoOne \notin Activations /\ NoOne \notin Tickets
  BY EnrollmentAssumption

-----------------------------------------------------------------------------
(* Tickets                                                                 *)

\* The document of a ticket is there as soon as an identity has the ticket.
TicketsUsed == \A x \in identities : x.ticket # NoOne => x.ticket \in used

TicketInv == TicketsUsed /\ TicketOnce

\* An identity is only created beside the document of a ticket that was not there.
LEMMA CommitTicket ==
    ASSUME TicketInv, NEW s \in Servers, Commit(s)
    PROVE  TicketInv'
<1> DEFINE c == claims[s]
           doc == activations[c.activation]
           ticketed == ~c.reused /\ mode = "ticket"
           new == [id |-> c.id, key |-> doc.key,
                   ticket |-> IF ticketed THEN doc.ticket ELSE NoOne]
<1>1. CASE identities' = identities /\ used \subseteq used'
  BY <1>1 DEF TicketInv, TicketsUsed, TicketOnce
<1>2. CASE /\ identities' = identities \cup {new}
           /\ used' = IF ticketed THEN used \cup {doc.ticket} ELSE used
           /\ ~(ticketed /\ doc.ticket \in used)
  <2>1. new.ticket = IF ticketed THEN doc.ticket ELSE NoOne
    OBVIOUS
  <2> HIDE DEF new
  <2>2. new.ticket # NoOne => new.ticket \in used' /\ new.ticket \notin used
    BY <1>2, <2>1
  <2>3. \A x \in identities : x.ticket # NoOne => x.ticket # new.ticket
    BY <2>2 DEF TicketInv, TicketsUsed
  <2>4. TicketsUsed'
    BY <1>2, <2>2 DEF TicketInv, TicketsUsed
  <2>5. TicketOnce'
    BY <1>2, <2>3 DEF TicketInv, TicketOnce
  <2> QED BY <2>4, <2>5 DEF TicketInv
<1>3. \/ identities' = identities /\ used' = used
      \/ identities' = identities /\ used' = IF ticketed THEN used \cup {doc.ticket} ELSE used
      \/ /\ identities' = identities \cup {new}
         /\ used' = IF ticketed THEN used \cup {doc.ticket} ELSE used
         /\ ~(ticketed /\ doc.ticket \in used)
  BY Zenon DEF Commit, TicketUsed
<1> QED BY <1>1, <1>2, <1>3

LEMMA TicketInvStep == TicketInv /\ [EnrollmentNext]_enrollmentVars => TicketInv'
<1> SUFFICES ASSUME TicketInv, [EnrollmentNext]_enrollmentVars
             PROVE  TicketInv'
  OBVIOUS
<1>1. CASE UNCHANGED <<identities, used>>
  BY <1>1 DEF TicketInv, TicketsUsed, TicketOnce
<1>2. CASE \E s \in Servers : Commit(s)
  BY <1>2, CommitTicket
<1>3. \/ UNCHANGED <<identities, used>>
      \/ \E s \in Servers : Commit(s)
  BY DEF EnrollmentNext, enrollmentVars, Claim, GrantDevice, FailClaim, EnsureEnrolled,
         Adopt, DropExpired, OpenPage, DropClosing, NewActivation, GrowsOlder,
         TicketExpires, Deploy
<1> QED BY <1>1, <1>2, <1>3

\* Any number of instances, claims cut off anywhere and any change of the mode: a
\* ticket enrolls one Agent (app.py claim_activation, the create of the ticket's
\* document in the batch).
THEOREM TicketOnceCorrect == EnrollmentSpec => []TicketOnce
<1>1. EnrollmentInit => TicketInv
  BY DEF EnrollmentInit, TicketInv, TicketsUsed, TicketOnce
<1>2. TicketInv => TicketOnce
  BY DEF TicketInv
<1> QED BY <1>1, <1>2, TicketInvStep, PTL DEF EnrollmentSpec

-----------------------------------------------------------------------------
(* Types                                                                   *)

\* Claims and Agents only name activations that have a document.
NamesDocuments ==
    /\ \A s \in Servers :
          claims[s] # NoOne => activations[claims[s].activation] # NoOne
    /\ \A k \in Keys :
          agent[k].activation # NoOne => activations[agent[k].activation] # NoOne

\* A relay that asks for tickets does not start a claim without one.
ClaimsHaveTickets ==
    \A s \in Servers :
        claims[s] # NoOne /\ claims[s].step = "commit" /\ ~claims[s].reused /\ mode = "ticket"
            => activations[claims[s].activation].ticket # NoOne

TypesInv == EnrollmentTypeOK /\ NamesDocuments /\ ClaimsHaveTickets

LEMMA TypesInvInit == EnrollmentInit => TypesInv
  BY EnrollmentAssumption
  DEF EnrollmentInit, TypesInv, EnrollmentTypeOK, NamesDocuments, ClaimsHaveTickets

LEMMA ServerKeepsTypes ==
    ASSUME TypesInv, NEW s \in Servers,
           (\E a \in Activations : Claim(s, a)) \/ Commit(s) \/ GrantDevice(s) \/ FailClaim(s)
    PROVE  TypesInv'
<1> USE NoOneIsNobody, NoOneAssumption
<1>1. /\ identities \subseteq Identities
      /\ activations \in [Activations -> ActivationDocs \cup {NoOne}]
      /\ used \subseteq Tickets
      /\ claims \in [Servers -> Claims \cup {NoOne}]
      /\ paired \in [Activations -> Seq(Ids)]
  BY DEF TypesInv, EnrollmentTypeOK
<1>2. ASSUME NEW a \in Activations, Claim(s, a)
      PROVE  TypesInv'
  <2>1. activations[a] # NoOne
    BY <1>2 DEF Claim, Claimable
  <2>2. PICK id \in Ids, reused \in BOOLEAN :
           /\ claims' = [claims EXCEPT ![s] =
                 [activation |-> a, id |-> id, reused |-> reused, step |-> "commit"]]
           /\ ~reused /\ mode = "ticket" => activations[a].ticket # NoOne
    BY <1>1, <1>2 DEF Claim, KnownIdentity, OfKey, Identities
  <2> DEFINE c == [activation |-> a, id |-> id, reused |-> reused, step |-> "commit"]
  <2>3. c \in Claims /\ c.activation = a /\ c.reused = reused
    BY DEF Claims
  <2> HIDE DEF c
  <2>4. claims' \in [Servers -> Claims \cup {NoOne}]
    BY <1>1, <2>2, <2>3 DEF c
  <2>5. \A r \in Servers : claims'[r] = claims[r] \/ claims'[r] = c
    BY <1>1, <2>2 DEF c
  <2>6. UNCHANGED <<mode, identities, activations, used, stale, paired, agent>>
    BY <1>2 DEF Claim
  <2>7. EnrollmentTypeOK' /\ NamesDocuments'
    BY <2>1, <2>3, <2>4, <2>5, <2>6 DEF TypesInv, EnrollmentTypeOK, NamesDocuments
  <2>8. ClaimsHaveTickets'
    BY <2>2, <2>3, <2>5, <2>6 DEF TypesInv, ClaimsHaveTickets
  <2> QED BY <2>7, <2>8 DEF TypesInv
<1>3. CASE Commit(s)
  <2> DEFINE c == claims[s]
             doc == activations[c.activation]
             ticketed == ~c.reused /\ mode = "ticket"
             new == [id |-> c.id, key |-> doc.key,
                     ticket |-> IF ticketed THEN doc.ticket ELSE NoOne]
  <2>1. c # NoOne /\ c \in Claims /\ doc # NoOne
    BY <1>1, <1>3 DEF Commit, TypesInv, NamesDocuments
  <2>2. /\ c.activation \in Activations /\ c.id \in Ids
        /\ doc \in ActivationDocs
        /\ doc.key \in Keys /\ doc.ticket \in Tickets \cup {NoOne}
    BY <1>1, <2>1 DEF Claims, ActivationDocs
  <2>3. new \in Identities
    BY <2>2 DEF Identities
  <2>4. \/ /\ claims' = [claims EXCEPT ![s] = NoOne]
           /\ UNCHANGED <<identities, activations, used>>
        \/ /\ activations' = [activations EXCEPT ![c.activation].claimed = c.id]
           /\ identities' = identities \/ identities' = identities \cup {new}
           /\ used' = IF ticketed THEN used \cup {doc.ticket} ELSE used
           /\ claims' = [claims EXCEPT ![s].step = "device"]
    BY Zenon, <1>3 DEF Commit
  <2>5. UNCHANGED <<mode, stale, paired, agent>> /\ c.step = "commit"
    BY <1>3 DEF Commit
  <2>6. ticketed => doc.ticket \in Tickets
    BY <2>1, <2>2, <2>5 DEF TypesInv, ClaimsHaveTickets
  <2> HIDE DEF new, c, doc, ticketed
  <2>7. CASE /\ claims' = [claims EXCEPT ![s] = NoOne]
             /\ UNCHANGED <<identities, activations, used>>
    BY <1>1, <2>5, <2>7
    DEF TypesInv, EnrollmentTypeOK, NamesDocuments, ClaimsHaveTickets
  <2>8. CASE /\ activations' = [activations EXCEPT ![c.activation].claimed = c.id]
             /\ identities' = identities \/ identities' = identities \cup {new}
             /\ used' = IF ticketed THEN used \cup {doc.ticket} ELSE used
             /\ claims' = [claims EXCEPT ![s].step = "device"]
    <3>1. identities' \subseteq Identities /\ used' \subseteq Tickets
      BY <1>1, <2>3, <2>6, <2>8
    <3>2. [doc EXCEPT !.claimed = c.id] \in ActivationDocs
      BY <2>2 DEF ActivationDocs
    <3>3. activations' = [activations EXCEPT ![c.activation] = [doc EXCEPT !.claimed = c.id]]
      BY <2>8 DEF doc
    <3>4. activations' \in [Activations -> ActivationDocs \cup {NoOne}]
      BY <1>1, <2>2, <3>2, <3>3
    <3>5. \A a \in Activations : activations[a] # NoOne => activations'[a] # NoOne
      BY <1>1, <3>2, <3>3
    <3>6. [c EXCEPT !.step = "device"] \in Claims
      BY <2>1 DEF Claims
    <3>7. claims' = [claims EXCEPT ![s] = [c EXCEPT !.step = "device"]]
      BY <2>8 DEF c
    <3>8. claims' \in [Servers -> Claims \cup {NoOne}]
      BY <1>1, <3>6, <3>7
    <3>9. EnrollmentTypeOK'
      BY <2>5, <3>1, <3>4, <3>8 DEF TypesInv, EnrollmentTypeOK
    <3>10. NamesDocuments'
      <4>1. ASSUME NEW r \in Servers, claims'[r] # NoOne
            PROVE  /\ claims[r] # NoOne /\ claims[r] \in Claims
                   /\ claims'[r].activation = claims[r].activation
                   /\ claims'[r].step = "commit" => claims'[r] = claims[r]
        BY <1>1, <2>1, <3>7, <4>1 DEF Claims, c
      <4>2. \A k \in Keys : agent[k].activation \in Activations \cup {NoOne}
        BY DEF TypesInv, EnrollmentTypeOK
      <4> QED BY <2>5, <3>5, <4>1, <4>2 DEF TypesInv, NamesDocuments, Claims
    <3>11. ClaimsHaveTickets'
      <4>1. ASSUME NEW r \in Servers, claims'[r] # NoOne, claims'[r].step = "commit"
            PROVE  claims'[r] = claims[r] /\ claims[r] \in Claims
        BY <1>1, <2>1, <3>7, <4>1 DEF Claims, c
      <4>2. \A a \in Activations : activations'[a] # NoOne /\ activations[a] # NoOne
                 => activations'[a].ticket = activations[a].ticket
        BY <1>1, <2>2, <3>2, <3>3 DEF ActivationDocs, doc
      <4>3. \A r \in Servers : claims[r] # NoOne /\ claims[r] \in Claims =>
               /\ claims[r].activation \in Activations
               /\ activations[claims[r].activation] # NoOne
        BY DEF TypesInv, NamesDocuments, Claims
      <4> QED BY <2>5, <3>5, <4>1, <4>2, <4>3 DEF TypesInv, ClaimsHaveTickets
    <3> QED BY <3>9, <3>10, <3>11 DEF TypesInv
  <2> QED BY <2>4, <2>7, <2>8
<1>4. CASE GrantDevice(s)
  <2>1. claims[s] \in Claims
    BY <1>1, <1>4 DEF GrantDevice
  <2>2. paired' \in [Activations -> Seq(Ids)]
    BY <1>1, <1>4, <2>1 DEF GrantDevice, Claims
  <2> QED BY <1>1, <1>4, <2>2
          DEF GrantDevice, TypesInv, EnrollmentTypeOK, NamesDocuments, ClaimsHaveTickets
<1>5. CASE FailClaim(s)
  BY <1>1, <1>5
  DEF FailClaim, TypesInv, EnrollmentTypeOK, NamesDocuments, ClaimsHaveTickets
<1> QED BY <1>2, <1>3, <1>4, <1>5

LEMMA AgentKeepsTypes ==
    ASSUME TypesInv, NEW k \in Keys, EnsureEnrolled(k) \/ OpenPage(k) \/ NewActivation(k)
    PROVE  TypesInv'
<1> USE NoOneIsNobody, NoOneAssumption
<1>1. /\ activations \in [Activations -> ActivationDocs \cup {NoOne}]
      /\ claims \in [Servers -> Claims \cup {NoOne}]
      /\ agent \in [Keys -> [id : Ids \cup {NoOne}, activation : Activations \cup {NoOne}]]
      /\ TicketOf \in [Keys -> Tickets \cup {NoOne}]
  BY EnrollmentAssumption DEF TypesInv, EnrollmentTypeOK
<1>2. ASSUME NEW id \in Ids \cup {NoOne},
             agent' = [agent EXCEPT ![k] = [id |-> id, activation |-> NoOne]],
             UNCHANGED <<mode, identities, activations, used, stale, claims, paired>>
      PROVE  TypesInv'
  <2>1. agent' \in [Keys -> [id : Ids \cup {NoOne}, activation : Activations \cup {NoOne}]]
    BY <1>1, <1>2
  <2>2. \A j \in Keys : agent'[j].activation \in {agent[j].activation, NoOne}
    BY <1>1, <1>2
  <2>3. NamesDocuments'
    BY <1>2, <2>2 DEF TypesInv, NamesDocuments
  <2>4. ClaimsHaveTickets'
    BY <1>2 DEF TypesInv, ClaimsHaveTickets
  <2>5. EnrollmentTypeOK'
    BY <1>2, <2>1 DEF TypesInv, EnrollmentTypeOK
  <2> QED BY <2>3, <2>4, <2>5 DEF TypesInv
<1>3. CASE Adopt(k)
  <2>1. activations[agent[k].activation] \in ActivationDocs
    BY <1>1, <1>3 DEF Adopt, TypesInv, NamesDocuments
  <2>2. activations[agent[k].activation].claimed \in Ids \cup {NoOne}
    BY <2>1 DEF ActivationDocs
  <2> QED BY <1>2, <1>3, <2>2 DEF Adopt
<1>4. CASE /\ agent' = [agent EXCEPT ![k].activation = NoOne]
           /\ UNCHANGED <<mode, identities, activations, used, stale, claims, paired>>
  <2>1. agent[k] \in [id : Ids \cup {NoOne}, activation : Activations \cup {NoOne}]
    BY <1>1
  <2>2. /\ [agent[k] EXCEPT !.activation = NoOne] = [id |-> agent[k].id, activation |-> NoOne]
        /\ agent[k].id \in Ids \cup {NoOne}
    BY <2>1
  <2>3. agent' = [agent EXCEPT ![k] = [agent[k] EXCEPT !.activation = NoOne]]
    BY <1>4
  <2> QED BY <1>2, <1>4, <2>2, <2>3
<1>5. CASE NewActivation(k)
  <2> DEFINE ticket == IF agent[k].id = NoOne THEN TicketOf[k] ELSE NoOne
             new == [key |-> k, ticket |-> KeptTicket(k, ticket), age |-> "valid",
                     claimed |-> NoOne]
  <2>1. PICK a \in Activations :
           /\ activations[a] = NoOne
           /\ activations' = [activations EXCEPT ![a] = new]
           /\ agent' = [agent EXCEPT ![k].activation = a]
    BY <1>5 DEF NewActivation
  <2>2. UNCHANGED <<mode, identities, used, stale, claims, paired>>
    BY <1>5 DEF NewActivation
  <2>3. KeptTicket(k, ticket) \in Tickets \cup {NoOne}
    BY <1>1 DEF KeptTicket
  <2>4. new \in ActivationDocs
    BY <2>3 DEF ActivationDocs, Ages
  <2> HIDE DEF new
  <2>5. activations' \in [Activations -> ActivationDocs \cup {NoOne}]
    BY <1>1, <2>1, <2>4
  <2>6. /\ activations'[a] # NoOne
        /\ \A b \in Activations : activations[b] # NoOne => activations'[b] = activations[b]
    BY <1>1, <2>1, <2>4
  <2>7. agent' \in [Keys -> [id : Ids \cup {NoOne}, activation : Activations \cup {NoOne}]]
    BY <1>1, <2>1
  <2>8. \A j \in Keys : agent'[j].activation \in {agent[j].activation, a}
    BY <1>1, <2>1
  <2>9. \A s \in Servers : claims[s] # NoOne =>
           /\ claims[s].activation \in Activations
           /\ activations[claims[s].activation] # NoOne
    BY <1>1 DEF TypesInv, NamesDocuments, Claims
  <2>10. NamesDocuments'
    <3>1. \A j \in Keys : agent[j].activation # NoOne =>
             /\ agent[j].activation \in Activations
             /\ activations[agent[j].activation] # NoOne
      BY <1>1 DEF TypesInv, NamesDocuments
    <3> QED BY <2>2, <2>6, <2>8, <2>9, <3>1 DEF NamesDocuments
  <2>11. ClaimsHaveTickets'
    BY <2>2, <2>6, <2>9 DEF TypesInv, ClaimsHaveTickets
  <2> QED BY <2>2, <2>5, <2>7, <2>10, <2>11 DEF TypesInv, EnrollmentTypeOK
<1> QED BY <1>3, <1>4, <1>5 DEF EnsureEnrolled, OpenPage, DropExpired, DropClosing

LEMMA WorldKeepsTypes ==
    ASSUME TypesInv,
           (\E a \in Activations : GrowsOlder(a)) \/ (\E t \in Tickets : TicketExpires(t)) \/ Deploy
    PROVE  TypesInv'
<1> USE NoOneIsNobody, NoOneAssumption
<1>1. /\ activations \in [Activations -> ActivationDocs \cup {NoOne}]
      /\ claims \in [Servers -> Claims \cup {NoOne}]
      /\ agent \in [Keys -> [id : Ids \cup {NoOne}, activation : Activations \cup {NoOne}]]
      /\ \A s \in Servers : claims[s] # NoOne => claims[s].activation \in Activations
  BY DEF TypesInv, EnrollmentTypeOK, Claims
<1>2. ASSUME NEW a \in Activations, GrowsOlder(a)
      PROVE  TypesInv'
  <2>1. PICK age \in Ages : activations' = [activations EXCEPT ![a].age = age]
    BY <1>2 DEF GrowsOlder, Ages
  <2>2. activations[a] \in ActivationDocs
    BY <1>1, <1>2 DEF GrowsOlder
  <2>3. [activations[a] EXCEPT !.age = age] \in ActivationDocs
    BY <2>2 DEF ActivationDocs
  <2>4. activations' = [activations EXCEPT ![a] = [activations[a] EXCEPT !.age = age]]
    BY <2>1
  <2>5. activations' \in [Activations -> ActivationDocs \cup {NoOne}]
    BY <1>1, <2>3, <2>4
  <2>6. \A b \in Activations : activations[b] # NoOne =>
           activations'[b] # NoOne /\ activations'[b].ticket = activations[b].ticket
    BY <1>1, <2>2, <2>3, <2>4 DEF ActivationDocs
  <2>7. UNCHANGED <<mode, identities, used, stale, claims, paired, agent>>
    BY <1>2 DEF GrowsOlder
  <2>8. NamesDocuments' /\ ClaimsHaveTickets'
    BY <1>1, <2>6, <2>7 DEF TypesInv, NamesDocuments, ClaimsHaveTickets
  <2> QED BY <2>5, <2>7, <2>8 DEF TypesInv, EnrollmentTypeOK
<1>3. ASSUME NEW t \in Tickets, TicketExpires(t)
      PROVE  TypesInv'
  BY <1>3
  DEF TicketExpires, TypesInv, EnrollmentTypeOK, NamesDocuments, ClaimsHaveTickets
<1>4. CASE Deploy
  <2>1. mode' \in {"open", "ticket", "closed"}
    BY <1>4, EnrollmentAssumption DEF Deploy
  <2> QED BY <1>4, <2>1
          DEF Deploy, TypesInv, EnrollmentTypeOK, NamesDocuments, ClaimsHaveTickets
<1> QED BY <1>2, <1>3, <1>4

LEMMA TypesInvStep == TypesInv /\ [EnrollmentNext]_enrollmentVars => TypesInv'
<1> SUFFICES ASSUME TypesInv, [EnrollmentNext]_enrollmentVars
             PROVE  TypesInv'
  OBVIOUS
<1>1. CASE UNCHANGED enrollmentVars
  BY <1>1
  DEF enrollmentVars, TypesInv, EnrollmentTypeOK, NamesDocuments, ClaimsHaveTickets
<1> QED BY <1>1, ServerKeepsTypes, AgentKeepsTypes, WorldKeepsTypes DEF EnrollmentNext

\* Relay and Agents keep their types, and nothing names an activation without a
\* document (app.py claim_activation, relay.py _activation_locked).
THEOREM EnrollmentTypeCorrect == EnrollmentSpec => []EnrollmentTypeOK
<1>1. TypesInv => EnrollmentTypeOK
  BY DEF TypesInv
<1> QED BY <1>1, TypesInvInit, TypesInvStep, PTL DEF EnrollmentSpec

-----------------------------------------------------------------------------
(* One instance: identities and pairings                                   *)

OneServer == \A s, r \in Servers : s = r

Known(id, k) == \E x \in identities : x.id = id /\ x.key = k

\* A claim is of a code nobody was paired with; until its batch nobody has used
\* the code and the identity is as it was looked up, after it the Agent is known.
ClaimFits(s) ==
    LET c == claims[s]
        k == activations[c.activation].key
    IN  c # NoOne =>
          /\ paired[c.activation] = <<>>
          /\ c.step = "commit" =>
                /\ ~Claimed(c.activation)
                /\ c.reused => Known(c.id, k)
                /\ ~c.reused => OfKey(k) = {}
          /\ c.step = "device" => Claimed(c.activation) /\ Known(c.id, k)

\* Only a code that was used has paired an app, and it names a known identity.
CodeFits(a) ==
    /\ paired[a] # <<>> => activations[a] # NoOne /\ Claimed(a)
    /\ activations[a] # NoOne /\ Claimed(a)
          => Known(activations[a].claimed, activations[a].key)

\* An Agent has its own identity and its own code.
AgentFits(k) ==
    /\ agent[k].id # NoOne => Known(agent[k].id, k)
    /\ agent[k].activation # NoOne => activations[agent[k].activation].key = k

PairingInv ==
    /\ TypesInv
    /\ OneIdentity
    /\ PairsOneApp
    /\ \A s \in Servers : ClaimFits(s)
    /\ \A a \in Activations : CodeFits(a)
    /\ \A k \in Keys : AgentFits(k)

LEMMA PairingInvInit == EnrollmentInit => PairingInv
<1> SUFFICES ASSUME EnrollmentInit
             PROVE  PairingInv
  OBVIOUS
<1>1. OneIdentity /\ PairsOneApp
  BY DEF EnrollmentInit, OneIdentity, PairsOneApp
<1>2. \A s \in Servers : ClaimFits(s)
  BY DEF EnrollmentInit, ClaimFits
<1>3. \A a \in Activations : CodeFits(a)
  BY DEF EnrollmentInit, CodeFits
<1>4. \A k \in Keys : AgentFits(k)
  BY DEF EnrollmentInit, AgentFits
<1> QED BY <1>1, <1>2, <1>3, <1>4, TypesInvInit DEF PairingInv

\* Documents of activations are added and grow older, and nothing else changes
\* but claims and Agents.
CodesGoOn ==
    /\ UNCHANGED <<identities, paired>>
    /\ \A b \in Activations :
          /\ activations[b] # NoOne =>
                /\ activations'[b] # NoOne
                /\ activations'[b].key = activations[b].key
                /\ activations'[b].claimed = activations[b].claimed
          /\ activations[b] = NoOne /\ activations'[b] # NoOne
                => activations'[b].claimed = NoOne

LEMMA NamedActivations ==
    ASSUME TypesInv
    PROVE  /\ \A s \in Servers : claims[s] # NoOne =>
                 /\ claims[s] \in Claims
                 /\ claims[s].activation \in Activations
                 /\ activations[claims[s].activation] # NoOne
           /\ \A k \in Keys : agent[k].activation # NoOne =>
                 /\ agent[k].activation \in Activations
                 /\ activations[agent[k].activation] # NoOne
  BY DEF TypesInv, EnrollmentTypeOK, NamesDocuments, Claims

LEMMA CodesGoOnKeepsInv ==
    ASSUME PairingInv, TypesInv', CodesGoOn
    PROVE  /\ OneIdentity' /\ PairsOneApp'
           /\ (\A a \in Activations : CodeFits(a))'
           /\ claims' = claims => (\A s \in Servers : ClaimFits(s))'
           /\ agent' = agent => (\A k \in Keys : AgentFits(k))'
<1>1. TypesInv
  BY DEF PairingInv
<1>2. OneIdentity'
  BY DEF CodesGoOn, PairingInv, OneIdentity
<1>3. ASSUME NEW a \in Activations
      PROVE  CodeFits(a)'
  BY DEF CodesGoOn, PairingInv, CodeFits, Claimed, Known
<1>4. PairsOneApp'
  <2>1. \A a \in Activations : paired[a] # <<>> => activations[a] # NoOne
    BY DEF PairingInv, CodeFits
  <2>2. \A a \in Activations : \A n \in DOMAIN paired[a] : paired[a] # <<>>
    OBVIOUS
  <2> QED BY <2>1, <2>2 DEF CodesGoOn, PairingInv, PairsOneApp
<1>5. ASSUME claims' = claims, NEW s \in Servers
      PROVE  ClaimFits(s)'
  BY <1>1, <1>5, NamedActivations
  DEF CodesGoOn, PairingInv, ClaimFits, Claimed, Known, OfKey
<1>6. ASSUME agent' = agent, NEW k \in Keys
      PROVE  AgentFits(k)'
  BY <1>1, <1>6, NamedActivations DEF CodesGoOn, PairingInv, AgentFits, Known
<1> QED BY <1>2, <1>3, <1>4, <1>5, <1>6

\* With one instance the claim that changes is the only one.
LEMMA OneClaim ==
    ASSUME OneServer, TypesInv, NEW s \in Servers, NEW v, claims' = [claims EXCEPT ![s] = v]
    PROVE  \A r \in Servers : r = s /\ claims'[r] = v
  BY DEF OneServer, TypesInv, EnrollmentTypeOK

LEMMA ClaimPairs ==
    ASSUME OneServer, PairingInv, TypesInv', NEW s \in Servers, NEW a \in Activations,
           Claim(s, a)
    PROVE  PairingInv'
<1>1. CodesGoOn /\ agent' = agent /\ UNCHANGED <<identities, activations, paired>>
  BY DEF Claim, CodesGoOn
<1>2. PICK c :
        /\ claims' = [claims EXCEPT ![s] = c]
        /\ c.activation = a /\ c.step = "commit"
        /\ c.reused => \E x \in OfKey(activations[a].key) : c.id = x.id
        /\ ~c.reused => OfKey(activations[a].key) = {}
  <2>1. ASSUME NEW id, NEW reused \in BOOLEAN,
               claims' = [claims EXCEPT ![s] =
                   [activation |-> a, id |-> id, reused |-> reused, step |-> "commit"]],
               reused => \E x \in OfKey(activations[a].key) : id = x.id,
               ~reused => OfKey(activations[a].key) = {}
        PROVE  \E c :
                  /\ claims' = [claims EXCEPT ![s] = c]
                  /\ c.activation = a /\ c.step = "commit"
                  /\ c.reused => \E x \in OfKey(activations[a].key) : c.id = x.id
                  /\ ~c.reused => OfKey(activations[a].key) = {}
    <3> DEFINE c == [activation |-> a, id |-> id, reused |-> reused, step |-> "commit"]
    <3>1. /\ c.activation = a /\ c.step = "commit" /\ c.id = id /\ c.reused = reused
          /\ claims' = [claims EXCEPT ![s] = c]
      BY <2>1
    <3> HIDE DEF c
    <3> QED BY <2>1, <3>1
  <2>2. \/ \E x \in OfKey(activations[a].key) :
              claims' = [claims EXCEPT ![s] =
                  [activation |-> a, id |-> x.id, reused |-> TRUE, step |-> "commit"]]
        \/ /\ OfKey(activations[a].key) = {}
           /\ \E id \in Ids : claims' = [claims EXCEPT ![s] =
                  [activation |-> a, id |-> id, reused |-> FALSE, step |-> "commit"]]
    BY DEF Claim, KnownIdentity
  <2> QED BY <2>1, <2>2
<1>3. \A r \in Servers : claims'[r] = c
  BY <1>2, OneClaim DEF PairingInv
<1>4. activations[a] # NoOne /\ ~Claimed(a) /\ paired[a] = <<>>
  BY DEF Claim, Claimable, PairingInv, CodeFits
<1>5. ASSUME NEW r \in Servers
      PROVE  ClaimFits(r)'
  BY <1>1, <1>2, <1>3, <1>4 DEF ClaimFits, Known, OfKey, Claimed
<1> QED BY <1>1, <1>5, CodesGoOnKeepsInv DEF PairingInv

LEMMA FailPairs ==
    ASSUME OneServer, PairingInv, TypesInv', NEW s \in Servers, FailClaim(s)
    PROVE  PairingInv'
<1>1. /\ CodesGoOn /\ agent' = agent
      /\ claims' = [claims EXCEPT ![s] = NoOne]
  BY DEF FailClaim, CodesGoOn
<1>2. \A r \in Servers : claims'[r] = NoOne
  BY <1>1, OneClaim DEF PairingInv
<1>3. (\A r \in Servers : ClaimFits(r))'
  BY <1>2 DEF ClaimFits
<1> QED BY <1>1, <1>3, CodesGoOnKeepsInv DEF PairingInv

LEMMA GrantPairs ==
    ASSUME OneServer, PairingInv, TypesInv', NEW s \in Servers, GrantDevice(s)
    PROVE  PairingInv'
<1> DEFINE a == claims[s].activation
           id == claims[s].id
<1>1. /\ claims[s] # NoOne /\ claims[s].step = "device"
      /\ paired' = [paired EXCEPT ![a] = Append(paired[a], id)]
      /\ claims' = [claims EXCEPT ![s] = NoOne]
      /\ UNCHANGED <<mode, identities, activations, used, stale, agent>>
  BY DEF GrantDevice
<1>2. /\ a \in Activations /\ id \in Ids /\ activations[a] # NoOne
      /\ paired \in [Activations -> Seq(Ids)]
  BY <1>1, NamedActivations DEF PairingInv, TypesInv, EnrollmentTypeOK, Claims
<1>3. Claimed(a) /\ Known(id, activations[a].key) /\ paired[a] = <<>>
  BY <1>1 DEF PairingInv, ClaimFits
<1>4. Len(paired'[a]) = 1 /\ paired'[a][1] = id /\ DOMAIN paired'[a] = {1}
  BY <1>1, <1>2, <1>3
<1>5. \A b \in Activations : b # a => paired'[b] = paired[b]
  BY <1>1, <1>2
<1>6. \A r \in Servers : claims'[r] = NoOne
  BY <1>1, OneClaim DEF PairingInv
<1> HIDE DEF a, id
<1>7. PairsOneApp'
  BY <1>1, <1>3, <1>4, <1>5 DEF PairingInv, PairsOneApp, Known
<1>8. (\A b \in Activations : CodeFits(b))'
  BY <1>1, <1>2, <1>3, <1>5 DEF PairingInv, CodeFits, Claimed, Known
<1>9. (\A r \in Servers : ClaimFits(r))'
  BY <1>6 DEF ClaimFits
<1>10. OneIdentity' /\ (\A k \in Keys : AgentFits(k))'
  BY <1>1 DEF PairingInv, OneIdentity, AgentFits, Known
<1> QED BY <1>7, <1>8, <1>9, <1>10 DEF PairingInv

\* The batch makes a claimed code of the one the instance is busy with, and its
\* Agent known: found before, or new with a key nobody has.
LEMMA CommitPairs ==
    ASSUME OneServer, PairingInv, TypesInv', NEW s \in Servers, Commit(s)
    PROVE  PairingInv'
<1>a. PICK c : c = claims[s]
  OBVIOUS
<1>b. PICK a : a = c.activation
  OBVIOUS
<1>c. PICK doc : doc = activations[a]
  OBVIOUS
<1> DEFINE ticketed == ~c.reused /\ mode = "ticket"
           new == [id |-> c.id, key |-> doc.key,
                   ticket |-> IF ticketed THEN doc.ticket ELSE NoOne]
<1>1. /\ c # NoOne /\ c.step = "commit"
      /\ UNCHANGED <<mode, stale, paired, agent>>
      /\ \/ /\ claims' = [claims EXCEPT ![s] = NoOne]
            /\ UNCHANGED <<identities, activations, used>>
         \/ /\ activations' = [activations EXCEPT ![a] = [doc EXCEPT !.claimed = c.id]]
            /\ identities' = IF c.reused THEN identities ELSE identities \cup {new}
            /\ claims' = [claims EXCEPT ![s] = [c EXCEPT !.step = "device"]]
  BY Zenon, <1>a, <1>b, <1>c DEF Commit
<1>2. /\ c \in Claims /\ a \in Activations /\ doc # NoOne /\ doc \in ActivationDocs
      /\ c.id \in Ids
      /\ activations \in [Activations -> ActivationDocs \cup {NoOne}]
  BY <1>1, <1>a, <1>b, <1>c, NamedActivations
  DEF PairingInv, TypesInv, EnrollmentTypeOK, Claims
<1>3. /\ paired[a] = <<>> /\ ~Claimed(a)
      /\ c.reused => Known(c.id, doc.key)
      /\ ~c.reused => OfKey(doc.key) = {}
  BY <1>1, <1>a, <1>b, <1>c DEF PairingInv, ClaimFits
<1>4. CASE /\ claims' = [claims EXCEPT ![s] = NoOne]
           /\ UNCHANGED <<identities, activations, used>>
  <2>1. CodesGoOn /\ agent' = agent
    BY <1>1, <1>4 DEF CodesGoOn
  <2>2. \A r \in Servers : claims'[r] = NoOne
    BY <1>4, OneClaim DEF PairingInv
  <2>3. (\A r \in Servers : ClaimFits(r))'
    BY <2>2 DEF ClaimFits
  <2> QED BY <2>1, <2>3, CodesGoOnKeepsInv DEF PairingInv
<1>5. CASE /\ activations' = [activations EXCEPT ![a] = [doc EXCEPT !.claimed = c.id]]
           /\ identities' = IF c.reused THEN identities ELSE identities \cup {new}
           /\ claims' = [claims EXCEPT ![s] = [c EXCEPT !.step = "device"]]
  <2>1. new.id = c.id /\ new.key = doc.key
    OBVIOUS
  <2>2. /\ activations'[a].claimed = c.id /\ activations'[a].key = doc.key
        /\ activations'[a] # NoOne /\ Claimed(a)'
    <3>1. activations'[a] = [doc EXCEPT !.claimed = c.id]
      BY <1>2, <1>5
    <3>2. [doc EXCEPT !.claimed = c.id] \in ActivationDocs
      BY <1>2 DEF ActivationDocs
    <3>3. /\ [doc EXCEPT !.claimed = c.id].claimed = c.id
          /\ [doc EXCEPT !.claimed = c.id].key = doc.key
      BY <1>2 DEF ActivationDocs
    <3> QED BY <1>2, <3>1, <3>2, <3>3, NoOneIsNobody, NoOneAssumption DEF Claimed
  <2>3. \A b \in Activations : b # a => activations'[b] = activations[b]
    BY <1>2, <1>5
  <2>4. \A r \in Servers : claims'[r] = [c EXCEPT !.step = "device"]
    BY <1>5, OneClaim DEF PairingInv
  <2>5. /\ [c EXCEPT !.step = "device"].step = "device"
        /\ [c EXCEPT !.step = "device"].activation = a
        /\ [c EXCEPT !.step = "device"].id = c.id
    BY <1>2, <1>b DEF Claims
  <2> HIDE DEF new, ticketed
  <2>6. /\ identities \subseteq identities'
        /\ Known(c.id, doc.key)'
    BY <1>3, <1>5, <2>1 DEF Known
  <2>7. OneIdentity'
    BY <1>3, <1>5, <2>1 DEF PairingInv, OneIdentity, OfKey
  <2>8. (\A b \in Activations : CodeFits(b))'
    <3>1. CodeFits(a)'
      BY <1>1, <1>3, <2>2, <2>6 DEF CodeFits, Known
    <3>2. ASSUME NEW b \in Activations, b # a
          PROVE  CodeFits(b)'
      BY <1>1, <2>3, <2>6, <3>2 DEF PairingInv, CodeFits, Claimed, Known
    <3> QED BY <3>1, <3>2
  <2>9. (\A k \in Keys : AgentFits(k))'
    <3>1. \A k \in Keys : agent[k].activation # NoOne => agent[k].activation \in Activations
      BY NamedActivations DEF PairingInv
    <3>2. \A b \in Activations : activations'[b].key = activations[b].key
      BY <1>c, <2>2, <2>3
    <3> QED BY <1>1, <2>6, <3>1, <3>2 DEF PairingInv, AgentFits, Known
  <2>10. (\A r \in Servers : ClaimFits(r))'
    <3>1. ASSUME NEW r \in Servers
          PROVE  ClaimFits(r)'
      <4>1. claims'[r].step = "device" /\ claims'[r].activation = a /\ claims'[r].id = c.id
        BY <2>4, <2>5
      <4> QED BY <1>1, <1>3, <2>2, <2>6, <4>1 DEF ClaimFits, Known
    <3> QED BY <3>1
  <2>11. PairsOneApp'
    <3>1. ASSUME NEW b \in Activations
          PROVE  /\ Len(paired[b]) <= 1
                 /\ \A n \in DOMAIN paired[b] :
                       \E x \in identities' : x.id = paired[b][n] /\ x.key = activations'[b].key
      <4>1. CASE b = a
        BY <1>3, <4>1
      <4>2. CASE b # a
        BY <2>3, <2>6, <4>2 DEF PairingInv, PairsOneApp
      <4> QED BY <4>1, <4>2
    <3> QED BY <1>1, <3>1 DEF PairsOneApp
  <2> QED BY <2>7, <2>8, <2>9, <2>10, <2>11 DEF PairingInv
<1> QED BY <1>1, <1>4, <1>5

\* An Agent that takes what its activation says has the identity of its key.
LEMMA AdoptedIsKnown ==
    ASSUME PairingInv, NEW k \in Keys, agent[k].activation # NoOne,
           Claimed(agent[k].activation)
    PROVE  Known(activations[agent[k].activation].claimed, k)
<1>1. /\ agent[k].activation \in Activations
      /\ activations[agent[k].activation] # NoOne
  BY NamedActivations DEF PairingInv
<1>2. activations[agent[k].activation].key = k
  BY DEF PairingInv, AgentFits
<1> QED BY <1>1, <1>2 DEF PairingInv, CodeFits

LEMMA AgentPairs ==
    ASSUME PairingInv, TypesInv', NEW k \in Keys,
           EnsureEnrolled(k) \/ OpenPage(k) \/ NewActivation(k)
    PROVE  PairingInv'
<1>1. /\ agent \in [Keys -> [id : Ids \cup {NoOne}, activation : Activations \cup {NoOne}]]
      /\ activations \in [Activations -> ActivationDocs \cup {NoOne}]
      /\ activations' \in [Activations -> ActivationDocs \cup {NoOne}]
  BY DEF PairingInv, TypesInv, EnrollmentTypeOK
<1>2. ASSUME NEW id, NEW a, CodesGoOn, claims' = claims,
             \A j \in Keys : j # k => agent'[j] = agent[j],
             agent'[k].id = id /\ agent'[k].activation = a,
             id # NoOne => Known(id, k),
             a # NoOne => activations'[a].key = k
      PROVE  PairingInv'
  <2>1. ASSUME NEW j \in Keys
        PROVE  AgentFits(j)'
    <3>1. agent[j].activation # NoOne =>
             agent[j].activation \in Activations /\ activations[agent[j].activation] # NoOne
      BY NamedActivations DEF PairingInv
    <3>2. CASE j = k
      BY <1>2, <3>2 DEF CodesGoOn, AgentFits, Known
    <3>3. CASE j # k
      BY <1>2, <3>1, <3>3 DEF CodesGoOn, PairingInv, AgentFits, Known
    <3> QED BY <3>2, <3>3
  <2> QED BY <1>2, <2>1, CodesGoOnKeepsInv DEF PairingInv
<1>3. CASE Adopt(k)
  <2>1. CodesGoOn /\ claims' = claims /\ agent[k].activation # NoOne
        /\ Claimed(agent[k].activation)
    BY <1>3 DEF Adopt, CodesGoOn
  <2>2. /\ \A j \in Keys : j # k => agent'[j] = agent[j]
        /\ agent'[k].id = activations[agent[k].activation].claimed
        /\ agent'[k].activation = NoOne
    BY <1>1, <1>3 DEF Adopt
  <2> QED BY <1>2, <2>1, <2>2, AdoptedIsKnown
<1>4. CASE /\ agent' = [agent EXCEPT ![k].activation = NoOne]
           /\ UNCHANGED <<mode, identities, activations, used, stale, claims, paired>>
  <2>1. CodesGoOn /\ claims' = claims
    BY <1>4 DEF CodesGoOn
  <2>2. /\ \A j \in Keys : j # k => agent'[j] = agent[j]
        /\ agent'[k].id = agent[k].id
        /\ agent'[k].activation = NoOne
    BY <1>1, <1>4
  <2>3. agent[k].id # NoOne => Known(agent[k].id, k)
    BY DEF PairingInv, AgentFits
  <2> QED BY <1>2, <2>1, <2>2, <2>3
<1>5. CASE NewActivation(k)
  <2> DEFINE ticket == IF agent[k].id = NoOne THEN TicketOf[k] ELSE NoOne
             new == [key |-> k, ticket |-> KeptTicket(k, ticket), age |-> "valid",
                     claimed |-> NoOne]
  <2>1. PICK a \in Activations :
           /\ activations[a] = NoOne
           /\ activations' = [activations EXCEPT ![a] = new]
           /\ agent' = [agent EXCEPT ![k].activation = a]
    BY <1>5 DEF NewActivation
  <2>2. new.key = k /\ new.claimed = NoOne
    OBVIOUS
  <2> HIDE DEF new
  <2>3. activations'[a] = new
    BY <1>1, <2>1
  <2>4. CodesGoOn /\ claims' = claims
    BY <1>1, <1>5, <2>1, <2>2 DEF NewActivation, CodesGoOn
  <2>5. /\ \A j \in Keys : j # k => agent'[j] = agent[j]
        /\ agent'[k].id = agent[k].id
        /\ agent'[k].activation = a
    BY <1>1, <2>1
  <2>6. agent[k].id # NoOne => Known(agent[k].id, k)
    BY DEF PairingInv, AgentFits
  <2> QED BY <1>2, <2>2, <2>3, <2>4, <2>5, <2>6
<1> QED BY <1>3, <1>4, <1>5 DEF EnsureEnrolled, OpenPage, DropExpired, DropClosing

LEMMA WorldPairs ==
    ASSUME PairingInv, TypesInv',
           (\E a \in Activations : GrowsOlder(a)) \/ (\E t \in Tickets : TicketExpires(t)) \/ Deploy
    PROVE  PairingInv'
<1>1. CodesGoOn /\ claims' = claims /\ agent' = agent
  <2>1. ASSUME NEW a \in Activations, GrowsOlder(a)
        PROVE  CodesGoOn /\ claims' = claims /\ agent' = agent
    <3>1. /\ activations \in [Activations -> ActivationDocs \cup {NoOne}]
          /\ activations' \in [Activations -> ActivationDocs \cup {NoOne}]
          /\ NoOne \notin ActivationDocs
      BY NoOneAssumption DEF PairingInv, TypesInv, EnrollmentTypeOK
    <3>2. activations[a] \in ActivationDocs
      BY <2>1, <3>1 DEF GrowsOlder
    <3>3. PICK age \in Ages :
             activations' = [activations EXCEPT ![a] = [activations[a] EXCEPT !.age = age]]
      BY <2>1 DEF GrowsOlder, Ages
    <3>4. /\ [activations[a] EXCEPT !.age = age].key = activations[a].key
          /\ [activations[a] EXCEPT !.age = age].claimed = activations[a].claimed
          /\ [activations[a] EXCEPT !.age = age] \in ActivationDocs
      BY <3>2 DEF ActivationDocs
    <3>5. /\ activations'[a] # NoOne
          /\ activations'[a].key = activations[a].key
          /\ activations'[a].claimed = activations[a].claimed
      BY <3>1, <3>3, <3>4
    <3>6. \A b \in Activations : b # a => activations'[b] = activations[b]
      BY <3>1, <3>3
    <3> QED BY <2>1, <3>5, <3>6 DEF GrowsOlder, CodesGoOn
  <2>2. CASE (\E t \in Tickets : TicketExpires(t)) \/ Deploy
    BY <2>2 DEF TicketExpires, Deploy, CodesGoOn
  <2> QED BY <2>1, <2>2
<1> QED BY <1>1, CodesGoOnKeepsInv DEF PairingInv

LEMMA PairingInvStep ==
    ASSUME OneServer
    PROVE  PairingInv /\ [EnrollmentNext]_enrollmentVars => PairingInv'
<1> SUFFICES ASSUME PairingInv, [EnrollmentNext]_enrollmentVars
             PROVE  PairingInv'
  OBVIOUS
<1>1. TypesInv'
  BY TypesInvStep DEF PairingInv
<1>2. CASE UNCHANGED enrollmentVars
  BY <1>1, <1>2, CodesGoOnKeepsInv DEF enrollmentVars, CodesGoOn, PairingInv
<1>3. CASE \E s \in Servers :
              (\E a \in Activations : Claim(s, a)) \/ Commit(s) \/ GrantDevice(s) \/ FailClaim(s)
  BY <1>1, <1>3, ClaimPairs, CommitPairs, GrantPairs, FailPairs
<1>4. CASE \E k \in Keys : EnsureEnrolled(k) \/ OpenPage(k) \/ NewActivation(k)
  BY <1>1, <1>4, AgentPairs
<1>5. CASE (\E a \in Activations : GrowsOlder(a)) \/ (\E t \in Tickets : TicketExpires(t)) \/ Deploy
  BY <1>1, <1>5, WorldPairs
<1> QED BY <1>2, <1>3, <1>4, <1>5 DEF EnrollmentNext

\* With one instance an Agent has one identity, whatever claims fail and however
\* often it is paired (app.py claim_activation looks the identity up by its key).
THEOREM OneIdentityCorrect ==
    ASSUME OneServer
    PROVE  EnrollmentSpec => []OneIdentity
<1>1. PairingInv => OneIdentity
  BY DEF PairingInv
<1>2. PairingInv /\ [EnrollmentNext]_enrollmentVars => PairingInv'
  BY PairingInvStep
<1> QED BY <1>1, <1>2, PairingInvInit, PTL DEF EnrollmentSpec

\* With one instance a QR code pairs one app, with the Agent that showed it
\* (relay.py _activation_locked, app.py claim_activation).
THEOREM PairsOneAppCorrect ==
    ASSUME OneServer
    PROVE  EnrollmentSpec => []PairsOneApp
<1>1. PairingInv => PairsOneApp
  BY DEF PairingInv
<1>2. PairingInv /\ [EnrollmentNext]_enrollmentVars => PairingInv'
  BY PairingInvStep
<1> QED BY <1>1, <1>2, PairingInvInit, PTL DEF EnrollmentSpec

\* An Agent that takes an identity takes the one it has, if it has one.
LEMMA IdentityStaysStep ==
    ASSUME PairingInv, [EnrollmentNext]_enrollmentVars, NEW k \in Keys, agent[k].id # NoOne
    PROVE  agent'[k].id = agent[k].id
<1>1. agent \in [Keys -> [id : Ids \cup {NoOne}, activation : Activations \cup {NoOne}]]
  BY DEF PairingInv, TypesInv, EnrollmentTypeOK
<1>2. ASSUME NEW j \in Keys, Adopt(j)
      PROVE  agent'[k].id = agent[k].id
  <2>1. CASE j = k
    <3>1. Known(activations[agent[k].activation].claimed, k) /\ Known(agent[k].id, k)
      BY <1>2, <2>1, AdoptedIsKnown DEF Adopt, PairingInv, AgentFits
    <3>2. activations[agent[k].activation].claimed = agent[k].id
      BY <3>1 DEF Known, PairingInv, OneIdentity
    <3> QED BY <1>1, <1>2, <2>1, <3>2 DEF Adopt
  <2>2. CASE j # k
    BY <1>1, <1>2, <2>2 DEF Adopt
  <2> QED BY <2>1, <2>2
<1>3. ASSUME NEW j \in Keys, NEW a, agent' = [agent EXCEPT ![j].activation = a]
      PROVE  agent'[k].id = agent[k].id
  BY <1>1, <1>3
<1>4. \/ agent' = agent
      \/ \E j \in Keys : Adopt(j)
      \/ \E j \in Keys : agent' = [agent EXCEPT ![j].activation = NoOne]
      \/ \E j \in Keys, a \in Activations : agent' = [agent EXCEPT ![j].activation = a]
  BY DEF EnrollmentNext, enrollmentVars, Claim, Commit, GrantDevice, FailClaim,
         EnsureEnrolled, DropExpired, OpenPage, DropClosing, NewActivation, GrowsOlder,
         TicketExpires, Deploy
<1> QED BY <1>2, <1>3, <1>4

\* With one instance an Agent that has adopted an identity keeps it, through every
\* later pairing (relay.py _adopt_claimed_activation).
THEOREM IdentityKeptCorrect ==
    ASSUME OneServer
    PROVE  EnrollmentSpec => IdentityKept
<1>1. PairingInv /\ [EnrollmentNext]_enrollmentVars
        => [\A k \in Keys : agent[k].id # NoOne => agent'[k].id = agent[k].id]_enrollmentVars
  BY IdentityStaysStep
<1>2. PairingInv /\ [EnrollmentNext]_enrollmentVars => PairingInv'
  BY PairingInvStep
<1> QED BY <1>1, <1>2, PairingInvInit, PTL DEF EnrollmentSpec, IdentityKept
=============================================================================
