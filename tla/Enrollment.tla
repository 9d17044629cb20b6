------------------------------ MODULE Enrollment ------------------------------
(***************************************************************************)
(* How an Agent gets its relay identity: the activation and the enrollment *)
(* of pbxsense_agent/relay.py (_activation_locked, _ensure_enrolled,       *)
(* _adopt_claimed_activation) against create_activation, claim_activation, *)
(* activation_status and the enrollment tickets of push_relay/app.py.      *)
(*                                                                         *)
(* The Agent asks for an activation and shows it as a QR code; an app that *)
(* scans the code claims it, which creates the identity of the Agent or    *)
(* finds it by its public key; the Agent learns its identity when it asks  *)
(* for the status of its activation.  Requests are signed or carry a       *)
(* secret; both are taken as verified.                                     *)
(***************************************************************************)
EXTENDS Integers, FiniteSets, Sequences

CONSTANTS
    Keys,         \* Agent installations: their public keys
    Ids,          \* agent ids the relay may give
    Activations,  \* activation ids the relay may give
    Tickets,      \* enrollment tickets
    TicketOf,     \* the ticket in the settings of each Agent, or NoOne
    Modes,        \* enrollment modes the relay is deployed with, one by one
    Servers,      \* relay instances
    NoOne

ASSUME EnrollmentAssumption ==
    /\ TicketOf \in [Keys -> Tickets \cup {NoOne}]
    /\ NoOne \notin Keys \cup Ids \cup Activations \cup Tickets
    /\ Modes \subseteq {"open", "ticket", "closed"}

VARIABLES
    mode,        \* PBXSENSE_RELAY_ENROLLMENT_MODE
    identities,  \* the documents of agents
    activations, \* the documents of activations
    used,        \* enrollmentTickets: tickets that enrolled an Agent
    stale,       \* tickets that have expired
    claims,      \* the claim each instance is busy with
    paired,      \* history: the agent ids given to the apps that scanned each activation
    agent        \* the state file of each Agent: agent_id and activation

enrollmentVars ==
    <<mode, identities, activations, used, stale, claims, paired, agent>>

Identities == [id : Ids, key : Keys, ticket : Tickets \cup {NoOne}]

\* An activation is valid for ten minutes; in the last half minute ("closing")
\* the Agent does not show it any more.
Ages == {"valid", "closing", "expired"}

ActivationDocs ==
    [key : Keys, ticket : Tickets \cup {NoOne}, age : Ages,
     claimed : Ids \cup {NoOne}]

Claims ==
    [activation : Activations, id : Ids, reused : BOOLEAN,
     step : {"commit", "device"}]

ASSUME NoOneAssumption == NoOne \notin ActivationDocs /\ NoOne \notin Claims

EnrollmentTypeOK ==
    /\ mode \in {"open", "ticket", "closed"}
    /\ identities \subseteq Identities
    /\ activations \in [Activations -> ActivationDocs \cup {NoOne}]
    /\ used \subseteq Tickets /\ stale \subseteq Tickets
    /\ claims \in [Servers -> Claims \cup {NoOne}]
    /\ paired \in [Activations -> Seq(Ids)]
    /\ agent \in [Keys -> [id : Ids \cup {NoOne},
                           activation : Activations \cup {NoOne}]]

EnrollmentInit ==
    /\ mode \in Modes
    /\ identities = {}
    /\ activations = [a \in Activations |-> NoOne]
    /\ used = {} /\ stale = {}
    /\ paired = [a \in Activations |-> <<>>]
    /\ claims = [s \in Servers |-> NoOne]
    /\ agent = [k \in Keys |-> [id |-> NoOne, activation |-> NoOne]]

OfKey(k) == {x \in identities : x.key = k}

Claimed(a) == activations[a].claimed # NoOne

-----------------------------------------------------------------------------
(* The relay                                                               *)

\* create_activation verifies the ticket the Agent sends (one that is not
\* enrolled does) unless a known identity signs the request; a relay that asks
\* for tickets or is closed requires that signature.
Admitted(k, ticket) ==
    \/ OfKey(k) # {} /\ mode # "open"
    \/ mode = "open"
    \/ mode = "ticket" /\ ticket \notin stale \cup {NoOne}

\* The ticket is kept with the activation when it was asked for.
KeptTicket(k, ticket) ==
    IF mode = "ticket" /\ OfKey(k) = {} THEN ticket ELSE NoOne

\* Variant with a fault: a code that was scanned can be scanned again.
ClaimableAgain(a) == activations[a] # NoOne /\ activations[a].age # "expired"

Claimable(a) ==
    activations[a] # NoOne /\ ~Claimed(a) /\ activations[a].age # "expired"

\* Variant with a fault: every claim makes an identity.
NoKnownIdentity(a) == {}

KnownIdentity(a) == OfKey(activations[a].key)

\* claim_activation, up to its first write: the activation is read and
\* verified, and the identity of its key looked up; a new one gets a new id.
Claim(s, a) ==
    /\ claims[s] = NoOne
    /\ Claimable(a)
    /\ LET known == KnownIdentity(a)
       IN  \/ \E x \in known :
                 claims' = [claims EXCEPT ![s] =
                     [activation |-> a, id |-> x.id, reused |-> TRUE, step |-> "commit"]]
           \/ /\ known = {}
              /\ mode = "ticket" => activations[a].ticket \notin stale \cup {NoOne}
              /\ \E id \in Ids \ ({x.id : x \in identities}
                                  \cup {c.id : c \in {claims[r] : r \in Servers} \ {NoOne}}) :
                    claims' = [claims EXCEPT ![s] =
                        [activation |-> a, id |-> id, reused |-> FALSE, step |-> "commit"]]
    /\ UNCHANGED <<mode, identities, activations, used, stale, paired, agent>>

\* Variant with a fault: the document of the ticket is written over.
TicketForgotten(c) == FALSE

\* The document of the ticket is created: one that exists fails the batch.
TicketUsed(c) == activations[c.activation].ticket \in used

\* The batch that uses the activation and, for a new identity, creates its
\* document and the one of the ticket.
Commit(s) ==
    LET c == claims[s]
        doc == activations[c.activation]
        ticketed == ~c.reused /\ mode = "ticket"
    IN  /\ c # NoOne /\ c.step = "commit"
        /\ IF ticketed /\ TicketUsed(c)
           THEN /\ claims' = [claims EXCEPT ![s] = NoOne]
                /\ UNCHANGED <<identities, activations, used>>
           ELSE /\ activations' = [activations EXCEPT ![c.activation].claimed = c.id]
                /\ identities' = IF c.reused THEN identities
                      ELSE identities \cup {[id |-> c.id, key |-> doc.key,
                                             ticket |-> IF ticketed THEN doc.ticket
                                                        ELSE NoOne]}
                /\ used' = IF ticketed THEN used \cup {doc.ticket} ELSE used
                /\ claims' = [claims EXCEPT ![s].step = "device"]
        /\ UNCHANGED <<mode, stale, paired, agent>>

\* The app gets its credential, unless the Agent has no room for it.
GrantDevice(s) ==
    /\ claims[s] # NoOne /\ claims[s].step = "device"
    /\ paired' = [paired EXCEPT ![claims[s].activation] = Append(@, claims[s].id)]
    /\ claims' = [claims EXCEPT ![s] = NoOne]
    /\ UNCHANGED <<mode, identities, activations, used, stale, agent>>

\* The claim fails: no room, a Firestore call that fails, a killed instance.
FailClaim(s) ==
    /\ claims[s] # NoOne
    /\ claims' = [claims EXCEPT ![s] = NoOne]
    /\ UNCHANGED <<mode, identities, activations, used, stale, paired, agent>>

-----------------------------------------------------------------------------
(* The Agent                                                               *)

\* _adopt_claimed_activation, after a status that says claimed.
Adopt(k) ==
    LET a == agent[k].activation
    IN  /\ a # NoOne /\ Claimed(a)
        /\ agent' = [agent EXCEPT
              ![k] = [id |-> activations[a].claimed, activation |-> NoOne]]
        /\ UNCHANGED <<mode, identities, activations, used, stale, claims, paired>>

\* A status that says expired and not claimed drops the activation.
DropExpired(k) ==
    LET a == agent[k].activation
    IN  /\ a # NoOne /\ ~Claimed(a) /\ activations[a].age = "expired"
        /\ agent' = [agent EXCEPT ![k].activation = NoOne]
        /\ UNCHANGED <<mode, identities, activations, used, stale, claims, paired>>

\* The loops ask for the status while the Agent is not enrolled
\* (_ensure_enrolled), the pairing page whenever it is opened.
EnsureEnrolled(k) == agent[k].id = NoOne /\ (Adopt(k) \/ DropExpired(k))

\* The pairing page first drops an activation that is about to expire, without
\* asking for its status (_activation_locked).
DropClosing(k) ==
    LET a == agent[k].activation
    IN  /\ a # NoOne /\ activations[a].age # "valid"
        /\ agent' = [agent EXCEPT ![k].activation = NoOne]
        /\ UNCHANGED <<mode, identities, activations, used, stale, claims, paired>>

OpenPage(k) ==
    \/ DropClosing(k)
    \/ /\ agent[k].activation # NoOne
       /\ activations[agent[k].activation].age = "valid"
       /\ Adopt(k)

\* It goes on to ask for a new activation; the answer may be lost, and nobody
\* ever sees that activation.
NewActivation(k) ==
    LET ticket == IF agent[k].id = NoOne THEN TicketOf[k] ELSE NoOne
    IN  /\ agent[k].activation = NoOne
        /\ Admitted(k, ticket)
        /\ \E a \in {b \in Activations : activations[b] = NoOne} :
              /\ activations' = [activations EXCEPT ![a] =
                    [key |-> k, ticket |-> KeptTicket(k, ticket), age |-> "valid",
                     claimed |-> NoOne]]
              /\ agent' = [agent EXCEPT ![k].activation = a]
        /\ UNCHANGED <<mode, identities, used, stale, claims, paired>>

-----------------------------------------------------------------------------
(* The world                                                               *)

GrowsOlder(a) ==
    /\ activations[a] # NoOne /\ activations[a].age # "expired"
    /\ activations' = [activations EXCEPT
          ![a].age = IF @ = "valid" THEN "closing" ELSE "expired"]
    /\ UNCHANGED <<mode, identities, used, stale, claims, paired, agent>>

TicketExpires(t) ==
    /\ stale' = stale \cup {t}
    /\ UNCHANGED <<mode, identities, activations, used, claims, paired, agent>>

\* The relay is deployed again in another mode, between two requests.
Deploy ==
    /\ \A s \in Servers : claims[s] = NoOne
    /\ mode' \in Modes
    /\ UNCHANGED <<identities, activations, used, stale, claims, paired, agent>>

EnrollmentNext ==
    \/ \E s \in Servers :
          \/ \E a \in Activations : Claim(s, a)
          \/ Commit(s) \/ GrantDevice(s) \/ FailClaim(s)
    \/ \E k \in Keys : EnsureEnrolled(k) \/ OpenPage(k) \/ NewActivation(k)
    \/ \E a \in Activations : GrowsOlder(a)
    \/ \E t \in Tickets : TicketExpires(t)
    \/ Deploy

EnrollmentSpec == EnrollmentInit /\ [][EnrollmentNext]_enrollmentVars

-----------------------------------------------------------------------------
(* Properties                                                              *)

\* A ticket enrolls one Agent, however many instances serve claims, and however
\* the deployment changes (README.md of the relay: a "single-use" ticket).
TicketOnce ==
    \A x, y \in identities : x.ticket = y.ticket /\ x.ticket # NoOne => x = y

\* With one instance an Agent has one identity: a second claim finds the first
\* by the public key (app.py claim_activation).
OneIdentity == \A x, y \in identities : x.key = y.key => x = y

\* An Agent that has adopted an identity keeps it, through every later pairing:
\* its devices and its document stay together (relay.py
\* _adopt_claimed_activation writes agent_id every time).
IdentityKept ==
    [][\A k \in Keys : agent[k].id # NoOne => agent'[k].id = agent[k].id]_enrollmentVars

\* With one instance a QR code pairs one app, with the Agent that showed it
\* (relay.py: "The claimed activation connected one app").
PairsOneApp ==
    \A a \in Activations :
        /\ Len(paired[a]) <= 1
        /\ \A n \in DOMAIN paired[a] :
              \E x \in identities : x.id = paired[a][n] /\ x.key = activations[a].key
=============================================================================
