---------------------------- MODULE DeviceRegistry ----------------------------
(***************************************************************************)
(* The device registrations of the push relay: push_relay/app.py, the      *)
(* handlers register_device, register_own_device, revoke_device,           *)
(* remove_device and revoke_own_device, the creation of a device by a      *)
(* claim, and the removal of dead tokens after a multicast.  A device is a *)
(* Firestore document under its Agent; a pointer per FCM token names the   *)
(* document that holds the token.  There is no transaction: every write is *)
(* a step, and a handler may be cut short between two of them.             *)
(*                                                                         *)
(* An instance runs its handlers on one event loop and Firestore calls     *)
(* block it, so a handler that has started is only interleaved with those  *)
(* of other instances - except register_own_device, which awaits the body  *)
(* of its request after it has read the document.                          *)
(***************************************************************************)
EXTENDS Integers, FiniteSets

CONSTANTS
    Agents,
    Credentials,  \* ids of the devices that claims create
    CredentialOf, \* the Agent each of them belongs to
    Tokens,       \* FCM tokens
    MaxDevices,   \* MAX_DEVICES_PER_AGENT
    Instances,    \* relay instances
    MaxWaiting,   \* bound: requests whose body is awaited at a time
    MaxTorn,      \* bound: tokens touched by handlers that failed half-way
    None

ASSUME RegistryAssumption ==
    /\ CredentialOf \in [Credentials -> Agents]
    /\ MaxDevices \in Nat
    /\ MaxWaiting \in Nat /\ MaxTorn \in Nat
    /\ None \notin Tokens
    /\ None \notin Credentials \cup (Agents \X Tokens)

\* The path of a document.  A registration without relayDeviceId is stored
\* under the hash of its token: an app paired before there were credentials.
Devices == Credentials \cup (Agents \X Tokens)

AgentOf(d) == IF d \in Credentials THEN CredentialOf[d] ELSE d[1]

VARIABLES
    docs,     \* the device documents
    pointers, \* deviceTokens: the document each token is said to be in
    tasks,    \* the handler each instance is busy with
    waiting,  \* own registrations that wait for their body
    dead,     \* tokens FCM calls unregistered
    issued,   \* credentials a claim has given to an app
    torn      \* history: tokens a handler that failed half-way was working on

registryVars == <<docs, pointers, tasks, waiting, dead, issued, torn>>

Documents == [token : Tokens \cup {None}, access : BOOLEAN]

Registrations == [device : Devices, token : Tokens \cup {None}]

Kinds == {"create", "register", "own", "remove", "prune"}

Steps == {"dropOld", "set", "previous", "point", "delete", "unpoint"}

Tasks ==
    [kind : Kinds, step : Steps, device : Devices, token : Tokens \cup {None},
     held : Tokens \cup {None}, other : Devices \cup {None},
     todo : SUBSET Registrations]

\* No document and no handler.
ASSUME NoneAssumption == None \notin Documents /\ None \notin Tasks

RegistryTypeOK ==
    /\ docs \in [Devices -> Documents \cup {None}]
    /\ pointers \in [Tokens -> Devices \cup {None}]
    /\ tasks \in [Instances -> Tasks \cup {None}]
    /\ waiting \subseteq Registrations
    /\ dead \subseteq Tokens /\ issued \subseteq Credentials
    /\ torn \subseteq Tokens

RegistryInit ==
    /\ docs = [d \in Devices |-> None]
    /\ pointers = [t \in Tokens |-> None]
    /\ tasks = [i \in Instances |-> None]
    /\ waiting = {} /\ dead = {} /\ issued = {} /\ torn = {}

TokenIn(d) == IF docs[d] = None THEN None ELSE docs[d].token

DevicesOf(a) == {d \in Devices : AgentOf(d) = a /\ docs[d] # None}

\* Variant with a fault: one device too many.
HasCapacityFor(a) == Cardinality(DevicesOf(a)) <= MaxDevices

HasCapacity(a) == Cardinality(DevicesOf(a)) < MaxDevices

-----------------------------------------------------------------------------
(* Requests                                                                *)

Task(kind, step, d, t, held) ==
    [kind |-> kind, step |-> step, device |-> d, token |-> t, held |-> held,
     other |-> None, todo |-> {}]

Start(i, task) ==
    /\ tasks[i] = None
    /\ tasks' = [tasks EXCEPT ![i] = task]
    /\ UNCHANGED <<docs, pointers, dead, issued, torn>>

\* A claim creates the document of the app, with its credential.
CreateDevice(i, d) ==
    /\ d \in Credentials \ issued
    /\ HasCapacity(AgentOf(d))
    /\ Start(i, Task("create", "set", d, None, None))
    /\ UNCHANGED waiting

\* The Agent registers a token, under the id of the app or the hash of the
\* token.  It may do so long after the app asked for it, and for an app that
\* has been removed since.
RegisterByAgent(i, d, t) ==
    /\ d \in issued \cup (Agents \X {t})
    /\ docs[d] # None \/ HasCapacity(AgentOf(d))
    /\ Start(i, Task("register", "set", d, t, None))
    /\ UNCHANGED waiting

\* The app registers a token itself: the document is read with its credential,
AuthenticateOwn(i, d) ==
    /\ tasks[i] = None
    /\ docs[d] # None /\ docs[d].access
    /\ Cardinality(waiting) < MaxWaiting
    /\ waiting' = waiting \cup {[device |-> d, token |-> docs[d].token]}
    /\ UNCHANGED <<docs, pointers, tasks, dead, issued, torn>>

\* and then the body is awaited.
RegisterOwn(i, w, t) ==
    /\ w \in waiting
    /\ waiting' = waiting \ {w}
    /\ LET release == w.token \notin {None, t} /\ pointers[w.token] = w.device
       IN  Start(i, Task("own", IF release THEN "dropOld" ELSE "set",
                    w.device, t, IF release THEN w.token ELSE None))

\* The Agent removes an app, by its id or by the hash of its token.
RemoveByAgent(i, d) ==
    /\ Start(i, Task("remove", "delete", d, None, TokenIn(d)))
    /\ UNCHANGED waiting

\* The app removes itself; its credential is checked, not its age.
RemoveOwn(i, d) ==
    /\ docs[d] # None /\ docs[d].access
    /\ RemoveByAgent(i, d)

\* A multicast to the devices of an Agent, each token once: the documents of
\* the tokens that are unregistered are to be removed.
Unregistered(listing) == {r \in listing : r.token \in dead}

Multicast(i, a) ==
    \E listing \in SUBSET {[device |-> d, token |-> docs[d].token] : d \in DevicesOf(a)} :
        /\ \A r, s \in listing : r.token = s.token => r = s
        /\ {r.token : r \in listing} = {docs[d].token : d \in DevicesOf(a)} \ {None}
        /\ \E r \in Unregistered(listing) :
              Start(i, [Task("prune", "delete", r.device, None, r.token)
                           EXCEPT !.todo = Unregistered(listing) \ {r}])
        /\ UNCHANGED waiting

-----------------------------------------------------------------------------
(* The steps of a handler                                                  *)

Goto(i, step) == tasks' = [tasks EXCEPT ![i].step = step]

\* The handler is done, or goes on with the next dead token.
Finish(i) ==
    \/ /\ tasks[i].todo = {}
       /\ tasks' = [tasks EXCEPT ![i] = None]
    \/ \E r \in tasks[i].todo :
          tasks' = [tasks EXCEPT ![i].step = "delete", ![i].device = r.device,
                                 ![i].held = r.token, ![i].todo = @ \ {r}]

\* register_own_device: the token the app had before points here no longer.
DropOldPointer(i) ==
    /\ tasks[i] # None /\ tasks[i].step = "dropOld"
    /\ pointers' = [pointers EXCEPT ![tasks[i].held] = None]
    /\ Goto(i, "set")
    /\ UNCHANGED <<docs, waiting, dead, issued, torn>>

\* A claim creates a document with a credential; a registration is merged into
\* the document, and creates one without a credential if there is none.
Written(task) ==
    IF task.kind = "create" THEN [token |-> None, access |-> TRUE]
    ELSE [token |-> task.token,
          access |-> docs[task.device] # None /\ docs[task.device].access]

\* Variant with a fault: a token that moves leaves the older document behind.
KeepsPrevious(task) == None

\* The other document the pointer of the token names, if it exists.
Previous(task) ==
    LET p == pointers[task.token]
    IN  IF p \in {None, task.device} THEN None
        ELSE IF docs[p] = None THEN None ELSE p

SetDocument(i) ==
    LET task == tasks[i]
        d == task.device
    IN  /\ task # None /\ task.step = "set"
        /\ docs' = [docs EXCEPT ![d] = Written(task)]
        /\ IF task.kind = "create"
           THEN /\ tasks' = [tasks EXCEPT ![i] = None]
                /\ issued' = issued \cup {d}
           ELSE /\ tasks' = [tasks EXCEPT
                       ![i].step = IF Previous(task) = None THEN "point" ELSE "previous",
                       ![i].other = Previous(task)]
                /\ UNCHANGED issued
        /\ UNCHANGED <<pointers, waiting, dead, torn>>

\* The document the token pointed to is deleted.
DeletePrevious(i) ==
    /\ tasks[i] # None /\ tasks[i].step = "previous"
    /\ docs' = [docs EXCEPT ![tasks[i].other] = None]
    /\ Goto(i, "point")
    /\ UNCHANGED <<pointers, waiting, dead, issued, torn>>

WritePointer(i) ==
    /\ tasks[i] # None /\ tasks[i].step = "point"
    /\ pointers' = [pointers EXCEPT ![tasks[i].token] = tasks[i].device]
    /\ Finish(i)
    /\ UNCHANGED <<docs, waiting, dead, issued, torn>>

\* _delete_device_registration: the document goes first,
DeleteDocument(i) ==
    LET task == tasks[i]
    IN  /\ task # None /\ task.step = "delete"
        /\ docs' = [docs EXCEPT ![task.device] = None]
        /\ IF task.held # None /\ pointers[task.held] = task.device
           THEN Goto(i, "unpoint")
           ELSE Finish(i)
        /\ UNCHANGED <<pointers, waiting, dead, issued, torn>>

\* then the pointer of its token, if it still names the document.
DropPointer(i) ==
    /\ tasks[i] # None /\ tasks[i].step = "unpoint"
    /\ pointers' = [pointers EXCEPT ![tasks[i].held] = None]
    /\ Finish(i)
    /\ UNCHANGED <<docs, waiting, dead, issued, torn>>

\* A Firestore call fails, or the instance is killed.
Touched(i) ==
    IF tasks[i] = None THEN {} ELSE {tasks[i].token, tasks[i].held} \ {None}

Cut(i) ==
    /\ tasks[i] # None
    /\ tasks' = [tasks EXCEPT ![i] = None]
    /\ torn' = torn \cup Touched(i)
    /\ Cardinality(torn') <= MaxTorn
    /\ UNCHANGED <<docs, pointers, waiting, dead, issued>>

\* An app is uninstalled or its token replaced.
TokenDies(t) ==
    /\ dead' = dead \cup {t}
    /\ UNCHANGED <<docs, pointers, tasks, waiting, issued, torn>>

-----------------------------------------------------------------------------

HandlerStep(i) ==
    \/ DropOldPointer(i) \/ SetDocument(i) \/ DeletePrevious(i) \/ WritePointer(i)
    \/ DeleteDocument(i) \/ DropPointer(i) \/ Cut(i)

RegistryNext ==
    \/ \E i \in Instances :
          \/ HandlerStep(i)
          \/ \E d \in Devices :
                \/ CreateDevice(i, d) \/ RemoveByAgent(i, d) \/ RemoveOwn(i, d)
                \/ AuthenticateOwn(i, d)
                \/ \E t \in Tokens : RegisterByAgent(i, d, t)
          \/ \E w \in waiting, t \in Tokens : RegisterOwn(i, w, t)
          \/ \E a \in Agents : Multicast(i, a)
    \/ \E t \in Tokens : TokenDies(t)

RegistrySpec == RegistryInit /\ [][RegistryNext]_registryVars

-----------------------------------------------------------------------------
(* Properties                                                              *)

Busy == UNION {Touched(i) : i \in Instances}

\* With one instance, and leaving aside the tokens of a handler at work or of
\* one that failed half-way, the document that holds a token is the one its
\* pointer names.  So no token is in two documents, a phone is pushed to once,
\* and the next registration of a token finds the one to replace
\* (app.py register_device, register_own_device, _delete_device_registration).
OneOwner ==
    \A d \in Devices :
        docs[d] # None /\ docs[d].token \notin torn \cup Busy \cup {None}
            => pointers[docs[d].token] = d

\* With one instance nothing brings an Agent above the limit, but for an app
\* that was removed while the body of its own registration was awaited
\* (app.py _require_device_capacity, register_own_device).
CapacityKept ==
    [][\A a \in Agents :
          \/ Cardinality(DevicesOf(a)') <= MaxDevices
          \/ DevicesOf(a)' \subseteq DevicesOf(a)
          \/ \E i \in Instances : tasks[i] # None /\ tasks[i].kind = "own"]_registryVars
=============================================================================
