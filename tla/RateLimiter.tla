------------------------------ MODULE RateLimiter ------------------------------
(***************************************************************************)
(* The request limiter in front of every handler of a relay instance:      *)
(* bound_public_requests, _client_window and _consume_window of            *)
(* push_relay/app.py.  Each source address has a window of the times of    *)
(* its admitted requests; the table of windows is bounded, idle windows    *)
(* make room, and when there are none a new address shares the window      *)
(* called "overflow".                                                      *)
(*                                                                         *)
(* A time is kept as its age, up to the length of the window, so the clock *)
(* needs no bound.                                                         *)
(***************************************************************************)
EXTENDS Integers, Sequences, FiniteSets

CONSTANTS
    Clients,         \* source addresses
    Overflow,        \* the key of the shared window
    Period,          \* the length of a window: a minute
    RequestLimit,    \* requests of a window in a period (120)
    ActivationLimit, \* the same, when the request is an activation (6)
    MaxWindows,      \* size of the table (10 000)
    EvictBatch       \* windows removed at a time (2 000)

ASSUME LimiterAssumption ==
    /\ Overflow \notin Clients
    /\ Period \in Nat \ {0}
    /\ RequestLimit \in Nat \ {0} /\ ActivationLimit \in 1 .. RequestLimit
    /\ MaxWindows \in Nat \ {0} /\ EvictBatch \in Nat \ {0}
    /\ IsFiniteSet(Clients)

VARIABLES
    windows, \* _request_windows: the ages of admitted requests, oldest first
    recent   \* history: the requests admitted in the last period

limiterVars == <<windows, recent>>

RequestKinds == {"activation", "other"}

LimitOf(kind) == IF kind = "activation" THEN ActivationLimit ELSE RequestLimit

\* A request of a client, and the window it was counted in.
AdmittedRequests == [client : Clients, key : Clients \cup {Overflow},
             kind : RequestKinds, age : 0 .. Period - 1]

LimiterTypeOK ==
    /\ DOMAIN windows \subseteq Clients \cup {Overflow}
    /\ \A k \in DOMAIN windows : windows[k] \in Seq(0 .. Period)
    /\ recent \in Seq(AdmittedRequests)

LimiterInit == windows = [k \in {} |-> <<>>] /\ recent = <<>>

-----------------------------------------------------------------------------

\* How many times are popped from the head of a window: those a period old or more.
Popped(ages) ==
    CHOOSE n \in 0 .. Len(ages) :
        /\ \A m \in 1 .. n : ages[m] >= Period
        /\ n = Len(ages) \/ ages[n + 1] < Period

InPeriod(window) == SubSeq(window, Popped(window) + 1, Len(window))

\* A window that is empty, or whose last request is a period old.
Idle(k) == windows[k] = <<>> \/ windows[k][Len(windows[k])] >= Period

IdleWindows == {k \in DOMAIN windows : Idle(k)}

\* Variant with a fault: a full table makes room whether windows are idle or not.
EvictedAny ==
    {E \in SUBSET DOMAIN windows : Cardinality(E) = EvictBatch}

\* The windows removed from a full table, the first ones of the idle.
Evicted ==
    {E \in SUBSET IdleWindows :
        \/ E = IdleWindows /\ Cardinality(E) <= EvictBatch
        \/ Cardinality(E) = EvictBatch}

\* The table after _client_window has looked for the window of a client, and
\* the key of the window it gives.
Lookup(c) ==
    IF c \in DOMAIN windows THEN {[table |-> DOMAIN windows, key |-> c]}
    ELSE IF Cardinality(DOMAIN windows) < MaxWindows
    THEN {[table |-> DOMAIN windows \cup {c}, key |-> c]}
    ELSE {LET kept == DOMAIN windows \ E
              key == IF Cardinality(kept) < MaxWindows THEN c ELSE Overflow
          IN  [table |-> kept \cup {key}, key |-> key] : E \in Evicted}

\* What _consume_window finds in the window of a key.
Counted(key) == IF key \in DOMAIN windows THEN InPeriod(windows[key]) ELSE <<>>

Stored(look, window) ==
    [k \in look.table |-> IF k = look.key THEN window ELSE windows[k]]

Admit(c, kind) ==
    \E look \in Lookup(c) :
        /\ Len(Counted(look.key)) < LimitOf(kind)
        /\ windows' = Stored(look, Append(Counted(look.key), 0))
        /\ recent' = Append(recent, [client |-> c, key |-> look.key,
                                     kind |-> kind, age |-> 0])

Refuse(c, kind) ==
    \E look \in Lookup(c) :
        /\ Len(Counted(look.key)) >= LimitOf(kind)
        /\ windows' = Stored(look, Counted(look.key))
        /\ UNCHANGED recent

Older(age) == IF age < Period THEN age + 1 ELSE age

Tick ==
    /\ windows' = [k \in DOMAIN windows |->
                      [n \in DOMAIN windows[k] |-> Older(windows[k][n])]]
    /\ LET aged == [n \in DOMAIN recent |-> [recent[n] EXCEPT !.age = @ + 1]]
           old == Popped([n \in DOMAIN recent |-> aged[n].age])
       IN  recent' = SubSeq(aged, old + 1, Len(recent))

LimiterNext ==
    \/ \E c \in Clients, kind \in RequestKinds : Admit(c, kind) \/ Refuse(c, kind)
    \/ Tick

LimiterSpec == LimiterInit /\ [][LimiterNext]_limiterVars

-----------------------------------------------------------------------------
(* Properties                                                              *)

RecentOf(Test(_)) == {n \in DOMAIN recent : Test(recent[n])}

\* In no period of one minute, wherever it begins, does a window admit more
\* requests than the limit or more activations than theirs, although windows
\* are removed from the table and made again (app.py _client_window,
\* _consume_window).
WithinLimits ==
    \A k \in Clients \cup {Overflow} :
        /\ Cardinality(RecentOf(LAMBDA r : r.key = k)) <= RequestLimit
        /\ Cardinality(RecentOf(LAMBDA r : r.key = k /\ r.kind = "activation"))
              <= ActivationLimit

\* The table of windows is bounded, with the shared window as its only excess,
\* however many addresses there are (app.py: "cannot turn the lightweight
\* limiter itself into an unbounded allocation").
TableBounded == Cardinality(DOMAIN windows) <= MaxWindows + 1

\* An activation is refused only to an address that has made as many
\* activation requests, or requests in all, as it may in a period (README.md of
\* the relay: "six activation requests per source address per minute").
ActivationsApart ==
    [][\A c \in Clients :
          Refuse(c, "activation") =>
              \/ Cardinality(RecentOf(LAMBDA r : r.client = c /\ r.kind = "activation"))
                    >= ActivationLimit
              \/ Cardinality(RecentOf(LAMBDA r : r.key = c)) >= RequestLimit
      ]_limiterVars
=============================================================================
