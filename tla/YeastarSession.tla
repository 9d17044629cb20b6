---------------------------- MODULE YeastarSession ----------------------------
(***************************************************************************)
(* YeastarClient of src/pbxsense_agent/yeastar.py: the access token of the *)
(* PBX's cloud API, which expires, is kept by the Agent with the time it   *)
(* may be used and shared without a lock by the refresh of the home state  *)
(* and by requests for recordings.  Nothing drops a token the PBX refuses. *)
(***************************************************************************)
EXTENDS Integers, Sequences

CONSTANTS
    Publisher,     \* the thread that takes snapshots, one at a time
    Listeners,     \* threads that fetch recordings
    Lifetime,      \* access_token_expire_time
    Margin,        \* the 30 seconds
    MaxDelay,      \* how long a request or an answer may be on its way
    RefreshAfter,  \* the 2 seconds a snapshot is kept
    MaxRefusals,   \* bound: requests that fail, tokens that are withdrawn
    NoToken

Users == {Publisher} \cup Listeners

ASSUME YeastarAssumption ==
    /\ {Lifetime, Margin, MaxDelay, RefreshAfter, MaxRefusals} \subseteq Nat
    /\ NoToken \notin Nat
    /\ Publisher \notin Listeners
    /\ 2 * MaxDelay <= Margin
    /\ 2 * Margin <= Lifetime

VARIABLES
    token,     \* _access_token: the time it has left at the PBX, 0 if refused
    usable,    \* time until _token_expires_at
    doing,     \* what each thread does: the requests it has still to make
    stage,     \* and where it is with the first
    held,      \* the token each thread has in hand
    underway,  \* how long its request or answer is on its way
    kept,      \* time until _snapshot_refresh_after
    reached,   \* whether the snapshot kept says the PBX was reached
    refusals

yeastarVars == <<token, usable, doing, stage, held, underway, kept, reached, refusals>>

Requests(u) ==
    IF u = Publisher
    THEN <<"extensions", "calls", "queues", "records", "voicemail">>
    ELSE <<"recording", "download">>

YeastarInit ==
    /\ token = NoToken
    /\ usable = 0
    /\ doing = [u \in Users |-> <<>>]
    /\ stage = [u \in Users |-> "idle"]
    /\ held = [u \in Users |-> 0]
    /\ underway = [u \in Users |-> 0]
    /\ kept = 0
    /\ reached = FALSE
    /\ refusals = 0

\* A snapshot is taken when the kept one is too old, a recording at any time.
BeginRequests(u) ==
    /\ stage[u] = "idle"
    /\ u = Publisher => kept = 0
    /\ doing' = [doing EXCEPT ![u] = Requests(u)]
    /\ stage' = [stage EXCEPT ![u] = "token"]
    /\ UNCHANGED <<token, usable, held, underway, kept, reached, refusals>>

\* Variant with a fault: a token is used until there is none.
HasToken == token # NoToken

Usable == token # NoToken /\ usable > 0

SendWith(u, t) ==
    /\ stage' = [stage EXCEPT ![u] = "sent"]
    /\ held' = [held EXCEPT ![u] = t]
    /\ underway' = [underway EXCEPT ![u] = 0]

UseToken(u) ==
    /\ stage[u] = "token"
    /\ Usable
    /\ SendWith(u, token)
    /\ UNCHANGED <<token, usable, doing, kept, reached, refusals>>

AskForToken(u) ==
    /\ stage[u] = "token"
    /\ ~Usable
    /\ stage' = [stage EXCEPT ![u] = "asks"]
    /\ UNCHANGED <<token, usable, doing, held, underway, kept, reached, refusals>>

\* The PBX; a token it issues does not end those before.
IssueToken(u) ==
    /\ stage[u] = "asks"
    /\ stage' = [stage EXCEPT ![u] = "issued"]
    /\ held' = [held EXCEPT ![u] = Lifetime]
    /\ underway' = [underway EXCEPT ![u] = 0]
    /\ UNCHANGED <<token, usable, doing, kept, reached, refusals>>

StoreToken(u) ==
    /\ stage[u] = "issued"
    /\ token' = held[u]
    /\ stage' = [stage EXCEPT ![u] = "stored"]
    /\ UNCHANGED <<usable, doing, held, underway, kept, reached, refusals>>

UseFor == IF Lifetime - Margin > Margin THEN Lifetime - Margin ELSE Margin

StoreExpiry(u) ==
    /\ stage[u] = "stored"
    /\ usable' = UseFor
    /\ SendWith(u, held[u])
    /\ UNCHANGED <<token, doing, kept, reached, refusals>>

\* The requests that are left; after the last one a snapshot is kept for a while.
GoOn(u, rest, ok) ==
    /\ doing' = [doing EXCEPT ![u] = rest]
    /\ stage' = [stage EXCEPT ![u] = IF rest = <<>> THEN "idle" ELSE "token"]
    /\ held' = [held EXCEPT ![u] = 0]
    /\ underway' = [underway EXCEPT ![u] = 0]
    /\ IF u = Publisher /\ rest = <<>>
       THEN /\ reached' = ok
            /\ kept' = RefreshAfter
       ELSE UNCHANGED <<reached, kept>>

\* Without its queues a snapshot is complete; without anything else it is none.
RequestFailed(u) ==
    IF Head(doing[u]) = "queues" THEN GoOn(u, Tail(doing[u]), TRUE) ELSE GoOn(u, <<>>, FALSE)

AnswerRequest(u) ==
    /\ stage[u] = "sent"
    /\ IF held[u] > 0 THEN GoOn(u, Tail(doing[u]), TRUE) ELSE RequestFailed(u)
    /\ UNCHANGED <<token, usable, refusals>>

RequestFails(u) ==
    /\ stage[u] \in {"asks", "sent"}
    /\ refusals < MaxRefusals
    /\ refusals' = refusals + 1
    /\ RequestFailed(u)
    /\ UNCHANGED <<token, usable>>

\* The PBX restarts, or its administrator ends the sessions.
WithdrawTokens ==
    /\ refusals < MaxRefusals
    /\ refusals' = refusals + 1
    /\ token' = IF token = NoToken THEN NoToken ELSE 0
    /\ held' = [u \in Users |-> 0]
    /\ UNCHANGED <<usable, doing, stage, underway, kept, reached>>

Sooner(n) == IF n > 0 THEN n - 1 ELSE 0

OnItsWay(u) == stage[u] \in {"issued", "sent"}

\* Between the two assignments of _token another thread may run, but no time passes.
YeastarTick ==
    /\ \A u \in Users : stage[u] \in {"idle", "issued", "sent"}
    /\ \A u \in Users : OnItsWay(u) => underway[u] < MaxDelay
    /\ token' = IF token = NoToken THEN NoToken ELSE Sooner(token)
    /\ usable' = Sooner(usable)
    /\ held' = [u \in Users |-> Sooner(held[u])]
    /\ underway' = [u \in Users |-> IF OnItsWay(u) THEN underway[u] + 1 ELSE 0]
    /\ kept' = Sooner(kept)
    /\ UNCHANGED <<doing, stage, reached, refusals>>

Works(u) ==
    \/ UseToken(u)
    \/ AskForToken(u)
    \/ IssueToken(u)
    \/ StoreToken(u)
    \/ StoreExpiry(u)
    \/ AnswerRequest(u)

YeastarNext ==
    \/ \E u \in Users : BeginRequests(u) \/ Works(u) \/ RequestFails(u)
    \/ WithdrawTokens
    \/ YeastarTick

\* Snapshots are taken again and again, requests come to an end, and time passes,
\* however many requests are made in no time.
YeastarFairness ==
    /\ WF_yeastarVars(BeginRequests(Publisher))
    /\ \A u \in Users : WF_yeastarVars(Works(u))
    /\ SF_yeastarVars(YeastarTick)

YeastarSpec == YeastarInit /\ [][YeastarNext]_yeastarVars /\ YeastarFairness

----------------------------------------------------------------------------

YeastarTypeOK ==
    /\ token \in 0..Lifetime \cup {NoToken}
    /\ usable \in 0..UseFor
    /\ \A u \in Users : doing[u] = <<>> <=> stage[u] = "idle"
    /\ stage \in [Users -> {"idle", "token", "asks", "issued", "stored", "sent"}]
    /\ held \in [Users -> 0..Lifetime]
    /\ underway \in [Users -> 0..MaxDelay]
    /\ kept \in 0..RefreshAfter
    /\ reached \in BOOLEAN
    /\ refusals \in 0..MaxRefusals

\* Once requests stop failing and no more tokens are withdrawn, every snapshot
\* reaches the PBX, though tokens go on expiring, the threads go on replacing each
\* other's, and a withdrawn token is given up only when its time is over.
YeastarRecovers == <>[]reached

==============================================================================
