---------------------------- MODULE SearchBoundary ----------------------------
(***************************************************************************)
(* poc/http_guard.py: the middleware in front of POST /api/search.  It runs *)
(* on one event loop: a step is what a request does from one await to the   *)
(* next.                                                                   *)
(***************************************************************************)
EXTENDS Integers, Sequences, FiniteSets

CONSTANTS
    Requests,           \* search requests, over the life of the process
    Clients,            \* client addresses, the "unknown" one among them
    RequestsPerMinute, MaxRateClients, MaxInflight, \* the configuration
    MaxBody,            \* max_body_bytes, in chunks
    Window,             \* 60 seconds, in ticks
    MaxTime             \* bound: the last tick

ASSUME BoundaryConstants ==
    /\ IsFiniteSet(Requests)
    /\ RequestsPerMinute \in Nat \ {0} /\ MaxRateClients \in Nat \ {0}
    /\ MaxInflight \in Nat \ {0} /\ MaxBody \in Nat /\ Window \in Nat \ {0} /\ MaxTime \in Nat

VARIABLES
    now,        \* time.monotonic()
    clients,    \* self.clients: windows in the order they were opened
    inflight,   \* self.inflight
    stage,      \* where each request is
    admitted,   \* the requests whose local "admitted" is set
    size,       \* chunks each request has read of its body
    client,     \* who sent it
    counted     \* history: when it was counted against its client, or Never

vars == <<now, clients, inflight, stage, admitted, size, client, counted>>

Never == -1
\* "limited": replying 429; "tooLarge": replying 413; "rejecting": replying anything else
Stages == {"idle", "limited", "rejecting", "reading", "tooLarge", "handling", "done"}
Windows == [client : Clients, start : 0..MaxTime, count : 1..RequestsPerMinute]

TypeOK ==
    /\ now \in 0..MaxTime
    /\ clients \in Seq(Windows)
    /\ inflight \in 0..MaxInflight
    /\ stage \in [Requests -> Stages]
    /\ admitted \subseteq Requests
    /\ size \in [Requests -> 0..MaxBody]
    /\ client \in [Requests -> Clients]
    /\ counted \in [Requests -> 0..MaxTime \cup {Never}]

Init ==
    /\ now = 0 /\ clients = <<>> /\ inflight = 0
    /\ stage = [r \in Requests |-> "idle"]
    /\ admitted = {}
    /\ size = [r \in Requests |-> 0]
    /\ client \in [Requests -> Clients]
    /\ counted = [r \in Requests |-> Never]

-----------------------------------------------------------------------------
\* Wrong variants of the rate limit: windows that end too early, and one that slides with
\* every request.
ExpiredEarly(w) == now - w.start >= Window - 1
CountAndSlide(w) == [w EXCEPT !.count = @ + 1, !.start = now]

Expired(w) == now - w.start >= Window
CountIn(w) == [w EXCEPT !.count = @ + 1]
Exhausted(w) == w.count >= RequestsPerMinute

Tracked(c, windows) == \E i \in DOMAIN windows : windows[i].client = c

Refuses(c, windows) ==
    \/ \E i \in DOMAIN windows : windows[i].client = c /\ Exhausted(windows[i])
    \/ ~Tracked(c, windows) /\ Len(windows) >= MaxRateClients

Count(c, windows) ==
    IF Tracked(c, windows)
    THEN [i \in DOMAIN windows |->
            IF windows[i].client = c THEN CountIn(windows[i]) ELSE windows[i]]
    ELSE Append(windows, [client |-> c, start |-> now, count |-> 1])

\* The windows without the first k of them, all expired ones; the next is live.
Live(k) == SubSeq(clients, k + 1, Len(clients))
FirstLive(k) ==
    /\ \A i \in 1..k : Expired(clients[i])
    /\ k < Len(clients) => ~Expired(clients[k + 1])

-----------------------------------------------------------------------------
Goto(r, where) == stage' = [stage EXCEPT ![r] = where]

\* 403, 400, 413 or 415 by the headers, before the client is counted
RejectHeaders(r) ==
    /\ stage[r] = "idle"
    /\ Goto(r, "rejecting")
    /\ UNCHANGED <<now, clients, inflight, admitted, size, client, counted>>

\* Wrong variant: capacity that counts one request too many.
FullLate == inflight > MaxInflight

Full == inflight >= MaxInflight

\* From the client's window to the first await: 429 before it is counted, 503 after.
Admit(r) ==
    /\ stage[r] = "idle"
    /\ \E k \in 0..Len(clients) :
         /\ FirstLive(k)
         /\ IF Refuses(client[r], Live(k))
            THEN clients' = Live(k) /\ Goto(r, "limited") /\ UNCHANGED <<inflight, admitted, counted>>
            ELSE /\ clients' = Count(client[r], Live(k))
                 /\ counted' = [counted EXCEPT ![r] = now]
                 /\ IF Full THEN Goto(r, "rejecting") /\ UNCHANGED <<inflight, admitted>>
                    ELSE /\ inflight' = inflight + 1
                         /\ admitted' = admitted \cup {r}
                         /\ Goto(r, "reading")
    /\ UNCHANGED <<now, size, client>>

\* One message of the body: too much of it, more to come, or the last one, which parses
\* or does not.
ReadBody(r) ==
    /\ stage[r] = "reading"
    /\ IF size[r] = MaxBody
       THEN Goto(r, "tooLarge") /\ UNCHANGED size
       ELSE /\ size' = [size EXCEPT ![r] = @ + 1]
            /\ UNCHANGED stage \/ Goto(r, "handling") \/ Goto(r, "rejecting")
    /\ UNCHANGED <<now, clients, inflight, admitted, client, counted>>

\* The body timeout also covers the reply to a body that is too large.
BodyTimeout(r) ==
    /\ stage[r] \in {"reading", "tooLarge"}
    /\ Goto(r, "rejecting")
    /\ UNCHANGED <<now, clients, inflight, admitted, size, client, counted>>

\* Wrong variant: the slot is given back only by requests the application handled.
SlotsAfterHandling(r) == inflight - (IF r \in admitted /\ stage[r] = "handling" THEN 1 ELSE 0)

SlotsAfter(r) == inflight - (IF r \in admitted THEN 1 ELSE 0)

\* The finally block: when the reply is sent, the client is gone, or the task cancelled.
Finish(r) ==
    /\ stage[r] \notin {"idle", "done"}
    /\ Goto(r, "done")
    /\ inflight' = SlotsAfter(r)
    /\ admitted' = admitted \ {r}
    /\ size' = [size EXCEPT ![r] = 0]
    /\ UNCHANGED <<now, clients, client, counted>>

Tick ==
    /\ now < MaxTime
    /\ now' = now + 1
    /\ UNCHANGED <<clients, inflight, stage, admitted, size, client, counted>>

Next ==
    \/ \E r \in Requests : RejectHeaders(r) \/ Admit(r) \/ ReadBody(r) \/ BodyTimeout(r) \/ Finish(r)
    \/ Tick

Spec == Init /\ [][Next]_vars

-----------------------------------------------------------------------------
\* Every request that got past the capacity check gives its slot back exactly once, by
\* whatever exit it leaves (http_guard.py:115-118, 171-173).
SlotsCounted == TypeOK /\ inflight = Cardinality(admitted)

Within(c, from, to) ==
    {r \in Requests : client[r] = c /\ counted[r] # Never /\ counted[r] \in from..to}

\* The promise of the fixed windows: however a client places its requests, fewer than
\* twice the limit are counted in any 60 seconds (http_guard.py:26-41).
RateBounded ==
    \A c \in Clients : \A t \in 0..MaxTime :
        Cardinality(Within(c, t, t + Window - 1)) < 2 * RequestsPerMinute

\* A client is told 429 only for what happened in the last 60 seconds: it has made as many
\* requests as it may, or as many other clients as are tracked have made one.  An old
\* window left behind by the eviction would refuse it without cause (http_guard.py:28-39).
RefusedWithCause ==
    [][ \A r \in Requests : stage[r] = "idle" /\ stage'[r] = "limited" =>
          \/ Cardinality(Within(client[r], now - Window + 1, now)) >= RequestsPerMinute
          \/ Cardinality({c \in Clients \ {client[r]} : Within(c, now - Window + 1, now) # {}})
                >= MaxRateClients ]_vars

\* The boundary is an admission pool: every step admits one request within the limit, or
\* lets go of one, or changes nothing of that (http_guard.py:115-118, 171-173).
Pool == INSTANCE AdmissionPool
            WITH Calls <- Requests, Limit <- MaxInflight, closed <- FALSE, resource <- "none",
                 held <- admitted
PoolRefined == Pool!PoolSpec
=============================================================================
