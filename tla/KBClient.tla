------------------------------- MODULE KBClient -------------------------------
(***************************************************************************)
(* poc/kb_client.py: callers of fetch, the worker threads of its executor,  *)
(* and close, with the locks they take.                                     *)
(*                                                                         *)
(* The executor is CPython's ThreadPoolExecutor: a FIFO queue and a lock of *)
(* its own, taken by submit and held by shutdown while it cancels what is   *)
(* queued.  A future runs its done-callback in whatever thread ends it, or  *)
(* at once when the callback is added to a future that has ended.           *)
(***************************************************************************)
EXTENDS Naturals, Sequences, FiniteSets

CONSTANTS
    Calls,          \* calls of fetch, by any thread
    Workers,        \* the executor's threads, _max_inflight of them
    NoOne           \* nobody

MaxInflight == Cardinality(Workers)

ASSUME KBConstants ==
    /\ IsFiniteSet(Calls) /\ IsFiniteSet(Workers) /\ Workers # {}
    /\ NoOne \notin Calls

VARIABLES
    lock,       \* who holds _lifecycle_lock from one step to the next
    poolLock,   \* TRUE: close holds the executor's lock
    closed,     \* _closed
    inflight,   \* _inflight
    http,       \* _http: not made yet, open, closed
    queue,      \* the executor's work queue
    caller,     \* where each call of fetch is
    job,        \* the state of each call's future
    callback,   \* its done-callback
    worker,     \* the call each worker thread works on
    closer,     \* where the call of close is
    dropped     \* the call whose future close has just cancelled

vars == <<lock, poolLock, closed, inflight, http, queue, caller, job, callback, worker,
          closer, dropped>>

CallerStates == {"idle", "submitting", "registering", "waiting", "expired", "cancelling",
                 "answered", "timedOut", "capacity", "refused", "aborted"}
Returned == {"answered", "timedOut", "capacity", "refused", "aborted"}
JobStates == {"none", "pending", "running", "using", "finished", "cancelled"}
CloserStates == {"open", "shutdown", "draining", "cancelling", "joining", "closed"}

TypeOK ==
    /\ lock \in Calls \cup {NoOne} /\ poolLock \in BOOLEAN /\ closed \in BOOLEAN
    /\ inflight \in Nat
    /\ http \in {"none", "open", "closed"}
    /\ queue \in Seq(Calls)
    /\ caller \in [Calls -> CallerStates]
    /\ job \in [Calls -> JobStates]
    /\ callback \in [Calls -> {"none", "registered", "run"}]
    /\ worker \in [Workers -> Calls \cup {NoOne}]
    /\ closer \in CloserStates /\ dropped \in Calls \cup {NoOne}

Init ==
    /\ lock = NoOne /\ poolLock = FALSE /\ closed = FALSE
    /\ inflight = 0 /\ http = "none" /\ queue = <<>>
    /\ caller = [c \in Calls |-> "idle"]
    /\ job = [c \in Calls |-> "none"]
    /\ callback = [c \in Calls |-> "none"]
    /\ worker = [w \in Workers |-> NoOne]
    /\ closer = "open" /\ dropped = NoOne

-----------------------------------------------------------------------------
\* What the steps of callers, of workers and of close leave alone
closing == <<closed, closer, dropped>>
working == <<queue, worker>>

LockFree == lock = NoOne
Go(c, pc) == caller' = [caller EXCEPT ![c] = pc]
Ended(c) == job[c] \in {"finished", "cancelled"}

\* Wrong variant: the connection is closed as soon as close was called.
GivenUpAtOnce(count, isClosed) == IF isClosed /\ http = "open" THEN "closed" ELSE http

\* The HTTP client, once count slots are taken: closed with the last of them.
GivenUp(count, isClosed) ==
    IF isClosed /\ count = 0 /\ http # "none" THEN "closed" ELSE http

\* Wrong variant: the callback may run again.
RequestDoneAgain(c) ==
    /\ inflight' = inflight - 1
    /\ http' = GivenUp(inflight', closed)
    /\ UNCHANGED callback

\* _request_done, in a thread that can take the lifecycle lock
RequestDone(c) ==
    /\ inflight' = inflight - 1
    /\ callback' = [callback EXCEPT ![c] = "run"]
    /\ http' = GivenUp(inflight', closed)

-----------------------------------------------------------------------------
\* fetch

\* Wrong variant: admission that forgets that the client was closed.
ClosedIgnored == FALSE

Refuses == closed
Full == inflight >= MaxInflight

\* Admission under the lifecycle lock, which fetch keeps until the callback is
\* registered.
Fetch(c) ==
    /\ caller[c] = "idle" /\ LockFree
    /\ IF Refuses THEN Go(c, "refused") /\ UNCHANGED <<lock, inflight>>
       ELSE IF Full THEN Go(c, "capacity") /\ UNCHANGED <<lock, inflight>>
       ELSE /\ Go(c, "submitting")
            /\ lock' = c
            /\ inflight' = inflight + 1
    /\ UNCHANGED <<closing, working, poolLock, http, job, callback>>

\* executor.submit takes the executor's lock.
Submit(c) ==
    /\ caller[c] = "submitting" /\ ~poolLock
    /\ queue' = Append(queue, c)
    /\ job' = [job EXCEPT ![c] = "pending"]
    /\ Go(c, "registering")
    /\ UNCHANGED <<closing, lock, poolLock, inflight, http, callback, worker>>

\* add_done_callback, which runs the callback at once on a future that has ended;
\* then the lock is released.
Register(c) ==
    /\ caller[c] = "registering"
    /\ IF Ended(c) THEN RequestDone(c)
       ELSE callback' = [callback EXCEPT ![c] = "registered"] /\ UNCHANGED <<inflight, http>>
    /\ lock' = NoOne
    /\ Go(c, "waiting")
    /\ UNCHANGED <<closing, working, poolLock, job>>

\* future.result returns or raises what the job did; it raises CancelledError when
\* close cancelled the future.
Result(c) ==
    /\ caller[c] = "waiting" /\ Ended(c)
    /\ Go(c, IF job[c] = "finished" THEN "answered" ELSE "aborted")
    /\ UNCHANGED <<closing, working, lock, poolLock, inflight, http, job, callback>>

\* The deadline passes.
Expire(c) ==
    /\ caller[c] = "waiting" /\ ~Ended(c)
    /\ Go(c, "expired")
    /\ UNCHANGED <<closing, working, lock, poolLock, inflight, http, job, callback>>

\* Wrong variant: the caller that gives up gives its slot back, too.
CancelRunning(c) ==
    /\ caller[c] = "expired"
    /\ job' = IF job[c] = "pending" THEN [job EXCEPT ![c] = "cancelled"] ELSE job
    /\ Go(c, IF callback[c] = "run" THEN "timedOut" ELSE "cancelling")
    /\ UNCHANGED <<closing, working, lock, poolLock, inflight, http, callback>>

\* future.cancel only takes effect on a job that no worker has started.
Cancel(c) ==
    /\ caller[c] = "expired"
    /\ IF job[c] = "pending"
       THEN job' = [job EXCEPT ![c] = "cancelled"] /\ Go(c, "cancelling")
       ELSE UNCHANGED job /\ Go(c, "timedOut")
    /\ UNCHANGED <<closing, working, lock, poolLock, inflight, http, callback>>

\* The cancelled future's callback runs in the caller.
CancelDone(c) ==
    /\ caller[c] = "cancelling" /\ LockFree
    /\ RequestDone(c)
    /\ Go(c, "timedOut")
    /\ UNCHANGED <<closing, working, lock, poolLock, job>>

CallerStep(c) ==
    Submit(c) \/ Register(c) \/ Result(c) \/ Expire(c) \/ Cancel(c) \/ CancelDone(c)

-----------------------------------------------------------------------------
\* The worker threads

\* Take the next work item, and drop it if its future was cancelled.
Take(w) ==
    /\ worker[w] = NoOne /\ queue # <<>>
    /\ queue' = Tail(queue)
    /\ LET c == Head(queue) IN
         IF job[c] = "pending"
         THEN job' = [job EXCEPT ![c] = "running"] /\ worker' = [worker EXCEPT ![w] = c]
         ELSE UNCHANGED <<job, worker>>
    /\ UNCHANGED <<closing, lock, poolLock, inflight, http, caller, callback>>

\* _http_client: made by the first worker that needs it, under a lock of its own
UseHttp(w) ==
    /\ worker[w] # NoOne /\ job[worker[w]] = "running"
    /\ http' = IF http = "none" THEN "open" ELSE http
    /\ job' = [job EXCEPT ![worker[w]] = "using"]
    /\ UNCHANGED <<closing, working, lock, poolLock, inflight, caller, callback>>

\* The request returns or raises; who waits for the future may go on already.
Finish(w) ==
    /\ worker[w] # NoOne /\ job[worker[w]] \in {"running", "using"}
    /\ job' = [job EXCEPT ![worker[w]] = "finished"]
    /\ UNCHANGED <<closing, working, lock, poolLock, inflight, http, caller, callback>>

\* The finished future's callback runs in the worker, unless it is still to be added.
FinishDone(w) ==
    /\ worker[w] # NoOne /\ job[worker[w]] = "finished"
    /\ callback[worker[w]] = "registered" /\ LockFree
    /\ RequestDone(worker[w])
    /\ UNCHANGED <<closing, working, lock, poolLock, caller, job>>

BecomeIdle(w) ==
    /\ worker[w] # NoOne /\ job[worker[w]] = "finished"
    /\ callback[worker[w]] # "registered"
    /\ worker' = [worker EXCEPT ![w] = NoOne]
    /\ UNCHANGED <<closing, lock, poolLock, inflight, http, queue, caller, job, callback>>

WorkerStep(w) == Take(w) \/ UseHttp(w) \/ Finish(w) \/ FinishDone(w) \/ BecomeIdle(w)

-----------------------------------------------------------------------------
\* close

CloseBegin ==
    /\ closer = "open" /\ LockFree
    /\ closed' = TRUE
    /\ http' = GivenUp(inflight, TRUE)
    /\ closer' = "shutdown"
    /\ UNCHANGED <<working, lock, poolLock, inflight, caller, job, callback, dropped>>

Shutdown ==
    /\ closer = "shutdown" /\ ~poolLock
    /\ poolLock' = TRUE
    /\ closer' = "draining"
    /\ UNCHANGED <<working, lock, closed, inflight, http, caller, job, callback, dropped>>

\* Cancel what is queued, one future at a time, holding the executor's lock.  A future
\* without a callback would have nothing to wait for.
Drain ==
    /\ closer = "draining" /\ queue # <<>>
    /\ queue' = Tail(queue)
    /\ LET c == Head(queue) IN
         /\ job' = IF job[c] = "pending" THEN [job EXCEPT ![c] = "cancelled"] ELSE job
         /\ IF job[c] = "pending" /\ callback[c] = "registered"
            THEN dropped' = c /\ closer' = "cancelling"
            ELSE UNCHANGED <<dropped, closer>>
    /\ UNCHANGED <<lock, poolLock, closed, inflight, http, caller, callback, worker>>

\* The cancelled future's callback runs in close.
DrainDone ==
    /\ closer = "cancelling" /\ LockFree
    /\ RequestDone(dropped)
    /\ dropped' = NoOne
    /\ closer' = "draining"
    /\ UNCHANGED <<working, lock, poolLock, closed, caller, job>>

\* shutdown has emptied the queue; close waits for the workers if it is told to.
Drained ==
    /\ closer = "draining" /\ queue = <<>>
    /\ poolLock' = FALSE
    /\ \E wait \in BOOLEAN : closer' = IF wait THEN "joining" ELSE "closed"
    /\ UNCHANGED <<working, lock, closed, inflight, http, caller, job, callback, dropped>>

\* Worker threads exit when they find the queue empty.
Join ==
    /\ closer = "joining" /\ \A w \in Workers : worker[w] = NoOne
    /\ closer' = "closed"
    /\ UNCHANGED <<working, lock, poolLock, closed, inflight, http, caller, job, callback, dropped>>

CloserStep == Shutdown \/ Drain \/ DrainDone \/ Drained \/ Join

-----------------------------------------------------------------------------
Next ==
    \/ \E c \in Calls : Fetch(c) \/ CallerStep(c)
    \/ \E w \in Workers : WorkerStep(w)
    \/ CloseBegin \/ CloserStep

Spec == Init /\ [][Next]_vars

\* Threads get to run: a deadline passes, and a request ends (HTTPX bounds each of its
\* phases).  Who waits for a lock gets it once it stays free; nothing more is assumed of
\* the locks, since finitely many calls take them finitely often.
FairSpec ==
    /\ Spec
    /\ \A c \in Calls : WF_vars(CallerStep(c))
    /\ \A w \in Workers : WF_vars(WorkerStep(w))
    /\ WF_vars(CloserStep)

-----------------------------------------------------------------------------
\* The calls that hold a slot: admitted, and the done-callback has not run.
Holding == {c \in Calls : caller[c] # "idle" /\ caller[c] \notin {"capacity", "refused"}
                          /\ callback[c] # "run"}

\* Every slot that is counted belongs to one admitted call whose work has not ended or
\* whose callback is still to run; no slot leaks and none is given back twice
\* (kb_client.py:61-94).
SlotsCounted == inflight = Cardinality(Holding)

\* The HTTP client is closed only after the last request that could use it: nothing
\* queued or running is left, and nothing can be admitted (kb_client.py:90-94, 152-160).
NoUseAfterClose ==
    http = "closed" =>
        /\ \A c \in Calls : job[c] \notin {"pending", "running", "using"}
        /\ \A c \in Calls : caller[c] # "submitting"

\* The client keeps the promises of an admission pool, of its fairness, too: bounded,
\* closed to newcomers once closed, the connection given up with the last slot.
Pool == INSTANCE AdmissionPool WITH Limit <- MaxInflight, held <- Holding, resource <- http
PoolRefined == Pool!FairPoolSpec

\* A call that was admitted returns or raises in the end, whatever its request, other
\* callers and close do: no lock is waited for in a circle (kb_client.py:52-54, 158-159).
CallersReturn == \A c \in Calls : caller[c] = "submitting" ~> caller[c] \in Returned

\* close returns in the end, also when it waits for the workers (kb_client.py:158-160).
CloseReturns == closer = "shutdown" ~> closer = "closed"

\* Together: neither a caller nor close is left hanging.
EverybodyReturns == CallersReturn /\ CloseReturns
=============================================================================
